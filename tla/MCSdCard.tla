------------------------------ MODULE MCSdCard ------------------------------
(* Small cards for SdCard.tla. *)
EXTENDS SdCard

A == 65
B == 66

(* A long-name slot, a deleted one, and files with a full base and a short  *)
(* extension, with a short base and a full extension, without extension,    *)
(* and with the cluster 0xFFFF.                                             *)
MCEntries == {<<A, A, A, A, A, LONG_NAME, 9, 9>>, <<IS_FREE, A, A, A, A, 1, 8, 8>>,
              <<A, B, A, SPACE, SPACE, 1, 2, 7>>, <<A, SPACE, B, A, B, 2, 3, 6>>,
              <<B, A, SPACE, SPACE, SPACE, 3, 4, 5>>, <<B, SPACE, SPACE, SPACE, SPACE, 4, EOF, 4>>}

(* Files within a sector of the FAT, and over both of its sectors. *)
MCChains == {<<2>>, <<3, 2>>, <<2, 18, 19>>, <<18, 2, 19, 3>>}
=============================================================================
