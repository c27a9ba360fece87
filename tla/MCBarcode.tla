----------------------------- MODULE MCBarcode ------------------------------
(* Numbers and speeds for Barcode.tla. *)
EXTENDS Barcode

(* Every first digit, and every digit at every place. *)
MCCodes == {[j \in 1..13 |-> (f + (j - 1) * k) % 10] : f \in 0..9, k \in {1, 3, 7}}
MCDrifting == {[j \in 1..13 |-> j % 10]}
=============================================================================
