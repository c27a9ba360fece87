---------------------------- MODULE MCTouchScreen ----------------------------
(* Places on the panel for TouchScreen.tla. *)
EXTENDS TouchScreen

MCPositions == {<<0, 0>>, <<907, 4095>>, <<909, 50>>, <<4095, 2000>>}
==============================================================================
