------------------------------ MODULE MCBuffer ------------------------------
(* Instances of Buffer for TLC: byte sequences of one and two bytes.          *)
EXTENDS Buffer, TLC

MCInputs == {<<1>>, <<1, 2>>}
=============================================================================
