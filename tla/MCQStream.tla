----------------------------- MODULE MCQStream -----------------------------
(***************************************************************************)
(* QStream instantiated for TLC.                                           *)
(***************************************************************************)
EXTENDS QStream

CONSTANTS w1, w2

OneWriter == {w1}
TwoWriters == {w1, w2}

=============================================================================
