--------------------------- MODULE MCClientSession ---------------------------
(* ClientSession for TLC.  One caller of Close beside the session's own; two *)
(* connections in a row, with two openers, and one stream of the session's   *)
(* beside one of the peer's.  Openers are interchangeable: the run of the    *)
(* invariants uses them up to permutation.                                   *)
EXTENDS ClientSession, TLC

CONSTANTS o1, o2, u1, s1, p1

OneOpener == {o1}
TwoOpeners == {o1, o2}
OneUser == {u1}
OneStream == {s1}
PeerStream == {p1}
AnyOpener == Permutations(TwoOpeners)

==============================================================================
