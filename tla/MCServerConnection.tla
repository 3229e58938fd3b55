------------------------- MODULE MCServerConnection -------------------------
(* ServerConnection for TLC: one caller of Close beside the connection's own. *)
EXTENDS ServerConnection

CONSTANTS u1, s1

OneUser == {u1}
OneStream == {s1}

=============================================================================
