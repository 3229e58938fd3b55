--------------------------- MODULE MCServerSession ---------------------------
(***************************************************************************)
(* ServerSession for TLC.  Clients 1 and 2 come from one host, client 3    *)
(* from another.                                                           *)
(***************************************************************************)
EXTENDS ServerSession

CONSTANTS h1, h2, c1, c2, c3, p1, p2, p3, k1, k2, s1

TwoIds == {h1, h2}
TwoConns == {c1, c2}
ThreeConns == {c1, c2, c3}
ThreePeers == {p1, p2, p3}
TwoHosts == {k1, k2}
OneStream == {s1}
FromTwoHosts == [p \in ThreePeers |-> IF p = p3 THEN k2 ELSE k1]

\* One of two neighbours tries again and again; two strangers.
Pairs == {[come |-> {p1, p2}, retry |-> {p1}],
          [come |-> {p1, p3}, retry |-> {}]}

\* One client that tries again and again; two neighbours.
AloneOrNeighbours ==
    {[come |-> {p1}, retry |-> {p1}], [come |-> {p1, p2}, retry |-> {}]}

==============================================================================
