-------------------------- MODULE MCStreamScheduler --------------------------
(* StreamScheduler for TLC: two streams, one of which waits while the other   *)
(* is sent.                                                                   *)
EXTENDS StreamScheduler

CONSTANTS s1, s2

TwoStreams == {s1, s2}

==============================================================================
