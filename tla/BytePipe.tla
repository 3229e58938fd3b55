----------------------------- MODULE BytePipe ------------------------------
(***************************************************************************)
(* What one direction of a stream promises, whatever buffers, goroutines   *)
(* and callbacks carry it: the bytes that come out are those that went in, *)
(* in order, none twice and none skipped.  While the pipe is up, a byte    *)
(* that went in is either out or still inside; once it is down, what is    *)
(* inside may stay there for ever.                                         *)
(***************************************************************************)
EXTENDS Sequences, SequencesExt

VARIABLES
    in,     \* every byte that went in
    out,    \* every byte that came out
    up      \* the pipe has not been closed

vars == <<in, out, up>>

Init == in = <<>> /\ out = <<>> /\ up = TRUE

Put == /\ IsStrictPrefix(in, in')
       /\ UNCHANGED <<out, up>>

Take == /\ IsStrictPrefix(out, out')
        /\ IsPrefix(out', in)
        /\ UNCHANGED <<in, up>>

Shut == /\ up
        /\ up' = FALSE
        /\ UNCHANGED <<in, out>>

Next == Put \/ Take \/ Shut

Spec == Init /\ [][Next]_vars

=============================================================================
