---------------------------- MODULE MCConnHashMap ----------------------------
(***************************************************************************)
(* ConnHashMap for TLC: ten ids, so that the table of 16 grows, and shrinks *)
(* again.  Most collide, around the end of the table; two have the same    *)
(* hash, and two only meet in the small table.                             *)
(***************************************************************************)
EXTENDS ConnHashMap, TLC

CONSTANTS a, b, c, d, e, f, g, h, i, j, v, w

Hashes == a :> 14 @@ b :> 14 @@ c :> 15 @@ d :> 30 @@ e :> 0 @@ f :> 1
          @@ g :> 4 @@ h :> 5 @@ i :> 6 @@ j :> 7

\* One id is given to another connection in turn.
OneEach == ({a, b, c, d, e, f, g, h, i, j} \X {v}) \cup {<<a, w>>}

==============================================================================
