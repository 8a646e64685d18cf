----------------------------- MODULE MCReplica ------------------------------
(***************************************************************************)
(* Replica for TLC.  Line ids are compared for equality only and never     *)
(* repeat, so states that differ in nothing else behave alike.  So do      *)
(* states that differ in which letter is which.                            *)
(***************************************************************************)
EXTENDS Replica

NoIds == <<[buf EXCEPT !.lid = << >>, !.line_id_cnt = 0], phase, upcnt, members>>

Letters == Permutations(Chars)
=============================================================================
