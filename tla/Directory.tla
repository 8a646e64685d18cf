----------------------------- MODULE Directory ------------------------------
(***************************************************************************)
(* What the list of files promises to those who choose from it: every      *)
(* file has an id of its own, a new one gets a greater id than all that    *)
(* are there, and one file is deleted at a time.  Once the server is being *)
(* shut down files may be lost from the list, several at a time.  How the  *)
(* list is written to files.txt is left to the functions of                *)
(* src/utilities.c.                                                        *)
(***************************************************************************)
EXTENDS Naturals

CONSTANT FileNames
VARIABLES
  listed,           \* the entries of the list
  open              \* whether the server has not been told to end

Init ==
  /\ listed \in SUBSET [id : Nat, name : FileNames]
  /\ \A f, g \in listed : f.id = g.id => f = g
  /\ open = TRUE

Add(f) ==
  /\ f \in [id : Nat, name : FileNames]
  /\ \A g \in listed : g.id < f.id
  /\ listed' = listed \cup {f}
  /\ UNCHANGED open

Remove(f) == listed' = listed \ {f} /\ UNCHANGED open

Close == open' = FALSE /\ UNCHANGED listed

Lose == ~open /\ listed' \subseteq listed /\ UNCHANGED open

Next ==
  \/ \E f \in listed' \ listed : Add(f)
  \/ \E f \in listed : Remove(f)
  \/ Close \/ Lose

Spec == Init /\ [][Next]_<<listed, open>>
=============================================================================
