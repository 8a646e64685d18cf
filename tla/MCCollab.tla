----------------------------- MODULE MCCollab ------------------------------
(***************************************************************************)
(* Collab with up to three editors, the users and the keys of the runs.    *)
(***************************************************************************)
EXTENDS Collab
CONSTANTS e1, e2, e3, x

Key(t, p) == [type |-> t, payload |-> p]

TwoKeys  == {Key("INSERT", x), Key("INSERT_LINE", 0)}
EditKeys == TwoKeys \cup {Key("DELETE", 0), Key("MOVE_CURSOR", "RIGHT")}
FiveKeys == EditKeys \cup {Key("MOVE_CURSOR", "UP")}
AllKeys  == EditKeys \cup { Key("MOVE_CURSOR", d) : d \in Dirs }

\* Three users, or two of whom the first comes back with a second editor.
Distinct == [e \in Editors |-> CASE e = e1 -> 1 [] e = e2 -> 2 [] OTHER -> 3]
Again    == [e \in Editors |-> IF e = e2 THEN 2 ELSE 1]

Nobody == << >>
Two    == <<e1, e2>>
FileX  == {<< <<x>> >>}
=============================================================================
