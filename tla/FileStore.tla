----------------------------- MODULE FileStore ------------------------------
(***************************************************************************)
(* files.txt and userdata.txt, and what the functions of src/utilities.c   *)
(* do to them.                                                             *)
(*                                                                         *)
(* A text file is the sequence of its lines, and whether a newline ends    *)
(* the last of them (all others have one).  A line of files.txt is an id   *)
(* and a name, a line of userdata.txt a name and a password.  A line that  *)
(* is only a newline has neither: atoi reads 0 from it, and strtok finds   *)
(* no second field and returns NULL.                                       *)
(***************************************************************************)
EXTENDS Integers, Sequences, FiniteSetsExt, SequencesExt

NULL      == "NULL"
Missing   == [there |-> FALSE, lines |-> << >>, ends |-> FALSE]
EmptyFile == [there |-> TRUE,  lines |-> << >>, ends |-> FALSE]

Entry(i, n)   == [id |-> i, name |-> n]
Account(n, p) == [name |-> n, pass |-> p]
NoEntry       == Entry(0, NULL)
NoAccount     == Account(NULL, NULL)
Scrap         == Account("freed", "freed")   \* what is read from freed memory

\* The text files with lines of L, and the lines of a set of files.
Texts(L)   == [there : BOOLEAN, lines : Seq(L), ends : BOOLEAN]
LinesOf(T) == UNION {{ t.lines[i] : i \in DOMAIN t.lines } : t \in T}

\* Where a file has a line with property P, and whether before all with Q.
Lines(t, P(_)) == { i \in DOMAIN t.lines : P(t.lines[i]) }
Before(S, T)   == S # {} /\ (T # {} => Min(S) < Min(T))

\* Every line but the first is written with a newline in front, also after one.
AppendLine(t, l, blank) ==
  [t EXCEPT !.lines = (IF t.ends THEN Append(@, blank) ELSE @) \o <<l>>, !.ends = FALSE]

-----------------------------------------------------------------------------
(***************************************************************************)
(* files.txt                                                               *)
(***************************************************************************)
WithId(t, id) == Lines(t, LAMBDA l : l.id = id)

getFileName(t, id) ==
  IF WithId(t, id) = {} THEN NULL ELSE t.lines[Min(WithId(t, id))].name

\* The name is compared with its newline, if it has one.
NameFound(t, n)   == t.lines # << >> /\ ~t.ends /\ Last(t.lines).name = n
\* strcmp(NULL, ...).
NameUnreadable(t) == Lines(t, LAMBDA l : l.name = NULL) # {}

\* mutant: the id is the number of the line
NextId_Line(t) == Len(t.lines) + 1

NextId(t) == IF t.lines = << >> THEN 1 ELSE Last(t.lines).id + 1
createFile(t, n) == AppendLine(t, Entry(NextId(t), n), NoEntry)

\* Every line but that of the id is copied, the last one without its newline.
LastKept(t, id) == t.lines # << >> /\ Last(t.lines).id \notin {id, NoEntry.id}

\* What the loop has copied after n lines.
Copied(ls, id) ==
  LET upTo[n \in 0 .. Len(ls)] ==
        IF n = 0 THEN << >>
        ELSE IF ls[n].id = id THEN upTo[n - 1] ELSE Append(upTo[n - 1], ls[n])
  IN upTo[Len(ls)]

deleteFile(t, id) ==
  LET lines == IF t.lines # << >> /\ Last(t.lines) = NoEntry THEN Front(t.lines) ELSE t.lines
      kept  == Copied(lines, id)
  IN [t EXCEPT !.lines = kept, !.ends = kept # << >> /\ ~LastKept(t, id)]

-----------------------------------------------------------------------------
(***************************************************************************)
(* userdata.txt                                                            *)
(***************************************************************************)
OfAccount(t, a)      == Lines(t, LAMBDA l : l = a)
\* terminateNull(NULL), unless the account is found first.
UserUnreadable(t, a) == Before(Lines(t, LAMBDA l : l.pass = NULL), OfAccount(t, a))
validate_user(t, a)  == IF OfAccount(t, a) = {} THEN -1 ELSE Min(OfAccount(t, a))

\* What validate_register finds in the JSON value that it has freed.
AfterFree(a)            == {a, Scrap}
Registered(t, a)        == Lines(t, LAMBDA l : l.name = a.name) # {}
RegisteredId(t)         == Len(t.lines) + 1
validate_register(t, a) == AppendLine(t, a, NoAccount)
=============================================================================
