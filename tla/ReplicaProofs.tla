---------------------------- MODULE ReplicaProofs ----------------------------
(***************************************************************************)
(* What holds of every replica, whatever the size of the screen, the text, *)
(* the users and the slots: the lemmas of BufferProofs make Sound(buf) an  *)
(* invariant, and with it that no two cursors have one id and that their   *)
(* ids are those of members.                                               *)
(***************************************************************************)
EXTENDS Replica, WindowProofs

Inv ==
  /\ phase \in Phases /\ upcnt \in Nat /\ members \subseteq Users
  /\ Sound(buf)
  /\ IdsIn(buf, members) /\ DistinctIds(buf.curs)

\* A user is no one's id but his own.
LEMMA UserIds == \A u \in Users : u \in Nat /\ u # Own /\ u # NULL
  BY ReplicaAssumption DEF Own, NULL

-----------------------------------------------------------------------------
\* The blank buffer is sound.
LEMMA InitInv == Init => Inv
<1> SUFFICES ASSUME Init PROVE Inv
  OBVIOUS
<1>1. phase \in Phases /\ upcnt \in Nat /\ members \subseteq Users
  BY DEF Init, Phases
<1> QED BY <1>1, BlankSound DEF Init, Inv

\* A new cursor of a serving replica: at the start for an editor, with the own
\* cursor for a worker; the buffer changes in nothing else.
LEMMA StepAdds ==
  ASSUME Inv, NEW u \in Users, AddCursor(u)
  PROVE  /\ Sound(buf') /\ IdsIn(buf', members \cup {u}) /\ DistinctIds(buf'.curs)
         /\ SameLines(buf, buf') /\ buf'.curs[Own] = buf.curs[Own]
         /\ \/ FreeSlots(buf) = {} /\ buf' = buf
            \/ LET at == IF phase = "worker" THEN buf.curs[Own]
                                             ELSE [id |-> Own, line |-> 1, pos |-> 0]
               IN  Added(buf, buf', [id |-> u, line |-> at.line, pos |-> at.pos])
<1> USE DEF Inv
<1>1. u \in Nat /\ u # Own /\ u # NULL /\ u \notin members
  BY UserIds DEF AddCursor
<1>2. \A j \in AllSlots : buf.curs[j].id # u
  BY <1>1 DEF IdsIn
<1>3. GoodLines(buf) /\ GoodCursors(buf) /\ Own \in AllSlots /\ buf.curs[Own].id # NULL
      /\ Own \notin Slots /\ DOMAIN buf = Fields
  BY AllSlotsNat DEF Sound, GoodCursors, GoodLines, IdsOfSlots, Own, NULL
<1>4. PICK at : at = IF phase = "worker" THEN buf.curs[Own]
                                         ELSE [id |-> Own, line |-> 1, pos |-> 0]
  OBVIOUS
<1>5. PICK l, p : l = at.line /\ p = at.pos
  OBVIOUS
<1>6. l \in 1 .. buf.last /\ p \in Nat /\ (Lossless => p <= Len(buf.str[l]))
  <2>1. CASE phase = "worker"
    BY <1>3, <1>4, <1>5, <2>1, CursorFacts
  <2>2. CASE phase # "worker"
    <3>1. l = 1 /\ p = 0
      BY <1>4, <1>5, <2>2
    <3>2. buf.last \in Nat /\ buf.last >= 1
      BY <1>3 DEF GoodLines
    <3>3. 1 \in 1 .. buf.last
      BY <3>2
    <3>4. Len(buf.str[1]) \in Nat
      BY <1>3, <3>3, LengthTypes
    <3> QED BY <3>1, <3>3, <3>4
  <2> QED BY <2>1, <2>2
<1>7. buf' = bcursor_new(buf, u, buf.lid[l], p)
  BY <1>3, <1>4, <1>5 DEF AddCursor, bcursor_copy_own, OwnLine, GoodLines
<1>8. /\ Sound(buf') /\ IdsIn(buf', members \cup {u}) /\ DistinctIds(buf'.curs)
      /\ \/ FreeSlots(buf) = {} /\ buf' = buf
         \/ FreeSlots(buf) # {} /\ Added(buf, buf', [id |-> u, line |-> l, pos |-> p])
  <2>1. Sound(buf) /\ IdsIn(buf, members)
    OBVIOUS
  <2>2. LET c == bcursor_new(buf, u, buf.lid[l], p) IN
         /\ Sound(c) /\ IdsIn(c, members \cup {u}) /\ DistinctIds(c.curs)
         /\ \/ FreeSlots(buf) = {} /\ c = buf
            \/ FreeSlots(buf) # {} /\ Added(buf, c, [id |-> u, line |-> l, pos |-> p])
    BY <1>1, <1>2, <1>6, <2>1, NewSound
  <2> QED BY <1>7, <2>2
<1>9. SameLines(buf, buf') /\ buf'.curs[Own] = buf.curs[Own]
  BY <1>3, <1>8, SameRefl DEF Added, Same
<1> QED BY <1>4, <1>5, <1>8, <1>9

\* Every step keeps the document sound and the ids among the members.
LEMMA StepInv == Inv /\ [Next]_vars => Inv'
<1> SUFFICES ASSUME Inv, [Next]_vars PROVE Inv'
  OBVIOUS
<1> USE DEF Inv
<1>1. ASSUME NEW b, b = buf', Sound(b), SameIds(buf, b), members' = members,
             phase' \in Phases, upcnt' \in Nat
      PROVE  Inv'
  BY <1>1, IdsInSame, IdsKept
<1>2. ASSUME NEW u \in Users, AddCursor(u) PROVE Inv'
  <2>1. /\ phase' \in Phases /\ upcnt' \in Nat /\ members' = members \cup {u}
        /\ members' \subseteq Users
    BY <1>2 DEF AddCursor
  <2>2. Sound(buf') /\ IdsIn(buf', members \cup {u}) /\ DistinctIds(buf'.curs)
    BY <1>2, StepAdds
  <2> QED BY <2>1, <2>2
<1>3. ASSUME NEW u \in Users, DeleteCursor(u) PROVE Inv'
  <2>1. /\ u \in Nat /\ u # Own /\ HasCursor(buf, u) /\ buf' = bcursor_free(buf, u)
        /\ phase' \in Phases /\ upcnt' \in Nat /\ members' = members \ {u}
    BY <1>3, UserIds DEF DeleteCursor
  <2>2. /\ Sound(bcursor_free(buf, u)) /\ IdsIn(bcursor_free(buf, u), members \ {u})
        /\ DistinctIds(bcursor_free(buf, u).curs)
    BY <2>1, FreeSound
  <2> QED BY <2>1, <2>2
<1>4. ASSUME NEW chr \in Chars, ReadChar(chr) \/ KeyChar(chr) PROVE Inv'
  BY <1>1, <1>4, OwnFound, InsertSound DEF ReadChar, KeyChar
<1>5. CASE ReadNewline \/ KeyEnter
  <2>1. upcnt' \in Nat
    BY <1>5 DEF ReadNewline, KeyEnter
  <2> QED BY <1>1, <1>5, <2>1, OwnFound, InsertLineSound DEF ReadNewline, KeyEnter
<1>6. CASE EndOfFile \/ KeyEscape
  BY <1>6 DEF EndOfFile, KeyEscape, Phases
<1>7. CASE RewindLine
  <2>1. upcnt' \in Nat
    BY <1>7 DEF RewindLine
  <2> QED BY <1>1, <1>7, <2>1, OwnFound, MoveSound DEF RewindLine
<1>8. CASE Loaded
  BY <1>1, <1>8, LoadedSound DEF Loaded, Phases
<1>9. CASE Open
  BY <1>9, OpenSound DEF Open, Phases
<1>10. CASE KeyBackspace
  BY <1>1, <1>10, OwnFound, DeleteSound DEF KeyBackspace
<1>11. ASSUME NEW dir \in Dirs, KeyArrow(dir) PROVE Inv'
  BY <1>1, <1>11, OwnFound, MoveSound DEF KeyArrow
<1>12. CASE WildUi \/ DeleteWithoutBottom
  BY <1>12 DEF WildUi, DeleteWithoutBottom, Crash, Phases
<1>13. ASSUME NEW u \in Users, NullCursor(u) \/ NullPayload(u) PROVE Inv'
  BY <1>13 DEF NullCursor, NullPayload, Crash, Phases
<1>14. ASSUME NEW u \in Users, InsertLine(u) PROVE Inv'
  BY <1>1, <1>14, UserIds, InsertLineSound DEF InsertLine
<1>15. ASSUME NEW u \in Users, Delete(u) PROVE Inv'
  BY <1>1, <1>15, UserIds, DeleteSound DEF Delete
<1>16. ASSUME NEW u \in Users, NEW chr \in Chars, Insert(u, chr) PROVE Inv'
  BY <1>1, <1>16, UserIds, InsertSound DEF Insert
<1>17. ASSUME NEW u \in Users, NEW dir \in Dirs, MoveCursor(u, dir) PROVE Inv'
  BY <1>1, <1>17, UserIds, MoveSound DEF MoveCursor
<1>18. CASE UNCHANGED vars
  BY <1>18 DEF vars
<1> QED BY <1>2, <1>3, <1>4, <1>5, <1>6, <1>7, <1>8, <1>9, <1>10, <1>11, <1>12, <1>13,
           <1>14, <1>15, <1>16, <1>17, <1>18 DEF Next

\* Every replica keeps its document sound, with cursors of members only.
LEMMA InvTheorem == Spec => []Inv
  BY InitInv, StepInv, PTL DEF Spec

-----------------------------------------------------------------------------
\* The cursors of a replica are the slots that have an id.
LEMMA CursorsAre ==
  ASSUME Inv PROVE \A k \in Cursors : k \in AllSlots /\ buf.curs[k].id # NULL
  BY SlotTypes DEF Inv, Sound, Cursors, AllSlots

\* No sequence of operations puts a cursor on a line that is not of the text
\* (cursor_move, line_new, buffer_deletel).
THEOREM CursorsOnLinesTheorem == Spec => []CursorsOnLines
<1>1. Inv => CursorsOnLines
  BY CursorsAre, CursorFacts DEF CursorsOnLines, Inv, Sound, GoodLines
<1> QED BY <1>1, InvTheorem, PTL

\* When every byte can be inserted, no cursor is past the end of its line
\* either (the arithmetic of bcursor_insert, bcursor_insert_line, bcursor_del).
THEOREM CursorsInTextTheorem ==
  ASSUME Refused = {} PROVE Spec => []CursorsInText
<1>1. ASSUME Inv PROVE CursorsInText
  <2>1. GoodLines(buf) /\ GoodCursors(buf) /\ Lossless
    BY <1>1 DEF Inv, Sound, Lossless
  <2>2. ASSUME NEW k \in Cursors
        PROVE  /\ buf.curs[k].line \in buf.first .. buf.last
               /\ buf.curs[k].pos \in 0 .. LineLen(buf, buf.curs[k].line)
    <3>1. k \in AllSlots /\ buf.curs[k].id # NULL
      BY <1>1, CursorsAre
    <3>2. /\ buf.curs[k].pos \in Nat /\ Len(buf.str[buf.curs[k].line]) \in Nat
          /\ buf.curs[k].pos <= Len(buf.str[buf.curs[k].line])
      BY <2>1, <3>1, CursorFacts
    <3>3. buf.curs[k].pos \in 0 .. LineLen(buf, buf.curs[k].line)
      BY <3>2 DEF LineLen
    <3>4. buf.curs[k].line \in buf.first .. buf.last
      BY <2>1, <3>1, CursorFacts DEF GoodLines
    <3> QED BY <3>3, <3>4
  <2> QED BY <2>2 DEF CursorsInText
<1> QED BY <1>1, InvTheorem, PTL

\* The chain is always the text and the height - 1 empty lines it was
\* allocated with, and num_lines its length (line_new, line_free).
THEOREM ChainShapeTheorem == Spec => []ChainShape
<1>1. Inv => ChainShape
  BY DEF ChainShape, Inv, Sound, GoodLines, Counted, NumLines
<1> QED BY <1>1, InvTheorem, PTL

\* Every cursor is a member's and no member has two (bcursor_new, bcursor_free
\* and buffer_deserialize, with any number of slots).
THEOREM OnlyMembersHaveCursorsTheorem == Spec => []OnlyMembersHaveCursors
<1>1. ASSUME Inv PROVE OnlyMembersHaveCursors
  <2>1. IdsOfSlots(buf.curs) /\ DistinctIds(buf.curs) /\ Own \in AllSlots
    BY <1>1, AllSlotsNat DEF Inv, Sound, GoodCursors
  <2>2. \A k \in Cursors \ {Own} : buf.curs[k].id # Own /\ buf.curs[k].id # NULL
    BY <1>1, <2>1, CursorsAre DEF IdsOfSlots, AllSlots
  <2>3. \A k \in Cursors \ {Own} : buf.curs[k].id \in members
    BY <1>1, <2>2, CursorsAre DEF Inv, IdsIn
  <2>4. \A j, k \in Cursors : buf.curs[j].id = buf.curs[k].id => j = k
    BY <1>1, <2>1, CursorsAre DEF IdsOfSlots, DistinctIds
  <2> QED BY <2>3, <2>4 DEF OnlyMembersHaveCursors
<1> QED BY <1>1, InvTheorem, PTL

-----------------------------------------------------------------------------
(***************************************************************************)
(* Where the own cursor of a worker is.                                    *)
(***************************************************************************)
\* While a worker reads its file nobody has joined, and its cursor is as many
\* lines down as it has still to climb; while it serves, its cursor is at the
\* start and kept there by the server mode, which no editor has.
Phased ==
  /\ phase \in {"loading", "rewinding"} =>
       members = {} /\ buf.server_mode = FALSE /\ OwnLine(buf) = upcnt + 1
  /\ phase = "worker" => buf.server_mode = TRUE /\ OwnAtStart(buf)
  /\ phase = "editor" => buf.server_mode = FALSE

\* A blank buffer is not in server mode and has its cursor on the first line.
LEMMA InitPhased == Init => Phased
<1> SUFFICES ASSUME Init PROVE Phased
  OBVIOUS
<1>1. DOMAIN buf = Fields /\ buf.server_mode = FALSE /\ buf.curs[Own].line = 1
  BY DEF Init, BlankBuffer, binit_onscreen_info, Fields, Own
<1> QED BY <1>1 DEF Init, Phased, OwnLine

\* Every step keeps to it.
LEMMA StepPhased == Inv /\ Phased /\ [Next]_vars => Phased'
<1> SUFFICES ASSUME Inv, Phased, [Next]_vars PROVE Phased'
  OBVIOUS
<1>1. Sound(buf) /\ upcnt \in Nat /\ Own \in Nat /\ HasCursor(buf, Own)
  BY OwnFound DEF Inv
\* A serving replica whose buffer keeps its mode and, of a worker, its place.
<1>2. ASSUME Serving, phase' = phase, buf'.server_mode = buf.server_mode,
             phase = "worker" => OwnAtStart(buf')
      PROVE  Phased'
  BY <1>2 DEF Phased, Serving
<1>3. ASSUME phase' = "crashed" \/ phase' = "closed" PROVE Phased'
  BY <1>3 DEF Phased
<1>4. ASSUME NEW u \in Users, AddCursor(u) PROVE Phased'
  <2>1. SameLines(buf, buf') /\ buf'.curs[Own] = buf.curs[Own]
    BY <1>4, StepAdds
  <2> QED BY <1>2, <1>4, <2>1 DEF AddCursor, Phased, SameLines, OwnAtStart
<1>5. ASSUME NEW u \in Users, DeleteCursor(u) PROVE Phased'
  <2>1. u \in Nat /\ u # Own /\ HasCursor(buf, u) /\ buf' = bcursor_free(buf, u)
    BY <1>5, UserIds DEF DeleteCursor
  <2>2. SameLines(buf, buf') /\ Own # bcursor_find(buf, u) /\ Own \in AllSlots
    BY <1>1, <2>1, FreeSound, FoundSlot, OwnFacts DEF Inv
  <2>3. buf'.curs[Own] = buf.curs[Own]
    BY <1>1, <2>1, <2>2, FreeSound DEF Inv
  <2> QED BY <1>2, <1>5, <2>2, <2>3 DEF DeleteCursor, Phased, SameLines, OwnAtStart
<1>6. ASSUME NEW chr \in Chars, ReadChar(chr) PROVE Phased'
  BY <1>1, <1>6, KeepsMode, OwnLoads DEF ReadChar, Phased
<1>7. CASE ReadNewline
  BY <1>1, <1>7, KeepsMode, OwnLoads DEF ReadNewline, Phased
<1>8. CASE EndOfFile
  BY <1>8 DEF EndOfFile, Phased
<1>9. CASE RewindLine
  <2>1. OwnLine(buf) > 1 /\ buf.server_mode = FALSE /\ OwnLine(buf) = upcnt + 1
        /\ buf' = bcursor_move(buf, Own, "UP")
    BY <1>1, <1>9 DEF RewindLine, Phased
  <2>2. buf'.server_mode = FALSE /\ OwnLine(buf') = upcnt
    <3>1. OwnLine(buf') = OwnLine(buf) - 1
      BY <1>1, <2>1, OwnLoads
    <3>2. buf'.server_mode = FALSE
      BY <1>1, <2>1, KeepsMode DEF Dirs
    <3> QED BY <1>1, <2>1, <3>1, <3>2
  <2> QED BY <1>1, <1>9, <2>2 DEF RewindLine, Phased
<1>10. CASE Loaded
  <2>1. OwnLine(buf) = 1 /\ phase' = "worker"
        /\ buf' = [buf EXCEPT !.curs[Own].pos = 0, !.server_mode = TRUE]
    BY <1>10 DEF Loaded, Phased
  <2>2. DOMAIN buf = Fields /\ DOMAIN buf.curs = AllSlots /\ Own \in AllSlots
        /\ buf.curs[Own] = [id |-> buf.curs[Own].id, line |-> buf.curs[Own].line,
                            pos |-> buf.curs[Own].pos]
    <3>1. GoodLines(buf) /\ GoodCursors(buf)
      BY <1>1 DEF Sound
    <3>2. buf.curs[Own] \in Cursor
      BY <1>1, <3>1, OwnFacts, CursorFacts
    <3> QED BY <1>1, <3>1, <3>2, OwnFacts DEF GoodLines, GoodCursors, IdsOfSlots, Cursor
  <2>3. buf'.server_mode = TRUE /\ buf'.curs[Own].line = 1 /\ buf'.curs[Own].pos = 0
    BY <2>1, <2>2 DEF Fields, OwnLine
  <2> QED BY <2>1, <2>3 DEF Phased, OwnAtStart
<1>11. CASE Open
  <2>1. buf' = buffer_deserialize(buffer_serialize(buf)) /\ phase' = "editor"
    BY <1>11 DEF Open
  <2>2. buf'.server_mode = FALSE
    BY <1>1, <2>1, OpenSound DEF Inv
  <2> QED BY <2>1, <2>2 DEF Phased
<1>12. ASSUME NEW chr \in Chars, KeyChar(chr) PROVE Phased'
  BY <1>1, <1>2, <1>12, KeepsMode DEF KeyChar, Serving
<1>13. CASE KeyEnter \/ KeyBackspace
  BY <1>1, <1>2, <1>13, KeepsMode DEF KeyEnter, KeyBackspace, Serving
<1>14. ASSUME NEW dir \in Dirs, KeyArrow(dir) PROVE Phased'
  BY <1>1, <1>2, <1>14, KeepsMode DEF KeyArrow, Serving
<1>15. CASE KeyEscape \/ WildUi \/ DeleteWithoutBottom
  BY <1>3, <1>15 DEF KeyEscape, WildUi, DeleteWithoutBottom, Crash
<1>16. ASSUME NEW u \in Users, NullCursor(u) \/ NullPayload(u) PROVE Phased'
  BY <1>3, <1>16 DEF NullCursor, NullPayload, Crash
<1>17. ASSUME NEW u \in Users, InsertLine(u) PROVE Phased'
  BY <1>1, <1>2, <1>17, UserIds, KeepsMode, StaysAtStart DEF InsertLine, Phased
<1>18. ASSUME NEW u \in Users, Delete(u) PROVE Phased'
  BY <1>1, <1>2, <1>18, UserIds, KeepsMode, StaysAtStart DEF Delete, Phased
<1>19. ASSUME NEW u \in Users, NEW chr \in Chars, Insert(u, chr) PROVE Phased'
  <2>1. /\ u \in Nat /\ u # Own /\ Serving /\ phase' = phase
        /\ buf' = bcursor_insert(buf, u, chr)
    BY <1>19, UserIds DEF Insert
  <2>2. phase = "worker" => OwnAtStart(buf')
    BY <1>1, <2>1, StaysAtStart DEF Phased
  <2> QED BY <1>1, <1>2, <2>1, <2>2, KeepsMode
<1>20. ASSUME NEW u \in Users, NEW dir \in Dirs, MoveCursor(u, dir) PROVE Phased'
  <2>1. /\ u \in Nat /\ u # Own /\ Serving /\ phase' = phase
        /\ HasCursor(buf, u) /\ buf' = bcursor_move(buf, u, dir)
    BY <1>20, UserIds DEF MoveCursor
  <2>2. phase = "worker" => OwnAtStart(buf')
    BY <1>1, <2>1, StaysAtStart DEF Phased
  <2> QED BY <1>1, <1>2, <2>1, <2>2, KeepsMode
<1>21. CASE UNCHANGED vars
  BY <1>21 DEF vars, Phased
<1> QED BY <1>4, <1>5, <1>6, <1>7, <1>8, <1>9, <1>10, <1>11, <1>12, <1>13, <1>14, <1>15,
           <1>16, <1>17, <1>18, <1>19, <1>20, <1>21 DEF Next

\* Users break and join lines above and below it, yet the cursor a worker gives
\* to whoever joins stays at the start (insert_line and deletel in server mode).
THEOREM WorkerCursorAtStartTheorem == Spec => []WorkerCursorAtStart
<1>1. Inv /\ Phased => WorkerCursorAtStart
  BY DEF Inv, Phased, WorkerCursorAtStart, OwnAtStart, Sound, GoodLines
<1> QED BY <1>1, InitInv, StepInv, InitPhased, StepPhased, PTL DEF Spec

-----------------------------------------------------------------------------
(***************************************************************************)
(* Who has a cursor.  A buffer has MAX_CURSOR_NUM slots, and who opens it  *)
(* looks for the ids below MAX_CURSOR_NUM: no member loses a cursor as     *)
(* long as all ids are such.                                               *)
(***************************************************************************)
FewUsers == \A u \in Users : u < MAX_CURSOR_NUM

\* There is a slot for every user: were all taken by members other than u, two
\* of them would have one id.
LEMMA SlotLeft ==
  ASSUME FewUsers, NEW b, Sound(b), DistinctIds(b.curs), NEW M, M \subseteq Users, IdsIn(b, M),
         NEW u \in Users \ M
  PROVE  FreeSlots(b) # {}
<1> SUFFICES ASSUME FreeSlots(b) = {} PROVE FALSE
  OBVIOUS
<1> DEFINE f == [k \in Slots |-> b.curs[k].id]
           T == 1 .. (MAX_CURSOR_NUM - 1)
<1>1. MAX_CURSOR_NUM \in Nat /\ MAX_CURSOR_NUM >= 1 /\ \A v \in Users : v \in T
  BY ConstantsAssumption, ReplicaAssumption DEF FewUsers
<1>2. IsFiniteSet(Slots) /\ Cardinality(Slots) = MAX_CURSOR_NUM
  BY <1>1, FS_Interval DEF Slots
<1>3. IsFiniteSet(T) /\ Cardinality(T) < Cardinality(Slots)
  <2>1. Cardinality(T) = MAX_CURSOR_NUM - 1
    BY <1>1, FS_Interval
  <2> QED BY <1>1, <1>2, <2>1, FS_Interval
<1>4. GoodLines(b) /\ GoodCursors(b) /\ IdsOfSlots(b.curs)
  BY DEF Sound, GoodCursors
<1>5. \A k \in Slots : k \in AllSlots /\ k # Own /\ b.curs[k].id # NULL
  <2>1. \A k \in Slots : k \in AllSlots /\ k # Own /\ b.curs[k] # NoCursor
    BY AllSlotsNat DEF FreeSlots, AllSlots
  <2> QED BY <1>4, <2>1, SlotTypes
<1>6. \A k \in Slots : b.curs[k].id # Own
  BY <1>4 DEF IdsOfSlots
<1>7. \A k \in Slots : b.curs[k].id \in T
  BY <1>1, <1>5, <1>6 DEF IdsIn
<1>8. f \in [Slots -> T]
  BY <1>7
<1>9. \E x, y \in Slots : x # y /\ f[x] = f[y]
  <2> HIDE DEF f, T
  <2> QED BY <1>2, <1>3, <1>8, FS_PigeonHole
<1>10. PICK x \in Slots, y \in Slots : x # y /\ b.curs[x].id = b.curs[y].id
  BY <1>9
<1> QED BY <1>4, <1>5, <1>10 DEF IdsOfSlots, DistinctIds

\* An editor finds every member's cursor in what it is sent.
LEMMA OpenedFound ==
  ASSUME FewUsers, NEW b, Sound(b), NEW M, M \subseteq Users, IdsIn(b, M), HaveCursors(b, M)
  PROVE  HaveCursors(buffer_deserialize(buffer_serialize(b)), M)
<1>1. PICK c : c = buffer_deserialize(buffer_serialize(b))
  OBVIOUS
<1>2. \A j \in Slots : b.curs[j].id # NULL /\ b.curs[j].id < MAX_CURSOR_NUM =>
              \E k \in Slots : c.curs[k].id = b.curs[j].id
  BY <1>1, OpenSound
<1>3. ASSUME NEW u \in M PROVE HasCursor(c, u)
  <2>1. PICK j \in AllSlots : b.curs[j].id = u
    BY HasCursorIs DEF HaveCursors
  <2>2. u # NULL /\ u # Own /\ u < MAX_CURSOR_NUM
    BY UserIds DEF FewUsers
  <2>3. j \in Slots
    BY <2>1, <2>2, OwnFacts DEF AllSlots
  <2>4. PICK k \in Slots : c.curs[k].id = b.curs[j].id
    BY <1>2, <2>1, <2>2, <2>3
  <2> QED BY <2>1, <2>4, HasCursorIs DEF AllSlots
<1> QED BY <1>1, <1>3 DEF HaveCursors

\* Every step keeps a cursor for every member.
LEMMA StepHaveCursors ==
  ASSUME FewUsers, Inv, HaveCursors(buf, members), [Next]_vars
  PROVE  HaveCursors(buf', members')
<1>1. Sound(buf) /\ IdsIn(buf, members) /\ DistinctIds(buf.curs) /\ members \subseteq Users
      /\ Own \in Nat /\ HasCursor(buf, Own)
  BY OwnFound DEF Inv
<1>2. ASSUME SameIds(buf, buf'), members' = members PROVE HaveCursors(buf', members')
  BY <1>2, FindKept DEF HaveCursors
<1>3. ASSUME buf' = buf, members' = members PROVE HaveCursors(buf', members')
  BY <1>3
<1>4. ASSUME NEW u \in Users, AddCursor(u) PROVE HaveCursors(buf', members')
  <2>1. u \in Users \ members /\ members' = members \cup {u}
    BY <1>4 DEF AddCursor
  <2>2. PICK x : Added(buf, buf', x) /\ x.id = u
    <3>1. FreeSlots(buf) # {}
      BY <1>1, <2>1, SlotLeft
    <3>2. PICK at : Added(buf, buf', [id |-> u, line |-> at.line, pos |-> at.pos])
      BY <1>4, <3>1, StepAdds
    <3> QED BY <3>2
  <2>3. \A v \in members : v # NULL
    BY <1>1, UserIds
  <2> QED BY <1>1, <2>1, <2>2, <2>3, AddedFound
<1>5. ASSUME NEW u \in Users, DeleteCursor(u) PROVE HaveCursors(buf', members')
  <2>1. u \in Nat /\ u # Own /\ HasCursor(buf, u) /\ members' = members \ {u}
    BY <1>5, UserIds DEF DeleteCursor
  <2>2. \A j \in AllSlots : buf'.curs[j] =
          IF j = bcursor_find(buf, u) THEN NoCursor ELSE buf.curs[j]
    BY <1>1, <1>5, <2>1, FreeSound DEF DeleteCursor
  <2> QED BY <2>1, <2>2, FreedFound
<1>6. ASSUME NEW chr \in Chars, ReadChar(chr) \/ KeyChar(chr) PROVE HaveCursors(buf', members')
  BY <1>1, <1>2, <1>6, InsertSound DEF ReadChar, KeyChar
<1>7. CASE ReadNewline \/ KeyEnter
  BY <1>1, <1>2, <1>7, InsertLineSound DEF ReadNewline, KeyEnter
<1>8. CASE RewindLine
  BY <1>1, <1>2, <1>8, MoveSound DEF RewindLine
<1>9. CASE Loaded
  BY <1>1, <1>2, <1>9, LoadedSound DEF Loaded
<1>10. CASE Open
  BY <1>1, <1>10, OpenedFound DEF Open
<1>11. CASE KeyBackspace
  BY <1>1, <1>2, <1>11, DeleteSound DEF KeyBackspace
<1>12. ASSUME NEW dir \in Dirs, KeyArrow(dir) PROVE HaveCursors(buf', members')
  BY <1>1, <1>2, <1>12, MoveSound DEF KeyArrow
<1>13. CASE EndOfFile \/ KeyEscape \/ WildUi \/ DeleteWithoutBottom
  BY <1>3, <1>13 DEF EndOfFile, KeyEscape, WildUi, DeleteWithoutBottom, Crash
<1>14. ASSUME NEW u \in Users, NullCursor(u) \/ NullPayload(u) PROVE HaveCursors(buf', members')
  BY <1>3, <1>14 DEF NullCursor, NullPayload, Crash
<1>15. ASSUME NEW u \in Users, InsertLine(u) PROVE HaveCursors(buf', members')
  BY <1>1, <1>2, <1>15, UserIds, InsertLineSound DEF InsertLine
<1>16. ASSUME NEW u \in Users, Delete(u) PROVE HaveCursors(buf', members')
  BY <1>1, <1>2, <1>16, UserIds, DeleteSound DEF Delete
<1>17. ASSUME NEW u \in Users, NEW chr \in Chars, Insert(u, chr) PROVE HaveCursors(buf', members')
  BY <1>1, <1>2, <1>17, UserIds, InsertSound DEF Insert
<1>18. ASSUME NEW u \in Users, NEW dir \in Dirs, MoveCursor(u, dir)
       PROVE  HaveCursors(buf', members')
  BY <1>1, <1>2, <1>18, UserIds, MoveSound DEF MoveCursor
<1>19. CASE UNCHANGED vars
  BY <1>3, <1>19 DEF vars
<1> QED BY <1>4, <1>5, <1>6, <1>7, <1>8, <1>9, <1>10, <1>11, <1>12, <1>13, <1>14, <1>15,
           <1>16, <1>17, <1>18, <1>19 DEF Next

\* While every user's id is below MAX_CURSOR_NUM whoever may send operations has
\* a cursor for them, in the buffer he joined and in every one opened after it
\* (bcursor_new with its slots, buffer_deserialize with its ids).
THEOREM MembersHaveCursorsTheorem ==
  ASSUME FewUsers PROVE Spec => []MembersHaveCursors
<1> DEFINE All == HaveCursors(buf, members)
<1>1. Init => All
  BY DEF Init, HaveCursors
<1>2. Inv /\ All /\ [Next]_vars => All'
  BY StepHaveCursors
<1>3. All => MembersHaveCursors
  BY DEF HaveCursors, MembersHaveCursors
<1> HIDE DEF All
<1> QED BY <1>1, <1>2, <1>3, InitInv, StepInv, PTL DEF Spec

-----------------------------------------------------------------------------
(***************************************************************************)
(* The window of every replica.                                            *)
(***************************************************************************)

\* The invariant: of a worker exactly the lines are visible that fit on the
\* screen; an editor paints, and its window may have grown.
InView ==
  /\ Viewed(buf) /\ Rows(buf) >= height
  /\ phase \in {"loading", "rewinding", "worker"} => Rows(buf) = height
  /\ phase = "editor" => buf.u = TRUE

\* The blank buffer is viewed.
LEMMA InitInView == height >= 3 /\ Init => InView
<1> SUFFICES ASSUME height >= 3, Init PROVE InView
  OBVIOUS
<1>1. Viewed(buf) /\ Rows(buf) = height /\ height \in Nat
  BY BlankWindow, ConstantsAssumption DEF Init
<1>2. Rows(buf) >= height
  BY <1>1
<1> QED BY <1>1, <1>2 DEF InView, Init

\* A delete of a user leaves the window of a worker as it is.
LEMMA WorkerDelete ==
  ASSUME height >= 3, Inv, Phased, InView, phase = "worker",
         NEW u \in Nat, u # Own, HasCursor(buf, u)
  PROVE  LET c == bcursor_del(buf, u) IN
         Viewed(c) /\ Rows(c) = Rows(buf) /\ c.u = buf.u
<1>1. PICK c : c = bcursor_del(buf, u)
  OBVIOUS
<1>2. Viewed(buf) /\ Sound(buf) /\ Rows(buf) = height /\ Rows(buf) >= height /\ OwnLine(buf) = 1
  BY DEF InView, Inv, Phased, OwnAtStart, OwnLine
<1>3. buf.top = 1 /\ buf.bottom = height /\ height \in Nat
  <2>1. buf.top \in Nat /\ 1 <= buf.top /\ buf.top <= 1 /\ buf.bottom \in Nat
        /\ buf.bottom - buf.top + 1 = height
    BY <1>2 DEF Viewed, Window, Rows
  <2> QED BY <2>1
<1>4. Len(buf.str) = buf.last + height - 1 /\ buf.last \in Nat /\ buf.last >= 1
  BY <1>2 DEF Sound, GoodLines
<1>5. CASE buf.last = 1
  BY <1>2, <1>5, OneLineDelete DEF Views
<1>6. CASE buf.last # 1
  <2>1. buf.bottom < Len(buf.str) /\ buf.bottom # Len(buf.str)
    BY <1>3, <1>4, <1>6
  <2>2. \/ /\ Viewed(c) /\ c.u = buf.u /\ Rows(c) >= height
           /\ (u # Own /\ OwnLine(buf) = 1 /\ buf.bottom < Len(buf.str) => Rows(c) = Rows(buf))
        \/ ~Alive(c) /\ (u # Own /\ OwnLine(buf) = 1 => buf.bottom = Len(buf.str))
    BY <1>1, <1>2, DeleteWindow
  <2> QED BY <1>1, <1>2, <2>1, <2>2
<1> QED BY <1>5, <1>6

\* A delete that leaves an editor its bottom leaves it a window.
LEMMA EditorDelete ==
  ASSUME height >= 3, Inv, InView, NEW id \in Nat, HasCursor(buf, id),
         Alive(bcursor_del(buf, id))
  PROVE  LET c == bcursor_del(buf, id) IN
         /\ Viewed(c) /\ Rows(c) >= height /\ c.u = buf.u
         /\ id = Own => c = buf \/ Updated(c)
  BY DeleteWindow DEF Inv, InView

\* Every step keeps a window of as many rows.
LEMMA StepInView == height >= 3 /\ Inv /\ Phased /\ InView /\ [Next]_vars => InView'
<1> SUFFICES ASSUME height >= 3, Inv, Phased, InView, [Next]_vars PROVE InView'
  OBVIOUS
<1>1. Sound(buf) /\ Own \in Nat /\ HasCursor(buf, Own) /\ Viewed(buf)
  BY OwnFound DEF Inv, InView
<1>2. ASSUME Views(buf, buf'),
             \/ phase' = phase
             \/ phase = "loading" /\ phase' = "rewinding"
             \/ phase = "rewinding" /\ phase' = "worker"
             \/ phase' = "closed" \/ phase' = "crashed"
      PROVE  InView'
  BY <1>2 DEF InView, Views
<1>3. Views(buf, buf)
  BY <1>1 DEF Views
<1>4. ASSUME NEW u \in Users, AddCursor(u) PROVE InView'
  <2>1. u # Own /\ phase' = phase
        /\ \/ buf' = bcursor_new(buf, u, buf.lid[OwnLine(buf)], buf.curs[Own].pos)
           \/ buf' = bcursor_new(buf, u, buf.lid[buf.first], 0)
    BY <1>4, UserIds DEF AddCursor, bcursor_copy_own
  <2>2. Views(buf, buf')
    BY <1>1, <2>1, NewWindow
  <2> QED BY <1>2, <2>1, <2>2
<1>5. ASSUME NEW u \in Users, DeleteCursor(u) PROVE InView'
  BY <1>1, <1>2, <1>5, FreeWindow DEF DeleteCursor
<1>6. ASSUME NEW chr, ReadChar(chr) \/ KeyChar(chr) PROVE InView'
  BY <1>1, <1>2, <1>6, InsertWindow DEF ReadChar, KeyChar
<1>7. CASE ReadNewline \/ KeyEnter
  BY <1>1, <1>2, <1>7, InsertLineWindow DEF ReadNewline, KeyEnter
<1>8. CASE EndOfFile \/ KeyEscape
  BY <1>2, <1>3, <1>8 DEF EndOfFile, KeyEscape
<1>9. CASE RewindLine
  BY <1>1, <1>2, <1>9, MoveWindow DEF RewindLine
<1>10. CASE Loaded
  BY <1>1, <1>2, <1>10, LoadedWindow DEF Loaded
<1>11. CASE Open
  <2>1. phase = "worker" /\ OwnLine(buf) = 1 /\ Rows(buf) = height /\ Rows(buf) >= height
    BY <1>11 DEF Open, Phased, OwnAtStart, OwnLine, InView
  <2>2. Viewed(buf') /\ Rows(buf') = Rows(buf) /\ buf'.u = TRUE /\ phase' = "editor"
    BY <1>1, <1>11, <2>1, DeserializeWindow DEF Open
  <2> QED BY <2>1, <2>2 DEF InView
<1>12. CASE KeyBackspace
  <2>1. Viewed(buf') /\ Rows(buf') >= height /\ buf'.u = buf.u
        /\ phase = "editor" /\ phase' = "editor"
    BY <1>1, <1>12, EditorDelete DEF KeyBackspace
  <2> QED BY <2>1 DEF InView
<1>13. ASSUME NEW dir, KeyArrow(dir) PROVE InView'
  BY <1>1, <1>2, <1>13, MoveWindow DEF KeyArrow
<1>14. CASE WildUi \/ DeleteWithoutBottom
  BY <1>2, <1>3, <1>14 DEF WildUi, DeleteWithoutBottom, Crash
<1>15. ASSUME NEW u \in Users, NullCursor(u) \/ NullPayload(u) PROVE InView'
  BY <1>2, <1>3, <1>15 DEF NullCursor, NullPayload, Crash
<1>16. ASSUME NEW u \in Users, InsertLine(u) PROVE InView'
  BY <1>1, <1>2, <1>16, UserIds, InsertLineWindow DEF InsertLine
<1>17. ASSUME NEW u \in Users, Delete(u) PROVE InView'
  <2>1. /\ u \in Nat /\ u # Own /\ HasCursor(buf, u) /\ buf' = bcursor_del(buf, u)
        /\ Alive(bcursor_del(buf, u)) /\ phase' = phase /\ phase \in {"worker", "editor"}
    BY <1>17, UserIds DEF Delete, Serving
  <2>2. CASE phase = "worker"
    <3>1. Views(buf, buf')
      BY <2>1, <2>2, WorkerDelete DEF Views
    <3> QED BY <1>2, <2>1, <3>1
  <2>3. CASE phase = "editor"
    <3>1. Viewed(buf') /\ Rows(buf') >= height /\ buf'.u = buf.u
      BY <2>1, EditorDelete
    <3> QED BY <2>1, <2>3, <3>1 DEF InView
  <2> QED BY <2>1, <2>2, <2>3
<1>18. ASSUME NEW u \in Users, NEW chr, Insert(u, chr) PROVE InView'
  BY <1>1, <1>2, <1>18, UserIds, InsertWindow DEF Insert
<1>19. ASSUME NEW u \in Users, NEW dir, MoveCursor(u, dir) PROVE InView'
  BY <1>1, <1>2, <1>19, UserIds, MoveWindow DEF MoveCursor
<1>20. CASE UNCHANGED vars
  BY <1>2, <1>3, <1>20 DEF vars
<1> QED BY <1>4, <1>5, <1>6, <1>7, <1>8, <1>9, <1>10, <1>11, <1>12, <1>13, <1>14, <1>15,
           <1>16, <1>17, <1>18, <1>19, <1>20 DEF Next

\* Every replica keeps its window.
LEMMA InViewTheorem ==
  ASSUME height >= 3 PROVE Spec => [](Inv /\ Phased /\ InView)
<1>1. Init => InView
  BY InitInView
<1>2. Inv /\ Phased /\ InView /\ [Next]_vars => InView'
  BY StepInView
<1> QED BY <1>1, <1>2, InitInv, StepInv, InitPhased, StepPhased, PTL DEF Spec

-----------------------------------------------------------------------------
\* However lines are linked, unlinked, trimmed and appended, the flags on_screen are
\* those of the lines from top to bottom (buffer_scroll, buffer_trim, buffer_extend).
THEOREM WindowMatchesFlagsTheorem ==
  ASSUME height >= 3 PROVE Spec => []WindowMatchesFlags
<1>1. InView => WindowMatchesFlags
  <2>1. SUFFICES ASSUME Viewed(buf) PROVE WindowMatchesFlags
    BY DEF InView
  <2>2. /\ buf.top \in Nat /\ buf.bottom \in Nat /\ OwnLine(buf) \in Nat /\ Len(buf.str) \in Nat
        /\ 1 <= buf.top /\ buf.top <= buf.bottom /\ buf.bottom <= Len(buf.str)
    BY <2>1 DEF Viewed, Window
  <2>3. ASSUME NEW l \in 1 .. Len(buf.str)
        PROVE  buf.on_screen[l] <=> l \in buf.top .. buf.bottom
    <3>1. buf.on_screen[l] <=> (buf.top <= l /\ l <= buf.bottom)
      BY <2>1 DEF Viewed, Window
    <3>2. l \in buf.top .. buf.bottom <=> (buf.top <= l /\ l <= buf.bottom)
      BY <2>2
    <3> QED BY <3>1, <3>2
  <2> QED BY <2>2, <2>3 DEF WindowMatchesFlags, NumLines
<1> QED BY <1>1, InViewTheorem, PTL

\* The local cursor is in the window, whoever breaks and joins lines around it.
THEOREM OwnInWindowTheorem ==
  ASSUME height >= 3 PROVE Spec => []OwnInWindow
<1>1. InView => OwnInWindow
  BY DEF InView, Viewed, Window, OwnInWindow
<1> QED BY <1>1, InViewTheorem, PTL

\* What decides on which side a window is trimmed and extended is right up to the
\* line of the local cursor (cursor_move, line_new, line_free).
THEOREM FlagsUpToOwnTheorem ==
  ASSUME height >= 3 PROVE Spec => []FlagsUpToOwn
<1>1. InView => FlagsUpToOwn
  BY DEF InView, Viewed, Marked, FlagsAt, FlagsUpToOwn
<1> QED BY <1>1, InViewTheorem, PTL

\* No delete leaves a worker without a bottom (buffer_deletel at the end of a chain).
THEOREM WorkerKeepsBottomTheorem ==
  ASSUME height >= 3 PROVE Spec => []WorkerKeepsBottom
<1>1. ASSUME Inv, Phased, InView PROVE WorkerKeepsBottom
  <2>1. SUFFICES ASSUME phase = "worker", NEW u \in members, HasCursor(buf, u)
                 PROVE  Alive(bcursor_del(buf, u))
    BY DEF WorkerKeepsBottom, NullBottom
  <2>2. u \in Nat /\ u # Own
    BY <1>1, UserIds DEF Inv
  <2>3. Viewed(bcursor_del(buf, u))
    BY <1>1, <2>1, <2>2, WorkerDelete
  <2> QED BY <2>3 DEF Viewed, Window, Alive, NumLines
<1> QED BY <1>1, InViewTheorem, PTL

\* Each key of an editor's user leaves the screen as ui_update paints it, whatever
\* peers did before that was not painted (the conditions of every ui_update call).
THEOREM LocalKeysPaintedTheorem ==
  ASSUME height >= 3 PROVE Spec => LocalKeysPainted
<1>1. ASSUME Inv, Phased, InView, [Next]_vars
      PROVE  [LocalKey => buf'.screen = View(buf')]_vars
  <2>1. SUFFICES ASSUME LocalKey, ~UNCHANGED vars PROVE buf'.screen = View(buf')
    OBVIOUS
  <2>2. Sound(buf) /\ Own \in Nat /\ HasCursor(buf, Own) /\ Viewed(buf)
    BY <1>1, OwnFound DEF Inv, InView
  <2>3. phase = "editor" /\ buf.u = TRUE /\ buf.server_mode = FALSE
    BY <1>1, <2>1 DEF LocalKey, KeyChar, KeyArrow, KeyEnter, KeyBackspace, InView, Phased
  <2>4. Updated(buf') /\ buf'.u = TRUE
    <3>1. ASSUME NEW chr \in Chars, KeyChar(chr) PROVE Updated(buf') /\ buf'.u = TRUE
      BY <2>2, <2>3, <3>1, InsertWindow DEF KeyChar, Views
    <3>2. ASSUME NEW dir \in Dirs, KeyArrow(dir) PROVE Updated(buf') /\ buf'.u = TRUE
      BY <2>2, <2>3, <3>2, MoveWindow DEF KeyArrow, Views
    <3>3. CASE KeyEnter
      BY <2>2, <2>3, <3>3, InsertLineWindow DEF KeyEnter, Views
    <3>4. CASE KeyBackspace
      <4>1. buf' # buf
        BY <2>1, <3>4 DEF KeyBackspace, vars
      <4>2. (buf' = buf \/ Updated(buf')) /\ buf'.u = buf.u
        BY <1>1, <2>2, <3>4, EditorDelete DEF KeyBackspace
      <4> QED BY <2>3, <4>1, <4>2
    <3> QED BY <2>1, <3>1, <3>2, <3>3, <3>4 DEF LocalKey
  <2> QED BY <2>4, UpdatedShows
<1> QED BY <1>1, InViewTheorem, PTL DEF Spec, LocalKeysPainted

\* Line attributes are there for every line, and no flag is one that line_new or
\* cursor_move left uninitialised.
THEOREM TypeOKTheorem ==
  ASSUME height >= 3 PROVE Spec => []TypeOK
<1>1. ASSUME Inv, InView PROVE TypeOK
  <2>1. /\ phase \in Phases /\ upcnt \in Nat /\ members \subseteq Users
        /\ buf.str \in Seq(Seq(Chars)) /\ buf.lid \in Seq(Nat) /\ Len(buf.lid) = Len(buf.str)
    BY <1>1 DEF Inv, Sound, GoodLines
  <2>2. /\ Len(buf.str) \in Nat
        /\ buf.on_screen \in [1 .. Len(buf.str) -> BOOLEAN]
        /\ buf.where \in [1 .. Len(buf.str) -> CRP]
    BY <1>1 DEF InView, Viewed, Window, Marked, FlagsAt
  <2> QED BY <2>1, <2>2, FunIsSeq DEF TypeOK, NumLines
<1> QED BY <1>1, InViewTheorem, PTL

-----------------------------------------------------------------------------
(***************************************************************************)
(* A worker that is started again.  No line has a byte that ropes refuse,  *)
(* so typing a text gives this text, cut to the width of a line.           *)
(***************************************************************************)
Accepted == Chars \ Refused

Clean(b) == \A l \in 1 .. Len(b.str) : b.str[l] \in Seq(Accepted)

LEMMA PartOf ==
  ASSUME NEW S, NEW s \in Seq(S), NEW m \in Nat, m >= 1, NEW n \in Nat, n <= Len(s)
  PROVE  SubSeq(s, m, n) \in Seq(S)
<1>1. Len(s) \in Nat /\ \A j \in 1 .. Len(s) : s[j] \in S
  BY LenProperties, ElementOfSeq
<1>2. \A j \in m .. n : j \in 1 .. Len(s)
  BY <1>1
<1> QED BY <1>1, <1>2, SubSeqProperties

\* What is done to a rope keeps it clean.
LEMMA CleanRope ==
  ASSUME NEW s \in Seq(Accepted), NEW pos \in Nat
  PROVE  /\ \A chr \in Chars : rope_insert(s, pos, chr) \in Seq(Accepted)
         /\ rope_del(s, pos, 1) \in Seq(Accepted)
         /\ SubSeq(s, 1, Min2(pos, Len(s))) \in Seq(Accepted)
         /\ SubSeq(s, Min2(pos, Len(s)) + 1, Len(s)) \in Seq(Accepted)
<1> PICK N : N = Len(s)
  OBVIOUS
<1> PICK at : at = Min2(pos, N)
  OBVIOUS
<1> PICK n : n = Min2(1, N - at)
  OBVIOUS
<1>1. N \in Nat /\ at \in Nat /\ at <= N
  BY LenProperties DEF Min2
<1>a. n \in Nat
  BY <1>1 DEF Min2
<1>2. /\ at + n + 1 \in Nat /\ at + n + 1 >= 1 /\ at + 1 \in 1 .. N + 1
      /\ at + 1 \in Nat /\ at + 1 >= 1 /\ at <= Len(s) /\ N <= Len(s)
  BY <1>1, <1>a
<1>3. ASSUME NEW chr \in Chars PROVE rope_insert(s, pos, chr) \in Seq(Accepted)
  <2>1. CASE chr \in Refused
    BY <2>1 DEF rope_insert
  <2>2. CASE chr \notin Refused
    <3>1. chr \in Accepted
      BY <2>2 DEF Accepted
    <3>2. InsertAt(s, at + 1, chr) \in Seq(Accepted)
      BY <1>2, <3>1, InsertAtProperties
    <3> QED BY <2>2, <3>2 DEF rope_insert
  <2> QED BY <2>1, <2>2
<1> PICK x, y, z : /\ x = SubSeq(s, 1, at) /\ y = SubSeq(s, at + n + 1, N)
                   /\ z = SubSeq(s, at + 1, N)
  OBVIOUS
<1>b. x \in Seq(Accepted)
  BY <1>1, <1>2, PartOf
<1>c. y \in Seq(Accepted)
  <2> PICK m : m = at + n + 1
    OBVIOUS
  <2>1. m \in Nat /\ m >= 1
    BY <1>2
  <2> QED BY <1>1, <1>2, <2>1, PartOf
<1>d. z \in Seq(Accepted)
  <2> PICK m : m = at + 1
    OBVIOUS
  <2>1. m \in Nat /\ m >= 1
    BY <1>2
  <2> QED BY <1>1, <1>2, <2>1, PartOf
<1>5. rope_del(s, pos, 1) = x \o y
  BY DEF rope_del
<1>6. x \o y \in Seq(Accepted)
  BY <1>b, <1>c, ConcatProperties
<1> QED BY <1>3, <1>5, <1>b, <1>d, <1>6

\* So is a document, whatever a cursor does.
LEMMA CleanEffects ==
  ASSUME NEW b, Sound(b), Clean(b), NEW c, Sound(c), NEW k \in AllSlots, b.curs[k].id # NULL
  PROVE  /\ \A chr \in Chars : Typed(b, c, k, chr) => Clean(c)
         /\ b.curs[k].pos > 0 /\ Erased(b, c, k) => Clean(c)
         /\ BrokenAbove(b, c, k) => Clean(c)
         /\ BrokenBelow(b, c, k) => Clean(c)
         /\ b.curs[k].line # 1 /\ Joined(b, c, k) => Clean(c)
<1> PICK i, p, N, M : i = b.curs[k].line /\ p = b.curs[k].pos /\ N = Len(b.str) /\ M = Len(c.str)
  OBVIOUS
<1>1. GoodLines(b) /\ GoodCursors(b) /\ GoodLines(c)
  BY DEF Sound
<1>2. i \in Nat /\ i \in 1 .. N /\ p \in Nat /\ N \in Nat /\ M \in Nat /\ i <= N
  BY <1>1, CursorFacts, LengthTypes
<1>3. \A l \in 1 .. N : b.str[l] \in Seq(Accepted)
  BY DEF Clean
<1>4. b.last \in Nat /\ c.last \in Nat /\ height \in Nat /\ N = b.last + height - 1
      /\ M = c.last + height - 1
  BY <1>1, ConstantsAssumption DEF GoodLines
<1>5. b.str[i] \in Seq(Accepted) /\ << >> \in Seq(Accepted)
  BY <1>2, <1>3, EmptySeq
<1>6. ASSUME NEW s \in Seq(Accepted), c.str = [b.str EXCEPT ![i] = s] PROVE Clean(c)
  <2>1. b.str \in Seq(Seq(Chars))
    BY <1>1 DEF GoodLines
  <2>2. M = N /\ \A l \in 1 .. N : c.str[l] = IF l = i THEN s ELSE b.str[l]
    BY <1>2, <1>6, <2>1, SeqDef, LenProperties
  <2> QED BY <1>3, <2>2 DEF Clean
<1>7. ASSUME NEW chr \in Chars, Typed(b, c, k, chr) PROVE Clean(c)
  <2>1. rope_insert(b.str[i], p, chr) \in Seq(Accepted)
    BY <1>2, <1>5, CleanRope
  <2> QED BY <1>6, <1>7, <2>1 DEF Typed
<1>8. ASSUME p > 0, Erased(b, c, k) PROVE Clean(c)
  <2>1. p - 1 \in Nat
    BY <1>2, <1>8
  <2>2. rope_del(b.str[i], p - 1, 1) \in Seq(Accepted)
    BY <1>5, <2>1, CleanRope
  <2> QED BY <1>6, <1>8, <2>2 DEF Erased
<1>9. ASSUME BrokenAbove(b, c, k) PROVE Clean(c)
  <2>1. c.last = b.last + 1 /\ \A m \in 1 .. N + 1 :
           c.str[m] = IF m < i THEN b.str[m] ELSE IF m = i THEN << >> ELSE b.str[m - 1]
    BY <1>9 DEF BrokenAbove
  <2>2. M = N + 1
    <3>1. c.last = b.last + 1
      BY <2>1
    <3> QED BY <1>4, <3>1
  <2>3. ASSUME NEW m \in 1 .. N + 1 PROVE c.str[m] \in Seq(Accepted)
    <3>1. m \in Nat /\ (m < i \/ m = i \/ (m > i /\ m - 1 \in 1 .. N)) /\ (m < i => m \in 1 .. N)
      BY <1>2
    <3>2. CASE m < i
      BY <1>3, <2>1, <3>1, <3>2
    <3>3. CASE m = i
      BY <1>2, <1>5, <2>1, <3>3
    <3>4. CASE m > i /\ m - 1 \in 1 .. N
      <4>1. ~(m < i) /\ m # i
        BY <1>2, <3>1, <3>4
      <4>2. c.str[m] = b.str[m - 1]
        BY <2>1, <4>1
      <4> QED BY <1>3, <3>4, <4>2
    <3> QED BY <3>1, <3>2, <3>3, <3>4
  <2> QED BY <2>2, <2>3 DEF Clean
<1>10. ASSUME BrokenBelow(b, c, k) PROVE Clean(c)
  <2> PICK s, at : s = b.str[i] /\ at = Min2(p, Len(s))
    OBVIOUS
  <2>1. /\ c.last = b.last + 1 /\ c.str[i] = SubSeq(s, 1, at)
        /\ c.str[i + 1] = SubSeq(s, at + 1, Len(s))
        /\ \A m \in 1 .. N : m < i => c.str[m] = b.str[m]
        /\ \A m \in 1 .. N : m > i => c.str[m + 1] = b.str[m]
    BY <1>10 DEF BrokenBelow, IsSplit
  <2>2. c.str[i] \in Seq(Accepted) /\ c.str[i + 1] \in Seq(Accepted)
    <3>1. SubSeq(s, 1, at) \in Seq(Accepted) /\ SubSeq(s, at + 1, Len(s)) \in Seq(Accepted)
      BY <1>2, <1>5, CleanRope
    <3> QED BY <2>1, <3>1
  <2>3. M = N + 1 /\ \A m \in 1 .. N + 1 :
           \/ m = i \/ m = i + 1 \/ (m < i /\ m \in 1 .. N)
           \/ (m - 1 \in 1 .. N /\ m - 1 > i /\ (m - 1) + 1 = m)
    <3>1. c.last = b.last + 1
      BY <2>1

    <3>2. M = N + 1
      BY <1>4, <3>1
    <3>3. \A m \in 1 .. N + 1 :
             \/ m = i \/ m = i + 1 \/ (m < i /\ m \in 1 .. N)
             \/ (m - 1 \in 1 .. N /\ m - 1 > i /\ (m - 1) + 1 = m)
      <4>1. \A n, l \in Nat : l \in 1 .. n => \A m \in 1 .. n + 1 :
               \/ m = l \/ m = l + 1 \/ (m < l /\ m \in 1 .. n)
               \/ (m - 1 \in 1 .. n /\ m - 1 > l /\ (m - 1) + 1 = m)
        OBVIOUS
      <4> QED BY <1>2, <4>1
    <3> QED BY <3>2, <3>3
  <2>4. ASSUME NEW m \in 1 .. N + 1 PROVE c.str[m] \in Seq(Accepted)
    <3>1. CASE m = i \/ m = i + 1
      BY <2>2, <3>1
    <3>2. CASE m < i /\ m \in 1 .. N
      BY <1>3, <2>1, <3>2
    <3>3. CASE m - 1 \in 1 .. N /\ m - 1 > i /\ (m - 1) + 1 = m
      BY <1>3, <2>1, <3>3
    <3> QED BY <2>3, <3>1, <3>2, <3>3
  <2> QED BY <2>3, <2>4 DEF Clean
<1>11. ASSUME i # 1, Joined(b, c, k) PROVE Clean(c)
  <2> PICK h : h = i - 1
    OBVIOUS
  <2>1. /\ c.last = b.last - 1 /\ c.str[h] = b.str[h] \o b.str[i]
        /\ \A m \in 1 .. N : m < h => c.str[m] = b.str[m]
        /\ \A m \in 1 .. N : m > i => c.str[m - 1] = b.str[m]
    BY <1>11 DEF Joined
  <2>2. h \in 1 .. N /\ M = N - 1 /\ \A m \in 1 .. N - 1 :
           \/ m = h \/ (m < h /\ m \in 1 .. N)
           \/ (m + 1 \in 1 .. N /\ m + 1 > i /\ (m + 1) - 1 = m)
    <3>1. c.last = b.last - 1
      BY <2>1
    <3>2. M = N - 1
      BY <1>4, <3>1
    <3>3. h \in 1 .. N /\ \A m \in 1 .. N - 1 :
             \/ m = h \/ (m < h /\ m \in 1 .. N)
             \/ (m + 1 \in 1 .. N /\ m + 1 > i /\ (m + 1) - 1 = m)
      <4>1. h \in 1 .. N /\ h \in Nat /\ i = h + 1
        BY <1>2, <1>11
      <4>2. ASSUME NEW m \in 1 .. N - 1
            PROVE  \/ m = h \/ (m < h /\ m \in 1 .. N)
                   \/ (m + 1 \in 1 .. N /\ m + 1 > i /\ (m + 1) - 1 = m)
        <5>1. m \in Nat /\ m \in 1 .. N /\ m + 1 \in 1 .. N /\ (m + 1) - 1 = m
          BY <1>2
        <5>2. m < h \/ m = h \/ m + 1 > i
          BY <1>2, <4>1, <5>1
        <5> QED BY <5>1, <5>2
      <4> QED BY <4>1, <4>2
    <3> QED BY <3>2, <3>3
  <2>3. c.str[h] \in Seq(Accepted)
    <3>1. b.str[h] \in Seq(Accepted)
      BY <1>3, <2>2
    <3>2. b.str[h] \o b.str[i] \in Seq(Accepted)
      BY <1>5, <3>1, ConcatProperties
    <3> QED BY <2>1, <3>2
  <2>4. ASSUME NEW m \in 1 .. N - 1 PROVE c.str[m] \in Seq(Accepted)
    <3>1. CASE m < h /\ m \in 1 .. N
      BY <1>3, <2>1, <3>1
    <3>2. CASE m + 1 \in 1 .. N /\ m + 1 > i /\ (m + 1) - 1 = m
      BY <1>3, <2>1, <3>2
    <3> QED BY <2>2, <2>3, <3>1, <3>2
  <2> QED BY <2>2, <2>4 DEF Clean
<1> QED BY <1>7, <1>8, <1>9, <1>10, <1>11

LEMMA SameClean == ASSUME NEW b, NEW c, SameLines(b, c), Clean(b) PROVE Clean(c)
  BY DEF SameLines, Clean

LEMMA CleanKept ==
  ASSUME NEW b, Sound(b), Clean(b), NEW id \in Nat
  PROVE  /\ \A chr \in Chars : Clean(bcursor_insert(b, id, chr))
         /\ HasCursor(b, id) =>
              /\ Clean(bcursor_insert_line(b, id)) /\ Clean(bcursor_del(b, id))
              /\ \A dir \in Dirs : Clean(bcursor_move(b, id, dir))
<1>1. PICK k : k = bcursor_find(b, id)
  OBVIOUS
<1>2. HasCursor(b, id) => /\ k \in AllSlots /\ b.curs[k].id = id /\ b.curs[k].id # NULL
                          /\ b.curs[k].pos \in Int /\ Foremost(b.curs, k)
  BY <1>1, FoundSlot
<1>3. HasCursor(b, id) <=> k # NULL
  BY <1>1 DEF HasCursor
<1>4. ASSUME NEW chr \in Chars, NEW c, c = bcursor_insert(b, id, chr) PROVE Clean(c)
  <2>1. Sound(c) /\ (Same(b, c) \/ (k # NULL /\ Typed(b, c, k, chr)))
    BY <1>1, <1>4, InsertSound
  <2>2. CASE Same(b, c)
    BY <2>2, SameClean DEF Same
  <2>3. CASE k # NULL /\ Typed(b, c, k, chr)
    BY <1>2, <1>3, <2>1, <2>3, CleanEffects
  <2> QED BY <2>1, <2>2, <2>3
<1>5. ASSUME HasCursor(b, id), NEW c, c = bcursor_insert_line(b, id) PROVE Clean(c)
  <2>1. Sound(c) /\ (BrokenAbove(b, c, k) \/ BrokenBelow(b, c, k))
    BY <1>1, <1>5, InsertLineSound
  <2> QED BY <1>2, <1>5, <2>1, CleanEffects
<1>6. ASSUME HasCursor(b, id), NEW c, c = bcursor_del(b, id) PROVE Clean(c)
  <2>1. Sound(c) /\ \/ c = b
                    \/ b.curs[k].pos > 0 /\ Erased(b, c, k)
                    \/ b.curs[k].line # 1 /\ Joined(b, c, k)
    BY <1>1, <1>6, DeleteSound
  <2> QED BY <1>2, <1>6, <2>1, CleanEffects
<1>7. ASSUME HasCursor(b, id), NEW dir \in Dirs, NEW c, c = bcursor_move(b, id, dir)
      PROVE  Clean(c)
  <2>1. DOMAIN b = Fields /\ IdsOfSlots(b.curs)
    BY DEF Sound, GoodLines, GoodCursors
  <2>2. c = bcursor_move(b, b.curs[k].id, dir)
    BY <1>2, <1>7
  <2>3. SameLines(b, c)
    <3>1. k \in AllSlots /\ Foremost(b.curs, k) /\ b.curs[k].pos \in Int
      BY <1>2, <1>7
    <3>2. SameLines(b, bcursor_move(b, b.curs[k].id, dir))
      BY <2>1, <3>1, MoveOneExact
    <3> QED BY <2>2, <3>2
  <2> QED BY <2>3, SameClean
<1> QED BY <1>4, <1>5, <1>6, <1>7

\* The blank buffer is clean, and each step keeps it so.
CleanText == Clean(buf)

LEMMA InitClean == Init => CleanText
<1> SUFFICES Clean(BlankBuffer)
  BY DEF Init, CleanText
<1>1. GoodLines(BlankBuffer) /\ BlankBuffer.last = 1 /\ BlankBuffer.str[1] = << >>
  BY BlankSound DEF Sound
<1>2. \A l \in 1 .. Len(BlankBuffer.str) : l = 1 \/ l \in 1 + 1 .. Len(BlankBuffer.str)
  BY <1>1, LengthTypes
<1>3. \A l \in 1 .. Len(BlankBuffer.str) : BlankBuffer.str[l] = << >>
  BY <1>1, <1>2 DEF GoodLines
<1> QED BY <1>3, EmptySeq DEF Clean

LEMMA StepClean == Inv /\ CleanText /\ [Next]_vars => CleanText'
<1> SUFFICES ASSUME Inv, Clean(buf), [Next]_vars PROVE Clean(buf')
  BY DEF CleanText
<1>1. Sound(buf) /\ Own \in Nat /\ HasCursor(buf, Own) /\ DOMAIN buf = Fields
  BY OwnFound DEF Inv, Sound, GoodLines
<1>2. ASSUME NEW u \in Users, AddCursor(u) PROVE Clean(buf')
  BY <1>2, StepAdds, SameClean
<1>3. ASSUME NEW u \in Users, DeleteCursor(u) PROVE Clean(buf')
  <2>1. u \in Nat /\ u # Own /\ HasCursor(buf, u) /\ buf' = bcursor_free(buf, u)
    BY <1>3, UserIds DEF DeleteCursor
  <2>2. SameLines(buf, buf')
    BY <1>1, <2>1, FreeSound DEF Inv
  <2> QED BY <2>2, SameClean
<1>4. ASSUME NEW chr \in Chars, ReadChar(chr) \/ KeyChar(chr) PROVE Clean(buf')
  BY <1>1, <1>4, CleanKept DEF ReadChar, KeyChar
<1>5. CASE ReadNewline \/ KeyEnter
  BY <1>1, <1>5, CleanKept DEF ReadNewline, KeyEnter
<1>6. CASE EndOfFile \/ KeyEscape \/ WildUi \/ DeleteWithoutBottom
  BY <1>6 DEF EndOfFile, KeyEscape, WildUi, DeleteWithoutBottom, Crash
<1>7. CASE RewindLine
  BY <1>1, <1>7, CleanKept DEF RewindLine, Dirs
<1>8. CASE Loaded
  <2>1. buf'.str = buf.str
    BY <1>1, <1>8 DEF Loaded, Fields
  <2> QED BY <2>1 DEF Clean
<1>9. CASE Open
  <2>1. buf'.str = buf.str
    BY <1>1, <1>9, OpenSound DEF Open, Inv
  <2> QED BY <2>1 DEF Clean
<1>10. CASE KeyBackspace
  BY <1>1, <1>10, CleanKept DEF KeyBackspace
<1>11. ASSUME NEW dir \in Dirs, KeyArrow(dir) PROVE Clean(buf')
  BY <1>1, <1>11, CleanKept DEF KeyArrow
<1>12. ASSUME NEW u \in Users, NullCursor(u) \/ NullPayload(u) PROVE Clean(buf')
  BY <1>12 DEF NullCursor, NullPayload, Crash
<1>13. ASSUME NEW u \in Users, InsertLine(u) PROVE Clean(buf')
  BY <1>1, <1>13, UserIds, CleanKept DEF InsertLine
<1>14. ASSUME NEW u \in Users, Delete(u) PROVE Clean(buf')
  BY <1>1, <1>14, UserIds, CleanKept DEF Delete
<1>15. ASSUME NEW u \in Users, NEW chr \in Chars, Insert(u, chr) PROVE Clean(buf')
  BY <1>1, <1>15, UserIds, CleanKept DEF Insert
<1>16. ASSUME NEW u \in Users, NEW dir \in Dirs, MoveCursor(u, dir) PROVE Clean(buf')
  BY <1>1, <1>16, UserIds, CleanKept DEF MoveCursor
<1>17. CASE UNCHANGED vars
  BY <1>17 DEF vars
<1> QED BY <1>2, <1>3, <1>4, <1>5, <1>6, <1>7, <1>8, <1>9, <1>10, <1>11, <1>12, <1>13,
           <1>14, <1>15, <1>16, <1>17 DEF Next
-----------------------------------------------------------------------------
\* The lines before i are those of the file, cut, and line i, at the end of which the
\* own cursor is, is what n characters of it gave.
Reads(b, file, i, n) ==
  /\ Loading(b, i) /\ b.last = i /\ b.curs[Own].pos = Len(b.str[i])
  /\ \A m \in 1 .. i - 1 : b.str[m] = Cut(file[m])
  /\ b.str[i] = SubSeq(file[i], 1, Min2(n, width - 1))

\* What buffer_from_file is given: the lines of a clean text.
CleanFile(file) == \A m \in 1 .. Len(file) : file[m] \in Seq(Accepted)

LEMMA AcceptedAre == Accepted \subseteq Chars /\ Seq(Accepted) \subseteq Seq(Chars)
<1>1. Accepted \subseteq Chars
  BY DEF Accepted
<1>2. ASSUME NEW s \in Seq(Accepted) PROVE s \in Seq(Chars)
  BY <1>1, SeqDef
<1> QED BY <1>1, <1>2

\* A character typed at the end of a line.
LEMMA FirstOf ==
  ASSUME NEW S, NEW s, NEW n \in Nat, \A j \in 1 .. n : s[j] \in S
  PROVE  /\ SubSeq(s, 1, n) \in Seq(S) /\ Len(SubSeq(s, 1, n)) = n
         /\ \A j \in 1 .. n : SubSeq(s, 1, n)[j] = s[j]
<1>1. /\ SubSeq(s, 1, n) \in Seq(S)
      /\ Len(SubSeq(s, 1, n)) = IF 1 <= n THEN n - 1 + 1 ELSE 0
      /\ \A j \in 1 .. n - 1 + 1 : SubSeq(s, 1, n)[j] = s[1 + j - 1]
  BY SubSeqProperties
<1>2. n = n - 1 + 1 /\ (IF 1 <= n THEN n - 1 + 1 ELSE 0) = n /\ \A j \in 1 .. n : 1 + j - 1 = j
  OBVIOUS
<1> QED BY <1>1, <1>2

LEMMA EndInserted ==
  ASSUME NEW S, NEW s \in Seq(S), NEW x \in S, NEW m, m = Len(s) + 1,
         NEW q \in Seq(S), Len(q) = m, q[m] = x, \A j \in 1 .. Len(s) : q[j] = s[j]
  PROVE  InsertAt(s, m, x) = q
<1> PICK r : r = InsertAt(s, m, x)
  OBVIOUS
<1>1. \A i \in 1 .. Len(s) + 1 :
         /\ InsertAt(s, i, x) \in Seq(S)
         /\ Len(InsertAt(s, i, x)) = Len(s) + 1
         /\ \A j \in 1 .. Len(s) + 1 : InsertAt(s, i, x)[j] =
               IF j < i THEN s[j] ELSE IF j = i THEN x ELSE s[j - 1]
  BY InsertAtProperties
<1>2. m \in 1 .. Len(s) + 1 /\ m \in Nat
  BY LenProperties
<1>3. r \in Seq(S) /\ Len(r) = m
  BY <1>1, <1>2
<1>4. \A j \in 1 .. Len(s) + 1 : r[j] = IF j < m THEN s[j] ELSE IF j = m THEN x ELSE s[j - 1]
  BY <1>1, <1>2
<1>5. r[m] = x
  BY <1>2, <1>4
<1>6. \A j \in 1 .. Len(s) : j \in 1 .. Len(s) + 1 /\ j < m
  BY LenProperties
<1>7. \A j \in 1 .. Len(s) : r[j] = s[j]
  BY <1>4, <1>6
<1>8. \A j \in 1 .. m : j = m \/ j \in 1 .. Len(s)
  BY LenProperties
<1>9. r = q
  BY <1>3, <1>5, <1>7, <1>8, SeqEqual
<1> QED BY <1>9

LEMMA RopeAppends ==
  ASSUME NEW s \in Seq(Accepted), NEW n \in Nat, n < Len(s)
  PROVE  rope_insert(SubSeq(s, 1, n), Len(SubSeq(s, 1, n)), s[n + 1]) = SubSeq(s, 1, n + 1)
<1> PICK N : N = Len(s)
  OBVIOUS
<1> PICK p, q, x : p = SubSeq(s, 1, n) /\ q = SubSeq(s, 1, n + 1) /\ x = s[n + 1]
  OBVIOUS
<1>1. N \in Nat /\ n + 1 \in 1 .. N /\ \A j \in 1 .. N : s[j] \in Accepted
  BY LenProperties, ElementOfSeq
<1>2. x \in Accepted /\ x \notin Refused
  BY <1>1 DEF Accepted
<1>3. p \in Seq(Accepted) /\ Len(p) = n /\ \A j \in 1 .. n : p[j] = s[j]
  BY <1>1, SubSeqProperties
<1>4. q \in Seq(Accepted) /\ Len(q) = n + 1 /\ \A j \in 1 .. n + 1 : q[j] = s[j]
  BY <1>1, SubSeqProperties
<1>5. Min2(n, n) + 1 = n + 1 /\ n + 1 \in 1 .. n + 1
  BY DEF Min2
<1>6. InsertAt(p, n + 1, x) = q
  <2>1. p \in Seq(Accepted) /\ x \in Accepted /\ q \in Seq(Accepted) /\ n + 1 = Len(p) + 1
        /\ Len(q) = n + 1 /\ q[n + 1] = x /\ \A j \in 1 .. Len(p) : q[j] = p[j]
    <3>1. n + 1 \in 1 .. n + 1 /\ \A j \in 1 .. n : j \in 1 .. n + 1
      OBVIOUS
    <3>2. q[n + 1] = x
      BY <1>4, <3>1
    <3>3. \A j \in 1 .. Len(p) : q[j] = p[j]
      <4>1. Len(p) = n /\ \A j \in 1 .. n : p[j] = s[j] /\ q[j] = s[j]
        BY <1>3, <1>4, <3>1
      <4> QED BY <4>1
    <3>4. n + 1 = Len(p) + 1
      BY <1>3
    <3>5. p \in Seq(Accepted) /\ x \in Accepted /\ q \in Seq(Accepted) /\ Len(q) = n + 1
      BY <1>2, <1>3, <1>4
    <3> QED BY <3>2, <3>3, <3>4, <3>5
  <2>2. \A u, v \in Seq(Accepted) : \A y \in Accepted :
           (/\ Len(v) = Len(u) + 1 /\ v[Len(u) + 1] = y /\ \A j \in 1 .. Len(u) : v[j] = u[j])
           => InsertAt(u, Len(u) + 1, y) = v
    BY EndInserted
  <2>3. InsertAt(p, Len(p) + 1, x) = q
    <3>1. p \in Seq(Accepted) /\ x \in Accepted /\ q \in Seq(Accepted) /\ Len(q) = Len(p) + 1
          /\ q[Len(p) + 1] = x /\ \A j \in 1 .. Len(p) : q[j] = p[j]
      BY <1>3, <2>1
    <3> QED BY <2>2, <3>1
  <2> QED BY <1>3, <2>3
<1>7. rope_insert(p, n, x) = q
  BY <1>2, <1>3, <1>5, <1>6 DEF rope_insert
<1> QED BY <1>3, <1>7

LEMMA ReadsNext ==
  ASSUME NEW b, NEW file, NEW i \in Nat, i >= 1, NEW n \in Nat, Reads(b, file, i, n),
         file[i] \in Seq(Accepted), n < Len(file[i])
  PROVE  Reads(bcursor_insert(b, Own, file[i][n + 1]), file, i, n + 1)
<1> PICK s, x, c, o : /\ s = file[i] /\ x = s[n + 1] /\ c = bcursor_insert(b, Own, x)
                      /\ o = b.curs[Own]
  OBVIOUS
<1> PICK w : w = width - 1
  OBVIOUS
<1>1. w \in Nat /\ Len(s) \in Nat
  BY ConstantsAssumption, LenProperties
<1>2. x \in Chars
  <2>1. n + 1 \in 1 .. Len(s)
    BY <1>1
  <2> QED BY <2>1, ElementOfSeq, AcceptedAre
<1>3. Loading(b, i) /\ Loading(c, i) /\ Sound(b) /\ Sound(c) /\ o.line = i
  <2>1. Loading(b, i)
    BY DEF Reads
  <2>2. Loading(c, i)
    BY <1>2, <2>1, StepLoading
  <2> QED BY <2>1, <2>2 DEF Loading, OwnLine
<1>4. o.pos = Len(b.str[i]) /\ b.last = i /\ b.str[i] = SubSeq(s, 1, Min2(n, w))
  BY DEF Reads
<1>5. Own \in Nat /\ Own \in AllSlots /\ bcursor_find(b, Own) = Own /\ Own # NULL
  BY <1>3, OwnFacts, AllSlotsNat DEF Own, NULL
<1>6. b.str \in Seq(Seq(Chars)) /\ i \in 1 .. Len(b.str) /\ Len(b.str[i]) = Min2(n, w)
      /\ Len(b.str) \in Nat
  <2>1. Min2(n, w) \in Nat /\ Min2(n, w) <= Len(s)
    BY <1>1 DEF Min2
  <2>2. Len(SubSeq(s, 1, Min2(n, w))) = Min2(n, w)
    BY <1>1, <2>1, ElementOfSeq, SubSeqProperties
  <2> QED BY <1>3, <1>4, <2>2, LengthTypes DEF Sound, GoodLines
<1>7. CASE Min2(n, w) >= w
  <2>1. Same(b, c)
    BY <1>2, <1>3, <1>5, <1>6, <1>7, InsertSound DEF LineLen
  <2>2. c.str = b.str /\ c.last = b.last /\ c.curs = b.curs
    BY <2>1 DEF Same, SameLines
  <2>3. Min2(n + 1, w) = Min2(n, w)
    BY <1>1, <1>7 DEF Min2
  <2> QED BY <1>3, <2>2, <2>3 DEF Reads
<1>8. CASE Min2(n, w) < w
  <2>1. n < w /\ Min2(n, w) = n /\ Min2(n + 1, w) = n + 1 /\ ~(n >= w)
    BY <1>1, <1>8 DEF Min2
  <2>2. Typed(b, c, Own, x)
    BY <1>2, <1>3, <1>5, <1>6, <2>1, InsertSound DEF LineLen
  <2> PICK r : r = rope_insert(b.str[i], o.pos, x)
    OBVIOUS
  <2>3. c.str = [b.str EXCEPT ![i] = r] /\ c.last = i
        /\ c.curs[Own] = MovedTo(o, i, o.pos + 1)
    BY <1>3, <1>4, <1>5, <2>2 DEF Typed
  <2>4. r = SubSeq(s, 1, n + 1)
    BY <1>4, <2>1, RopeAppends
  <2>5. Len(r) = n + 1
    <3>1. n + 1 \in Nat /\ n + 1 <= Len(s)
      BY <1>1
    <3> QED BY <1>1, <2>4, <3>1, ElementOfSeq, SubSeqProperties
  <2>6. c.str[i] = r /\ \A m \in 1 .. i - 1 : c.str[m] = b.str[m]
    <3>1. DOMAIN b.str = 1 .. Len(b.str)
      BY <1>6, LenProperties
    <3>2. \A m \in 1 .. i - 1 : m # i /\ m \in 1 .. Len(b.str)
      BY <1>6
    <3> QED BY <1>6, <2>3, <3>1, <3>2
  <2>7. c.curs[Own].pos = Len(c.str[i])
    BY <1>4, <1>6, <2>1, <2>3, <2>5, <2>6 DEF MovedTo
  <2> QED BY <1>3, <2>1, <2>3, <2>4, <2>6, <2>7 DEF Reads
<1>9. Min2(n, w) >= w \/ Min2(n, w) < w
  BY <1>1 DEF Min2
<1> QED BY <1>7, <1>8, <1>9

\* A line is read.
LEMMA ReadsLine ==
  ASSUME NEW b, NEW file, NEW i \in Nat, i >= 1, Reads(b, file, i, 0), file[i] \in Seq(Accepted)
  PROVE  Reads(ReadLine(b, file[i]), file, i, Len(file[i]))
<1> PICK s : s = file[i]
  OBVIOUS
<1> PICK N : N = Len(s)
  OBVIOUS
<1>0. N \in Nat
  BY LenProperties
<1> DEFINE f == CHOOSE g : LineUpTo(g, b, s, N)
<1>1. LineUpTo(f, b, s, N)
  BY <1>0, LineExists
<1>2. ReadLine(b, s) = f[N]
  BY DEF ReadLine, LineUpTo
<1> HIDE DEF f
<1>3. \A n \in 0 .. N : f[n] = IF n = 0 THEN b ELSE bcursor_insert(f[n - 1], Own, s[n])
  BY <1>1 DEF LineUpTo
<1> DEFINE T == { n \in Nat : Reads(f[n], file, i, n) }
<1>4. 0 \in T
  BY <1>0, <1>3
<1>5. ASSUME NEW n \in 0 .. N, n < N, n \in T PROVE n + 1 \in T
  <2>1. n + 1 \in 0 .. N /\ n + 1 # 0 /\ (n + 1) - 1 = n /\ n \in Nat
    BY <1>0, <1>5
  <2>2. f[n + 1] = bcursor_insert(f[n], Own, s[n + 1])
    BY <1>3, <2>1
  <2>3. Reads(f[n], file, i, n)
    BY <1>5
  <2>4. Reads(f[n + 1], file, i, n + 1)
    BY <1>5, <2>1, <2>2, <2>3, ReadsNext
  <2> QED BY <2>1, <2>4
<1>6. N \in T
  <2> HIDE DEF T
  <2>1. \A n \in 0 .. N : n \in T
    BY <1>0, <1>4, <1>5, CountUp
  <2> QED BY <1>0, <2>1
<1> QED BY <1>2, <1>6

\* A cut line is a line.
LEMMA CutSeq == ASSUME NEW s \in Seq(Chars) PROVE Cut(s) \in Seq(Chars)
<1> PICK n : n = IF Len(s) < width THEN Len(s) ELSE width - 1
  OBVIOUS
<1>1. n \in Nat /\ n <= Len(s)
  BY ConstantsAssumption, LenProperties
<1>2. SubSeq(s, 1, n) \in Seq(Chars)
  BY <1>1, PartOf
<1> QED BY <1>2 DEF Cut

LEMMA CutIs ==
  ASSUME NEW s, Len(s) \in Nat
  PROVE  SubSeq(s, 1, Min2(Len(s), width - 1)) = Cut(s)
<1>1. Min2(Len(s), width - 1) = IF Len(s) < width THEN Len(s) ELSE width - 1
  BY ConstantsAssumption DEF Min2
<1> QED BY <1>1 DEF Cut

\* A line is broken at its end, and the next one is to be read.
LEMMA ReadsBreak ==
  ASSUME NEW b, NEW file, NEW i \in Nat, i >= 1, file[i] \in Seq(Accepted),
         Reads(b, file, i, Len(file[i])), file[i + 1] \in Seq(Accepted)
  PROVE  Reads(bcursor_insert_line(b, Own), file, i + 1, 0)
<1> PICK c, o, s, N : /\ c = bcursor_insert_line(b, Own) /\ o = b.curs[Own] /\ s = b.str[i]
                      /\ N = Len(b.str)
  OBVIOUS
<1>1. Loading(b, i) /\ Loading(c, i + 1) /\ Sound(b) /\ Sound(c) /\ o.line = i /\ o.pos = Len(s)
      /\ b.last = i /\ b.server_mode = FALSE
  BY StepLoading DEF Reads, Loading, OwnLine
<1>2. Own \in Nat /\ Own \in AllSlots /\ bcursor_find(b, Own) = Own /\ HasCursor(b, Own)
  BY <1>1, OwnFacts, OwnFound
<1>3. N \in Nat /\ i \in 1 .. N /\ i + 1 \in 1 .. N /\ s \in Seq(Chars) /\ Len(s) \in Nat
  <2>1. GoodLines(b)
    BY <1>1 DEF Sound
  <2>2. N \in Nat /\ b.last < N /\ i \in 1 .. N /\ i \in Nat
    BY <1>1, <2>1, LengthTypes
  <2>3. s \in Seq(Chars) /\ Len(s) \in Nat
    BY <2>1, <2>2, LengthTypes
  <2> QED BY <1>1, <2>2, <2>3
<1>4. c.last = i + 1 /\ c.str[i + 1] = << >> /\ c.curs[Own].pos = 0
      /\ \A m \in 1 .. i : c.str[m] = b.str[m]
  <2>1. CASE Len(s) = 0
    <3>1. BrokenAbove(b, c, Own)
      BY <1>1, <1>2, <2>1, InsertLineSound
    <3>2. s = << >>
      BY <1>3, <2>1, EmptySeq
    <3>3. c.last = i + 1 /\ c.curs[Own] = Shifted(o, i)
          /\ \A m \in 1 .. N + 1 :
                c.str[m] = IF m < i THEN b.str[m] ELSE IF m = i THEN << >> ELSE b.str[m - 1]
      BY <1>1, <3>1 DEF BrokenAbove
    <3>4. i \in 1 .. N + 1 /\ i + 1 \in 1 .. N + 1 /\ ~(i + 1 < i) /\ i + 1 # i /\ (i + 1) - 1 = i
          /\ \A m \in 1 .. i : m = i \/ (m < i /\ m \in 1 .. N + 1)
      BY <1>3
    <3>5. c.curs[Own].pos = 0
      BY <1>1, <2>1, <3>3 DEF Shifted, MovedTo
    <3>6. c.str[i + 1] = << >>
      <4>1. c.str[i + 1] = b.str[(i + 1) - 1]
        BY <3>3, <3>4
      <4>2. c.str[i + 1] = b.str[i]
        BY <3>4, <4>1
      <4> QED BY <1>1, <3>2, <4>2
    <3>7. ASSUME NEW m \in 1 .. i PROVE c.str[m] = b.str[m]
      <4>1. CASE m = i
        <5>1. c.str[i] = << >>
          BY <1>3, <3>3, <3>4
        <5> QED BY <1>1, <3>2, <4>1, <5>1
      <4>2. CASE m < i /\ m \in 1 .. N + 1
        BY <3>3, <4>2
      <4> QED BY <3>4, <4>1, <4>2
    <3> QED BY <3>3, <3>5, <3>6, <3>7
  <2>2. CASE Len(s) # 0
    <3>1. BrokenBelow(b, c, Own)
      BY <1>1, <1>2, <2>2, InsertLineSound
    <3>2. Min2(Len(s), Len(s)) = Len(s)
      BY <1>3 DEF Min2
    <3>3. SubSeq(s, 1, Len(s)) = s /\ SubSeq(s, Len(s) + 1, Len(s)) = << >>
      BY <1>3, SubSeqFull, SubSeqEmpty
    <3>4. /\ c.last = b.last + 1 /\ c.str[i] = s /\ c.str[i + 1] = << >>
          /\ \A m \in 1 .. N : m < i => c.str[m] = b.str[m]
          /\ c.curs[Own] = MovedTo(o, i + 1, 0)
      BY <1>1, <1>2, <3>1, <3>2, <3>3 DEF BrokenBelow, IsSplit
    <3>5. \A m \in 1 .. i : m = i \/ (m < i /\ m \in 1 .. N)
      BY <1>3
    <3>6. c.curs[Own].pos = 0
      BY <3>4 DEF MovedTo
    <3> QED BY <1>1, <3>4, <3>5, <3>6
  <2> QED BY <2>1, <2>2
<1>5. \A m \in 1 .. (i + 1) - 1 : c.str[m] = Cut(file[m])
  <2>1. Len(file[i]) \in Nat
    BY LenProperties
  <2>2. b.str[i] = Cut(file[i])
    BY <2>1, CutIs DEF Reads
  <2>3. \A m \in 1 .. i - 1 : b.str[m] = Cut(file[m])
    BY DEF Reads
  <2>4. \A m \in 1 .. (i + 1) - 1 : m \in 1 .. i /\ (m = i \/ m \in 1 .. i - 1)
    OBVIOUS
  <2>5. ASSUME NEW m \in 1 .. (i + 1) - 1 PROVE c.str[m] = Cut(file[m])
    <3>1. c.str[m] = b.str[m]
      BY <1>4, <2>4
    <3> QED BY <2>2, <2>3, <2>4, <3>1
  <2> QED BY <2>5
<1>6. SubSeq(file[i + 1], 1, Min2(0, width - 1)) = << >> /\ Len(<< >>) = 0
  <2>1. Min2(0, width - 1) = 0
    BY ConstantsAssumption DEF Min2
  <2> QED BY <2>1, SubSeqEmpty, EmptySeq
<1> QED BY <1>1, <1>4, <1>5, <1>6 DEF Reads

\* The whole file is read.
LEMMA ReadsFile ==
  ASSUME NEW file \in Seq(Seq(Chars)), file # << >>, CleanFile(file)
  PROVE  LET b == ReadFile(file)
         IN  /\ Sound(b) /\ b.last = Len(file)
             /\ \A m \in 1 .. Len(file) : b.str[m] = Cut(file[m])
<1>0. PICK N \in Nat : N + 1 = Len(file)
  <2>1. Len(file) \in Nat /\ Len(file) >= 1
    BY ReadFileLoading
  <2>2. PICK L : L = Len(file)
    OBVIOUS
  <2>3. L - 1 \in Nat /\ (L - 1) + 1 = L
    BY <2>1, <2>2
  <2> QED BY <2>2, <2>3
<1>a. \A n \in 1 .. N + 1 : file[n] \in Seq(Accepted)
  BY <1>0 DEF CleanFile
<1> DEFINE f == CHOOSE g : FileUpTo(g, file, N + 1)
<1>1. FileUpTo(f, file, N + 1)
  BY <1>0, FileExists
<1>2. ReadFile(file) = f[N + 1]
  BY <1>0 DEF ReadFile, FileUpTo
<1> HIDE DEF f
<1>3. \A n \in 1 .. N + 1 : f[n] = IF n = 1 THEN ReadLine(BlankBuffer, file[1])
                        ELSE ReadLine(bcursor_insert_line(f[n - 1], Own), file[n])
  BY <1>1 DEF FileUpTo
<1> DEFINE T == { n \in Nat : Reads(f[n + 1], file, n + 1, Len(file[n + 1])) }
<1>4. 0 \in T
  <2>1. 1 \in 1 .. N + 1 /\ 0 + 1 = 1
    BY <1>0
  <2>2. Reads(BlankBuffer, file, 1, 0)
    <3>1. Loading(BlankBuffer, 1) /\ BlankBuffer.last = 1 /\ BlankBuffer.str[1] = << >>
          /\ BlankBuffer.curs[Own].pos = 0
      <4>1. BlankBuffer.last = 1 /\ BlankBuffer.str[1] = << >>
            /\ BlankBuffer.curs[Own] = [id |-> Own, line |-> 1, pos |-> 0]
        BY BlankSound
      <4> QED BY <4>1, BlankLoading
    <3>2. Min2(0, width - 1) = 0 /\ 1 .. 1 - 1 = {}
      BY ConstantsAssumption DEF Min2
    <3>3. SubSeq(file[1], 1, 0) = << >> /\ Len(<< >>) = 0
      BY <1>a, <2>1, SubSeqEmpty, EmptySeq
    <3> QED BY <3>1, <3>2, <3>3 DEF Reads
  <2>3. Reads(f[1], file, 1, Len(file[1]))
    BY <1>3, <1>a, <2>1, <2>2, ReadsLine
  <2> QED BY <2>1, <2>3
<1>5. ASSUME NEW n \in 0 .. N, n < N, n \in T PROVE n + 1 \in T
  <2>1. n + 2 \in 1 .. N + 1 /\ n + 1 \in 1 .. N + 1 /\ n + 2 # 1 /\ (n + 2) - 1 = n + 1
        /\ n \in Nat /\ (n + 1) + 1 = n + 2 /\ n + 1 \in Nat /\ n + 1 >= 1 /\ n + 2 \in Nat
        /\ n + 2 >= 1
    BY <1>0, <1>5
  <2>2. f[n + 2] = ReadLine(bcursor_insert_line(f[n + 1], Own), file[n + 2])
    BY <1>3, <2>1
  <2>3. file[n + 1] \in Seq(Accepted) /\ file[n + 2] \in Seq(Accepted)
    BY <1>a, <2>1
  <2>4. Reads(f[n + 1], file, n + 1, Len(file[n + 1]))
    BY <1>5
  <2>5. Reads(bcursor_insert_line(f[n + 1], Own), file, n + 2, 0)
    BY <2>1, <2>3, <2>4, ReadsBreak
  <2>6. Reads(f[n + 2], file, n + 2, Len(file[n + 2]))
    BY <2>1, <2>2, <2>3, <2>5, ReadsLine
  <2> QED BY <2>1, <2>6
<1>6. N \in T
  <2> HIDE DEF T
  <2>1. \A n \in 0 .. N : n \in T
    BY <1>0, <1>4, <1>5, CountUp
  <2> QED BY <1>0, <2>1
<1>7. Reads(f[N + 1], file, N + 1, Len(file[N + 1]))
  BY <1>6
<1>8. f[N + 1].str[N + 1] = Cut(file[N + 1])
  <2>1. Len(file[N + 1]) \in Nat
    BY <1>0, <1>a, LenProperties
  <2> QED BY <1>7, <2>1, CutIs DEF Reads
<1>9. \A m \in 1 .. N + 1 : f[N + 1].str[m] = Cut(file[m])
  <2>1. \A m \in 1 .. N + 1 : m = N + 1 \/ m \in 1 .. (N + 1) - 1
    BY <1>0
  <2> QED BY <1>7, <1>8, <2>1 DEF Reads
<1> QED BY <1>0, <1>2, <1>7, <1>9 DEF Reads, Loading

\* Climbing back changes no line.
LEMMA RewoundLines ==
  ASSUME NEW N \in Nat, NEW b, Loading(b, N + 1)
  PROVE  Rewound(b, N).str = b.str /\ Rewound(b, N).last = b.last
<1> DEFINE f == CHOOSE g : RewoundUpTo(g, b, N)
<1>1. RewoundUpTo(f, b, N)
  BY RewoundExists
<1>2. Rewound(b, N) = f[N]
  BY DEF Rewound, RewoundUpTo
<1> HIDE DEF f
<1>3. \A n \in 0 .. N : f[n] = IF n = 0 THEN b ELSE bcursor_move(f[n - 1], Own, "UP")
  BY <1>1 DEF RewoundUpTo
<1> DEFINE T == { n \in Nat : /\ Loading(f[n], N + 1 - n)
                              /\ f[n].str = b.str /\ f[n].last = b.last }
<1>4. 0 \in T
  <2>1. f[0] = b /\ N + 1 - 0 = N + 1
    BY <1>3
  <2> QED BY <2>1
<1>5. ASSUME NEW n \in 0 .. N, n < N, n \in T PROVE n + 1 \in T
  <2>1. n + 1 \in 0 .. N /\ n + 1 # 0 /\ (n + 1) - 1 = n /\ n \in Nat
        /\ N + 1 - n > 1 /\ (N + 1 - n) - 1 = N + 1 - (n + 1)
    BY <1>5
  <2>2. f[n + 1] = bcursor_move(f[n], Own, "UP")
    BY <1>3, <2>1
  <2>3. Loading(f[n], N + 1 - n)
    BY <1>5
  <2>4. Loading(f[n + 1], (N + 1 - n) - 1)
    BY <2>1, <2>2, <2>3, StepLoading
  <2>5. SameLines(f[n], f[n + 1])
    <3>1. Sound(f[n])
      BY <2>3 DEF Loading
    <3>2. /\ DOMAIN f[n] = Fields /\ IdsOfSlots(f[n].curs) /\ Own \in AllSlots
          /\ f[n].curs[Own].id = Own /\ f[n].curs[Own].pos \in Int
      <4>1. DOMAIN f[n] = Fields /\ IdsOfSlots(f[n].curs)
        BY <3>1 DEF Sound, GoodLines, GoodCursors
      <4> QED BY <3>1, <4>1, OwnFacts
    <3>3. SameLines(f[n], bcursor_move(f[n], f[n].curs[Own].id, "UP"))
      BY <3>2, MoveOneExact, OwnForemost
    <3> QED BY <2>2, <3>2, <3>3
  <2> QED BY <1>5, <2>1, <2>4, <2>5 DEF SameLines
<1>6. N \in T
  <2> HIDE DEF T
  <2>1. \A n \in 0 .. N : n \in T
    BY <1>4, <1>5, CountUp
  <2> QED BY <2>1
<1> QED BY <1>2, <1>6

\* What a worker saves is the text it reads when it is started again, each line cut
\* to the width of a line, and one empty line more, however the text came to be.
THEOREM RestartKeepsTextTheorem == Spec => []RestartKeepsText
<1>1. ASSUME Inv, Clean(buf) PROVE RestartKeepsText
  <2> PICK b, L, N : b = buf /\ L = buf.last /\ N = Len(buf.str)
    OBVIOUS
  <2> PICK file : file = buffer_save(b)
    OBVIOUS
  <2> PICK read : read = ReadFile(file)
    OBVIOUS
  <2> PICK again : again = buffer_from_file(file)
    OBVIOUS
  <2>1. Sound(b) /\ GoodLines(b) /\ b.first = 1 /\ L \in Nat /\ L >= 1 /\ N \in Nat /\ L <= N
        /\ b.str \in Seq(Seq(Chars))
    <3>1. Sound(b) /\ GoodLines(b)
      BY <1>1 DEF Inv, Sound
    <3>2. b.first = 1 /\ L \in Nat /\ L >= 1 /\ b.str \in Seq(Seq(Chars))
      BY <3>1 DEF GoodLines
    <3>3. N \in Nat /\ L < N
      BY <3>1, LengthTypes
    <3> QED BY <3>1, <3>2, <3>3
  <2>2. /\ SubSeq(b.str, 1, L) \in Seq(Seq(Chars)) /\ Len(SubSeq(b.str, 1, L)) = L
        /\ \A m \in 1 .. L : SubSeq(b.str, 1, L)[m] = b.str[m]
    <3>1. \A m \in 1 .. L : b.str[m] \in Seq(Chars)
      BY <2>1, LengthTypes
    <3> QED BY <2>1, <3>1, SubSeqProperties
  <2>3. << >> \in Seq(Chars) /\ << >> \in Seq(Accepted) /\ Len(<< >>) = 0
    BY EmptySeq
  <2>4. /\ file \in Seq(Seq(Chars)) /\ Len(file) = L + 1 /\ file[L + 1] = << >>
        /\ \A m \in 1 .. L : file[m] = b.str[m]
    <3>1. file = Append(SubSeq(b.str, 1, L), << >>)
      BY <2>1 DEF buffer_save
    <3> QED BY <2>1, <2>2, <2>3, <3>1, AppendProperties
  <2>5. \A m \in 1 .. L + 1 : m = L + 1 \/ m \in 1 .. L
    BY <2>1
  <2>6. CleanFile(file) /\ file # << >>
    <3>1. \A m \in 1 .. L : b.str[m] \in Seq(Accepted)
      BY <1>1, <2>1 DEF Clean
    <3>2. L + 1 # 0
      BY <2>1
    <3> QED BY <2>3, <2>4, <2>5, <3>1, <3>2 DEF CleanFile
  <2>7. read.last = L + 1 /\ \A m \in 1 .. L + 1 : read.str[m] = Cut(file[m])
    BY <2>4, <2>6, ReadsFile
  <2>8. Loading(read, L + 1)
    BY <2>4, <2>6, ReadFileLoading
  <2>9. again.str = read.str /\ again.last = read.last
    <3>1. (L + 1) - 1 = L
      BY <2>1
    <3> PICK back : back = Rewound(read, L)
      OBVIOUS
    <3>2. back.str = read.str /\ back.last = read.last /\ DOMAIN back = Fields
      <4>1. back.str = read.str /\ back.last = read.last
        BY <2>1, <2>8, RewoundLines
      <4>2. Loading(back, 1)
        BY <2>1, <2>8, RewoundLoading
      <4> QED BY <4>1, <4>2 DEF Loading, Sound, GoodLines
    <3>3. again = [back EXCEPT !.curs[Own].pos = 0, !.server_mode = TRUE]
      BY <2>4, <3>1 DEF buffer_from_file
    <3> QED BY <3>2, <3>3 DEF Fields
  <2>10. Cut(<< >>) = << >>
    <3>1. Len(<< >>) < width
      BY <2>3, ConstantsAssumption
    <3> QED BY <2>3, <3>1, SubSeqEmpty DEF Cut
  <2> DEFINE g == [l \in 1 .. L |-> Cut(b.str[l])]
  <2>11. /\ SubSeq(again.str, 1, L + 1) = Append(g, << >>)
    <3>1. g \in Seq(Seq(Chars)) /\ Len(g) = L /\ \A l \in 1 .. L : g[l] = Cut(b.str[l])
      <4>1. \A l \in 1 .. L : Cut(b.str[l]) \in Seq(Chars)
        BY <2>1, LengthTypes, CutSeq
      <4>2. g \in [1 .. L -> Seq(Chars)]
        BY <4>1
      <4> HIDE DEF g
      <4>3. g \in Seq(Seq(Chars)) /\ Len(g) = L
        BY <2>1, <4>2, ColumnSeq
      <4> QED BY <4>3 DEF g
    <3> HIDE DEF g
    <3> PICK t : t = SubSeq(again.str, 1, L + 1)
      OBVIOUS
    <3>2. t \in Seq(Seq(Chars)) /\ Len(t) = L + 1 /\ \A m \in 1 .. L + 1 : t[m] = read.str[m]
      <4>1. GoodLines(read)
        BY <2>8 DEF Loading, Sound
      <4>2. \A m \in 1 .. L + 1 : read.str[m] \in Seq(Chars)
        <5>1. Len(read.str) \in Nat /\ read.last < Len(read.str)
              /\ \A l \in 1 .. Len(read.str) : read.str[l] \in Seq(Chars)
          BY <4>1, LengthTypes
        <5>2. \A m \in 1 .. L + 1 : m \in 1 .. Len(read.str)
          BY <2>1, <2>7, <5>1
        <5> QED BY <5>1, <5>2
      <4>3. L + 1 \in Nat
        BY <2>1
      <4> QED BY <2>9, <4>2, <4>3, FirstOf
    <3> PICK a : a = Append(g, << >>)
      OBVIOUS
    <3>3. a \in Seq(Seq(Chars)) /\ Len(a) = L + 1 /\ a[L + 1] = << >>
          /\ \A m \in 1 .. L : a[m] = Cut(b.str[m])
      <4>1. \A h \in Seq(Seq(Chars)) : \A z \in Seq(Chars) :
               /\ Append(h, z) \in Seq(Seq(Chars)) /\ Len(Append(h, z)) = Len(h) + 1
               /\ \A m \in 1 .. Len(h) : Append(h, z)[m] = h[m]
               /\ Append(h, z)[Len(h) + 1] = z
        BY AppendProperties
      <4>2. /\ a \in Seq(Seq(Chars)) /\ Len(a) = Len(g) + 1
            /\ \A m \in 1 .. Len(g) : a[m] = g[m]
            /\ a[Len(g) + 1] = << >>
        BY <2>3, <3>1, <4>1
      <4> QED BY <3>1, <4>2
    <3>4. ASSUME NEW m \in 1 .. L + 1 PROVE t[m] = a[m]
      <4>1. t[m] = Cut(file[m])
        BY <2>7, <3>2
      <4>2. CASE m = L + 1
        <5>1. file[m] = << >> /\ a[m] = << >>
          BY <2>4, <3>3, <4>2
        <5>2. t[m] = Cut(<< >>)
          BY <4>1, <5>1
        <5> QED BY <2>10, <5>1, <5>2
      <4>3. CASE m \in 1 .. L
        <5>1. file[m] = b.str[m] /\ a[m] = Cut(b.str[m])
          BY <2>4, <3>3, <4>3
        <5> QED BY <4>1, <5>1
      <4> QED BY <2>5, <4>2, <4>3
    <3> QED BY <3>2, <3>3, <3>4, SeqEqual
  <2> QED BY <2>1, <2>7, <2>9, <2>11 DEF RestartKeepsText
<1>2. Inv /\ CleanText => RestartKeepsText
  BY <1>1 DEF CleanText
<1> QED BY <1>2, InitInv, StepInv, InitClean, StepClean, PTL DEF Spec
=============================================================================
