------------------------------ MODULE Replica -------------------------------
(***************************************************************************)
(* The life of one replica of a document.  A worker allocates a blank      *)
(* buffer, reads the file into it with its own cursor (buffer_from_file),  *)
(* moves that cursor back to the start and then serves: cursors of users   *)
(* come, edit and go (handle_msg of server.c).  At any moment of its       *)
(* service an editor may open the document; from there on the behaviour    *)
(* follows the editor's copy, on which the local user types                *)
(* (handle_input of editor.c) and the other users' operations arrive       *)
(* (handle_msg of editor.c).                                               *)
(*                                                                         *)
(* Messages come from members: users who were given a cursor.  A member    *)
(* has one session, so it is given one only once.                          *)
(*                                                                         *)
(* Bounds: MaxTextLines lines of text, MaxTextChars characters in all, and *)
(* nothing is inserted while a cursor is at position MaxTextChars.         *)
(***************************************************************************)
EXTENDS Buffer

CONSTANTS
  Users,            \* user ids, line numbers of userdata.txt
  Unsendable,       \* the refused bytes that no message can carry
  MaxTextLines, MaxTextChars

ASSUME ReplicaAssumption ==
  /\ Users \subseteq Nat \ {0}
  /\ Unsendable \subseteq Refused

VARIABLES
  buf,      \* the buffer
  phase,    \* what the replica is doing
  upcnt,    \* lines read by buffer_from_file, still to be climbed back
  members   \* users whose operations this replica receives

vars == <<buf, phase, upcnt, members>>

Phases  == {"loading", "rewinding", "worker", "editor", "closed", "crashed"}
Serving == phase \in {"worker", "editor"}

Init ==
  /\ buf = BlankBuffer
  /\ phase = "loading"
  /\ upcnt = 0
  /\ members = {}

\* The bounds.
RoomForLine == buf.last < MaxTextLines
RoomForChar ==
  /\ FoldLeft(LAMBDA n, s : n + Len(s), 0, buf.str) < MaxTextChars
  /\ \A k \in {Own} \cup Slots : buf.curs[k].pos < MaxTextChars

-----------------------------------------------------------------------------
(***************************************************************************)
(* buffer_from_file                                                        *)
(***************************************************************************)
ReadChar(chr) ==
  /\ phase = "loading" /\ RoomForChar
  /\ buf' = bcursor_insert(buf, Own, chr)
  /\ UNCHANGED <<phase, upcnt, members>>

ReadNewline ==
  /\ phase = "loading" /\ RoomForLine
  /\ buf' = bcursor_insert_line(buf, Own)
  /\ upcnt' = upcnt + 1
  /\ UNCHANGED <<phase, members>>

EndOfFile ==
  /\ phase = "loading"
  /\ phase' = "rewinding"
  /\ UNCHANGED <<buf, upcnt, members>>

RewindLine ==
  /\ phase = "rewinding" /\ upcnt > 0
  /\ buf' = bcursor_move(buf, Own, "UP")
  /\ upcnt' = upcnt - 1
  /\ UNCHANGED <<phase, members>>

\* mutant: the own cursor keeps the position it was climbed back to
Loaded_KeepsPos ==
  /\ phase = "rewinding" /\ upcnt = 0
  /\ buf' = [buf EXCEPT !.server_mode = TRUE]
  /\ phase' = "worker"
  /\ UNCHANGED <<upcnt, members>>

Loaded ==
  /\ phase = "rewinding" /\ upcnt = 0
  /\ buf' = [buf EXCEPT !.curs[Own].pos = 0, !.server_mode = TRUE]
  /\ phase' = "worker"
  /\ UNCHANGED <<upcnt, members>>

-----------------------------------------------------------------------------
(***************************************************************************)
(* Operations of other users, from their messages.                         *)
(***************************************************************************)

\* FILE_REQUEST at the worker, ADD_CURSOR at an editor.
AddCursor(u) ==
  /\ Serving /\ u \notin members
  /\ buf' = IF phase = "worker" THEN bcursor_copy_own(buf, u)
                                ELSE bcursor_new(buf, u, buf.lid[buf.first], 0)
  /\ members' = members \cup {u}
  /\ UNCHANGED <<phase, upcnt>>

\* QUIT at the worker, DELETE_CURSOR at an editor.
DeleteCursor(u) ==
  /\ Serving /\ u \in members /\ HasCursor(buf, u)
  /\ buf' = bcursor_free(buf, u)
  /\ members' = members \ {u}
  /\ UNCHANGED <<phase, upcnt>>

\* A member without a cursor inserts nothing.
Insert(u, chr) ==
  /\ Serving /\ u \in members /\ RoomForChar
  /\ buf' = bcursor_insert(buf, u, chr)
  /\ UNCHANGED <<phase, upcnt, members>>

InsertLine(u) ==
  /\ Serving /\ u \in members /\ HasCursor(buf, u) /\ RoomForLine
  /\ buf' = bcursor_insert_line(buf, u)
  /\ UNCHANGED <<phase, upcnt, members>>

Delete(u) ==
  /\ Serving /\ u \in members /\ HasCursor(buf, u)
  /\ Alive(bcursor_del(buf, u))
  /\ buf' = bcursor_del(buf, u)
  /\ UNCHANGED <<phase, upcnt, members>>

MoveCursor(u, dir) ==
  /\ Serving /\ u \in members /\ HasCursor(buf, u)
  /\ buf' = bcursor_move(buf, u, dir)
  /\ UNCHANGED <<phase, upcnt, members>>

-----------------------------------------------------------------------------
(***************************************************************************)
(* An editor opens the document, and its user types.                       *)
(***************************************************************************)
Open ==
  /\ phase = "worker"
  /\ buf' = buffer_deserialize(buffer_serialize(buf))
  /\ phase' = "editor"
  /\ UNCHANGED <<upcnt, members>>

KeyChar(chr) ==
  /\ phase = "editor" /\ RoomForChar
  /\ buf' = bcursor_insert(buf, Own, chr)
  /\ UNCHANGED <<phase, upcnt, members>>

KeyEnter ==
  /\ phase = "editor" /\ RoomForLine
  /\ buf' = bcursor_insert_line(buf, Own)
  /\ UNCHANGED <<phase, upcnt, members>>

KeyBackspace ==
  /\ phase = "editor"
  /\ Alive(bcursor_del(buf, Own))
  /\ buf' = bcursor_del(buf, Own)
  /\ UNCHANGED <<phase, upcnt, members>>

KeyArrow(dir) ==
  /\ phase = "editor"
  /\ buf' = bcursor_move(buf, Own, dir)
  /\ UNCHANGED <<phase, upcnt, members>>

\* ESC frees the buffer and ends the editor.
KeyEscape ==
  /\ phase = "editor"
  /\ phase' = "closed"
  /\ UNCHANGED <<buf, upcnt, members>>

-----------------------------------------------------------------------------
(***************************************************************************)
(* What ends the process.                                                  *)
(***************************************************************************)
Crash == phase' = "crashed" /\ UNCHANGED <<buf, upcnt, members>>

\* b->u is read before it is assigned: by every insertion of buffer_from_file
\* and by bcursor_new in buffer_deserialize, for a peer on the first line,
\* whose on_screen is not assigned either.  What malloc returned there may be
\* NULL, and the reading has no effect, or not.
WildUi ==
  /\ \/ phase = "loading"
     \/ phase = "worker" /\ \E k \in SerializedPeers(buf) : buf.curs[k].line = buf.first
  /\ Crash

\* All operations but INSERT dereference the cursor of the member.
NullCursor(u) ==
  /\ Serving /\ u \in members /\ ~HasCursor(buf, u)
  /\ Crash

\* Whose delete would dereference a NULL bottom.
NullBottom(u) == HasCursor(buf, u) /\ ~Alive(bcursor_del(buf, u))

DeleteWithoutBottom ==
  /\ \/ phase = "worker" /\ \E u \in members : NullBottom(u)
     \/ phase = "editor" /\ \E u \in members \cup {Own} : NullBottom(u)
  /\ Crash

\* The message of an unsendable byte has no payload; payload[0] is read.
NullPayload(u) ==
  /\ Serving /\ u \in members /\ Unsendable # {}
  /\ Crash

-----------------------------------------------------------------------------
Next ==
  \/ \E chr \in Chars : ReadChar(chr) \/ KeyChar(chr)
  \/ ReadNewline \/ EndOfFile \/ RewindLine \/ Loaded \/ Open
  \/ KeyEnter \/ KeyBackspace \/ KeyEscape
  \/ \E dir \in Dirs : KeyArrow(dir)
  \/ WildUi \/ DeleteWithoutBottom
  \/ \E u \in Users :
       \/ AddCursor(u) \/ DeleteCursor(u) \/ InsertLine(u) \/ Delete(u)
       \/ NullCursor(u) \/ NullPayload(u)
       \/ \E chr \in Chars \ Unsendable : Insert(u, chr)
       \/ \E dir \in Dirs : MoveCursor(u, dir)

Spec == Init /\ [][Next]_vars

-----------------------------------------------------------------------------
(***************************************************************************)
(* Properties.                                                             *)
(***************************************************************************)
Cursors == { k \in {Own} \cup Slots : buf.curs[k] # NoCursor }

\* The attributes of lines are there for every line, and no position flag is
\* ever one that line_new left uninitialised.
TypeOK ==
  /\ phase \in Phases /\ upcnt \in Nat /\ members \subseteq Users
  /\ buf.str \in Seq(Seq(Chars)) /\ buf.lid \in Seq(Nat)
  /\ buf.where \in Seq(CRP) /\ buf.on_screen \in Seq(BOOLEAN)
  /\ Len(buf.lid) = NumLines(buf) /\ Len(buf.where) = NumLines(buf)
  /\ Len(buf.on_screen) = NumLines(buf)

\* Whoever edits what, every cursor stays on a line of the text, at a position
\* that line has (the cursor arithmetic of bcursor_insert, _insert_line, _del).
CursorsInText ==
  \A k \in Cursors :
    /\ buf.curs[k].line \in buf.first .. buf.last
    /\ buf.curs[k].pos \in 0 .. LineLen(buf, buf.curs[k].line)

\* Even with bytes that advance a cursor past the end of its line, every cursor
\* is on a line of the text.
CursorsOnLines == \A k \in Cursors : buf.curs[k].line \in buf.first .. buf.last

\* The chain is the text followed by the height - 1 empty lines it was
\* allocated with, and num_lines counts it.
ChainShape ==
  /\ buf.first = 1
  /\ NumLines(buf) = buf.last + height - 1
  /\ buf.num_lines = NumLines(buf)
  /\ \A l \in buf.last + 1 .. NumLines(buf) : buf.str[l] = << >>

\* Scrolling, trimming and extending keep top and bottom inside the chain, and
\* exactly the lines from top to bottom are flagged on_screen.
WindowMatchesFlags ==
  /\ 1 <= buf.top /\ buf.top <= buf.bottom /\ buf.bottom <= NumLines(buf)
  /\ \A l \in 1..NumLines(buf) : buf.on_screen[l] <=> l \in buf.top .. buf.bottom

\* The local cursor never leaves the window, whoever inserts or deletes lines.
OwnInWindow == OwnLine(buf) \in buf.top .. buf.bottom

\* The line of the local cursor is SAME, and every line above it ABOVE.
FlagsUpToOwn ==
  /\ buf.where[OwnLine(buf)] = "SAME"
  /\ \A l \in 1 .. OwnLine(buf) - 1 : buf.where[l] = "ABOVE"

\* What the local user does is on the screen at once, whatever peers did before that was
\* not painted: a key leaves the screen as ui_update would paint it, unless it does nothing
\* at all, as a backspace at the start of the text.
LocalKey ==
  \/ \E chr \in Chars : KeyChar(chr)
  \/ \E dir \in Dirs : KeyArrow(dir)
  \/ KeyEnter \/ KeyBackspace
LocalKeysPainted == [][LocalKey => buf'.screen = View(buf')]_vars

\* No delete of a user makes the worker, which serves them all, lose the bottom
\* of its window.  (An editor can, see DeleteWithoutBottom.)
WorkerKeepsBottom == phase = "worker" => \A u \in members : ~NullBottom(u)

\* Users insert lines above the worker's own cursor and delete its line, yet it
\* stays at the start: joiners get it as their own (FILE_RESPONSE), and the
\* others create the joiner's cursor at the start (ADD_CURSOR).
WorkerCursorAtStart ==
  phase = "worker" => buf.curs[Own].line = buf.first /\ buf.curs[Own].pos = 0

\* A worker that is ended by SIGINT and forked again has the text it had, whatever was
\* done to it: no line is lost or comes twice (buffer_save, buffer_from_file).  But what
\* joining made longer than a line may be is cut, and there is one empty line more.
Cut(s) == SubSeq(s, 1, IF Len(s) < width THEN Len(s) ELSE width - 1)
RestartKeepsText ==
  phase = "worker" =>
    LET again == buffer_from_file(buffer_save(buf))
    IN SubSeq(again.str, 1, again.last)
         = Append([l \in buf.first .. buf.last |-> Cut(buf.str[l])], << >>)

\* A cursor is only ever a member's, and a member has at most one, however many
\* were dropped for want of a slot or lost when the buffer was serialized.
OnlyMembersHaveCursors ==
  Serving =>
    /\ \A k \in Cursors \ {Own} : buf.curs[k].id \in members
    /\ \A j, k \in Cursors : buf.curs[j].id = buf.curs[k].id => j = k

\* Whoever may send operations has a cursor for them: bcursor_new and buffer_deserialize
\* find a place for each, up to the user with the greatest id that there is a slot for.
MembersHaveCursors == Serving => \A u \in members : HasCursor(buf, u)

\* What an editor or worker does to its buffer is what Document promises.  The
\* cursor of a serving worker stands for nobody.
CursorOf(u) == buf.curs[bcursor_find(buf, u)]
DocText == SubSeq(buf.str, buf.first, buf.last)
DocCursors == [u \in members \cup (IF phase = "worker" THEN {} ELSE {Own}) |->
                 [line |-> CursorOf(u).line, pos |-> CursorOf(u).pos]]
Document_ == INSTANCE Document WITH
  Ids <- {Own} \cup Users, Author <- Own, Letters <- Chars, MaxLength <- width - 1,
  text <- DocText, cursors <- DocCursors
ImplementsDocument == Document_!Spec
=============================================================================
