------------------------------- MODULE Buffer -------------------------------
(***************************************************************************)
(* The document of src/src/buffer.c as a value, and its operations as      *)
(* operators from buffers to buffers.  Both the worker and the editors     *)
(* keep one such document and apply the same operations to it.             *)
(*                                                                         *)
(* The doubly linked chain of `line' structures is a sequence; a line*     *)
(* is a position in it, l->prev is l-1, l->next is l+1, and a position     *)
(* outside 1..NumLines is NULL.  Linking a line into the chain therefore   *)
(* shifts every pointer to a later line, unlinking one shifts it back.     *)
(* The attributes of the lines are parallel sequences:                     *)
(*   lid, str, on_screen, where                                            *)
(* curs[0] is own_curs, curs[i+1] is peer_curss[i]; a NULL slot is         *)
(* NoCursor.  Left out: id and ver of the buffer, which nothing reads,     *)
(* and the scratch pad sp.                                                 *)
(***************************************************************************)
EXTENDS Integers, Sequences, SequencesExt

CONSTANTS
  Chars,            \* the bytes a key or a file can give to bcursor_insert
  Refused,          \* the ones no rope takes: NUL and what is not UTF-8
  height, width,    \* HEIGHT and WIDTH of server.c, the size of every screen
  MAX_CURSOR_NUM    \* number of peer cursor slots of a buffer

ASSUME ConstantsAssumption ==
  /\ Refused \subseteq Chars
  /\ height \in Nat /\ height >= 2
  /\ width \in Nat \ {0}
  /\ MAX_CURSOR_NUM \in Nat

CRP  == {"ABOVE", "BELLOW", "SAME"}
Dirs == {"UP", "DOWN", "LEFT", "RIGHT"}

Slots == 1..MAX_CURSOR_NUM      \* peer_curss
Own   == 0                      \* own_curs, and its id
NULL  == -1
NoCursor == [id |-> NULL, line |-> 0, pos |-> 0]
MovedTo(c, l, p) == [id |-> c.id, line |-> l, pos |-> p]

\* The sequence of e(l) for l in 1..n, as a tuple.
Column(n, e(_)) == << >> \o [l \in 1..n |-> e(l)]

Min2(x, y) == IF x <= y THEN x ELSE y

NumLines(b)     == Len(b.str)
HasPrev(b, l)   == l > 1
HasNext(b, l)   == l < NumLines(b)
LineLen(b, l)   == Len(b.str[l])
OwnLine(b)      == b.curs[Own].line
OnScreen(b, l)  == l \in 1..NumLines(b) /\ b.on_screen[l]

-----------------------------------------------------------------------------
(***************************************************************************)
(* The rope of a line is the sequence of its characters.  Positions past   *)
(* the end mean the end; NUL and bytes that are not UTF-8 are not inserted.    *)
(***************************************************************************)
rope_insert(s, pos, chr) ==
  IF chr \in Refused THEN s ELSE InsertAt(s, Min2(pos, Len(s)) + 1, chr)

rope_del(s, pos, num) ==
  LET from == Min2(pos, Len(s))
      n    == Min2(num, Len(s) - from)
  IN  SubSeq(s, 1, from) \o SubSeq(s, from + n + 1, Len(s))

(***************************************************************************)
(* What ui_update paints: the rows from top on, at most height of them,    *)
(* the place of the local cursor (NULL: no row is its line, and ypos is    *)
(* never assigned) and the peer cursors on those rows.                     *)
(***************************************************************************)
View(b) ==
  LET rows == b.top .. Min2(b.top + height - 1, NumLines(b))
  IN [ text  |-> SubSeq(b.str, b.top, Min2(b.top + height - 1, NumLines(b))),
       cursor |-> IF OwnLine(b) \in rows
                    THEN <<OwnLine(b) - b.top, b.curs[Own].pos>>
                    ELSE <<NULL, NULL>>,
       peers |-> { <<b.curs[k].line - b.top, b.curs[k].pos>> :
                     k \in { s \in Slots : /\ b.curs[s] # NoCursor
                                           /\ OnScreen(b, b.curs[s].line)
                                           /\ b.curs[s].line \in rows } } ]

Alive(b) == b.bottom <= NumLines(b)

ui_update(b) == IF b.u THEN [b EXCEPT !.screen = View(b)] ELSE b

\* The buffer painted, when what changed was or is on the screen.
PaintIf(seen, b) == IF seen THEN ui_update(b) ELSE b
PaintLine(b, l)  == PaintIf(b.on_screen[l], b)

-----------------------------------------------------------------------------
(***************************************************************************)
(* The visible window top..bottom.                                         *)
(***************************************************************************)
CanScrollUp(b)   == /\ HasPrev(b, b.bottom) /\ HasPrev(b, b.top)
                    /\ OwnLine(b) \notin {b.bottom, b.bottom - 1}
CanScrollDown(b) == /\ HasNext(b, b.top) /\ HasNext(b, b.bottom)
                    /\ OwnLine(b) \notin {b.top, b.top + 1}

buffer_scroll(b, dir) ==
  CASE dir = "UP" /\ CanScrollUp(b) ->
         [b EXCEPT !.on_screen = [@ EXCEPT ![b.bottom] = FALSE, ![b.top - 1] = TRUE],
                   !.bottom = @ - 1, !.top = @ - 1]
    [] dir = "DOWN" /\ CanScrollDown(b) ->
         [b EXCEPT !.on_screen = [@ EXCEPT ![b.top] = FALSE, ![b.bottom + 1] = TRUE],
                   !.bottom = @ + 1, !.top = @ + 1]
    [] OTHER -> b

\* The window scrolls away from the own cursor at its edge.
OffTop(b)    == IF b.top = OwnLine(b) THEN buffer_scroll(b, "UP") ELSE b
OffBottom(b) == IF b.bottom = OwnLine(b) THEN buffer_scroll(b, "DOWN") ELSE b

\* The scrolls that end buffer_trim and buffer_extend.
ScrollOffEdges(b) == OffTop(OffBottom(b))

\* mutant: the line that leaves keeps its flag
DropBottom_Flagged(b) == [b EXCEPT !.bottom = @ - 1]

DropBottom(b) == [b EXCEPT !.on_screen[b.bottom] = FALSE, !.bottom = @ - 1]
DropTop(b)    == [b EXCEPT !.on_screen[b.top] = FALSE, !.top = @ + 1]
AddBottom(b)  == [b EXCEPT !.on_screen[b.bottom + 1] = TRUE, !.bottom = @ + 1]
AddTop(b)     == [b EXCEPT !.on_screen[b.top - 1] = TRUE, !.top = @ - 1]

\* mutant: only a line at or below the own cursor makes another one leave
buffer_trim_BelowOnly(b, l) ==
  IF ~(b.on_screen[l] /\ b.where[l] \in {"SAME", "BELLOW"}) THEN b
  ELSE ScrollOffEdges(IF b.bottom # OwnLine(b) THEN DropBottom(b) ELSE DropTop(b))

\* mutant: the line that leaves may be the one of the own cursor
buffer_trim_DropsOwn(b, l) ==
  IF ~b.on_screen[l] THEN b
  ELSE ScrollOffEdges(IF b.where[l] \in {"SAME", "BELLOW"} THEN DropBottom(b) ELSE DropTop(b))

\* A visible line l was inserted: one line leaves the window.
buffer_trim(b, l) ==
  IF ~b.on_screen[l] THEN b
  ELSE ScrollOffEdges(
         IF b.where[l] \in {"SAME", "BELLOW"}
           THEN IF b.bottom # OwnLine(b) THEN DropBottom(b) ELSE DropTop(b)
           ELSE IF b.top # OwnLine(b) THEN DropTop(b) ELSE DropBottom(b))

\* The visible line l will be deleted: there is room for one line more.  With
\* no line to show above or below, bottom becomes NULL and is dereferenced;
\* it is then past the end of the chain and stays there.
buffer_extend(b, l) ==
  ScrollOffEdges(
    IF b.where[l] \in {"SAME", "BELLOW"}
      THEN IF HasNext(b, b.bottom) THEN AddBottom(b) ELSE b
      ELSE IF HasPrev(b, b.top) THEN AddTop(b) ELSE AddBottom(b))

-----------------------------------------------------------------------------
(***************************************************************************)
(* Lines.                                                                  *)
(***************************************************************************)

\* A pointer after a line was linked in at position i, or unlinked from it.
Shift(p, i)   == IF p >= i THEN p + 1 ELSE p
Unshift(p, i) == IF p > i THEN p - 1 ELSE p

\* mutant: the test of the next line forgets the lines above the own cursor
NewWhere_SameOnly(b, i) ==
  CASE i > 1 /\ i <= NumLines(b) ->
         IF b.where[i] = "SAME" THEN "ABOVE"
         ELSE IF b.where[i - 1] \in {"SAME", "BELLOW"} THEN "BELLOW" ELSE "UNINIT"
    [] i > 1 /\ i > NumLines(b)  -> "BELLOW"
    [] i = 1 /\ NumLines(b) >= 1 -> "ABOVE"
    [] OTHER                     -> "UNINIT"

\* mutant: the first line is taken to have a line above it
NewWhere_NoFirst(b, i) ==
  CASE i > 1 /\ i <= NumLines(b) ->
         IF b.where[i] \in {"SAME", "ABOVE"} THEN "ABOVE"
         ELSE IF b.where[i - 1] \in {"SAME", "BELLOW"} THEN "BELLOW" ELSE "UNINIT"
    [] i > 1 /\ i > NumLines(b)  -> "BELLOW"
    [] OTHER                     -> "UNINIT"

\* The position flag of a line linked in between i-1 and i; when neither
\* conditional of line_new assigns it, it keeps what malloc returned.
NewWhere(b, i) ==
  CASE i > 1 /\ i <= NumLines(b) ->
         IF b.where[i] \in {"SAME", "ABOVE"} THEN "ABOVE"
         ELSE IF b.where[i - 1] \in {"SAME", "BELLOW"} THEN "BELLOW" ELSE "UNINIT"
    [] i > 1 /\ i > NumLines(b)  -> "BELLOW"
    [] i = 1 /\ NumLines(b) >= 1 -> "ABOVE"
    [] OTHER                     -> "UNINIT"

line_new(b, i) ==
  LET on == i > 1 /\ i <= NumLines(b) /\ b.on_screen[i - 1] /\ b.on_screen[i]
  IN [b EXCEPT
        !.lid = InsertAt(@, i, b.line_id_cnt), !.line_id_cnt = @ + 1,
        !.str = InsertAt(@, i, << >>),
        !.on_screen = InsertAt(@, i, on),
        !.where = InsertAt(@, i, NewWhere(b, i)),
        !.first = Shift(@, i), !.last = Shift(@, i),
        !.top = Shift(@, i), !.bottom = Shift(@, i),
        !.curs = [k \in DOMAIN @ |-> MovedTo(@[k], Shift(@[k].line, i), @[k].pos)]]

line_free(b, l) ==
  [b EXCEPT
     !.lid = RemoveAt(@, l), !.str = RemoveAt(@, l),
     !.on_screen = RemoveAt(@, l), !.where = RemoveAt(@, l),
     !.first = Unshift(@, l), !.last = Unshift(@, l),
     !.top = Unshift(@, l), !.bottom = Unshift(@, l),
     !.curs = [k \in DOMAIN @ |-> MovedTo(@[k], Unshift(@[k].line, l), @[k].pos)]]

-----------------------------------------------------------------------------
(***************************************************************************)
(* Cursors.                                                                *)
(***************************************************************************)

CanUp(b, c) == HasPrev(b, c.line) /\ c.line # b.first

\* mutant: only the end of the chain stops a cursor, not the end of the text
CanDown_NullOnly(b, c) == HasNext(b, c.line)
CanDown(b, c) == HasNext(b, c.line) /\ c.line # b.last

\* The cursor c after cursor_move; the result code is which way it changed line.
cursor_move(b, c, dir) ==
  CASE dir = "UP" /\ CanUp(b, c) ->
         MovedTo(c, c.line - 1, Min2(c.pos, LineLen(b, c.line - 1)))
    [] dir = "DOWN" /\ CanDown(b, c) ->
         MovedTo(c, c.line + 1, Min2(c.pos, LineLen(b, c.line + 1)))
    [] dir = "LEFT" /\ c.pos > 0 -> MovedTo(c, c.line, c.pos - 1)
    [] dir = "LEFT" /\ c.pos <= 0 /\ CanUp(b, c) ->
         MovedTo(c, c.line - 1, LineLen(b, c.line - 1))
    [] dir = "RIGHT" /\ c.pos < LineLen(b, c.line) -> MovedTo(c, c.line, c.pos + 1)
    [] dir = "RIGHT" /\ c.pos >= LineLen(b, c.line) /\ CanDown(b, c) ->
         MovedTo(c, c.line + 1, 0)
    [] OTHER -> c

\* own_curs if it has the id, else the first slot that has it, else NULL.
bcursor_find(b, id) ==
  LET found == { k \in {Own} \cup Slots : b.curs[k].id = id }
  IN  IF found = {} THEN NULL
      ELSE CHOOSE k \in found : \A j \in found : k <= j

\* Before the own cursor moves the window scrolls if the cursor is at an edge,
\* and again after the move; then the two lines get their position flags.
ScrollBefore(b) == OffBottom(OffTop(b))

ScrollAfter(b, from, to) ==
  CASE to < from /\ b.top = to    -> buffer_scroll(b, "UP")
    [] to > from /\ b.bottom = to -> buffer_scroll(b, "DOWN")
    [] OTHER                      -> b

FlagMove(b, from, to) ==
  CASE to < from -> [b EXCEPT !.where = [@ EXCEPT ![to + 1] = "BELLOW", ![to] = "SAME"]]
    [] to > from -> [b EXCEPT !.where = [@ EXCEPT ![to - 1] = "ABOVE", ![to] = "SAME"]]
    [] OTHER     -> b

\* The own cursor becomes m.
PlaceOwn(b, m, seen) ==
  LET from == OwnLine(b)
      b1   == ScrollAfter([b EXCEPT !.curs[Own] = m], from, m.line)
  IN  PaintIf(seen \/ b.on_screen[m.line], FlagMove(b1, from, m.line))

StepOwn(b, dir, seen) == PlaceOwn(b, cursor_move(b, b.curs[Own], dir), seen)

\* bcursor_move for the own cursor.
MoveOwn(b, dir) == StepOwn(ScrollBefore(b), dir, b.on_screen[OwnLine(b)])

\* The cursors of the peers in S become those in curs.
PlacePeers(b, S, curs) ==
  PaintIf(\E k \in S : b.on_screen[b.curs[k].line] \/ b.on_screen[curs[k].line],
          [b EXCEPT !.curs = curs])

\* bcursor_move for each of the peers in S, whose ids are distinct.
MovePeers(b, S, dir) ==
  PlacePeers(b, S, [k \in DOMAIN b.curs |->
                      IF k \in S THEN cursor_move(b, b.curs[k], dir) ELSE b.curs[k]])

bcursor_move(b, id, dir) ==
  LET k == bcursor_find(b, id)
  IN  IF k = Own THEN MoveOwn(b, dir) ELSE MovePeers(b, {k}, dir)

-----------------------------------------------------------------------------
(***************************************************************************)
(* The operations a cursor performs on the buffer.  All but bcursor_insert *)
(* dereference the cursor they look up: they need HasCursor(b, id).        *)
(***************************************************************************)
HasCursor(b, id) == bcursor_find(b, id) # NULL

\* Every cursor other than k, on the same line as c and right of position p.
RightOf(b, k, p) ==
  { j \in {Own} \cup Slots : /\ j # k /\ b.curs[j] # NoCursor
                            /\ b.curs[j].line = b.curs[k].line
                            /\ p < b.curs[j].pos }

Advance(c, d) == MovedTo(c, c.line, c.pos + d)

AddPos(b, S, d) ==
  [b EXCEPT !.curs = [k \in DOMAIN @ |-> IF k \in S THEN Advance(@[k], d) ELSE @[k]]]

\* mutant: compared with the position before it advanced
bcursor_insert_OldPos(b, id, chr) ==
  LET k  == bcursor_find(b, id)
      c  == b.curs[k]
      b1 == [b EXCEPT !.str[c.line] = rope_insert(@, c.pos, chr),
                      !.curs[k] = Advance(@, 1)]
  IN CASE k = NULL -> b
       [] k # NULL /\ LineLen(b, c.line) >= width - 1 -> ui_update(b)
       [] OTHER -> ui_update(AddPos(b1, RightOf(b1, k, c.pos), 1))

\* A full line takes no character.  The cursors to the right are compared
\* with the position the inserting cursor has after it advanced.
bcursor_insert(b, id, chr) ==
  LET k  == bcursor_find(b, id)
      c  == b.curs[k]
      b1 == [b EXCEPT !.str[c.line] = rope_insert(@, c.pos, chr),
                      !.curs[k] = Advance(@, 1)]
  IN CASE k = NULL -> b
       [] k # NULL /\ LineLen(b, c.line) >= width - 1 -> ui_update(b)
       [] OTHER -> ui_update(AddPos(b1, RightOf(b1, k, c.pos + 1), 1))

\* In server mode the own cursor stays at the start of the text.
StayAtStart(b) ==
  IF b.server_mode /\ OwnLine(b) # b.first THEN MoveOwn(b, "UP") ELSE b

\* Cursor k at position 0: the new line goes above its line.
LinkAbove(b, l) ==
  IF l = b.first THEN [line_new(b, l) EXCEPT !.first = l] ELSE line_new(b, l)

OwnScrollsUp(b, k) == IF k = Own THEN buffer_scroll(b, "UP") ELSE b

InsertLineAbove(b, k) ==
  LET l  == b.curs[k].line
      b1 == buffer_trim(LinkAbove(b, l), l)
  IN  PaintLine(StayAtStart(OwnScrollsUp(b1, k)), l)

\* Cursor k inside or at the end of its line: the text to its right and the
\* cursors there go to a new line below.
LinkBelow(b, l) ==
  IF l = b.last THEN [line_new(b, l + 1) EXCEPT !.last = l + 1] ELSE line_new(b, l + 1)

SplitAt(b, l, s, at) ==
  [b EXCEPT !.str = [@ EXCEPT ![l] = SubSeq(s, 1, at), ![l + 1] = SubSeq(s, at + 1, Len(s))]]

OwnDown(b, R) == IF Own \in R THEN MoveOwn(b, "DOWN") ELSE b

CarryDown(b, R, d) == MovePeers(OwnDown(AddPos(b, R, -d), R), R \ {Own}, "DOWN")

InsertLineBelow(b, k) ==
  LET c  == b.curs[k]
      l  == c.line + 1
      s  == b.str[c.line]
      R  == IF c.pos = Len(s) THEN {} ELSE RightOf(b, k, c.pos)
      b1 == SplitAt(LinkBelow(b, c.line), c.line, s, Min2(c.pos, Len(s)))
      b2 == [CarryDown(b1, R, c.pos) EXCEPT !.curs[k] = MovedTo(@, c.line, 0)]
  IN  PaintLine(bcursor_move(buffer_trim(b2, l), c.id, "DOWN"), l)

\* mutant: the new line is not counted
bcursor_insert_line_Uncounted(b, id) ==
  LET k == bcursor_find(b, id)
  IN  IF b.curs[k].pos = 0 THEN InsertLineAbove(b, k) ELSE InsertLineBelow(b, k)

bcursor_insert_line(b, id) ==
  LET k  == bcursor_find(b, id)
      b1 == [b EXCEPT !.num_lines = @ + 1]
  IN  IF b.curs[k].pos = 0 THEN InsertLineAbove(b1, k) ELSE InsertLineBelow(b1, k)

\* A line that goes makes room in the window, and neither end of the window
\* may be it.
MakeRoom(b, l) == IF b.on_screen[l] THEN buffer_extend(b, l) ELSE b
LeaveTop(b, l) ==
  IF l = b.top THEN [b EXCEPT !.top = l - 1, !.on_screen[l - 1] = TRUE] ELSE b
LeaveBottom(b, l) ==
  IF l = b.bottom THEN [b EXCEPT !.bottom = l + 1, !.on_screen[l + 1] = TRUE] ELSE b
LeaveWindow(b, l) == LeaveBottom(LeaveTop(MakeRoom(b, l), l), l)
LeaveLast(b, l)   == IF l = b.last THEN [b EXCEPT !.last = l - 1] ELSE b

\* The cursors on a line other than the first go up.
OwnUp(b, l)   == IF OwnLine(b) = l THEN MoveOwn(b, "UP") ELSE b
PeersUp(b, l) == MovePeers(b, { k \in Slots : b.curs[k].line = l }, "UP")
CursorsUp(b, l) == IF HasPrev(b, l) THEN PeersUp(OwnUp(b, l), l) ELSE b

buffer_deletel(b, l) == line_free(CursorsUp(LeaveLast(LeaveWindow(b, l), l), l), l)

\* mutant: the cursors at the new position are taken for cursors right of it
DelChar_AtOrRight(b, k) ==
  LET c  == b.curs[k]
      b1 == [b EXCEPT !.str[c.line] = rope_del(@, c.pos - 1, 1), !.curs[k] = Advance(@, -1)]
  IN  AddPos(b1, RightOf(b1, k, c.pos - 2), -1)

\* Cursor k right of a character: that character goes.
DelChar(b, k) ==
  LET c  == b.curs[k]
      b1 == [b EXCEPT !.str[c.line] = rope_del(@, c.pos - 1, 1), !.curs[k] = Advance(@, -1)]
  IN  AddPos(b1, RightOf(b1, k, c.pos - 1), -1)

\* The cursors on line l but k go to the line above, d positions to the right.
OwnJoins(b, k, l, d) ==
  IF k # Own /\ OwnLine(b) = l THEN AddPos(MoveOwn(b, "UP"), {Own}, d) ELSE b
PeersJoin(b, k, l, d) ==
  LET P == { j \in Slots \ {k} : b.curs[j] # NoCursor /\ b.curs[j].line = l }
  IN  AddPos(MovePeers(b, P, "UP"), P, d)

\* The line below that of cursor k, which is at the end of its own, is joined
\* to it: its text and the cursors on it are taken over.
JoinNext(b, k) ==
  LET c  == b.curs[k]
      l  == c.line + 1
      b1 == [b EXCEPT !.last = IF l = @ THEN c.line ELSE @, !.str[c.line] = @ \o b.str[l]]
  IN  buffer_deletel(PeersJoin(OwnJoins(b1, k, l, c.pos), k, l, c.pos), l)

\* Cursor k at the start of a line that is not the first.
JoinLines(b, k) ==
  JoinNext(bcursor_move([b EXCEPT !.num_lines = @ - 1], b.curs[k].id, "LEFT"), k)

\* mutant: only a joined line is painted
bcursor_del_JoinPaints(b, id) ==
  LET k == bcursor_find(b, id)
      c == b.curs[k]
  IN CASE c.pos > 0 -> DelChar(b, k)
       [] c.pos = 0 /\ c.line = b.first -> b
       [] OTHER -> ui_update(JoinLines(b, k))

\* Painted if the line of cursor k was or is on the screen.
PaintCursor(b, k, seen) == PaintIf(seen \/ b.on_screen[b.curs[k].line], b)

bcursor_del(b, id) ==
  LET k == bcursor_find(b, id)
      c == b.curs[k]
  IN IF c.pos = 0 /\ c.line = b.first THEN b
     ELSE PaintCursor(IF c.pos > 0 THEN DelChar(b, k) ELSE JoinLines(b, k), k,
                      b.on_screen[c.line])

-----------------------------------------------------------------------------
(***************************************************************************)
(* Cursors come and go.                                                    *)
(***************************************************************************)

\* The line with an id among first..last, searched from the end; 0 is NULL.
bline_find(b, id) ==
  LET found == { l \in b.first .. b.last : b.lid[l] = id }
  IN  IF found = {} THEN 0 ELSE CHOOSE l \in found : \A m \in found : m <= l

FreeSlots(b) == { k \in Slots : b.curs[k] = NoCursor }

\* With no free slot the new cursor is dropped.
bcursor_new(b, id, lid, pos) ==
  LET l  == bline_find(b, lid)
      c  == [id |-> id, line |-> l, pos |-> pos]
      k  == CHOOSE s \in FreeSlots(b) : \A t \in FreeSlots(b) : s <= t
      b1 == [b EXCEPT !.curs[k] = c]
  IN CASE id = Own                           -> [b EXCEPT !.curs[Own] = c]
       [] id # Own /\ FreeSlots(b) = {} -> b
       [] OTHER -> IF b.on_screen[l] THEN ui_update(b1) ELSE b1

bcursor_copy_own(b, id) ==
  bcursor_new(b, id, b.lid[OwnLine(b)], b.curs[Own].pos)

\* mutant: the slot keeps the freed cursor
bcursor_free_Dangling(b, id) ==
  IF bcursor_find(b, id) = Own THEN b ELSE ui_update(b)

bcursor_free(b, id) ==
  LET k  == bcursor_find(b, id)
      b1 == [b EXCEPT !.curs[k] = NoCursor]
  IN  IF k = Own THEN b
      ELSE IF b.on_screen[b.curs[k].line] THEN ui_update(b1) ELSE b1

-----------------------------------------------------------------------------
(***************************************************************************)
(* Where buffers come from.                                                *)
(***************************************************************************)

\* One pass over the chain: lines are visible from top to bottom, and get
\* their position flag; it is not switched to BELLOW when the own cursor is
\* on the first line.
binit_onscreen_info(b) ==
  [b EXCEPT
     !.on_screen = Column(NumLines(b), LAMBDA l :
        b.top <= l /\ ~(b.top < b.bottom /\ b.bottom < l)),
     !.where = Column(NumLines(b), LAMBDA l :
        CASE OwnLine(b) = b.first \/ OwnLine(b) = l -> "SAME"
          [] OwnLine(b) # b.first /\ l < OwnLine(b) -> "ABOVE"
          [] OwnLine(b) # b.first /\ l > OwnLine(b) -> "BELLOW")]

NoScreen == [text |-> << >>, cursor |-> <<NULL, NULL>>, peers |-> {}]

\* buffer_from_file before it reads the file: height empty lines, of which
\* only the first belongs to the text.
BlankBuffer ==
  binit_onscreen_info(
    [ lid |-> Column(height, LAMBDA l : l - 1), line_id_cnt |-> height,
      str |-> Column(height, LAMBDA l : << >>), num_lines |-> height,
      on_screen |-> << >>, where |-> << >>,
      first |-> 1, last |-> 1, top |-> 1, bottom |-> height,
      curs |-> [k \in {Own} \cup Slots |->
                  IF k = Own THEN [id |-> Own, line |-> 1, pos |-> 0] ELSE NoCursor],
      u |-> FALSE, server_mode |-> FALSE, screen |-> NoScreen ])

\* Reading a file, the sequence of its lines, is typing it at the own cursor,
\* which then climbs back as many lines as were broken.
ReadLine(b, s) ==
  LET upTo[n \in 0 .. Len(s)] ==
        IF n = 0 THEN b ELSE bcursor_insert(upTo[n - 1], Own, s[n])
  IN upTo[Len(s)]

ReadFile(file) ==
  LET upTo[n \in 1 .. Len(file)] ==
        IF n = 1 THEN ReadLine(BlankBuffer, file[1])
                 ELSE ReadLine(bcursor_insert_line(upTo[n - 1], Own), file[n])
  IN upTo[Len(file)]

Rewound(b, lines) ==
  LET upTo[n \in 0 .. lines] == IF n = 0 THEN b ELSE bcursor_move(upTo[n - 1], Own, "UP")
  IN upTo[lines]

buffer_from_file(file) ==
  [Rewound(ReadFile(file), Len(file) - 1) EXCEPT !.curs[Own].pos = 0, !.server_mode = TRUE]

\* mutant: the reader stops one id early
SerializedPeers_Short(b) ==
  { k \in Slots : b.curs[k] # NoCursor /\ b.curs[k].id < MAX_CURSOR_NUM - 1 }

\* The peers of a serialized buffer are keyed by cursor id, of two with one id
\* the later is written; the reader looks for the ids below MAX_CURSOR_NUM in
\* order and fills its slots from the first.
SerializedPeers(b) ==
  { k \in Slots : /\ b.curs[k] # NoCursor /\ b.curs[k].id < MAX_CURSOR_NUM
                  /\ \A j \in Slots : j > k => b.curs[j].id # b.curs[k].id }

Rank(b, k) == Cardinality({ j \in SerializedPeers(b) : b.curs[j].id <= b.curs[k].id })

\* What is sent of a buffer: the chain, the marks on it and the cursors, but neither
\* the flags of the lines nor the screen.
buffer_serialize(b) ==
  [b EXCEPT !.on_screen = << >>, !.where = << >>, !.screen = NoScreen]

\* The buffer an editor builds from what it is sent.  Lines are found
\* again by id: bottom among all lines, last and top up to the last one.
buffer_deserialize(b) ==
  LET all     == [b EXCEPT !.last = NumLines(b)]
      l1      == [b EXCEPT !.last = bline_find(all, b.lid[b.last]),
                           !.bottom = bline_find(all, b.lid[b.bottom])]
      Find(l) == bline_find(l1, b.lid[l])
      Peer(k) == { j \in SerializedPeers(b) : Rank(b, j) = k }
      Copy(k) == [b.curs[k] EXCEPT !.line = Find(@)]
  IN ui_update(binit_onscreen_info(
       [l1 EXCEPT
          !.top = Find(@),
          !.curs = [k \in DOMAIN @ |->
             IF k = Own THEN Copy(Own)
             ELSE IF Peer(k) = {} THEN NoCursor ELSE Copy(CHOOSE j \in Peer(k) : TRUE)],
          !.u = TRUE, !.server_mode = FALSE]))

\* mutant: the last line is left out
buffer_save_NoLast(b) == SubSeq(b.str, b.first, b.last)

\* The file that is written: a newline follows every line, the last one too, and
\* what follows it is the last line of the file.
buffer_save(b) == Append(SubSeq(b.str, b.first, b.last), << >>)
=============================================================================
