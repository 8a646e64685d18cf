---------------------------- MODULE BufferProofs ----------------------------
(***************************************************************************)
(* Lemmas about the operations of Buffer: which of them touch only the     *)
(* window, where a cursor ends up, and that every operation keeps a        *)
(* document sound (Sound below) whatever its size and its cursors.         *)
(***************************************************************************)
EXTENDS Buffer, SequenceTheorems, FiniteSetTheorems, WellFoundedInduction, TLAPS

Fields == {"lid", "line_id_cnt", "str", "num_lines", "on_screen", "where",
           "first", "last", "top", "bottom", "curs", "u", "server_mode", "screen"}

\* c has the lines of b, and its cursors too.
SameLines(b, c) ==
  /\ DOMAIN b = Fields /\ DOMAIN c = Fields
  /\ c.lid = b.lid /\ c.line_id_cnt = b.line_id_cnt
  /\ c.str = b.str /\ c.num_lines = b.num_lines
  /\ c.first = b.first /\ c.last = b.last /\ c.server_mode = b.server_mode

Same(b, c) == SameLines(b, c) /\ c.curs = b.curs

\* Every byte can be inserted.
Lossless == Refused = {}

-----------------------------------------------------------------------------
(***************************************************************************)
(* Painting, scrolling, trimming and extending touch only the window.      *)
(***************************************************************************)
LEMMA SameRefl == ASSUME NEW b, DOMAIN b = Fields PROVE Same(b, b)
  BY DEF Same, SameLines

\* Two operations that touch only the window, one after the other, touch only it.
LEMMA SameTrans ==
  ASSUME NEW a, NEW b, NEW c, Same(a, b), Same(b, c) PROVE Same(a, c)
  BY DEF Same, SameLines

\* Two operations that touch only cursors and the window, one after the other.
LEMMA SameLinesTrans ==
  ASSUME NEW a, NEW b, NEW c, SameLines(a, b), SameLines(b, c) PROVE SameLines(a, c)
  BY DEF SameLines

\* buffer_scroll touches only the window.
LEMMA ScrollSame ==
  ASSUME NEW b, DOMAIN b = Fields, NEW dir PROVE Same(b, buffer_scroll(b, dir))
<1>1. \A o, n, m : Same(b, [b EXCEPT !.on_screen = o, !.bottom = n, !.top = m])
  BY DEF Same, SameLines, Fields
<1>2. CASE dir = "UP" /\ CanScrollUp(b)
  BY <1>1, <1>2 DEF buffer_scroll
<1>3. CASE dir = "DOWN" /\ CanScrollDown(b)
  BY <1>1, <1>3 DEF buffer_scroll
<1>4. CASE ~(dir = "UP" /\ CanScrollUp(b)) /\ ~(dir = "DOWN" /\ CanScrollDown(b))
  BY <1>4, SameRefl DEF buffer_scroll
<1> QED BY <1>2, <1>3, <1>4

\* ui_update touches only the screen.
LEMMA UiSame ==
  ASSUME NEW b, DOMAIN b = Fields PROVE Same(b, ui_update(b))
  BY DEF Same, SameLines, ui_update, Fields

\* Taking a line into the window or out of it touches only the window.
LEMMA WindowSame ==
  ASSUME NEW b, DOMAIN b = Fields
  PROVE  /\ Same(b, DropBottom(b)) /\ Same(b, DropTop(b))
         /\ Same(b, AddBottom(b)) /\ Same(b, AddTop(b))
  BY DEF Same, SameLines, DropBottom, DropTop, AddTop, AddBottom, Fields

\* Scrolling away from an edge touches only the window.
LEMMA OffEdgeSame ==
  ASSUME NEW b, DOMAIN b = Fields PROVE Same(b, OffTop(b)) /\ Same(b, OffBottom(b))
  BY ScrollSame, SameRefl DEF OffTop, OffBottom

\* So do the scrolls that end buffer_trim and buffer_extend.
LEMMA ScrollOffEdgesSame ==
  ASSUME NEW b, DOMAIN b = Fields PROVE Same(b, ScrollOffEdges(b))
<1>1. \A c : Same(b, c) => Same(c, OffTop(c))
  BY OffEdgeSame DEF Same, SameLines
<1> QED BY <1>1, OffEdgeSame, SameTrans DEF ScrollOffEdges

\* buffer_trim touches only the window.
LEMMA TrimSame ==
  ASSUME NEW b, DOMAIN b = Fields, NEW l PROVE Same(b, buffer_trim(b, l))
<1>1. \A c : Same(b, c) => Same(b, ScrollOffEdges(c))
  BY ScrollOffEdgesSame, SameTrans DEF Same, SameLines
<1> QED BY <1>1, WindowSame, SameRefl DEF buffer_trim

\* buffer_extend touches only the window.
LEMMA ExtendSame ==
  ASSUME NEW b, DOMAIN b = Fields, NEW l PROVE Same(b, buffer_extend(b, l))
<1>1. \A c : Same(b, c) => Same(b, ScrollOffEdges(c))
  BY ScrollOffEdgesSame, SameTrans DEF Same, SameLines
<1> QED BY <1>1, WindowSame, SameRefl DEF buffer_extend

\* binit_onscreen_info touches only the flags of the lines.
LEMMA BinitSame ==
  ASSUME NEW b, DOMAIN b = Fields PROVE Same(b, binit_onscreen_info(b))
<1>1. \A o, w : Same(b, [b EXCEPT !.on_screen = o, !.where = w])
  BY DEF Same, SameLines, Fields
<1> QED BY <1>1 DEF binit_onscreen_info

-----------------------------------------------------------------------------
(***************************************************************************)
(* Moving cursors changes only the cursors, each by cursor_move.           *)
(***************************************************************************)
Cursor == [id : Nat, line : Nat, pos : Nat]

\* cursor_move up: to the line above, clamped to its length, or nowhere.
LEMMA MoveUp ==
  ASSUME NEW b, NEW c
  PROVE  cursor_move(b, c, "UP") =
           IF CanUp(b, c) THEN MovedTo(c, c.line - 1, Min2(c.pos, LineLen(b, c.line - 1)))
           ELSE c
  BY DEF cursor_move

\* cursor_move down: to the line below, clamped to its length, or nowhere.
LEMMA MoveDown ==
  ASSUME NEW b, NEW c
  PROVE  cursor_move(b, c, "DOWN") =
           IF CanDown(b, c) THEN MovedTo(c, c.line + 1, Min2(c.pos, LineLen(b, c.line + 1)))
           ELSE c
  BY DEF cursor_move

\* cursor_move left: one position, to the end of the line above, or nowhere.
LEMMA MoveLeft ==
  ASSUME NEW b, NEW c, c.pos \in Int
  PROVE  cursor_move(b, c, "LEFT") =
           IF c.pos > 0 THEN MovedTo(c, c.line, c.pos - 1)
           ELSE IF CanUp(b, c) THEN MovedTo(c, c.line - 1, LineLen(b, c.line - 1))
           ELSE c
<1>1. CASE c.pos > 0
  BY <1>1 DEF cursor_move
<1>2. CASE c.pos <= 0 /\ CanUp(b, c)
  BY <1>2 DEF cursor_move
<1>3. CASE c.pos <= 0 /\ ~CanUp(b, c)
  BY <1>3 DEF cursor_move
<1> QED BY <1>1, <1>2, <1>3

\* cursor_move right: one position, to the start of the line below, or nowhere.
LEMMA MoveRight ==
  ASSUME NEW b, NEW c, c.pos \in Int, LineLen(b, c.line) \in Int
  PROVE  cursor_move(b, c, "RIGHT") =
           IF c.pos < LineLen(b, c.line) THEN MovedTo(c, c.line, c.pos + 1)
           ELSE IF CanDown(b, c) THEN MovedTo(c, c.line + 1, 0)
           ELSE c
<1>1. CASE c.pos < LineLen(b, c.line)
  BY <1>1 DEF cursor_move
<1>2. CASE c.pos >= LineLen(b, c.line) /\ CanDown(b, c)
  BY <1>2 DEF cursor_move
<1>3. CASE c.pos >= LineLen(b, c.line) /\ ~CanDown(b, c)
  BY <1>3 DEF cursor_move
<1> QED BY <1>1, <1>2, <1>3

\* Where cursor_move takes a cursor depends on the lines alone.
LEMMA CursorMoveSame ==
  ASSUME NEW b, NEW c, SameLines(b, c), NEW x, x.pos \in Int, NEW dir
  PROVE  cursor_move(c, x, dir) = cursor_move(b, x, dir)
<1>1. (CanUp(c, x) <=> CanUp(b, x)) /\ (CanDown(c, x) <=> CanDown(b, x))
  BY DEF SameLines, CanUp, CanDown, HasPrev, HasNext, NumLines
<1>2. \A l : LineLen(c, l) = LineLen(b, l)
  BY DEF SameLines, LineLen
<1>3. CASE dir = "UP"
  BY <1>1, <1>2, <1>3 DEF cursor_move
<1>4. CASE dir = "DOWN"
  BY <1>1, <1>2, <1>4 DEF cursor_move
<1>5. CASE dir = "LEFT"
  BY <1>1, <1>2, <1>5, MoveLeft
<1>6. CASE dir = "RIGHT"
  BY <1>1, <1>2, <1>6 DEF cursor_move
<1>7. CASE dir \notin Dirs
  BY <1>7 DEF cursor_move, Dirs
<1> QED BY <1>3, <1>4, <1>5, <1>6, <1>7 DEF Dirs

\* The scrolls before the own cursor moves touch only the window.
LEMMA ScrollBeforeSame ==
  ASSUME NEW b, DOMAIN b = Fields PROVE Same(b, ScrollBefore(b))
<1>1. \A c : Same(b, c) => Same(c, OffBottom(c))
  BY OffEdgeSame DEF Same, SameLines
<1> QED BY <1>1, OffEdgeSame, SameTrans DEF ScrollBefore

\* And so does the scroll after it.
LEMMA ScrollAfterSame ==
  ASSUME NEW b, DOMAIN b = Fields, NEW from, NEW to
  PROVE  Same(b, ScrollAfter(b, from, to))
  BY ScrollSame, SameRefl DEF ScrollAfter

\* The position flags set by a move are of no line or cursor.
LEMMA FlagMoveSame ==
  ASSUME NEW b, DOMAIN b = Fields, NEW from, NEW to
  PROVE  Same(b, FlagMove(b, from, to))
<1>1. \A w : Same(b, [b EXCEPT !.where = w])
  BY DEF Same, SameLines, Fields
<1> QED BY <1>1, SameRefl DEF FlagMove

\* Moving the own cursor moves that cursor and changes no line.
LEMMA MoveOwnExact ==
  ASSUME NEW b, DOMAIN b = Fields, b.curs[Own].pos \in Int, NEW dir
  PROVE  /\ SameLines(b, MoveOwn(b, dir))
         /\ MoveOwn(b, dir).curs =
              [b.curs EXCEPT ![Own] = cursor_move(b, b.curs[Own], dir)]
<1> DEFINE c  == b.curs[Own]
           b1 == ScrollBefore(b)
           m  == cursor_move(b1, c, dir)
           b2 == [b1 EXCEPT !.curs[Own] = m]
           a  == ScrollAfter(b2, c.line, m.line)
           b3 == FlagMove(a, c.line, m.line)
<1>1. Same(b, b1)
  BY ScrollBeforeSame
<1> HIDE DEF b1
<1>2. m = cursor_move(b, c, dir)
  BY <1>1, CursorMoveSame DEF Same
<1>8. b1.curs[Own] = c /\ OwnLine(b1) = c.line
  BY <1>1 DEF Same, OwnLine
<1> HIDE DEF m
<1>3. DOMAIN b2 = Fields /\ SameLines(b, b2) /\ b2.curs = [b.curs EXCEPT ![Own] = m]
  BY <1>1 DEF Same, SameLines, Fields
<1> HIDE DEF b2
<1>4. Same(b2, a)
  BY <1>3, ScrollAfterSame
<1> HIDE DEF a
<1>5. Same(a, b3)
  BY <1>4, FlagMoveSame DEF Same, SameLines
<1> HIDE DEF b3
<1>6. Same(b3, ui_update(b3)) /\ Same(b3, b3)
  BY <1>5, UiSame, SameRefl DEF Same, SameLines
<1>7. MoveOwn(b, dir) \in {b3, ui_update(b3)}
  BY <1>8 DEF MoveOwn, StepOwn, PlaceOwn, PaintIf, b1, m, b2, a, b3
<1> QED BY <1>2, <1>3, <1>4, <1>5, <1>6, <1>7 DEF Same, SameLines

\* Moving peers moves those cursors and changes no line.
LEMMA MovePeersExact ==
  ASSUME NEW b, DOMAIN b = Fields, NEW S, NEW dir
  PROVE  /\ SameLines(b, MovePeers(b, S, dir))
         /\ MovePeers(b, S, dir).curs = [k \in DOMAIN b.curs |->
              IF k \in S THEN cursor_move(b, b.curs[k], dir) ELSE b.curs[k]]
<1> DEFINE b1 == [b EXCEPT !.curs = [k \in DOMAIN b.curs |->
                    IF k \in S THEN cursor_move(b, b.curs[k], dir) ELSE b.curs[k]]]
<1>1. DOMAIN b1 = Fields /\ SameLines(b, b1)
      /\ b1.curs = [k \in DOMAIN b.curs |->
              IF k \in S THEN cursor_move(b, b.curs[k], dir) ELSE b.curs[k]]
  BY DEF SameLines, Fields
<1> HIDE DEF b1
<1>2. Same(b1, ui_update(b1)) /\ Same(b1, b1)
  BY <1>1, UiSame, SameRefl
<1>3. MovePeers(b, S, dir) \in {b1, ui_update(b1)}
  BY DEF MovePeers, PlacePeers, PaintIf, b1
<1> QED BY <1>1, <1>2, <1>3 DEF Same, SameLines

\* AddPos moves the cursors of the set by d and changes no line.
LEMMA AddPosExact ==
  ASSUME NEW b, DOMAIN b = Fields, NEW S, NEW d
  PROVE  /\ SameLines(b, AddPos(b, S, d))
         /\ AddPos(b, S, d).curs = [k \in DOMAIN b.curs |->
              IF k \in S THEN Advance(b.curs[k], d) ELSE b.curs[k]]
<1>1. \A f : SameLines(b, [b EXCEPT !.curs = f]) /\ [b EXCEPT !.curs = f].curs = f
  BY DEF SameLines, Fields
<1> QED BY <1>1 DEF AddPos

-----------------------------------------------------------------------------
(***************************************************************************)
(* Inserting an element into a sequence and removing one, by length and    *)
(* by index.                                                               *)
(***************************************************************************)
\* g is the sequence s with e put in before its i-th element.
Inserted(S, g, s, i, e) ==
  /\ g \in Seq(S) /\ Len(g) = Len(s) + 1
  /\ \A j \in 1 .. Len(s) + 1 : g[j] = IF j < i THEN s[j] ELSE IF j = i THEN e ELSE s[j - 1]

\* InsertAt puts an element in.
LEMMA InsertAtInserted ==
  ASSUME NEW S, NEW s \in Seq(S), NEW i \in 1 .. Len(s) + 1, NEW e \in S
  PROVE  Inserted(S, InsertAt(s, i, e), s, i, e)
<1> DEFINE p == SubSeq(s, 1, i - 1)
           q == SubSeq(s, i, Len(s))
<1>1. Len(s) \in Nat /\ \A j \in 1 .. Len(s) : s[j] \in S
  BY LenProperties, ElementOfSeq
<1>2. p \in Seq(S) /\ Len(p) = i - 1 /\ \A j \in 1 .. i - 1 : p[j] = s[j]
  BY <1>1, SubSeqProperties
<1>3. q \in Seq(S) /\ Len(q) = Len(s) - i + 1
      /\ \A j \in 1 .. Len(s) - i + 1 : q[j] = s[i + j - 1]
  <2>1. \A j \in i .. Len(s) : s[j] \in S
    BY <1>1
  <2>2. q \in Seq(S) /\ Len(q) = (IF i <= Len(s) THEN Len(s) - i + 1 ELSE 0)
        /\ \A j \in 1 .. Len(s) - i + 1 : q[j] = s[i + j - 1]
    BY <1>1, <2>1, SubSeqProperties
  <2> QED BY <1>1, <2>2
<1>4. <<e>> \in Seq(S) /\ Len(<<e>>) = 1 /\ <<e>>[1] = e
  OBVIOUS
<1> HIDE DEF p, q
<1>5. p \o <<e>> \in Seq(S) /\ Len(p \o <<e>>) = i
      /\ \A j \in 1 .. i : (p \o <<e>>)[j] = IF j < i THEN s[j] ELSE e
  BY <1>1, <1>2, <1>4, ConcatProperties
<1>6. (p \o <<e>>) \o q \in Seq(S) /\ Len((p \o <<e>>) \o q) = Len(s) + 1
      /\ \A j \in 1 .. Len(s) + 1 : ((p \o <<e>>) \o q)[j] =
           IF j <= i THEN (p \o <<e>>)[j] ELSE q[j - i]
  <2> DEFINE r == p \o <<e>>
  <2>1. r \in Seq(S) /\ Len(r) = i
    BY <1>5
  <2> HIDE DEF r
  <2>2. r \o q \in Seq(S) /\ Len(r \o q) = Len(r) + Len(q)
        /\ \A j \in 1 .. Len(r) + Len(q) :
             (r \o q)[j] = IF j <= Len(r) THEN r[j] ELSE q[j - Len(r)]
    BY <1>3, <2>1, ConcatProperties
  <2>3. Len(r) + Len(q) = Len(s) + 1
    BY <1>1, <1>3, <2>1
  <2>4. r \o q \in Seq(S) /\ Len(r \o q) = Len(s) + 1
        /\ \A j \in 1 .. Len(s) + 1 : (r \o q)[j] = IF j <= i THEN r[j] ELSE q[j - i]
    BY <2>1, <2>2, <2>3
  <2> QED BY <2>4 DEF r
<1>7. InsertAt(s, i, e) = (p \o <<e>>) \o q
  BY DEF InsertAt, p, q
<1>8. ASSUME NEW j \in 1 .. Len(s) + 1
      PROVE  ((p \o <<e>>) \o q)[j] = IF j < i THEN s[j] ELSE IF j = i THEN e ELSE s[j - 1]
  <2>1. CASE j <= i
    BY <1>1, <1>5, <1>6, <2>1
  <2>2. CASE j > i
    <3>1. ((p \o <<e>>) \o q)[j] = q[j - i]
      BY <1>1, <1>6, <2>2
    <3>4. j - i \in 1 .. Len(s) - i + 1
      BY <1>1, <2>2
    <3>2. q[j - i] = s[i + (j - i) - 1]
      BY <1>3, <3>4
    <3>3. i + (j - i) - 1 = j - 1 /\ ~(j < i) /\ j # i
      BY <1>1, <2>2
    <3> QED BY <3>1, <3>2, <3>3
  <2>3. j <= i \/ j > i
    BY <1>1
  <2> QED BY <2>1, <2>2, <2>3
<1>9. PICK g : g = (p \o <<e>>) \o q
  OBVIOUS
<1>10. Inserted(S, g, s, i, e)
  BY <1>6, <1>8, <1>9 DEF Inserted
<1> QED BY <1>7, <1>9, <1>10

\* What InsertAt returns.
LEMMA InsertAtProperties ==
  ASSUME NEW S, NEW s \in Seq(S), NEW i \in 1 .. Len(s) + 1, NEW e \in S
  PROVE  /\ InsertAt(s, i, e) \in Seq(S)
         /\ Len(InsertAt(s, i, e)) = Len(s) + 1
         /\ \A j \in 1 .. Len(s) + 1 : InsertAt(s, i, e)[j] =
              IF j < i THEN s[j] ELSE IF j = i THEN e ELSE s[j - 1]
<1>1. Inserted(S, InsertAt(s, i, e), s, i, e)
  BY InsertAtInserted
<1> QED BY <1>1 DEF Inserted

\* What RemoveAt returns: the sequence without its i-th element.
LEMMA RemoveAtProperties ==
  ASSUME NEW S, NEW s \in Seq(S), NEW i \in 1 .. Len(s)
  PROVE  /\ RemoveAt(s, i) \in Seq(S)
         /\ Len(RemoveAt(s, i)) = Len(s) - 1
         /\ \A j \in 1 .. Len(s) - 1 : RemoveAt(s, i)[j] = IF j < i THEN s[j] ELSE s[j + 1]
<1> DEFINE p == SubSeq(s, 1, i - 1)
           q == SubSeq(s, i + 1, Len(s))
<1>1. Len(s) \in Nat /\ \A j \in 1 .. Len(s) : s[j] \in S
  BY LenProperties, ElementOfSeq
<1>2. p \in Seq(S) /\ Len(p) = i - 1 /\ \A j \in 1 .. i - 1 : p[j] = s[j]
  BY <1>1, SubSeqProperties
<1>3. q \in Seq(S) /\ Len(q) = Len(s) - i
      /\ \A j \in 1 .. Len(s) - i : q[j] = s[i + j]
  <2>1. \A j \in i + 1 .. Len(s) : s[j] \in S
    BY <1>1
  <2>2. q \in Seq(S) /\ Len(q) = (IF i + 1 <= Len(s) THEN Len(s) - (i + 1) + 1 ELSE 0)
        /\ \A j \in 1 .. Len(s) - (i + 1) + 1 : q[j] = s[(i + 1) + j - 1]
    BY <1>1, <2>1, SubSeqProperties
  <2> QED BY <1>1, <2>2
<1> HIDE DEF p, q
<1>4. p \o q \in Seq(S) /\ Len(p \o q) = Len(s) - 1
      /\ \A j \in 1 .. Len(s) - 1 : (p \o q)[j] = IF j <= i - 1 THEN p[j] ELSE q[j - (i - 1)]
  <2>1. p \o q \in Seq(S) /\ Len(p \o q) = Len(p) + Len(q)
        /\ \A j \in 1 .. Len(p) + Len(q) :
             (p \o q)[j] = IF j <= Len(p) THEN p[j] ELSE q[j - Len(p)]
    BY <1>2, <1>3, ConcatProperties
  <2>2. Len(p) + Len(q) = Len(s) - 1
    BY <1>1, <1>2, <1>3
  <2> QED BY <1>2, <2>1, <2>2
<1>5. RemoveAt(s, i) = p \o q
  BY DEF RemoveAt, p, q
<1>6. ASSUME NEW j \in 1 .. Len(s) - 1
      PROVE  (p \o q)[j] = IF j < i THEN s[j] ELSE s[j + 1]
  <2>1. CASE j < i
    BY <1>1, <1>2, <1>4, <2>1
  <2>2. CASE j >= i
    <3>1. (p \o q)[j] = q[j - (i - 1)]
      <4>1. ~(j <= i - 1)
        BY <1>1, <2>2
      <4> QED BY <1>4, <4>1
    <3>4. j - (i - 1) \in 1 .. Len(s) - i
      BY <1>1, <2>2
    <3>2. q[j - (i - 1)] = s[i + (j - (i - 1))]
      BY <1>3, <3>4
    <3>3. i + (j - (i - 1)) = j + 1 /\ ~(j < i)
      BY <1>1, <2>2
    <3> QED BY <3>1, <3>2, <3>3
  <2>3. j < i \/ j >= i
    BY <1>1
  <2> QED BY <2>1, <2>2, <2>3
<1> QED BY <1>4, <1>5, <1>6

-----------------------------------------------------------------------------
(***************************************************************************)
(* Linking a line into the chain and unlinking one.                        *)
(***************************************************************************)
LEMMA LineNewExact ==
  ASSUME NEW b, DOMAIN b = Fields, NEW i
  PROVE  LET n == line_new(b, i) IN
         /\ DOMAIN n = Fields
         /\ n.lid = InsertAt(b.lid, i, b.line_id_cnt)
         /\ n.line_id_cnt = b.line_id_cnt + 1
         /\ n.str = InsertAt(b.str, i, << >>)
         /\ n.num_lines = b.num_lines
         /\ n.first = Shift(b.first, i) /\ n.last = Shift(b.last, i)
         /\ n.server_mode = b.server_mode
         /\ n.curs = [k \in DOMAIN b.curs |->
                       MovedTo(b.curs[k], Shift(b.curs[k].line, i), b.curs[k].pos)]
  BY DEF line_new, Fields

\* What line_free returns, field by field.
LEMMA LineFreeExact ==
  ASSUME NEW b, DOMAIN b = Fields, NEW l
  PROVE  LET n == line_free(b, l) IN
         /\ DOMAIN n = Fields
         /\ n.lid = RemoveAt(b.lid, l)
         /\ n.line_id_cnt = b.line_id_cnt
         /\ n.str = RemoveAt(b.str, l)
         /\ n.num_lines = b.num_lines
         /\ n.first = Unshift(b.first, l) /\ n.last = Unshift(b.last, l)
         /\ n.server_mode = b.server_mode
         /\ n.curs = [k \in DOMAIN b.curs |->
                       MovedTo(b.curs[k], Unshift(b.curs[k].line, l), b.curs[k].pos)]
  BY DEF line_free, Fields

-----------------------------------------------------------------------------
(***************************************************************************)
(* A sound document: the text and the height - 1 empty lines after it,     *)
(* with distinct line ids, and cursors on lines of the text.  When every   *)
(* byte can be inserted, no cursor is past the end of its line.  Two peers *)
(* may have one id; the first of them is who acts for it.                  *)
(***************************************************************************)
AllSlots == {Own} \cup Slots

GoodLines(b) ==
  /\ DOMAIN b = Fields
  /\ b.str \in Seq(Seq(Chars)) /\ b.lid \in Seq(Nat) /\ b.line_id_cnt \in Nat
  /\ Len(b.lid) = Len(b.str)
  /\ \A i \in 1 .. Len(b.str) : b.lid[i] < b.line_id_cnt
  /\ \A i, j \in 1 .. Len(b.str) : b.lid[i] = b.lid[j] => i = j
  /\ b.first = 1 /\ b.last \in Nat /\ b.last >= 1
  /\ Len(b.str) = b.last + height - 1
  /\ \A l \in b.last + 1 .. Len(b.str) : b.str[l] = << >>

Counted(b) == b.num_lines = Len(b.str)

Fits(b, c) ==
  /\ c.line \in 1 .. b.last
  /\ Lossless => c.pos <= Len(b.str[c.line])

GoodCursor(b, c) == c \in Cursor /\ Fits(b, c)

DistinctIds(cs) ==
  \A j, k \in AllSlots : cs[j].id = cs[k].id => j = k \/ cs[j].id = NULL

\* The ids that the slots hold; NULL is the id of an empty one.
IdsOfSlots(cs) ==
  /\ DOMAIN cs = AllSlots
  /\ cs[Own].id = Own
  /\ \A k \in Slots : cs[k].id # Own

\* No other slot before k has its id.
Foremost(cs, k) == \A j \in AllSlots : cs[j].id = cs[k].id => k <= j

\* c has the cursors of the same ids in the same slots.
SameIds(b, c) ==
  /\ DOMAIN b.curs = AllSlots /\ DOMAIN c.curs = AllSlots
  /\ \A k \in AllSlots : c.curs[k].id = b.curs[k].id

GoodCursors(b) ==
  /\ IdsOfSlots(b.curs)
  /\ \A k \in AllSlots : b.curs[k] = NoCursor \/ GoodCursor(b, b.curs[k])

Sound(b) == GoodLines(b) /\ Counted(b) /\ GoodCursors(b)

\* The arithmetic of a good chain: the text is a proper prefix of it.
LEMMA LengthTypes ==
  ASSUME NEW b, GoodLines(b)
  PROVE  /\ Len(b.str) \in Nat /\ height \in Nat /\ height >= 2
         /\ b.last \in Nat /\ b.last < Len(b.str) /\ b.last \in 1 .. Len(b.str)
         /\ \A l \in 1 .. b.last : l \in 1 .. Len(b.str) /\ l \in Nat
         /\ \A l \in b.last + 1 .. Len(b.str) : l \in 1 .. Len(b.str) /\ l \notin 1 .. b.last
         /\ \A l \in 1 .. Len(b.str) : b.str[l] \in Seq(Chars) /\ Len(b.str[l]) \in Nat
<1>1. Len(b.str) \in Nat /\ height \in Nat /\ height >= 2
  BY LenProperties, ConstantsAssumption DEF GoodLines
<1>2. \A l \in 1 .. Len(b.str) : b.str[l] \in Seq(Chars) /\ Len(b.str[l]) \in Nat
  BY ElementOfSeq, LenProperties DEF GoodLines
<1>3. b.last \in Nat /\ b.last < Len(b.str) /\ b.last \in 1 .. Len(b.str)
  BY <1>1 DEF GoodLines
<1> QED BY <1>1, <1>2, <1>3

\* An operation that touches only the window keeps a document sound.
LEMMA SoundSame ==
  ASSUME NEW b, NEW c, Same(b, c), Sound(b)
  PROVE  Sound(c)
<1>1. GoodLines(c) /\ Counted(c)
  BY DEF Sound, GoodLines, Counted, Same, SameLines
<1>2. GoodCursors(c)
  BY DEF Sound, GoodCursors, GoodCursor, Fits, Same, SameLines
<1> QED BY <1>1, <1>2 DEF Sound

\* A document with the lines of a good one is good.
LEMMA SameLinesGood ==
  ASSUME NEW b, NEW c, SameLines(b, c), GoodLines(b)
  PROVE  GoodLines(c) /\ (Counted(b) => Counted(c)) /\ c.str = b.str /\ c.last = b.last
  BY DEF SameLines, GoodLines, Counted

\* A cursor of a sound document that moves stays in its text.
LEMMA CursorMoveFits ==
  ASSUME NEW b, GoodLines(b), NEW c, GoodCursor(b, c), NEW dir
  PROVE  LET m == cursor_move(b, c, dir) IN GoodCursor(b, m) /\ m.id = c.id
<1>1. c \in Cursor /\ c.line \in 1 .. b.last /\ c.line \in Nat /\ c.pos \in Nat /\ b.last \in Nat
  BY DEF GoodCursor, Fits, Cursor, GoodLines
<1>2. \A l \in 1 .. b.last : LineLen(b, l) \in Nat /\ LineLen(b, l) = Len(b.str[l])
  BY LengthTypes DEF GoodLines, LineLen
<1>3. ASSUME NEW l \in 1 .. b.last, NEW p \in Nat, Lossless => p <= LineLen(b, l)
      PROVE  GoodCursor(b, MovedTo(c, l, p)) /\ MovedTo(c, l, p).id = c.id
  <2>1. MovedTo(c, l, p) = [id |-> c.id, line |-> l, pos |-> p]
    BY DEF MovedTo
  <2> QED BY <1>1, <1>2, <1>3, <2>1 DEF GoodCursor, Fits, Cursor
<1>4. CanUp(b, c) => c.line - 1 \in 1 .. b.last
  BY <1>1 DEF CanUp, HasPrev, GoodLines
<1>5. CanDown(b, c) => c.line + 1 \in 1 .. b.last
  BY <1>1 DEF CanDown, GoodLines
<1>6. \A l \in 1 .. b.last : /\ Min2(c.pos, LineLen(b, l)) \in Nat
                             /\ Min2(c.pos, LineLen(b, l)) <= LineLen(b, l)
  BY <1>1, <1>2 DEF Min2
<1>7. CASE dir = "UP"
  BY <1>3, <1>4, <1>6, <1>7, MoveUp
<1>8. CASE dir = "DOWN"
  BY <1>3, <1>5, <1>6, <1>8, MoveDown
<1>9. CASE dir = "LEFT"
  <2>1. c.pos > 0 => c.pos - 1 \in Nat /\ (Lossless => c.pos - 1 <= LineLen(b, c.line))
    BY <1>1, <1>2 DEF GoodCursor, Fits
  <2>2. CanUp(b, c) => LineLen(b, c.line - 1) \in Nat /\ LineLen(b, c.line - 1) <= LineLen(b, c.line - 1)
    BY <1>2, <1>4
  <2> QED BY <1>1, <1>3, <1>4, <1>9, <2>1, <2>2, MoveLeft
<1>10. CASE dir = "RIGHT"
  <2>1. LineLen(b, c.line) \in Nat
    BY <1>1, <1>2
  <2>2. c.pos < LineLen(b, c.line) => c.pos + 1 \in Nat /\ c.pos + 1 <= LineLen(b, c.line)
    BY <1>1, <2>1
  <2>3. CanDown(b, c) => 0 \in Nat /\ 0 <= LineLen(b, c.line + 1)
    BY <1>2, <1>5
  <2> QED BY <1>1, <1>3, <1>5, <1>10, <2>1, <2>2, <2>3, MoveRight
<1>11. CASE dir \notin Dirs
  BY <1>11 DEF cursor_move, Dirs
<1> QED BY <1>7, <1>8, <1>9, <1>10, <1>11 DEF Dirs

-----------------------------------------------------------------------------
(***************************************************************************)
(* Finding a cursor by its id.                                             *)
(***************************************************************************)
LEMMA Least ==
  ASSUME NEW T, T \subseteq Nat, T # {}
  PROVE  \E x \in T : \A y \in T : x <= y
<1>1. PICK x \in T : \A y \in T : ~ (<<y, x>> \in OpToRel(<, Nat))
  BY WFMin, NatLessThanWellFounded
<1>2. \A y \in T : ~(y < x)
  BY <1>1 DEF OpToRel
<1>3. x \in Nat /\ T \subseteq Int
  OBVIOUS
<1> QED BY <1>2, <1>3

\* The slots are natural numbers, and the own one is not a peer one.
LEMMA AllSlotsNat == AllSlots \subseteq Nat /\ Own \in AllSlots /\ Own = 0 /\ 0 \notin Slots
  BY ConstantsAssumption DEF AllSlots, Own, Slots

\* bcursor_find returns NULL or a slot with the id.
LEMMA FindSpec ==
  ASSUME NEW b, NEW id
  PROVE  LET k == bcursor_find(b, id) IN
         \/ k = NULL /\ \A j \in AllSlots : b.curs[j].id # id
         \/ k \in AllSlots /\ k # NULL /\ b.curs[k].id = id /\ Foremost(b.curs, k)
<1> DEFINE found == { k \in AllSlots : b.curs[k].id = id }
<1>1. bcursor_find(b, id) = IF found = {} THEN NULL ELSE CHOOSE k \in found : \A j \in found : k <= j
  BY DEF bcursor_find, AllSlots
<1>2. found # {} => \E k \in found : \A j \in found : k <= j
  BY Least, AllSlotsNat
<1>3. CASE found = {}
  BY <1>1, <1>3
<1>4. CASE found # {}
  <2>1. bcursor_find(b, id) \in found /\ \A j \in found : bcursor_find(b, id) <= j
    BY <1>1, <1>2, <1>4
  <2> QED BY <2>1, AllSlotsNat DEF NULL, Foremost
<1> QED BY <1>3, <1>4

\* The cursor in a slot is found by its id if the slot is the first with it.
LEMMA FindIs ==
  ASSUME NEW b, NEW k \in AllSlots, Foremost(b.curs, k)
  PROVE  bcursor_find(b, b.curs[k].id) = k
<1>1. PICK f : f = bcursor_find(b, b.curs[k].id)
  OBVIOUS
<1>2. f \in AllSlots /\ b.curs[f].id = b.curs[k].id /\ Foremost(b.curs, f)
  BY <1>1, FindSpec
<1>3. f <= k /\ k <= f /\ f \in Nat /\ k \in Nat
  BY <1>2, AllSlotsNat DEF Foremost
<1> QED BY <1>1, <1>3

\* Every slot is the first with its id if ids are distinct, and the own one anyway.
LEMMA DistinctForemost ==
  ASSUME NEW cs, DistinctIds(cs), NEW k \in AllSlots, cs[k].id # NULL
  PROVE  Foremost(cs, k)
  BY AllSlotsNat DEF DistinctIds, Foremost

LEMMA OwnForemost ==
  ASSUME NEW cs PROVE Foremost(cs, Own) /\ Own \in AllSlots
  BY AllSlotsNat DEF Foremost, Own

\* Operations that change no id keep the first of each first, and ids distinct.
LEMMA IdsKept ==
  ASSUME NEW b, NEW c, SameIds(b, c)
  PROVE  /\ IdsOfSlots(b.curs) => IdsOfSlots(c.curs)
         /\ DistinctIds(b.curs) => DistinctIds(c.curs)
         /\ \A k \in AllSlots : Foremost(b.curs, k) => Foremost(c.curs, k)
  BY AllSlotsNat DEF SameIds, IdsOfSlots, DistinctIds, Foremost, AllSlots

\* A slot that has an id has a good cursor; one that has none is NoCursor.
LEMMA SlotTypes ==
  ASSUME NEW b, GoodLines(b), GoodCursors(b)
  PROVE  /\ GoodCursor(b, b.curs[Own])
         /\ \A k \in AllSlots : b.curs[k].id # NULL => GoodCursor(b, b.curs[k])
         /\ \A k \in AllSlots : b.curs[k].id = NULL => b.curs[k] = NoCursor
  BY AllSlotsNat DEF GoodCursors, GoodCursor, IdsOfSlots, NoCursor, NULL, Cursor, Own

\* An operation that touches only the window changes no id.
LEMMA SameSameIds ==
  ASSUME NEW b, NEW c, Same(b, c), IdsOfSlots(b.curs) PROVE SameIds(b, c)
  BY DEF Same, SameIds, IdsOfSlots

\* Two operations that change no id, one after the other, change none.
LEMMA SameIdsTrans ==
  ASSUME NEW a, NEW b, NEW c, SameIds(a, b), SameIds(b, c) PROVE SameIds(a, c)
  BY DEF SameIds

\* Cursors that stay where they are or get another place in the text keep a
\* document sound.
LEMMA SoundMoved ==
  ASSUME NEW b, NEW c, Sound(b), SameLines(b, c), DOMAIN c.curs = AllSlots,
         \A k \in AllSlots : \/ c.curs[k] = b.curs[k]
                             \/ GoodCursor(b, c.curs[k]) /\ c.curs[k].id = b.curs[k].id
  PROVE  Sound(c) /\ SameIds(b, c)
<1>1. GoodLines(c) /\ Counted(c)
  BY DEF Sound, GoodLines, Counted, SameLines
<1>2. SameIds(b, c)
  BY DEF SameIds, Sound, GoodCursors, IdsOfSlots
<1>3. \A x : GoodCursor(b, x) => GoodCursor(c, x)
  BY DEF GoodCursor, Fits, SameLines
<1> QED BY <1>1, <1>2, <1>3, IdsKept DEF Sound, GoodCursors

\* Moving the own cursor keeps a document sound.
LEMMA MoveOwnSound ==
  ASSUME NEW b, Sound(b), NEW dir
  PROVE  Sound(MoveOwn(b, dir)) /\ SameIds(b, MoveOwn(b, dir))
<1>1. DOMAIN b = Fields /\ DOMAIN b.curs = AllSlots /\ GoodLines(b) /\ GoodCursors(b)
  BY DEF Sound, GoodLines, GoodCursors, IdsOfSlots
<1>2. GoodCursor(b, b.curs[Own]) /\ b.curs[Own].pos \in Int
  BY <1>1, SlotTypes DEF GoodCursor, Cursor
<1>3. GoodCursor(b, cursor_move(b, b.curs[Own], dir)) /\ cursor_move(b, b.curs[Own], dir).id = b.curs[Own].id
  BY <1>1, <1>2, CursorMoveFits
<1> DEFINE c == MoveOwn(b, dir)
<1>4. SameLines(b, c) /\ c.curs = [b.curs EXCEPT ![Own] = cursor_move(b, b.curs[Own], dir)]
  BY <1>1, <1>2, MoveOwnExact
<1> HIDE DEF c
<1>5. DOMAIN c.curs = AllSlots
      /\ \A k \in AllSlots : \/ c.curs[k] = b.curs[k]
                             \/ GoodCursor(b, c.curs[k]) /\ c.curs[k].id = b.curs[k].id
  BY <1>1, <1>3, <1>4
<1>6. Sound(c) /\ SameIds(b, c)
  BY <1>4, <1>5, SoundMoved
<1> QED BY <1>6 DEF c

\* Moving peers keeps a document sound.
LEMMA MovePeersSound ==
  ASSUME NEW b, Sound(b), NEW S, \A k \in S : k \in AllSlots => b.curs[k].id # NULL, NEW dir
  PROVE  Sound(MovePeers(b, S, dir)) /\ SameIds(b, MovePeers(b, S, dir))
<1>1. DOMAIN b = Fields /\ DOMAIN b.curs = AllSlots /\ GoodLines(b) /\ GoodCursors(b)
  BY DEF Sound, GoodLines, GoodCursors, IdsOfSlots
<1>2. \A k \in AllSlots : k \in S =>
        GoodCursor(b, cursor_move(b, b.curs[k], dir)) /\ cursor_move(b, b.curs[k], dir).id = b.curs[k].id
  BY <1>1, SlotTypes, CursorMoveFits
<1> DEFINE c == MovePeers(b, S, dir)
<1>3. SameLines(b, c) /\ c.curs = [k \in DOMAIN b.curs |->
              IF k \in S THEN cursor_move(b, b.curs[k], dir) ELSE b.curs[k]]
  BY <1>1, MovePeersExact
<1> HIDE DEF c
<1>4. DOMAIN c.curs = AllSlots
      /\ \A k \in AllSlots : \/ c.curs[k] = b.curs[k]
                             \/ GoodCursor(b, c.curs[k]) /\ c.curs[k].id = b.curs[k].id
  BY <1>1, <1>2, <1>3
<1>5. Sound(c) /\ SameIds(b, c)
  BY <1>3, <1>4, SoundMoved
<1> QED BY <1>5 DEF c

\* bcursor_move keeps a document sound.
LEMMA MoveSound ==
  ASSUME NEW b, Sound(b), NEW id \in Nat, HasCursor(b, id), NEW dir
  PROVE  Sound(bcursor_move(b, id, dir)) /\ SameIds(b, bcursor_move(b, id, dir))
<1> DEFINE k == bcursor_find(b, id)
<1>1. k \in AllSlots /\ b.curs[k].id = id /\ id # NULL
  BY FindSpec DEF HasCursor, NULL
<1> HIDE DEF k
<1>2. Sound(MovePeers(b, {k}, dir)) /\ SameIds(b, MovePeers(b, {k}, dir))
  BY <1>1, MovePeersSound
<1>3. bcursor_move(b, id, dir) \in {MoveOwn(b, dir), MovePeers(b, {k}, dir)}
  BY DEF bcursor_move, k
<1> QED BY <1>2, <1>3, MoveOwnSound

-----------------------------------------------------------------------------
(***************************************************************************)
(* Characters come and go.                                                 *)
(***************************************************************************)
LEMMA RopeInsert ==
  ASSUME NEW s \in Seq(Chars), NEW pos \in Nat, NEW chr \in Chars
  PROVE  LET t == rope_insert(s, pos, chr) IN
         /\ t \in Seq(Chars) /\ Len(t) \in Nat /\ Len(t) >= Len(s)
         /\ Lossless => Len(t) = Len(s) + 1
<1>1. Len(s) \in Nat
  BY LenProperties
<1>2. Min2(pos, Len(s)) + 1 \in 1 .. Len(s) + 1
  BY <1>1 DEF Min2
<1> DEFINE t == InsertAt(s, Min2(pos, Len(s)) + 1, chr)
<1>3. t \in Seq(Chars) /\ Len(t) = Len(s) + 1
  BY <1>2, InsertAtProperties
<1> HIDE DEF t
<1>4. CASE chr \in Refused
  BY <1>1, <1>4 DEF rope_insert, Lossless
<1>5. CASE chr \notin Refused
  <2>1. rope_insert(s, pos, chr) = t
    BY <1>5 DEF rope_insert, t
  <2> QED BY <1>1, <1>3, <2>1
<1> QED BY <1>4, <1>5

\* rope_del of one character inside the line makes it one shorter.
LEMMA RopeDel ==
  ASSUME NEW s \in Seq(Chars), NEW pos \in Nat
  PROVE  LET t == rope_del(s, pos, 1) IN
         /\ t \in Seq(Chars) /\ Len(t) \in Nat
         /\ pos < Len(s) => Len(t) = Len(s) - 1
<1> DEFINE from == Min2(pos, Len(s))
           n    == Min2(1, Len(s) - from)
           p    == SubSeq(s, 1, from)
           q    == SubSeq(s, from + n + 1, Len(s))
<1>1. Len(s) \in Nat /\ \A j \in 1 .. Len(s) : s[j] \in Chars
  BY LenProperties, ElementOfSeq
<1>2. from \in 0 .. Len(s) /\ n \in 0 .. 1 /\ from + n <= Len(s)
      /\ (pos < Len(s) => from = pos /\ n = 1)
  <2>1. from \in 0 .. Len(s) /\ (pos < Len(s) => from = pos)
    BY <1>1 DEF Min2
  <2> HIDE DEF from
  <2>2. n = (IF from < Len(s) THEN 1 ELSE 0)
    BY <1>1, <2>1 DEF Min2
  <2> QED BY <1>1, <2>1, <2>2
<1>3. rope_del(s, pos, 1) = p \o q
  BY DEF rope_del
<1> HIDE DEF from, n
<1>4. p \in Seq(Chars) /\ Len(p) = from
  BY <1>1, <1>2, SubSeqProperties
<1>5. q \in Seq(Chars) /\ Len(q) = Len(s) - (from + n)
  <2> DEFINE i == from + n + 1
  <2>1. i \in Int /\ \A j \in i .. Len(s) : s[j] \in Chars
    BY <1>1, <1>2
  <2>2. Len(s) - i + 1 = Len(s) - (from + n) /\ (i <= Len(s) \/ from + n = Len(s))
    BY <1>1, <1>2
  <2> HIDE DEF i
  <2>3. SubSeq(s, i, Len(s)) \in Seq(Chars)
        /\ Len(SubSeq(s, i, Len(s))) = IF i <= Len(s) THEN Len(s) - i + 1 ELSE 0
    BY <1>1, <2>1, SubSeqProperties
  <2>4. i <= Len(s) <=> from + n < Len(s)
    BY <1>1, <1>2 DEF i
  <2>5. SubSeq(s, i, Len(s)) = q
    BY DEF i
  <2> QED BY <1>1, <1>2, <2>2, <2>3, <2>4, <2>5
<1> HIDE DEF p, q
<1>6. p \o q \in Seq(Chars) /\ Len(p \o q) = Len(p) + Len(q)
  BY <1>4, <1>5, ConcatProperties
<1>7. Len(p \o q) \in Nat /\ (pos < Len(s) => Len(p \o q) = Len(s) - 1)
  <2>1. Len(s) \in Nat /\ from \in Nat /\ n \in Nat /\ from + n <= Len(s)
    BY <1>1, <1>2
  <2>2. Len(p \o q) = from + (Len(s) - (from + n))
    BY <1>4, <1>5, <1>6
  <2>3. Len(p \o q) = Len(s) - n
    BY <2>1, <2>2
  <2> QED BY <1>2, <2>1, <2>3
<1> QED BY <1>3, <1>6, <1>7

\* c is b with the line l of its text replaced by s.
LineSet(b, c, l, s) ==
  /\ DOMAIN c = Fields
  /\ c.lid = b.lid /\ c.line_id_cnt = b.line_id_cnt
  /\ c.str = [b.str EXCEPT ![l] = s] /\ c.num_lines = b.num_lines
  /\ c.first = b.first /\ c.last = b.last /\ c.server_mode = b.server_mode

\* A good chain stays good when one line of the text gets other characters.
LEMMA LineSetGood ==
  ASSUME NEW b, NEW c, GoodLines(b), NEW l \in 1 .. b.last, NEW s \in Seq(Chars),
         LineSet(b, c, l, s)
  PROVE  /\ GoodLines(c) /\ Len(c.str) = Len(b.str)
         /\ c.str[l] = s
         /\ \A m \in 1 .. Len(b.str) : m # l => c.str[m] = b.str[m]
         /\ Counted(b) => Counted(c)
<1>2. l \in 1 .. Len(b.str)
  BY LengthTypes
<1>3. /\ c.str \in Seq(Seq(Chars)) /\ Len(c.str) = Len(b.str)
      /\ \A m \in 1 .. Len(b.str) : c.str[m] = IF m = l THEN s ELSE b.str[m]
  BY <1>2, ExceptSeq, SMTT(60) DEF LineSet, GoodLines
<1>4. \A m \in b.last + 1 .. Len(b.str) : c.str[m] = << >>
  <2> TAKE m \in b.last + 1 .. Len(b.str)
  <2>1. m \in 1 .. Len(b.str) /\ m # l
    BY LengthTypes
  <2> QED BY <1>3, <2>1 DEF GoodLines
<1>5. GoodLines(c)
  BY <1>3, <1>4 DEF GoodLines, LineSet
<1> QED BY <1>2, <1>3, <1>5 DEF Counted, LineSet

\* c is b after slot k inserted chr.
Typed(b, c, k, chr) ==
  LET x == b.curs[k] IN
  /\ c.str = [b.str EXCEPT ![x.line] = rope_insert(b.str[x.line], x.pos, chr)]
  /\ c.last = b.last /\ c.server_mode = b.server_mode
  /\ \A j \in AllSlots : c.curs[j] =
       LET y == b.curs[j] IN
       IF j = k \/ (y.id # NULL /\ y.line = x.line /\ x.pos + 1 < y.pos)
         THEN MovedTo(y, y.line, y.pos + 1) ELSE y

\* bcursor_insert keeps a document sound: the line grows by as much as any
\* cursor on it advances.
LEMMA InsertSound ==
  ASSUME NEW b, Sound(b), NEW id \in Nat, NEW chr \in Chars
  PROVE  LET c == bcursor_insert(b, id, chr)
             k == bcursor_find(b, id)
         IN  /\ Sound(c) /\ SameIds(b, c)
             /\ \/ /\ k = NULL \/ LineLen(b, b.curs[k].line) >= width - 1
                   /\ Same(b, c)
                \/ /\ k # NULL /\ ~(LineLen(b, b.curs[k].line) >= width - 1)
                   /\ Typed(b, c, k, chr)
<1> DEFINE k  == bcursor_find(b, id)
           c  == b.curs[k]
           s  == rope_insert(b.str[c.line], c.pos, chr)
           b1 == [b EXCEPT !.str[c.line] = rope_insert(@, c.pos, chr),
                           !.curs[k] = Advance(@, 1)]
           R  == RightOf(b1, k, c.pos + 1)
           b2 == AddPos(b1, R, 1)
<1>1. GoodLines(b) /\ GoodCursors(b) /\ DOMAIN b = Fields /\ DOMAIN b.curs = AllSlots
  BY DEF Sound, GoodLines, GoodCursors, IdsOfSlots
<1>2. CASE k = NULL
  <2>1. bcursor_insert(b, id, chr) = b
    BY <1>2 DEF bcursor_insert
  <2> QED BY <1>2, <2>1, <1>1, SameRefl DEF SameIds
<1>3. CASE k # NULL /\ LineLen(b, c.line) >= width - 1
  <2>1. bcursor_insert(b, id, chr) = ui_update(b)
    BY <1>3 DEF bcursor_insert
  <2> QED BY <1>3, <2>1, <1>1, UiSame, SoundSame, SameSameIds DEF GoodCursors
<1>4. CASE k # NULL /\ ~(LineLen(b, c.line) >= width - 1)
  <2>1. bcursor_insert(b, id, chr) = ui_update(b2)
    BY <1>4 DEF bcursor_insert
  <2>2. k \in AllSlots /\ b.curs[k].id = id /\ id # NULL
    BY <1>4, FindSpec DEF NULL
  <2> HIDE DEF k
  <2>3. c \in Cursor /\ c.line \in 1 .. b.last /\ c.pos \in Nat /\ c.id = id
        /\ (Lossless => c.pos <= Len(b.str[c.line]))
    BY <1>1, <2>2, SlotTypes DEF GoodCursor, Fits, Cursor
  <2>4. b.str[c.line] \in Seq(Chars) /\ Len(b.str[c.line]) \in Nat
    <3>1. c.line \in 1 .. Len(b.str)
      BY <1>1, <2>3, LengthTypes
    <3> QED BY <1>1, <3>1, LengthTypes
  <2>5. s \in Seq(Chars) /\ Len(s) \in Nat /\ Len(s) >= Len(b.str[c.line])
        /\ (Lossless => Len(s) = Len(b.str[c.line]) + 1)
    BY <2>3, <2>4, RopeInsert
  <2>6. LineSet(b, b1, c.line, s)
        /\ b1.curs = [b.curs EXCEPT ![k] = MovedTo(c, c.line, c.pos + 1)]
    BY <1>1 DEF LineSet, Fields, GoodLines, Advance
  <2> HIDE DEF b1, s
  <2>7. GoodLines(b1) /\ Counted(b1) /\ Len(b1.str) = Len(b.str) /\ b1.last = b.last
        /\ \A m \in 1 .. Len(b.str) : b1.str[m] = IF m = c.line THEN s ELSE b.str[m]
    <3>1. c.line \in 1 .. b.last /\ s \in Seq(Chars) /\ LineSet(b, b1, c.line, s) /\ Counted(b)
      BY <2>3, <2>5, <2>6 DEF Sound
    <3> QED BY <1>1, <3>1, LineSetGood DEF LineSet
  <2>8. SameLines(b1, b2)
        /\ b2.curs = [j \in AllSlots |-> IF j \in R THEN Advance(b1.curs[j], 1) ELSE b1.curs[j]]
    <3>1. DOMAIN b1 = Fields /\ DOMAIN b1.curs = AllSlots
      BY <1>1, <2>6 DEF LineSet
    <3> QED BY <3>1, AddPosExact
  <2>15. b1.curs[k].line = c.line
    BY <1>1, <2>2, <2>6 DEF MovedTo
  <2>9. \A j \in R : j # k /\ b1.curs[j] # NoCursor /\ b1.curs[j].line = c.line
    BY <2>15 DEF RightOf
  <2>14. \A j \in AllSlots : j \in R <=>
            /\ j # k /\ b1.curs[j] # NoCursor /\ b1.curs[j].line = c.line
            /\ c.pos + 1 < b1.curs[j].pos
    BY <2>15 DEF RightOf, AllSlots
  <2> HIDE DEF b2, R
  <2>10. ASSUME NEW j \in AllSlots
         PROVE  /\ b2.curs[j].id = b.curs[j].id
                /\ b2.curs[j] = NoCursor \/ GoodCursor(b1, b2.curs[j])
    <3>1. CASE b.curs[j].id = NULL
      <4>1. j # k /\ b.curs[j] = NoCursor /\ j \notin R
        BY <1>1, <2>2, <2>6, <2>9, <3>1, SlotTypes
      <4> QED BY <2>6, <2>8, <4>1
    <3>2. CASE b.curs[j].id # NULL
      <4>1. b.curs[j] \in Cursor /\ b.curs[j].line \in 1 .. b.last
            /\ (Lossless => b.curs[j].pos <= Len(b.str[b.curs[j].line]))
        BY <1>1, <3>2, SlotTypes DEF GoodCursor, Fits
      <4>2. b.curs[j].line \in 1 .. Len(b.str) /\ Len(b.str[b.curs[j].line]) \in Nat
            /\ b.curs[j].pos \in Nat /\ b.curs[j].line \in Nat /\ b.curs[j].id \in Nat
        BY <1>1, <4>1, LengthTypes DEF Cursor
      <4>3. CASE j = k \/ j \in R
        <5>1. b2.curs[j] = MovedTo(b.curs[j], c.line, b.curs[j].pos + 1) /\ b.curs[j].line = c.line
          <6>1. CASE j = k
            <7>1. j \notin R
              BY <2>9, <6>1
            <7> QED BY <1>1, <2>2, <2>6, <2>8, <6>1, <7>1
          <6>2. CASE j \in R
            <7>1. j # k /\ b1.curs[j] = b.curs[j] /\ b1.curs[j].line = c.line
              BY <1>1, <2>6, <2>9, <6>2
            <7> QED BY <2>8, <6>2, <7>1 DEF Advance
          <6> QED BY <4>3, <6>1, <6>2
        <5>2. Lossless => b.curs[j].pos + 1 <= Len(b1.str[c.line])
          <6>1. b1.str[c.line] = s
            BY <2>7, <4>2, <5>1
          <6>2. Len(b.str[c.line]) \in Nat /\ b.curs[j].pos \in Nat
                /\ (Lossless => b.curs[j].pos <= Len(b.str[c.line]))
            BY <2>4, <4>1, <4>2, <5>1
          <6>3. Lossless => Len(b1.str[c.line]) = Len(b.str[c.line]) + 1
            BY <2>5, <6>1
          <6> DEFINE L0 == Len(b.str[c.line])
                     L1 == Len(b1.str[c.line])
                     p0 == b.curs[j].pos
          <6>4. L0 \in Nat /\ p0 \in Nat /\ (Lossless => p0 <= L0) /\ (Lossless => L1 = L0 + 1)
            BY <6>2, <6>3
          <6> HIDE DEF L0, L1, p0
          <6>5. Lossless => p0 + 1 <= L1
            BY <6>4
          <6> QED BY <6>5 DEF L1, p0
        <5> QED BY <2>3, <2>7, <4>2, <5>1, <5>2, SMTT(60) DEF GoodCursor, Fits, Cursor, MovedTo
      <4>4. CASE j # k /\ j \notin R
        <5>1. b2.curs[j] = b.curs[j]
          BY <2>6, <2>8, <4>4
        <5>2. Lossless => b.curs[j].pos <= Len(b1.str[b.curs[j].line])
          <6>1. b1.str[b.curs[j].line] = IF b.curs[j].line = c.line THEN s ELSE b.str[b.curs[j].line]
            BY <2>7, <4>2
          <6>2. Len(b1.str[b.curs[j].line]) \in Nat
                /\ Len(b1.str[b.curs[j].line]) >= Len(b.str[b.curs[j].line])
            BY <2>4, <2>5, <4>2, <6>1
          <6> DEFINE L0 == Len(b.str[b.curs[j].line])
                     L1 == Len(b1.str[b.curs[j].line])
                     p0 == b.curs[j].pos
          <6>4. L0 \in Nat /\ L1 \in Nat /\ L1 >= L0 /\ p0 \in Nat /\ (Lossless => p0 <= L0)
            BY <4>1, <4>2, <6>2
          <6> HIDE DEF L0, L1, p0
          <6>5. Lossless => p0 <= L1
            BY <6>4
          <6> QED BY <6>5 DEF L1, p0
        <5> QED BY <2>7, <4>1, <5>1, <5>2 DEF GoodCursor, Fits
      <4> QED BY <4>3, <4>4
    <3> QED BY <3>1, <3>2
  <2>11. SameIds(b, b2)
    BY <1>1, <2>8, <2>10 DEF SameIds
  <2>12. Sound(b2)
    <3>1. GoodLines(b2) /\ Counted(b2) /\ \A x : GoodCursor(b1, x) => GoodCursor(b2, x)
      BY <2>7, <2>8 DEF SameLines, GoodLines, Counted, GoodCursor, Fits
    <3> QED BY <1>1, <2>10, <2>11, <3>1, IdsKept DEF Sound, GoodCursors
  <2>13. DOMAIN b2 = Fields /\ IdsOfSlots(b2.curs)
    BY <2>12 DEF Sound, GoodLines, GoodCursors
  <2>16. ASSUME NEW j \in AllSlots
         PROVE  b2.curs[j] =
                  LET y == b.curs[j] IN
                  IF j = k \/ (y.id # NULL /\ y.line = c.line /\ c.pos + 1 < y.pos)
                    THEN MovedTo(y, y.line, y.pos + 1) ELSE y
    <3>1. b.curs[j] # NoCursor <=> b.curs[j].id # NULL
      BY <1>1, SlotTypes DEF NoCursor
    <3>2. CASE j = k
      <4>1. j \notin R
        BY <2>9, <3>2
      <4> QED BY <1>1, <2>2, <2>6, <2>8, <3>2, <4>1
    <3>3. CASE j # k
      <4>1. b1.curs[j] = b.curs[j]
        BY <2>6, <3>3
      <4> QED BY <2>8, <2>14, <3>1, <3>3, <4>1 DEF Advance
    <3> QED BY <3>2, <3>3
  <2>17. Same(b2, ui_update(b2))
    BY <2>13, UiSame
  <2> DEFINE r == ui_update(b2)
  <2> HIDE DEF r
  <2>18. Typed(b, r, k, chr)
    <3>1. r.str = [b.str EXCEPT ![c.line] = s] /\ r.last = b.last
          /\ r.server_mode = b.server_mode /\ r.curs = b2.curs
      BY <2>6, <2>8, <2>17 DEF Same, SameLines, LineSet, r
    <3> QED BY <2>16, <3>1 DEF Typed, s
  <2>19. Sound(r) /\ SameIds(b, r)
    BY <2>11, <2>12, <2>13, <2>17, SoundSame, SameSameIds, SameIdsTrans DEF r
  <2>20. bcursor_insert(b, id, chr) = r
    BY <2>1 DEF r
  <2> QED BY <1>4, <2>18, <2>19, <2>20 DEF k
<1> QED BY <1>2, <1>3, <1>4

\* Cursors of the same ids on the lines of an edited document.
LEMMA SoundEdited ==
  ASSUME NEW b, NEW c, GoodCursors(b), GoodLines(c), Counted(c), DOMAIN c.curs = AllSlots,
         \A k \in AllSlots : /\ c.curs[k].id = b.curs[k].id
                             /\ c.curs[k] = NoCursor \/ GoodCursor(c, c.curs[k])
  PROVE  Sound(c) /\ SameIds(b, c)
<1>1. SameIds(b, c)
  BY DEF SameIds, GoodCursors, IdsOfSlots
<1>2. IdsOfSlots(c.curs)
  BY <1>1, IdsKept DEF GoodCursors
<1> QED BY <1>1, <1>2 DEF Sound, GoodCursors

\* Painting keeps a document sound.
LEMMA PaintedSound ==
  ASSUME NEW b, NEW c, Sound(c), SameIds(b, c)
  PROVE  Sound(ui_update(c)) /\ SameIds(b, ui_update(c))
<1>1. DOMAIN c = Fields /\ IdsOfSlots(c.curs)
  BY DEF Sound, GoodLines, GoodCursors
<1> QED BY <1>1, UiSame, SoundSame, SameSameIds, SameIdsTrans

\* What a proof uses of the cursor in slot k of a sound document.
LEMMA CursorFacts ==
  ASSUME NEW b, GoodLines(b), GoodCursors(b), NEW k \in AllSlots, b.curs[k].id # NULL
  PROVE  LET c == b.curs[k] IN
         /\ c \in Cursor /\ c.id \in Nat /\ c.line \in Nat /\ c.pos \in Nat
         /\ c.line \in 1 .. b.last /\ c.line \in 1 .. Len(b.str)
         /\ b.str[c.line] \in Seq(Chars) /\ Len(b.str[c.line]) \in Nat
         /\ Lossless => c.pos <= Len(b.str[c.line])
<1>1. b.curs[k] \in Cursor /\ Fits(b, b.curs[k])
  BY SlotTypes DEF GoodCursor
<1>2. b.curs[k].line \in 1 .. b.last
  BY <1>1 DEF Fits
<1> QED BY <1>1, <1>2, LengthTypes DEF Cursor, Fits

\* A cursor placed on a line of the text at a position it has is good.
LEMMA PlacedGood ==
  ASSUME NEW b, NEW x \in Cursor, NEW l \in 1 .. b.last, l \in Nat, NEW p \in Nat,
         Lossless => p <= Len(b.str[l])
  PROVE  GoodCursor(b, MovedTo(x, l, p)) /\ MovedTo(x, l, p).id = x.id
  BY DEF GoodCursor, Fits, MovedTo, Cursor

\* c is b after slot k deleted the character left of it.
Erased(b, c, k) ==
  LET x == b.curs[k] IN
  /\ c.str = [b.str EXCEPT ![x.line] = rope_del(b.str[x.line], x.pos - 1, 1)]
  /\ c.last = b.last /\ c.server_mode = b.server_mode
  /\ \A j \in AllSlots : c.curs[j] =
       LET y == b.curs[j] IN
       IF j = k \/ (y.id # NULL /\ y.line = x.line /\ x.pos - 1 < y.pos)
         THEN MovedTo(y, y.line, y.pos + (-1)) ELSE y

\* Deleting a character keeps a document sound: no cursor stays past the end.
LEMMA DelCharSound ==
  ASSUME NEW b, Sound(b), NEW k \in AllSlots, b.curs[k].id # NULL, b.curs[k].pos > 0
  PROVE  /\ Sound(DelChar(b, k)) /\ SameIds(b, DelChar(b, k))
         /\ Erased(b, DelChar(b, k), k)
<1> DEFINE c  == b.curs[k]
           s  == rope_del(b.str[c.line], c.pos - 1, 1)
           b1 == [b EXCEPT !.str[c.line] = rope_del(@, c.pos - 1, 1),
                           !.curs[k] = Advance(@, -1)]
           R  == RightOf(b1, k, c.pos - 1)
           b2 == AddPos(b1, R, -1)
<1>1. GoodLines(b) /\ Counted(b) /\ DOMAIN b = Fields /\ DOMAIN b.curs = AllSlots
  BY DEF Sound, GoodLines, GoodCursors, IdsOfSlots
<1>2. /\ c \in Cursor /\ c.line \in 1 .. b.last /\ c.line \in 1 .. Len(b.str)
      /\ c.pos \in Nat /\ c.pos - 1 \in Nat /\ c.line \in Nat
      /\ b.str[c.line] \in Seq(Chars) /\ Len(b.str[c.line]) \in Nat
      /\ Lossless => c.pos <= Len(b.str[c.line])
  BY CursorFacts DEF Sound
<1>3. s \in Seq(Chars) /\ Len(s) \in Nat /\ (Lossless => Len(s) = Len(b.str[c.line]) - 1)
  <2>1. Lossless => c.pos - 1 < Len(b.str[c.line])
    <3> DEFINE L0 == Len(b.str[c.line])
               p0 == c.pos
    <3>1. L0 \in Nat /\ p0 \in Nat /\ (Lossless => p0 <= L0)
      BY <1>2
    <3> HIDE DEF L0, p0
    <3>2. Lossless => p0 - 1 < L0
      BY <3>1
    <3> QED BY <3>2 DEF L0, p0
  <2> QED BY <1>2, <2>1, RopeDel
<1>4. LineSet(b, b1, c.line, s)
      /\ b1.curs = [b.curs EXCEPT ![k] = MovedTo(c, c.line, c.pos + (-1))]
  BY <1>1 DEF LineSet, Fields, Advance
<1> HIDE DEF b1, s
<1>5. GoodLines(b1) /\ Counted(b1) /\ b1.last = b.last
      /\ \A m \in 1 .. Len(b.str) : b1.str[m] = IF m = c.line THEN s ELSE b.str[m]
  <2>1. c.line \in 1 .. b.last /\ s \in Seq(Chars) /\ LineSet(b, b1, c.line, s)
    BY <1>2, <1>3, <1>4
  <2>2. GoodLines(b1) /\ Counted(b1)
    BY <1>1, <2>1, LineSetGood
  <2>3. \A m \in 1 .. Len(b.str) : b1.str[m] = IF m = c.line THEN s ELSE b.str[m]
    <3>1. b.str \in Seq(Seq(Chars)) /\ b1.str = [b.str EXCEPT ![c.line] = s]
      BY <1>1, <2>1 DEF LineSet, GoodLines
    <3> QED BY <3>1
  <2> QED BY <2>1, <2>2, <2>3 DEF LineSet
<1>6. SameLines(b1, b2)
      /\ b2.curs = [j \in AllSlots |-> IF j \in R THEN Advance(b1.curs[j], -1) ELSE b1.curs[j]]
  <2>1. DOMAIN b1 = Fields /\ DOMAIN b1.curs = AllSlots
    BY <1>1, <1>4 DEF LineSet
  <2> QED BY <2>1, AddPosExact
<1>7. b1.curs[k].line = c.line
  BY <1>1, <1>4 DEF MovedTo
<1>8. \A j \in AllSlots : j \in R <=> /\ j # k /\ b1.curs[j] # NoCursor
                                     /\ b1.curs[j].line = c.line /\ c.pos - 1 < b1.curs[j].pos
  BY <1>7 DEF RightOf, AllSlots
<1> HIDE DEF b2, R
<1>9. ASSUME NEW j \in AllSlots
      PROVE  /\ b2.curs[j].id = b.curs[j].id
             /\ b2.curs[j] = NoCursor \/ GoodCursor(b1, b2.curs[j])
  <2>1. CASE b.curs[j].id = NULL
    <3>1. j # k /\ b.curs[j] = NoCursor /\ b1.curs[j] = b.curs[j]
      BY <1>1, <1>4, <2>1, SlotTypes DEF Sound
    <3> QED BY <1>6, <1>8, <3>1
  <2>2. CASE b.curs[j].id # NULL
    <3> DEFINE x  == b.curs[j]
               L0 == Len(b.str[x.line])
               L1 == Len(b1.str[x.line])
    <3>1. /\ x \in Cursor /\ x.line \in 1 .. b.last /\ x.line \in 1 .. Len(b.str)
          /\ x.line \in Nat /\ x.pos \in Nat /\ L0 \in Nat /\ (Lossless => x.pos <= L0)
      BY <2>2, CursorFacts DEF Sound
    <3>2. x # NoCursor
      BY <2>2 DEF NoCursor
    <3>3. (x.line # c.line => L1 = L0) /\ (x.line = c.line => L1 = Len(s) /\ L0 = Len(b.str[c.line]))
      BY <1>5, <3>1
    <3> HIDE DEF L0, L1
    <3>4. x.line = c.line => (Lossless => L1 = L0 - 1)
      BY <1>3, <3>3
    <3>5. CASE j = k \/ j \in R
      <4>1. b2.curs[j] = MovedTo(x, x.line, x.pos + (-1)) /\ x.line = c.line /\ x.pos > 0
        <5>1. CASE j = k
          BY <1>1, <1>4, <1>6, <1>8, <5>1
        <5>2. CASE j \in R /\ j # k
          <6>1. b1.curs[j] = x
            BY <1>1, <1>4, <5>2
          <6>2. x.line = c.line /\ c.pos - 1 < x.pos
            BY <1>8, <5>2, <6>1
          <6>3. x.pos > 0
            BY <1>2, <3>1, <6>2
          <6> QED BY <1>6, <5>2, <6>1, <6>2, <6>3 DEF Advance
        <5> QED BY <3>5, <5>1, <5>2
      <4>2. x.pos + (-1) \in Nat /\ (Lossless => x.pos + (-1) <= L1)
        BY <3>1, <3>4, <4>1
      <4>3. x.line \in 1 .. b1.last /\ (Lossless => x.pos + (-1) <= Len(b1.str[x.line]))
        BY <1>5, <3>1, <4>2 DEF L1
      <4>4. GoodCursor(b1, MovedTo(x, x.line, x.pos + (-1)))
        BY <3>1, <4>2, <4>3, PlacedGood
      <4> QED BY <4>1, <4>4 DEF MovedTo
    <3>6. CASE j # k /\ j \notin R
      <4>1. b2.curs[j] = x /\ b1.curs[j] = x
        BY <1>1, <1>4, <1>6, <3>6
      <4>2. x.line = c.line => ~(c.pos - 1 < x.pos)
        BY <1>8, <3>2, <3>6, <4>1
      <4>3. Lossless => x.pos <= L1
        <5>1. CASE x.line = c.line
          <6> DEFINE p0 == c.pos
          <6>1. p0 \in Nat /\ ~(p0 - 1 < x.pos) /\ (Lossless => p0 <= L0)
            BY <1>2, <3>3, <4>2, <5>1
          <6> HIDE DEF p0
          <6> QED BY <3>1, <3>4, <5>1, <6>1
        <5>2. CASE x.line # c.line
          BY <3>1, <3>3, <5>2
        <5> QED BY <5>1, <5>2
      <4>4. x.line \in 1 .. b1.last /\ (Lossless => x.pos <= Len(b1.str[x.line]))
        BY <1>5, <3>1, <4>3 DEF L1
      <4> QED BY <3>1, <4>1, <4>4 DEF GoodCursor, Fits
    <3> QED BY <3>5, <3>6
  <2> QED BY <2>1, <2>2
<1>10. GoodLines(b2) /\ Counted(b2) /\ DOMAIN b2.curs = AllSlots
       /\ \A x : GoodCursor(b1, x) => GoodCursor(b2, x)
  BY <1>5, <1>6 DEF SameLines, GoodLines, Counted, GoodCursor, Fits
<1>11. Sound(b2) /\ SameIds(b, b2)
  BY <1>9, <1>10, SoundEdited DEF Sound
<1>12. DelChar(b, k) = b2
  BY DEF DelChar, b2, b1, R
<1>13. ASSUME NEW j \in AllSlots
       PROVE  b2.curs[j] =
                LET y == b.curs[j] IN
                IF j = k \/ (y.id # NULL /\ y.line = c.line /\ c.pos - 1 < y.pos)
                  THEN MovedTo(y, y.line, y.pos + (-1)) ELSE y
  <2>1. b.curs[j] # NoCursor <=> b.curs[j].id # NULL
    BY SlotTypes DEF NoCursor, Sound
  <2>2. CASE j = k
    <3>1. j \notin R
      BY <1>8, <2>2
    <3> QED BY <1>1, <1>4, <1>6, <2>2, <3>1
  <2>3. CASE j # k
    <3>1. b1.curs[j] = b.curs[j]
      BY <1>4, <2>3
    <3> QED BY <1>6, <1>8, <2>1, <2>3, <3>1 DEF Advance
  <2> QED BY <2>2, <2>3
<1>14. Erased(b, b2, k)
  <2>1. b2.str = [b.str EXCEPT ![c.line] = s] /\ b2.last = b.last
        /\ b2.server_mode = b.server_mode
    BY <1>4, <1>6 DEF SameLines, LineSet
  <2> QED BY <1>13, <2>1 DEF Erased, s
<1> QED BY <1>11, <1>12, <1>14

-----------------------------------------------------------------------------
(***************************************************************************)
(* Lines come and go.                                                      *)
(***************************************************************************)

\* n is b with an empty line linked into its text at position i.
LinkedAt(b, n, i) ==
  /\ DOMAIN n = Fields
  /\ n.lid = InsertAt(b.lid, i, b.line_id_cnt) /\ n.line_id_cnt = b.line_id_cnt + 1
  /\ n.str = InsertAt(b.str, i, << >>) /\ n.num_lines = b.num_lines
  /\ n.first = 1 /\ n.last = b.last + 1 /\ n.server_mode = b.server_mode

\* line_new keeps a chain good, whatever line of the text it goes before.
LEMMA LinkedGood ==
  ASSUME NEW b, NEW n, GoodLines(b), NEW i \in 1 .. b.last + 1, LinkedAt(b, n, i)
  PROVE  /\ GoodLines(n) /\ Len(n.str) = Len(b.str) + 1
         /\ \A m \in 1 .. Len(b.str) + 1 :
              n.str[m] = IF m < i THEN b.str[m] ELSE IF m = i THEN << >> ELSE b.str[m - 1]
<1> DEFINE N == Len(b.str)
<1>1. N \in Nat /\ b.last \in Nat /\ b.last < N /\ Len(b.lid) = N /\ N = b.last + height - 1
      /\ height \in Nat
  BY LengthTypes DEF GoodLines
<1>2. i \in 1 .. N + 1 /\ << >> \in Seq(Chars) /\ b.line_id_cnt \in Nat
  BY <1>1, EmptySeq DEF GoodLines
<1>3. /\ n.str \in Seq(Seq(Chars)) /\ Len(n.str) = N + 1
      /\ \A m \in 1 .. N + 1 :
           n.str[m] = IF m < i THEN b.str[m] ELSE IF m = i THEN << >> ELSE b.str[m - 1]
  <2>1. b.str \in Seq(Seq(Chars)) /\ n.str = InsertAt(b.str, i, << >>)
    BY DEF LinkedAt, GoodLines
  <2> DEFINE S == Seq(Chars)
             t == b.str
             e == << >>
  <2>2. t \in Seq(S) /\ i \in 1 .. Len(t) + 1 /\ e \in S
    BY <1>2, <2>1
  <2> HIDE DEF S, t, e
  <2>3. /\ InsertAt(t, i, e) \in Seq(S)
        /\ Len(InsertAt(t, i, e)) = Len(t) + 1
        /\ \A j \in 1 .. Len(t) + 1 : InsertAt(t, i, e)[j] =
              IF j < i THEN t[j] ELSE IF j = i THEN e ELSE t[j - 1]
    BY <2>2, InsertAtProperties
  <2> QED BY <2>1, <2>3 DEF S, t, e
<1>4. /\ n.lid \in Seq(Nat) /\ Len(n.lid) = N + 1
      /\ \A m \in 1 .. N + 1 : n.lid[m] =
           IF m < i THEN b.lid[m] ELSE IF m = i THEN b.line_id_cnt ELSE b.lid[m - 1]
  <2>1. b.lid \in Seq(Nat) /\ n.lid = InsertAt(b.lid, i, b.line_id_cnt)
    BY DEF LinkedAt, GoodLines
  <2>2. i \in 1 .. Len(b.lid) + 1 /\ b.line_id_cnt \in Nat
    BY <1>1, <1>2
  <2> DEFINE S == Nat
             t == b.lid
             e == b.line_id_cnt
  <2>3. t \in Seq(S) /\ i \in 1 .. Len(t) + 1 /\ e \in S
    BY <1>1, <2>1, <2>2
  <2>5. Len(t) = N
    BY <1>1
  <2> HIDE DEF S, t, e, N
  <2>4. /\ InsertAt(t, i, e) \in Seq(S)
        /\ Len(InsertAt(t, i, e)) = Len(t) + 1
        /\ \A j \in 1 .. Len(t) + 1 : InsertAt(t, i, e)[j] =
              IF j < i THEN t[j] ELSE IF j = i THEN e ELSE t[j - 1]
    BY <2>3, InsertAtProperties
  <2> QED BY <2>1, <2>4, <2>5 DEF S, t, e
<1> HIDE DEF N
<1>5. \A m \in 1 .. N : b.lid[m] \in Nat /\ b.lid[m] < b.line_id_cnt
  BY <1>1, ElementOfSeq DEF GoodLines, N
<1>6. \A l, m \in 1 .. N : b.lid[l] = b.lid[m] => l = m
  BY DEF GoodLines, N
<1>7. ASSUME NEW l \in 1 .. N + 1, NEW m \in 1 .. N + 1, n.lid[l] = n.lid[m]
      PROVE  l = m
  <2> DEFINE Old(x) == IF x < i THEN x ELSE x - 1
  <2>1. \A x \in 1 .. N + 1 : x # i => Old(x) \in 1 .. N /\ n.lid[x] = b.lid[Old(x)]
    <3> TAKE x \in 1 .. N + 1
    <3>1. CASE x < i
      <4>1. x \in 1 .. N
        BY <1>1, <1>2, <3>1
      <4> QED BY <1>4, <3>1, <4>1
    <3>2. CASE x > i
      <4>1. x - 1 \in 1 .. N /\ ~(x < i) /\ x # i
        BY <1>1, <1>2, <3>2
      <4> QED BY <1>4, <4>1
    <3> QED BY <1>2, <3>1, <3>2
  <2>2. n.lid[i] = b.line_id_cnt
    BY <1>2, <1>4
  <2>3. (l = i) <=> (m = i)
    BY <1>5, <1>2, <1>7, <2>1, <2>2
  <2>4. CASE l # i /\ m # i
    <3>1. Old(l) = Old(m)
      BY <1>6, <1>7, <2>1, <2>4
    <3> QED BY <1>1, <1>2, <2>4, <3>1
  <2> QED BY <2>3, <2>4
<1>8. \A m \in 1 .. N + 1 : n.lid[m] < n.line_id_cnt
  <2> TAKE m \in 1 .. N + 1
  <2>1. n.line_id_cnt = b.line_id_cnt + 1
    BY DEF LinkedAt
  <2>2. CASE m = i
    BY <1>2, <1>4, <2>1, <2>2
  <2>3. CASE m # i
    <3>1. \E x \in 1 .. N : n.lid[m] = b.lid[x]
      <4>1. CASE m < i
        <5>1. m \in 1 .. N
          BY <1>1, <1>2, <4>1
        <5> QED BY <1>4, <4>1, <5>1
      <4>2. CASE ~(m < i)
        <5>1. m - 1 \in 1 .. N
          BY <1>1, <1>2, <2>3, <4>2
        <5> QED BY <1>4, <2>3, <4>2, <5>1
      <4> QED BY <4>1, <4>2
    <3> QED BY <1>2, <1>5, <2>1, <3>1
  <2> QED BY <2>2, <2>3
<1>9. n.last \in Nat /\ n.last >= 1 /\ N + 1 = n.last + height - 1
  BY <1>1 DEF LinkedAt
<1>10. \A l \in n.last + 1 .. N + 1 : n.str[l] = << >>
  <2> TAKE l \in n.last + 1 .. N + 1
  <2>1. l \in 1 .. N + 1 /\ ~(l < i) /\ l # i /\ l - 1 \in b.last + 1 .. N
    BY <1>1 DEF LinkedAt
  <2>2. n.str[l] = b.str[l - 1]
    BY <1>3, <2>1
  <2> QED BY <2>1, <2>2 DEF GoodLines, N
<1>11. n.line_id_cnt \in Nat /\ n.first = 1 /\ DOMAIN n = Fields
  BY <1>2 DEF LinkedAt
<1>12. GoodLines(n)
  BY <1>3, <1>4, <1>7, <1>8, <1>9, <1>10, <1>11 DEF GoodLines
<1> QED BY <1>3, <1>12 DEF N

\* The fields of an empty slot.
LEMMA NoCursorId == ASSUME NEW x, x = NoCursor PROVE x.id = NULL /\ x.line = 0 /\ x.pos = 0
  BY DEF NoCursor

\* Where a line linked in at position i takes a cursor.
Shifted(x, i) == MovedTo(x, Shift(x.line, i), x.pos)

\* c is b after slot k broke its line at the start.  In server mode the own
\* cursor, unless it is at the start of the text, moves up.
BrokenAbove(b, c, k) ==
  LET l == b.curs[k].line
      o == Shifted(b.curs[Own], l)
  IN  /\ c.last = b.last + 1 /\ c.server_mode = b.server_mode
      /\ \A m \in 1 .. Len(b.str) + 1 :
           c.str[m] = IF m < l THEN b.str[m] ELSE IF m = l THEN << >> ELSE b.str[m - 1]
      /\ \A j \in AllSlots \ {Own} : c.curs[j] = Shifted(b.curs[j], l)
      /\ c.curs[Own] = IF b.server_mode /\ o.line # 1 THEN cursor_move(c, o, "UP") ELSE o

\* A new line above the cursor keeps a document sound.
LEMMA InsertLineAboveSound ==
  ASSUME NEW b, GoodLines(b), GoodCursors(b), b.num_lines = Len(b.str) + 1,
         NEW k \in AllSlots, b.curs[k].id # NULL
  PROVE  /\ Sound(InsertLineAbove(b, k)) /\ SameIds(b, InsertLineAbove(b, k))
         /\ BrokenAbove(b, InsertLineAbove(b, k), k)
<1> DEFINE l  == b.curs[k].line
           n  == line_new(b, l)
           b1 == IF l = b.first THEN [n EXCEPT !.first = l] ELSE n
           b2 == buffer_trim(b1, l)
           b3 == IF k = Own THEN buffer_scroll(b2, "UP") ELSE b2
           b4 == IF b3.server_mode /\ OwnLine(b3) # b3.first THEN MoveOwn(b3, "UP") ELSE b3
<1>1. DOMAIN b = Fields /\ DOMAIN b.curs = AllSlots /\ b.first = 1 /\ b.last \in Nat
  BY DEF GoodLines, GoodCursors, IdsOfSlots
<1>2. l \in 1 .. b.last /\ l \in Nat
  BY CursorFacts
<1> HIDE DEF l
<1>3. LinkedAt(b, b1, l)
      /\ b1.curs = [j \in AllSlots |-> MovedTo(b.curs[j], Shift(b.curs[j].line, l), b.curs[j].pos)]
  <2>1. /\ DOMAIN n = Fields
        /\ n.lid = InsertAt(b.lid, l, b.line_id_cnt) /\ n.line_id_cnt = b.line_id_cnt + 1
        /\ n.str = InsertAt(b.str, l, << >>) /\ n.num_lines = b.num_lines
        /\ n.first = Shift(b.first, l) /\ n.last = Shift(b.last, l)
        /\ n.server_mode = b.server_mode
        /\ n.curs = [j \in DOMAIN b.curs |->
                      MovedTo(b.curs[j], Shift(b.curs[j].line, l), b.curs[j].pos)]
    BY <1>1, LineNewExact
  <2>2. Shift(b.last, l) = b.last + 1 /\ (l # 1 => Shift(1, l) = 1)
    BY <1>1, <1>2 DEF Shift
  <2> HIDE DEF n
  <2>3. CASE l = 1
    <3>1. b1 = [n EXCEPT !.first = 1]
      BY <1>1, <2>3
    <3> HIDE DEF b1
    <3> QED BY <1>1, <2>1, <2>2, <3>1 DEF LinkedAt, Fields
  <2>4. CASE l # 1
    <3>1. b1 = n
      BY <1>1, <2>4
    <3> HIDE DEF b1
    <3> QED BY <1>1, <2>1, <2>2, <2>4, <3>1 DEF LinkedAt
  <2> QED BY <2>3, <2>4
<1> HIDE DEF b1
<1>4. GoodLines(b1) /\ Counted(b1) /\ b1.last = b.last + 1
      /\ \A m \in 1 .. Len(b.str) + 1 :
           b1.str[m] = IF m < l THEN b.str[m] ELSE IF m = l THEN << >> ELSE b.str[m - 1]
  <2>1. l \in 1 .. b.last + 1
    BY <1>1, <1>2
  <2>2. b1.num_lines = b.num_lines /\ b1.last = b.last + 1
    BY <1>3 DEF LinkedAt
  <2>3. GoodLines(b1) /\ Len(b1.str) = Len(b.str) + 1
        /\ \A m \in 1 .. Len(b.str) + 1 :
           b1.str[m] = IF m < l THEN b.str[m] ELSE IF m = l THEN << >> ELSE b.str[m - 1]
    BY <1>3, <2>1, LinkedGood
  <2> QED BY <2>2, <2>3 DEF Counted
<1>5. ASSUME NEW j \in AllSlots
      PROVE  /\ b1.curs[j].id = b.curs[j].id
             /\ b1.curs[j] = NoCursor \/ GoodCursor(b1, b1.curs[j])
  <2> DEFINE x == b.curs[j]
  <2>1. b1.curs[j] = MovedTo(x, Shift(x.line, l), x.pos)
    BY <1>3
  <2>2. CASE x.id = NULL
    <3>1. x = NoCursor
      BY <2>2, SlotTypes
    <3>2. Shift(x.line, l) = 0
      BY <1>2, <3>1, NoCursorId DEF Shift
    <3> QED BY <2>1, <3>1, <3>2, NoCursorId DEF MovedTo, NoCursor
  <2>3. CASE x.id # NULL
    <3>1. /\ x \in Cursor /\ x.line \in 1 .. b.last /\ x.line \in 1 .. Len(b.str)
          /\ x.line \in Nat /\ x.pos \in Nat /\ (Lossless => x.pos <= Len(b.str[x.line]))
      BY <2>3, CursorFacts
    <3> DEFINE m == Shift(x.line, l)
    <3>2. m \in 1 .. b1.last /\ m \in Nat
      BY <1>1, <1>2, <1>4, <3>1 DEF Shift
    <3>3. b1.str[m] = b.str[x.line]
      <4>1. Len(b.str) \in Nat
        BY LengthTypes
      <4>2. CASE x.line < l
        <5>1. m = x.line /\ x.line \in 1 .. Len(b.str) + 1
          BY <1>2, <3>1, <4>1, <4>2 DEF Shift
        <5> HIDE DEF m
        <5> QED BY <1>4, <4>2, <5>1
      <4>3. CASE x.line >= l
        <5>1. m = x.line + 1 /\ x.line + 1 \in 1 .. Len(b.str) + 1
              /\ ~(x.line + 1 < l) /\ x.line + 1 # l /\ (x.line + 1) - 1 = x.line
          BY SMTT(60), <1>2, <3>1, <4>1, <4>3 DEF Shift
        <5> HIDE DEF m
        <5> QED BY <1>4, <5>1
      <4> QED BY <1>2, <3>1, <4>2, <4>3
    <3> HIDE DEF m
    <3>4. Lossless => x.pos <= Len(b1.str[m])
      BY <3>1, <3>3
    <3>5. GoodCursor(b1, MovedTo(x, m, x.pos)) /\ MovedTo(x, m, x.pos).id = x.id
      BY <3>1, <3>2, <3>4, PlacedGood
    <3> QED BY <2>1, <3>5 DEF m
  <2> QED BY <2>2, <2>3
<1>6. Sound(b1) /\ SameIds(b, b1)
  <2>1. DOMAIN b1.curs = AllSlots
    BY <1>3
  <2> QED BY <1>4, <1>5, <2>1, SoundEdited
<1>7. Sound(b2) /\ SameIds(b, b2)
  <2>1. DOMAIN b1 = Fields /\ IdsOfSlots(b1.curs)
    BY <1>6 DEF Sound, GoodLines, GoodCursors
  <2>2. Same(b1, b2)
    BY <2>1, TrimSame
  <2> HIDE DEF b2
  <2> QED BY <1>6, <2>1, <2>2, SoundSame, SameSameIds, SameIdsTrans
<1> HIDE DEF b2
<1>8. Sound(b3) /\ SameIds(b, b3)
  <2>1. DOMAIN b2 = Fields /\ IdsOfSlots(b2.curs)
    BY <1>7 DEF Sound, GoodLines, GoodCursors
  <2>2. Same(b2, b3)
    BY <2>1, ScrollSame, SameRefl
  <2> HIDE DEF b3
  <2> QED BY <1>7, <2>1, <2>2, SoundSame, SameSameIds, SameIdsTrans
<1> HIDE DEF b3
<1>9. Sound(b4) /\ SameIds(b, b4)
  BY <1>8, MoveOwnSound, SameIdsTrans
<1> HIDE DEF b4
<1>10. InsertLineAbove(b, k) \in {b4, ui_update(b4)}
  BY DEF InsertLineAbove, LinkAbove, OwnScrollsUp, StayAtStart, PaintLine, PaintIf,
         l, n, b1, b2, b3, b4
<1>11. Same(b1, b3)
  <2>1. DOMAIN b1 = Fields /\ DOMAIN b2 = Fields
    BY <1>6, <1>7 DEF Sound, GoodLines
  <2>2. Same(b1, b2)
    BY <2>1, TrimSame DEF b2
  <2>3. Same(b2, b3)
    BY <2>1, ScrollSame, SameRefl DEF b3
  <2> QED BY <2>2, <2>3, SameTrans
<1>12. DOMAIN b3 = Fields /\ DOMAIN b4 = Fields /\ DOMAIN b3.curs = AllSlots
       /\ Own \in AllSlots /\ b3.first = 1 /\ b3.curs[Own] = Shifted(b.curs[Own], l)
       /\ b3.curs = b1.curs /\ b3.server_mode = b.server_mode /\ b3.curs[Own].pos \in Int
  <2>1. Own \in AllSlots /\ b.curs[Own].pos \in Int
    BY SlotTypes, AllSlotsNat DEF GoodCursor, Cursor
  <2>2. DOMAIN b3 = Fields /\ b3.first = 1 /\ DOMAIN b4 = Fields /\ DOMAIN b3.curs = AllSlots
    BY <1>8, <1>9 DEF Sound, GoodLines, GoodCursors, IdsOfSlots
  <2>3. b3.curs = b1.curs /\ b3.server_mode = b.server_mode
    BY <1>3, <1>11 DEF Same, SameLines, LinkedAt
  <2>4. b3.curs[Own] = Shifted(b.curs[Own], l)
    BY <1>3, <2>1, <2>3 DEF Shifted
  <2> QED BY <2>1, <2>2, <2>3, <2>4 DEF Shifted, MovedTo
<1>13. /\ SameLines(b1, b4)
       /\ \A j \in AllSlots \ {Own} : b4.curs[j] = b1.curs[j]
       /\ b4.curs[Own] = IF b.server_mode /\ b3.curs[Own].line # 1
                           THEN cursor_move(b3, b3.curs[Own], "UP") ELSE b3.curs[Own]
  <2>1. CASE b.server_mode /\ b3.curs[Own].line # 1
    <3>1. b4 = MoveOwn(b3, "UP")
      BY <1>12, <2>1 DEF b4, OwnLine
    <3>2. SameLines(b3, b4)
          /\ b4.curs = [b3.curs EXCEPT ![Own] = cursor_move(b3, b3.curs[Own], "UP")]
      BY <1>12, <3>1, MoveOwnExact
    <3> QED BY <1>11, <1>12, <2>1, <3>2 DEF Same, SameLines
  <2>2. CASE ~(b.server_mode /\ b3.curs[Own].line # 1)
    <3>1. b4 = b3
      BY <1>12, <2>2 DEF b4, OwnLine
    <3> QED BY <1>11, <1>12, <2>2, <3>1 DEF Same
  <2> QED BY <2>1, <2>2
<1> DEFINE r == InsertLineAbove(b, k)
<1>14. Same(b4, r)
  BY <1>10, <1>12, UiSame, SameRefl
<1> HIDE DEF r
<1>15. SameLines(b1, r) /\ SameLines(b3, r)
  BY <1>11, <1>13, <1>14 DEF Same, SameLines
<1>16. cursor_move(b3, b3.curs[Own], "UP") = cursor_move(r, b3.curs[Own], "UP")
  BY <1>12, <1>15, CursorMoveSame
<1>17. BrokenAbove(b, r, k)
  <2>1. r.curs = b4.curs /\ r.str = b1.str /\ r.last = b1.last
        /\ r.server_mode = b1.server_mode
    BY <1>14, <1>15 DEF Same, SameLines
  <2>2. r.last = b.last + 1 /\ r.server_mode = b.server_mode
    BY <1>3, <2>1 DEF LinkedAt
  <2>3. \A j \in AllSlots \ {Own} : r.curs[j] = Shifted(b.curs[j], l)
    BY <1>3, <1>13, <2>1 DEF Shifted
  <2>4. r.curs[Own] = IF b.server_mode /\ Shifted(b.curs[Own], l).line # 1
                        THEN cursor_move(r, Shifted(b.curs[Own], l), "UP")
                        ELSE Shifted(b.curs[Own], l)
    BY <1>12, <1>13, <1>16, <2>1
  <2> QED BY <1>4, <2>1, <2>2, <2>3, <2>4 DEF BrokenAbove, l
<1> QED BY <1>9, <1>10, <1>17, PaintedSound DEF r

\* After moving to a slot that has an id, it is found there.
LEMMA HasCursorOf ==
  ASSUME NEW b, NEW c, Sound(c), SameIds(b, c), NEW k \in AllSlots, Foremost(b.curs, k)
  PROVE  HasCursor(c, b.curs[k].id) /\ bcursor_find(c, b.curs[k].id) = k
<1>1. Foremost(c.curs, k) /\ c.curs[k].id = b.curs[k].id
  BY IdsKept DEF SameIds
<1>2. bcursor_find(c, b.curs[k].id) = k
  BY <1>1, FindIs
<1> QED BY <1>2, AllSlotsNat DEF HasCursor, NULL

\* Splitting a line in two, linked one below the other.
SplitLine(n, i, p, q) == [n EXCEPT !.str = [@ EXCEPT ![i] = p, ![i + 1] = q]]

IsSplit(b, d, i, p, q) ==
  /\ GoodLines(d) /\ d.last = b.last + 1 /\ Len(d.str) = Len(b.str) + 1
  /\ d.server_mode = b.server_mode
  /\ d.str[i] = p /\ d.str[i + 1] = q
  /\ \A m \in 1 .. Len(b.str) : m < i => d.str[m] = b.str[m]
  /\ \A m \in 1 .. Len(b.str) : m > i => d.str[m + 1] = b.str[m]

SplitDone(b, n, i, p, q) ==
  /\ IsSplit(b, SplitLine(n, i, p, q), i, p, q)
  /\ SplitLine(n, i, p, q).curs = n.curs
  /\ SplitLine(n, i, p, q).num_lines = b.num_lines

\* A line split in two after linking in a new one leaves a good chain.
LEMMA SplitGood ==
  ASSUME NEW b, GoodLines(b), NEW i \in 1 .. b.last, NEW n, LinkedAt(b, n, i + 1),
         NEW p \in Seq(Chars), NEW q \in Seq(Chars)
  PROVE  SplitDone(b, n, i, p, q)
<1> DEFINE N == Len(b.str)
           e == [n EXCEPT !.str = [n.str EXCEPT ![i] = p]]
           d == [n EXCEPT !.str = [@ EXCEPT ![i] = p, ![i + 1] = q]]
<1>1. N \in Nat /\ i \in 1 .. N /\ i \in Nat /\ b.last \in Nat /\ b.last < N
  BY LengthTypes
<1>2. GoodLines(n) /\ Len(n.str) = N + 1 /\ n.last = b.last + 1 /\ n.num_lines = b.num_lines
      /\ \A m \in 1 .. N + 1 :
            n.str[m] = IF m < i + 1 THEN b.str[m] ELSE IF m = i + 1 THEN << >> ELSE b.str[m - 1]
  <2>1. i + 1 \in 1 .. b.last + 1
    BY <1>1
  <2> QED BY <2>1, LinkedGood DEF LinkedAt
<1>3. i \in 1 .. n.last /\ i + 1 \in 1 .. n.last
  BY <1>1, <1>2
<1>4. LineSet(n, e, i, p)
  BY DEF LinkedAt, LineSet, Fields
<1>5. LineSet(e, d, i + 1, q) /\ d.curs = n.curs
  <2>1. DOMAIN e = Fields /\ e.str = [n.str EXCEPT ![i] = p]
    BY <1>4 DEF LineSet
  <2>2. d = [e EXCEPT !.str = [e.str EXCEPT ![i + 1] = q]]
    BY <2>1 DEF Fields
  <2> HIDE DEF d
  <2>3. d.str = [e.str EXCEPT ![i + 1] = q]
    BY <2>1, <2>2 DEF Fields
  <2>4. DOMAIN d = Fields /\ d.lid = e.lid /\ d.line_id_cnt = e.line_id_cnt
        /\ d.num_lines = e.num_lines /\ d.first = e.first /\ d.last = e.last
        /\ d.server_mode = e.server_mode /\ d.curs = e.curs
    BY <2>1, <2>2 DEF Fields
  <2>5. e.curs = n.curs
    BY DEF LinkedAt, Fields
  <2> QED BY <2>3, <2>4, <2>5 DEF LineSet
<1> HIDE DEF d, e
<1>6. GoodLines(e) /\ Len(e.str) = N + 1 /\ e.last = n.last /\ e.num_lines = n.num_lines
      /\ e.str[i] = p /\ \A m \in 1 .. N + 1 : m # i => e.str[m] = n.str[m]
  <2>1. GoodLines(n) /\ i \in 1 .. n.last
    BY <1>2, <1>3
  <2>2. /\ GoodLines(e) /\ Len(e.str) = Len(n.str)
        /\ e.str[i] = p /\ \A m \in 1 .. Len(n.str) : m # i => e.str[m] = n.str[m]
    BY <1>4, <2>1, LineSetGood
  <2> QED BY <1>2, <1>4, <2>2 DEF LineSet
<1>7. GoodLines(d) /\ Len(d.str) = N + 1 /\ d.last = n.last /\ d.num_lines = n.num_lines
      /\ d.str[i + 1] = q /\ \A m \in 1 .. N + 1 : m # i + 1 => d.str[m] = e.str[m]
  <2> PICK j : j = i + 1
    OBVIOUS
  <2>1. GoodLines(e) /\ j \in 1 .. e.last /\ q \in Seq(Chars) /\ LineSet(e, d, j, q)
    BY <1>3, <1>5, <1>6
  <2>2. GoodLines(d) /\ Len(d.str) = Len(e.str)
    BY <2>1, LineSetGood
  <2>3. d.str[j] = q /\ \A m \in 1 .. Len(e.str) : m # j => d.str[m] = e.str[m]
    <3>1. j \in 1 .. Len(e.str) /\ e.str \in Seq(Seq(Chars)) /\ d.str = [e.str EXCEPT ![j] = q]
      BY <2>1, LengthTypes DEF LineSet, GoodLines
    <3> QED BY <3>1
  <2> QED BY <1>5, <1>6, <2>2, <2>3 DEF LineSet
<1>8. d.str[i] = p /\ d.str[i + 1] = q
  <2>1. i \in 1 .. N + 1 /\ i + 1 \in 1 .. N + 1 /\ i # i + 1
    BY <1>1
  <2> QED BY <1>6, <1>7, <2>1
<1>9. ASSUME NEW m \in 1 .. N
      PROVE  (m < i => d.str[m] = b.str[m]) /\ (m > i => d.str[m + 1] = b.str[m])
  <2>1. CASE m < i
    <3>1. m \in 1 .. N + 1 /\ m # i /\ m # i + 1 /\ m < i + 1 /\ ~(m > i)
      BY <1>1, <2>1
    <3> QED BY <1>2, <1>6, <1>7, <3>1
  <2>2. CASE m > i
    <3>1. m + 1 \in 1 .. N + 1 /\ m + 1 # i /\ m + 1 # i + 1 /\ ~(m + 1 < i + 1)
          /\ (m + 1) - 1 = m /\ ~(m < i)
      BY <1>1, <2>2
    <3> QED BY <1>2, <1>6, <1>7, <3>1
  <2> QED BY <2>1, <2>2
<1>12. d.server_mode = b.server_mode
  BY <1>4, <1>5 DEF LineSet, LinkedAt
<1>10. IsSplit(b, d, i, p, q) /\ d.curs = n.curs /\ d.num_lines = b.num_lines
  BY <1>2, <1>5, <1>7, <1>8, <1>9, <1>12 DEF N, IsSplit
<1>11. d = SplitLine(n, i, p, q)
  BY DEF SplitLine, d
<1> QED BY <1>10, <1>11 DEF SplitDone

\* The cursors in R move, the own one by MoveOwn.
MoveSet(b, R, dir) ==
  MovePeers(IF Own \in R THEN MoveOwn(b, dir) ELSE b, R \ {Own}, dir)

\* Moving the own cursor and then peers moves those and changes no line.
LEMMA MoveSetExact ==
  ASSUME NEW b, DOMAIN b = Fields, DOMAIN b.curs = AllSlots, NEW R,
         \A j \in AllSlots : j \in R => b.curs[j].pos \in Int, NEW dir
  PROVE  /\ SameLines(b, MoveSet(b, R, dir))
         /\ MoveSet(b, R, dir).curs = [j \in AllSlots |->
               IF j \in R THEN cursor_move(b, b.curs[j], dir) ELSE b.curs[j]]
<1> DEFINE m == IF Own \in R THEN MoveOwn(b, dir) ELSE b
           c == MovePeers(m, R \ {Own}, dir)
<1>1. Own \in AllSlots
  BY AllSlotsNat
<1>2. SameLines(b, m) /\ DOMAIN m = Fields /\ DOMAIN m.curs = AllSlots
      /\ \A j \in AllSlots : m.curs[j] =
           IF j = Own /\ Own \in R THEN cursor_move(b, b.curs[j], dir) ELSE b.curs[j]
  <2>1. CASE Own \in R
    <3>1. SameLines(b, MoveOwn(b, dir))
          /\ MoveOwn(b, dir).curs = [b.curs EXCEPT ![Own] = cursor_move(b, b.curs[Own], dir)]
      BY <1>1, <2>1, MoveOwnExact
    <3> QED BY <2>1, <3>1 DEF SameLines
  <2>2. CASE Own \notin R
    BY <2>2 DEF SameLines
  <2> QED BY <2>1, <2>2
<1> HIDE DEF m
<1>3. SameLines(m, c) /\ c.curs = [j \in DOMAIN m.curs |->
        IF j \in R \ {Own} THEN cursor_move(m, m.curs[j], dir) ELSE m.curs[j]]
  BY <1>2, MovePeersExact
<1> HIDE DEF c
<1>4. SameLines(b, c)
  BY <1>2, <1>3 DEF SameLines
<1>5. ASSUME NEW j \in AllSlots
      PROVE  c.curs[j] = IF j \in R THEN cursor_move(b, b.curs[j], dir) ELSE b.curs[j]
  <2>1. CASE j \in R /\ j # Own
    <3>1. c.curs[j] = cursor_move(m, b.curs[j], dir)
      BY <1>2, <1>3, <2>1
    <3> QED BY <1>2, <2>1, <3>1, CursorMoveSame
  <2>2. CASE j = Own \/ j \notin R
    BY <1>2, <1>3, <2>2
  <2> QED BY <2>1, <2>2
<1>6. c.curs = [j \in AllSlots |-> c.curs[j]]
  BY <1>2, <1>3
<1> QED BY <1>4, <1>5, <1>6 DEF c, m, MoveSet

\* bcursor_move moves the first cursor that has the id, and no other.
LEMMA MoveOneExact ==
  ASSUME NEW b, DOMAIN b = Fields, IdsOfSlots(b.curs), NEW k \in AllSlots,
         Foremost(b.curs, k), b.curs[k].pos \in Int, NEW dir
  PROVE  LET c == bcursor_move(b, b.curs[k].id, dir) IN
         /\ SameLines(b, c)
         /\ c.curs = [b.curs EXCEPT ![k] = cursor_move(b, b.curs[k], dir)]
<1>1. bcursor_find(b, b.curs[k].id) = k
  BY FindIs
<1>2. CASE k = Own
  BY <1>1, <1>2, MoveOwnExact DEF bcursor_move
<1>3. CASE k # Own
  <2>1. bcursor_move(b, b.curs[k].id, dir) = MovePeers(b, {k}, dir)
    BY <1>1, <1>3 DEF bcursor_move
  <2>2. SameLines(b, MovePeers(b, {k}, dir))
        /\ MovePeers(b, {k}, dir).curs = [j \in DOMAIN b.curs |->
              IF j \in {k} THEN cursor_move(b, b.curs[j], dir) ELSE b.curs[j]]
    BY MovePeersExact
  <2> QED BY <2>1, <2>2
<1> QED BY <1>2, <1>3

\* c is b after slot k broke its line inside or at the end.
BrokenBelow(b, c, k) ==
  LET x == b.curs[k]
      i == x.line
      s == b.str[i]
      at == Min2(x.pos, Len(s))
      q == SubSeq(s, at + 1, Len(s))
      Carried(y) == x.pos # Len(s) /\ y.id # NULL /\ y.line = i /\ x.pos < y.pos
  IN  /\ IsSplit(b, c, i, SubSeq(s, 1, at), q)
      /\ \A j \in AllSlots : c.curs[j] =
           LET y == b.curs[j] IN
           IF j = k THEN MovedTo(y, i + 1, 0)
           ELSE IF Carried(y) THEN MovedTo(y, i + 1, Min2(y.pos - x.pos, Len(q)))
           ELSE Shifted(y, i + 1)

\* A line split at the cursor keeps a document sound: the cursors that go down
\* find their position in the new line.
LEMMA InsertLineBelowSound ==
  ASSUME NEW b, GoodLines(b), GoodCursors(b), b.num_lines = Len(b.str) + 1,
         NEW k \in AllSlots, b.curs[k].id # NULL, Foremost(b.curs, k)
  PROVE  /\ Sound(InsertLineBelow(b, k)) /\ SameIds(b, InsertLineBelow(b, k))
         /\ BrokenBelow(b, InsertLineBelow(b, k), k)
<1> DEFINE c  == b.curs[k]
           l  == c.line + 1
           s  == b.str[c.line]
           at == Min2(c.pos, Len(s))
           p  == SubSeq(s, 1, at)
           q  == SubSeq(s, at + 1, Len(s))
           n  == line_new(b, l)
           b1 == IF c.line = b.last THEN [n EXCEPT !.last = l] ELSE n
           d  == SplitLine(b1, c.line, p, q)
           R  == IF c.pos = Len(s) THEN {} ELSE RightOf(b, k, c.pos)
           b2 == AddPos(d, R, -c.pos)
           b4 == MoveSet(b2, R, "DOWN")
           b4k == [b4 EXCEPT !.curs[k] = MovedTo(@, c.line, 0)]
           b5 == buffer_trim(b4k, l)
           b6 == bcursor_move(b5, c.id, "DOWN")
<1>1. DOMAIN b = Fields /\ DOMAIN b.curs = AllSlots /\ b.first = 1 /\ b.last \in Nat
  BY DEF GoodLines, GoodCursors, IdsOfSlots
<1>2. /\ c \in Cursor /\ c.id \in Nat /\ c.line \in Nat /\ c.pos \in Nat
      /\ c.line \in 1 .. b.last /\ c.line \in 1 .. Len(b.str)
      /\ s \in Seq(Chars) /\ Len(s) \in Nat /\ (Lossless => c.pos <= Len(s))
  BY CursorFacts
<1>3. /\ p \in Seq(Chars) /\ q \in Seq(Chars) /\ Len(p) = at /\ at \in Nat
      /\ (Lossless => at = c.pos)
  <2>1. at \in 0 .. Len(s) /\ (Lossless => at = c.pos)
    BY <1>2 DEF Min2
  <2> HIDE DEF at, s
  <2>2. \A j \in 1 .. Len(s) : s[j] \in Chars
    BY <1>2, ElementOfSeq
  <2>3. p \in Seq(Chars) /\ Len(p) = at
    BY <1>2, <2>1, <2>2, SubSeqProperties
  <2>4. q \in Seq(Chars)
    <3> PICK i : i = at + 1
      OBVIOUS
    <3>1. i \in Int /\ \A j \in i .. Len(s) : s[j] \in Chars
      BY <1>2, <2>1, <2>2
    <3>2. SubSeq(s, i, Len(s)) \in Seq(Chars)
      BY <1>2, <3>1, SubSeqProperties
    <3> QED BY <3>2
  <2> QED BY <2>1, <2>3, <2>4
<1> HIDE DEF p, q, at
<1>4. LinkedAt(b, b1, l)
      /\ b1.curs = [j \in AllSlots |-> MovedTo(b.curs[j], Shift(b.curs[j].line, l), b.curs[j].pos)]
  <2>1. /\ DOMAIN n = Fields
        /\ n.lid = InsertAt(b.lid, l, b.line_id_cnt) /\ n.line_id_cnt = b.line_id_cnt + 1
        /\ n.str = InsertAt(b.str, l, << >>) /\ n.num_lines = b.num_lines
        /\ n.first = Shift(b.first, l) /\ n.last = Shift(b.last, l)
        /\ n.server_mode = b.server_mode
        /\ n.curs = [j \in DOMAIN b.curs |->
                      MovedTo(b.curs[j], Shift(b.curs[j].line, l), b.curs[j].pos)]
    BY <1>1, LineNewExact
  <2>2. Shift(1, l) = 1 /\ (c.line # b.last => Shift(b.last, l) = b.last + 1)
    BY <1>1, <1>2 DEF Shift
  <2> HIDE DEF n, c
  <2>3. CASE c.line = b.last
    <3>1. b1 = [n EXCEPT !.last = b.last + 1]
      BY <2>3
    <3> HIDE DEF b1, l
    <3> QED BY <1>1, <2>1, <2>2, <3>1 DEF LinkedAt, Fields
  <2>4. CASE c.line # b.last
    <3>1. b1 = n
      BY <2>4
    <3> HIDE DEF b1, l
    <3> QED BY <1>1, <2>1, <2>2, <2>4, <3>1 DEF LinkedAt
  <2> QED BY <2>3, <2>4
<1> HIDE DEF b1
<1>5. IsSplit(b, d, c.line, p, q) /\ d.curs = b1.curs /\ d.num_lines = b.num_lines
  <2> DEFINE i == c.line
  <2>1. i \in 1 .. b.last /\ LinkedAt(b, b1, i + 1)
    BY <1>2, <1>4
  <2> HIDE DEF i, d, p, q, s, at
  <2>2. /\ IsSplit(b, SplitLine(b1, i, p, q), i, p, q)
        /\ SplitLine(b1, i, p, q).curs = b1.curs
        /\ SplitLine(b1, i, p, q).num_lines = b.num_lines
    <3>1. GoodLines(b) /\ p \in Seq(Chars) /\ q \in Seq(Chars)
      BY <1>3
    <3>2. SplitDone(b, b1, i, p, q)
      BY <2>1, <3>1, SplitGood
    <3> QED BY <3>2 DEF SplitDone
  <2> QED BY <2>2 DEF i, d, p, q, s, at
<1>20. l = c.line + 1 /\ l \in Nat /\ l \in 1 .. b.last + 1
  BY <1>1, <1>2, SMTT(60)
<1> HIDE DEF d, R, l
<1>6. Counted(d) /\ DOMAIN d = Fields /\ DOMAIN d.curs = AllSlots
  BY <1>4, <1>5 DEF Counted, GoodLines, IsSplit
<1>7. \A j \in R : /\ j \in AllSlots /\ j # k /\ b.curs[j].id # NULL
                  /\ b.curs[j].line = c.line
  <2>1. \A j \in AllSlots : b.curs[j] # NoCursor => b.curs[j].id # NULL
    BY SlotTypes
  <2> QED BY <2>1 DEF R, RightOf, AllSlots
<1>8. SameLines(d, b2) /\ b2.curs = [j \in AllSlots |->
        IF j \in R THEN Advance(d.curs[j], -c.pos) ELSE d.curs[j]]
  BY <1>6, AddPosExact
<1> HIDE DEF b2
<1>9. ASSUME NEW j \in R
      PROVE  /\ b.curs[j] \in Cursor /\ b.curs[j].pos - c.pos \in Nat
             /\ b2.curs[j] = MovedTo(b.curs[j], c.line, b.curs[j].pos - c.pos)
             /\ b2.curs[j].pos \in Nat
  <2> DEFINE x == b.curs[j]
  <2>1. x \in Cursor /\ x.pos \in Nat /\ x.line = c.line /\ j \in AllSlots
    BY <1>7, CursorFacts
  <2>2. c.pos < x.pos
    BY DEF R, RightOf
  <2>3. d.curs[j] = MovedTo(x, Shift(x.line, l), x.pos)
    BY <1>4, <1>5, <2>1
  <2>4. Shift(x.line, l) = c.line
    BY <1>2, <1>20, <2>1 DEF Shift
  <2>5. b2.curs[j] = Advance(MovedTo(x, c.line, x.pos), -c.pos)
    BY <1>8, <2>1, <2>3, <2>4
  <2>6. x.pos + (-c.pos) = x.pos - c.pos /\ x.pos - c.pos \in Nat
    BY SMTT(30), <1>2, <2>1, <2>2
  <2>7. Advance(MovedTo(x, c.line, x.pos), -c.pos) = MovedTo(x, c.line, x.pos + (-c.pos))
    BY DEF Advance, MovedTo
  <2>8. MovedTo(x, c.line, x.pos - c.pos).pos = x.pos - c.pos
    BY DEF MovedTo
  <2> QED BY <2>1, <2>5, <2>6, <2>7, <2>8
<1>10. SameLines(b2, b4) /\ b4.curs = [j \in AllSlots |->
         IF j \in R THEN cursor_move(b2, b2.curs[j], "DOWN") ELSE b2.curs[j]]
  <2>1. DOMAIN b2 = Fields /\ DOMAIN b2.curs = AllSlots
    BY <1>8 DEF SameLines
  <2>2. \A j \in AllSlots : j \in R => b2.curs[j].pos \in Int
    BY <1>9
  <2> QED BY <2>1, <2>2, MoveSetExact
<1> HIDE DEF b4
<1>11. /\ GoodLines(b4) /\ Counted(b4) /\ b4.str = d.str /\ b4.last = b.last + 1
       /\ b2.str = d.str /\ b2.last = b.last + 1
  <2>1. GoodLines(d) /\ Counted(d) /\ d.last = b.last + 1
    BY <1>5, <1>6 DEF IsSplit
  <2>2. GoodLines(b2) /\ Counted(b2) /\ b2.str = d.str /\ b2.last = d.last
    BY <1>8, <2>1, SameLinesGood
  <2>3. GoodLines(b4) /\ Counted(b4) /\ b4.str = b2.str /\ b4.last = b2.last
    BY <1>10, <2>2, SameLinesGood
  <2> QED BY <2>1, <2>2, <2>3
<1>21. /\ b4.str[c.line] = p /\ b4.str[l] = q
       /\ \A m \in 1 .. Len(b.str) : m < c.line => b4.str[m] = b.str[m]
       /\ \A m \in 1 .. Len(b.str) : m > c.line => b4.str[m + 1] = b.str[m]
  BY <1>5, <1>11, <1>20 DEF IsSplit
<1>12. \A j \in R : b4.curs[j] =
         MovedTo(b.curs[j], l, Min2(b.curs[j].pos - c.pos, Len(q)))
  <2> TAKE j \in R
  <2> DEFINE x == MovedTo(b.curs[j], c.line, b.curs[j].pos - c.pos)
  <2>1. b4.curs[j] = cursor_move(b2, x, "DOWN")
    BY <1>7, <1>9, <1>10
  <2>2. x.line = c.line /\ x.pos = b.curs[j].pos - c.pos /\ x.id = b.curs[j].id
    BY DEF MovedTo
  <2>3. CanDown(b2, x)
    <3>1. c.line < Len(b2.str) /\ c.line # b2.last
      BY <1>1, <1>2, <1>5, <1>11, LengthTypes, SMTT(60) DEF IsSplit
    <3> QED BY <2>2, <3>1 DEF CanDown, HasNext, NumLines
  <2>4. LineLen(b2, x.line + 1) = Len(q) /\ x.line + 1 = l
    BY <1>5, <1>20, <1>11, <2>2 DEF LineLen, IsSplit
  <2> HIDE DEF x
  <2>5. cursor_move(b2, x, "DOWN") = MovedTo(x, x.line + 1, Min2(x.pos, LineLen(b2, x.line + 1)))
    BY <2>3, MoveDown
  <2> QED BY <2>1, <2>2, <2>4, <2>5 DEF MovedTo
<1>13. \A j \in AllSlots \ R : b4.curs[j] =
         MovedTo(b.curs[j], Shift(b.curs[j].line, l), b.curs[j].pos)
  <2> TAKE j \in AllSlots \ R
  <2>1. d.curs[j] = MovedTo(b.curs[j], Shift(b.curs[j].line, l), b.curs[j].pos)
    BY <1>4, <1>5
  <2>2. b2.curs[j] = d.curs[j]
    BY <1>8
  <2>3. b4.curs[j] = b2.curs[j]
    BY <1>10
  <2> QED BY <2>1, <2>2, <2>3
<1>14. ASSUME NEW j \in AllSlots
       PROVE  /\ b4.curs[j].id = b.curs[j].id
              /\ b4.curs[j] = NoCursor \/ GoodCursor(b4, b4.curs[j])
  <2> DEFINE x == b.curs[j]
  <2>1. CASE x.id = NULL
    <3>1. x = NoCursor
      BY <2>1, SlotTypes
    <3>2. Shift(x.line, l) = 0
      BY <1>2, <1>20, <3>1, NoCursorId DEF Shift
    <3>3. j \notin R
      BY <1>7, <2>1
    <3> QED BY <1>13, <3>1, <3>2, <3>3, NoCursorId DEF MovedTo, NoCursor
  <2>2. CASE j \in R
    <3> DEFINE y == Min2(x.pos - c.pos, Len(q))
    <3>1. Len(q) \in Nat
      BY <1>3, LenProperties
    <3>2. y \in Nat /\ y <= Len(q) /\ x \in Cursor
      BY <1>9, <2>2, <3>1 DEF Min2
    <3>3. l \in 1 .. b4.last /\ l \in Nat /\ b4.str[l] = q
      BY <1>11, <1>20, <1>21
    <3>4. b4.curs[j] = MovedTo(x, l, y)
      BY <1>12, <2>2
    <3> HIDE DEF y, x
    <3>5. GoodCursor(b4, MovedTo(x, l, y)) /\ MovedTo(x, l, y).id = x.id
      BY <3>2, <3>3, PlacedGood
    <3> QED BY <3>4, <3>5 DEF x
  <2>3. CASE x.id # NULL /\ j \notin R
    <3>1. /\ x \in Cursor /\ x.line \in 1 .. b.last /\ x.line \in 1 .. Len(b.str)
          /\ x.line \in Nat /\ x.pos \in Nat /\ (Lossless => x.pos <= Len(b.str[x.line]))
      BY <2>3, CursorFacts
    <3> DEFINE m == Shift(x.line, l)
    <3>2. m \in 1 .. b4.last /\ m \in Nat
      BY <1>1, <1>20, <1>11, <3>1 DEF Shift
    <3>3. Lossless => x.pos <= Len(b4.str[m])
      <4>1. CASE x.line < c.line
        <5>1. m = x.line
          BY SMTT(30), <1>2, <1>20, <3>1, <4>1 DEF Shift
        <5> HIDE DEF m
        <5>2. b4.str[m] = b.str[x.line]
          BY <1>21, <3>1, <4>1, <5>1
        <5> QED BY <3>1, <5>2
      <4>2. CASE x.line > c.line
        <5>1. m = x.line + 1
          BY SMTT(30), <1>2, <1>20, <3>1, <4>2 DEF Shift
        <5> HIDE DEF m
        <5>2. b4.str[m] = b.str[x.line]
          BY <1>21, <3>1, <4>2, <5>1
        <5> QED BY <3>1, <5>2
      <4>3. CASE x.line = c.line
        <5>1. m = c.line /\ b4.str[c.line] = p
          BY <1>2, <1>20, <1>21, <3>1, <4>3 DEF Shift
        <5>2. Lossless => x.pos <= c.pos
          <6>1. CASE c.pos = Len(s)
            BY <3>1, <4>3, <6>1
          <6>2. CASE c.pos # Len(s) /\ j # k
            <7>1. ~(c.pos < x.pos)
              BY <2>3, <4>3, <6>2, NoCursorId DEF R, RightOf, AllSlots
            <7> QED BY <1>2, <3>1, <7>1, SMTT(60)
          <6>3. CASE j = k
            BY <1>2, <6>3
          <6> QED BY <6>1, <6>2, <6>3
        <5> QED BY <1>3, <5>1, <5>2
      <4> QED BY <1>2, <3>1, <4>1, <4>2, <4>3
    <3>4. b4.curs[j] = MovedTo(x, m, x.pos)
      BY <1>13, <2>3
    <3> HIDE DEF m, x
    <3>5. GoodCursor(b4, MovedTo(x, m, x.pos)) /\ MovedTo(x, m, x.pos).id = x.id
      BY <3>1, <3>2, <3>3, PlacedGood
    <3> QED BY <3>4, <3>5 DEF x
  <2> QED BY <1>7, <2>1, <2>2, <2>3
<1>15. Sound(b4) /\ SameIds(b, b4)
  <2>1. DOMAIN b4.curs = AllSlots
    BY <1>10
  <2> QED BY <1>11, <1>14, <2>1, SoundEdited
<1>16. Sound(b4k) /\ SameIds(b, b4k)
  <2>1. SameLines(b4, b4k) /\ b4k.curs = [b4.curs EXCEPT ![k] = MovedTo(b4.curs[k], c.line, 0)]
    BY <1>11 DEF SameLines, Fields, GoodLines
  <2>2. DOMAIN b4.curs = AllSlots /\ b4.curs[k].id # NULL
    BY <1>10, <1>14
  <2>3. b4.curs[k] \in Cursor
    BY <1>15, <2>2, CursorFacts DEF Sound
  <2>4. c.line \in 1 .. b4.last /\ c.line \in Nat /\ (Lossless => 0 <= Len(b4.str[c.line]))
    <3>1. b.last \in Nat /\ b4.last = b.last + 1 /\ c.line \in 1 .. b.last /\ c.line \in Nat
      BY <1>1, <1>2, <1>11
    <3>2. 0 <= Len(b4.str[c.line])
      BY <1>3, <1>21
    <3> HIDE DEF c
    <3> QED BY <3>1, <3>2
  <2>5. /\ GoodCursor(b4, MovedTo(b4.curs[k], c.line, 0))
        /\ MovedTo(b4.curs[k], c.line, 0).id = b4.curs[k].id
    <3> PICK y, i, z : y = b4.curs[k] /\ i = c.line /\ z = 0
      OBVIOUS
    <3>1. /\ y \in Cursor /\ i \in 1 .. b4.last /\ i \in Nat /\ z \in Nat
          /\ Lossless => z <= Len(b4.str[i])
      BY <2>3, <2>4
    <3>2. GoodCursor(b4, MovedTo(y, i, z)) /\ MovedTo(y, i, z).id = y.id
      BY <3>1, PlacedGood, ZenonT(60)
    <3> QED BY <3>2
  <2> HIDE DEF b4k
  <2>6. DOMAIN b4k.curs = AllSlots
        /\ \A j \in AllSlots : \/ b4k.curs[j] = b4.curs[j]
                               \/ GoodCursor(b4, b4k.curs[j]) /\ b4k.curs[j].id = b4.curs[j].id
    BY <2>1, <2>2, <2>5
  <2> QED BY <1>15, <2>1, <2>6, SoundMoved, SameIdsTrans
<1> HIDE DEF b4k
<1>17. Sound(b5) /\ SameIds(b, b5)
  <2>1. DOMAIN b4k = Fields /\ IdsOfSlots(b4k.curs)
    BY <1>16 DEF Sound, GoodLines, GoodCursors
  <2>2. Same(b4k, b5)
    BY <2>1, TrimSame
  <2> HIDE DEF b5
  <2> QED BY <1>16, <2>1, <2>2, SoundSame, SameSameIds, SameIdsTrans
<1> HIDE DEF b5
<1>18. Sound(b6) /\ SameIds(b, b6)
  <2>1. HasCursor(b5, c.id)
    BY <1>17, HasCursorOf
  <2>2. Sound(b6) /\ SameIds(b5, b6)
    BY <1>2, <1>17, <2>1, MoveSound
  <2> QED BY <1>17, <2>2, SameIdsTrans
<1> HIDE DEF b6
<1>19. InsertLineBelow(b, k) \in {b6, ui_update(b6)}
  BY DEF InsertLineBelow, LinkBelow, SplitAt, CarryDown, OwnDown, PaintLine, PaintIf,
         SplitLine, MoveSet, c, l, s, at, p, q, n, b1, d, R, b2, b4, b4k, b5, b6
<1> DEFINE r == InsertLineBelow(b, k)
<1>22. SameLines(b4, b5) /\ b5.curs = [b4.curs EXCEPT ![k] = MovedTo(b4.curs[k], c.line, 0)]
       /\ DOMAIN b5 = Fields /\ DOMAIN b4.curs = AllSlots
  <2>1. SameLines(b4, b4k) /\ b4k.curs = [b4.curs EXCEPT ![k] = MovedTo(b4.curs[k], c.line, 0)]
    BY <1>11 DEF b4k, SameLines, Fields, GoodLines
  <2>2. Same(b4k, b5)
    BY <2>1, TrimSame DEF b5, SameLines
  <2>3. DOMAIN b4.curs = AllSlots
    BY <1>10
  <2> QED BY <2>1, <2>2, <2>3 DEF Same, SameLines
<1>23. SameLines(b5, b6)
       /\ b6.curs = [b5.curs EXCEPT ![k] = cursor_move(b5, b5.curs[k], "DOWN")]
  <2>1. IdsOfSlots(b5.curs) /\ b5.curs[k].id = c.id
    BY <1>17 DEF Sound, GoodCursors, SameIds
  <2>2. b5.curs[k].pos \in Int /\ Foremost(b5.curs, k)
    <3>1. b5.curs[k].pos \in Int
      BY <1>22, <2>1 DEF MovedTo
    <3> QED BY <1>17, <3>1, IdsKept
  <2>3. LET e == bcursor_move(b5, b5.curs[k].id, "DOWN") IN
         /\ SameLines(b5, e)
         /\ e.curs = [b5.curs EXCEPT ![k] = cursor_move(b5, b5.curs[k], "DOWN")]
    BY <1>22, <2>1, <2>2, MoveOneExact, SMTT(60)
  <2> QED BY <2>1, <2>3 DEF b6
<1>24. b4.curs[k].id = c.id /\ k \notin R
  BY <1>7, <1>14
<1>25. b6.curs[k] = MovedTo(c, l, 0)
  <2> DEFINE x == b5.curs[k]
  <2>1. x = MovedTo(c, c.line, 0)
    BY <1>22, <1>24 DEF MovedTo
  <2>2. x.line = c.line /\ x.pos = 0 /\ x.id = c.id
    BY <2>1 DEF MovedTo
  <2>3. b5.str = b4.str /\ b5.last = b.last + 1 /\ GoodLines(b5)
    BY <1>11, <1>17, <1>22 DEF SameLines, Sound
  <2>4. CanDown(b5, x)
    <3>1. c.line < Len(b5.str) /\ c.line # b5.last
      BY <1>1, <1>2, <2>3, LengthTypes, SMTT(60)
    <3> QED BY <2>2, <3>1 DEF CanDown, HasNext, NumLines
  <2>5. LineLen(b5, x.line + 1) = Len(q) /\ x.line + 1 = l
    BY <1>20, <1>21, <2>2, <2>3 DEF LineLen
  <2>6. Min2(0, Len(q)) = 0
    BY <1>3, LenProperties DEF Min2
  <2>7. b6.curs[k] = cursor_move(b5, x, "DOWN")
    BY <1>22, <1>23
  <2> HIDE DEF x
  <2>8. cursor_move(b5, x, "DOWN") = MovedTo(x, x.line + 1, Min2(x.pos, LineLen(b5, x.line + 1)))
    BY <2>4, MoveDown
  <2> QED BY <2>2, <2>5, <2>6, <2>7, <2>8 DEF MovedTo
<1>26. \A j \in AllSlots : j # k => b6.curs[j] = b4.curs[j]
  BY <1>22, <1>23
<1>27. Same(b6, r)
  <2>1. DOMAIN b6 = Fields
    BY <1>23 DEF SameLines
  <2> QED BY <1>19, <2>1, UiSame, SameRefl
<1> HIDE DEF r
<1>28. ASSUME NEW j \in AllSlots
       PROVE  r.curs[j] =
           LET y == b.curs[j] IN
           IF j = k THEN MovedTo(y, l, 0)
           ELSE IF c.pos # Len(s) /\ y.id # NULL /\ y.line = c.line /\ c.pos < y.pos
             THEN MovedTo(y, l, Min2(y.pos - c.pos, Len(q)))
           ELSE Shifted(y, l)
  <2>1. r.curs[j] = b6.curs[j]
    BY <1>27 DEF Same
  <2>2. CASE j = k
    BY <1>25, <2>1, <2>2
  <2>3. CASE j # k
    <3>1. j \in R <=> /\ c.pos # Len(s) /\ b.curs[j].id # NULL
                      /\ b.curs[j].line = c.line /\ c.pos < b.curs[j].pos
      <4>1. b.curs[j] # NoCursor <=> b.curs[j].id # NULL
        BY SlotTypes DEF NoCursor
      <4> QED BY <2>3, <4>1 DEF R, RightOf, AllSlots
    <3>2. CASE j \in R
      BY <1>12, <1>26, <2>1, <2>3, <3>1, <3>2
    <3>3. CASE j \notin R
      BY <1>13, <1>26, <2>1, <2>3, <3>1, <3>3 DEF Shifted
    <3> QED BY <3>2, <3>3
  <2> QED BY <2>2, <2>3
<1>29. IsSplit(b, r, c.line, p, q)
  <2>1. SameLines(d, r)
    <3>1. SameLines(d, b4)
      BY <1>8, <1>10 DEF SameLines
    <3>2. SameLines(b6, r)
      BY <1>27 DEF Same
    <3> HIDE DEF d, b4, b5, b6
    <3> QED BY <1>22, <1>23, <3>1, <3>2, SameLinesTrans, ZenonT(60)
  <2>2. GoodLines(r)
    BY <1>5, <2>1, SameLinesGood DEF IsSplit
  <2> QED BY <1>5, <2>1, <2>2 DEF IsSplit, SameLines
<1>30. BrokenBelow(b, r, k)
  BY <1>28, <1>29, ZenonT(60) DEF BrokenBelow, l, s, at, p, q
<1> QED BY <1>18, <1>19, <1>30, PaintedSound DEF r

\* bcursor_insert_line keeps a document sound.
LEMMA InsertLineSound ==
  ASSUME NEW b, Sound(b), NEW id \in Nat, HasCursor(b, id)
  PROVE  LET c == bcursor_insert_line(b, id)
             k == bcursor_find(b, id)
         IN  /\ Sound(c) /\ SameIds(b, c)
             /\ IF b.curs[k].pos = 0 THEN BrokenAbove(b, c, k) ELSE BrokenBelow(b, c, k)
<1> DEFINE k  == bcursor_find(b, id)
           b1 == [b EXCEPT !.num_lines = @ + 1]
<1>1. k \in AllSlots /\ b.curs[k].id = id /\ id # NULL /\ Foremost(b.curs, k)
  BY FindSpec DEF HasCursor, NULL
<1>2. GoodLines(b) /\ GoodCursors(b) /\ Counted(b) /\ DOMAIN b = Fields
  BY DEF Sound, GoodLines
<1>3. /\ DOMAIN b1 = Fields /\ b1.lid = b.lid /\ b1.line_id_cnt = b.line_id_cnt
      /\ b1.str = b.str /\ b1.num_lines = Len(b.str) + 1
      /\ b1.first = b.first /\ b1.last = b.last /\ b1.curs = b.curs
      /\ b1.server_mode = b.server_mode
  BY <1>2 DEF Fields, Counted
<1> HIDE DEF b1, k
<1>4. GoodLines(b1)
  BY <1>2, <1>3 DEF GoodLines
<1>5. GoodCursors(b1) /\ SameIds(b, b1)
  BY <1>2, <1>3 DEF GoodCursors, GoodCursor, Fits, SameIds, IdsOfSlots
<1>6. b1.num_lines = Len(b1.str) + 1 /\ b1.curs[k].id # NULL /\ Foremost(b1.curs, k)
  BY <1>1, <1>3
<1>7. ASSUME NEW c, SameIds(b1, c) PROVE SameIds(b, c)
  BY <1>5, <1>7, SameIdsTrans
<1>8. CASE b.curs[k].pos = 0
  <2> DEFINE c == InsertLineAbove(b1, k)
  <2>1. bcursor_insert_line(b, id) = c
    BY <1>8 DEF bcursor_insert_line, b1, k
  <2>2. Sound(c) /\ SameIds(b1, c) /\ BrokenAbove(b1, c, k)
    BY <1>1, <1>4, <1>5, <1>6, InsertLineAboveSound
  <2> HIDE DEF c
  <2>3. BrokenAbove(b, c, k)
    BY <1>3, <2>2 DEF BrokenAbove
  <2> QED BY <1>7, <1>8, <2>1, <2>2, <2>3 DEF k
<1>9. CASE b.curs[k].pos # 0
  <2> DEFINE c == InsertLineBelow(b1, k)
             i == b.curs[k].line
  <2>1. bcursor_insert_line(b, id) = c
    BY <1>9 DEF bcursor_insert_line, b1, k
  <2>2. Sound(c) /\ SameIds(b1, c) /\ BrokenBelow(b1, c, k)
    BY <1>1, <1>4, <1>5, <1>6, InsertLineBelowSound
  <2> HIDE DEF c
  <2>3. BrokenBelow(b, c, k)
    BY ZenonT(60), <1>3, <2>2 DEF BrokenBelow, IsSplit
  <2> QED BY <1>7, <1>9, <2>1, <2>2, <2>3 DEF k
<1> QED BY <1>8, <1>9

-----------------------------------------------------------------------------
(***************************************************************************)
(* Joining a line to the one above it.                                     *)
(***************************************************************************)

\* Making room for a line that goes touches only the window.
LEMMA LeaveWindowSame ==
  ASSUME NEW b, DOMAIN b = Fields, NEW l
  PROVE  Same(b, LeaveWindow(b, l))
<1>1. \A c : DOMAIN c = Fields => Same(c, LeaveTop(c, l)) /\ Same(c, LeaveBottom(c, l))
  <2>1. \A c, o, t : DOMAIN c = Fields =>
          /\ Same(c, [c EXCEPT !.top = t, !.on_screen = o])
          /\ Same(c, [c EXCEPT !.bottom = t, !.on_screen = o])
    BY DEF Same, SameLines, Fields
  <2> QED BY <2>1, SameRefl DEF LeaveTop, LeaveBottom
<1>2. Same(b, MakeRoom(b, l))
  BY ExtendSame, SameRefl DEF MakeRoom
<1>3. Same(b, LeaveTop(MakeRoom(b, l), l))
  BY <1>1, <1>2, SameTrans DEF Same, SameLines
<1>4. Same(b, LeaveBottom(LeaveTop(MakeRoom(b, l), l), l))
  BY <1>1, <1>3, SameTrans DEF Same, SameLines
<1> QED BY <1>4 DEF LeaveWindow

\* Deleting a line that no cursor is on, and that is not the last.
LEMMA DeleteLineExact ==
  ASSUME NEW b, DOMAIN b = Fields, NEW l, b.last # l,
         b.curs = [k \in AllSlots |-> b.curs[k]],
         \A j \in AllSlots : b.curs[j].line # l
  PROVE  LET n == buffer_deletel(b, l) IN
         /\ DOMAIN n = Fields
         /\ n.lid = RemoveAt(b.lid, l) /\ n.line_id_cnt = b.line_id_cnt
         /\ n.str = RemoveAt(b.str, l) /\ n.num_lines = b.num_lines
         /\ n.first = Unshift(b.first, l) /\ n.last = Unshift(b.last, l)
         /\ n.server_mode = b.server_mode
         /\ n.curs = [k \in AllSlots |->
                       MovedTo(b.curs[k], Unshift(b.curs[k].line, l), b.curs[k].pos)]
<1> DEFINE b1 == LeaveWindow(b, l)
           b2 == CursorsUp(b1, l)
<1>1. Same(b, b1)
  BY LeaveWindowSame
<1>2. buffer_deletel(b, l) = line_free(b2, l)
  BY <1>1 DEF buffer_deletel, LeaveLast, Same, SameLines
<1> HIDE DEF b1
<1>3. DOMAIN b1 = Fields /\ DOMAIN b1.curs = AllSlots /\ b1.curs = b.curs
  BY <1>1 DEF Same, SameLines
<1>4. SameLines(b1, b2) /\ b2.curs = b.curs
  <2>1. OwnLine(b1) # l
    BY <1>3, AllSlotsNat DEF OwnLine
  <2>2. { k \in Slots : b1.curs[k].line = l } = {}
    BY <1>3 DEF AllSlots
  <2>3. b2 \in {b1, MovePeers(b1, {}, "UP")}
    BY <2>1, <2>2 DEF CursorsUp, PeersUp, OwnUp
  <2>4. SameLines(b1, MovePeers(b1, {}, "UP"))
        /\ MovePeers(b1, {}, "UP").curs = [k \in DOMAIN b1.curs |->
             IF k \in {} THEN cursor_move(b1, b1.curs[k], "UP") ELSE b1.curs[k]]
    BY <1>3, MovePeersExact
  <2>5. MovePeers(b1, {}, "UP").curs = [k \in AllSlots |-> b.curs[k]]
    BY <1>3, <2>4
  <2> HIDE DEF b2
  <2> QED BY <1>3, <2>3, <2>4, <2>5 DEF SameLines
<1> HIDE DEF b2
<1>5. /\ DOMAIN b2 = Fields /\ b2.lid = b.lid /\ b2.line_id_cnt = b.line_id_cnt
      /\ b2.str = b.str /\ b2.num_lines = b.num_lines
      /\ b2.first = b.first /\ b2.last = b.last /\ b2.curs = b.curs
      /\ b2.server_mode = b.server_mode /\ DOMAIN b2.curs = AllSlots
  BY <1>1, <1>3, <1>4 DEF Same, SameLines
<1>6. LET n == line_free(b2, l) IN
        /\ DOMAIN n = Fields
        /\ n.lid = RemoveAt(b2.lid, l) /\ n.line_id_cnt = b2.line_id_cnt
        /\ n.str = RemoveAt(b2.str, l) /\ n.num_lines = b2.num_lines
        /\ n.first = Unshift(b2.first, l) /\ n.last = Unshift(b2.last, l)
        /\ n.server_mode = b2.server_mode
        /\ n.curs = [k \in DOMAIN b2.curs |->
                      MovedTo(b2.curs[k], Unshift(b2.curs[k].line, l), b2.curs[k].pos)]
  BY <1>5, LineFreeExact
<1> QED BY <1>2, <1>5, <1>6
\* n is b with the line l of the text, not the first, unlinked.
UnlinkedFrom(b, n, l) ==
  /\ DOMAIN n = Fields
  /\ n.lid = RemoveAt(b.lid, l) /\ n.line_id_cnt = b.line_id_cnt
  /\ n.str = RemoveAt(b.str, l)
  /\ n.first = 1 /\ n.last = b.last - 1

LineGone(b, n, l) ==
  /\ GoodLines(n) /\ Len(n.str) = Len(b.str) - 1
  /\ \A m \in 1 .. Len(b.str) : m < l => n.str[m] = b.str[m]
  /\ \A m \in 1 .. Len(b.str) : m > l => n.str[m - 1] = b.str[m]

\* line_free of a line of the text other than the first keeps the chain good.
LEMMA UnlinkedGood ==
  ASSUME NEW b, NEW n, GoodLines(b), NEW l \in 2 .. b.last, UnlinkedFrom(b, n, l)
  PROVE  LineGone(b, n, l)
<1> DEFINE N == Len(b.str)
           Old(m) == IF m < l THEN m ELSE m + 1
<1>1. /\ N \in Nat /\ b.last \in Nat /\ b.last < N /\ Len(b.lid) = N
      /\ N = b.last + height - 1 /\ height \in Nat /\ l \in 1 .. N
  <2>1. N \in Nat /\ b.last \in Nat /\ b.last < N /\ height \in Nat /\ l \in 1 .. N
    BY LengthTypes
  <2>2. Len(b.lid) = N /\ N = b.last + height - 1
    BY DEF GoodLines
  <2> QED BY <2>1, <2>2
<1>2. /\ n.str \in Seq(Seq(Chars)) /\ Len(n.str) = N - 1
      /\ \A m \in 1 .. N - 1 : n.str[m] = b.str[Old(m)]
  <2> DEFINE S == Seq(Chars)
             t == b.str
  <2>1. t \in Seq(S) /\ l \in 1 .. Len(t) /\ n.str = RemoveAt(t, l)
    BY <1>1 DEF UnlinkedFrom, GoodLines
  <2> HIDE DEF S, t
  <2>2. /\ RemoveAt(t, l) \in Seq(S)
        /\ Len(RemoveAt(t, l)) = Len(t) - 1
        /\ \A j \in 1 .. Len(t) - 1 : RemoveAt(t, l)[j] = IF j < l THEN t[j] ELSE t[j + 1]
    BY <2>1, RemoveAtProperties
  <2> QED BY <2>1, <2>2 DEF S, t
<1>3. /\ n.lid \in Seq(Nat) /\ Len(n.lid) = N - 1
      /\ \A m \in 1 .. N - 1 : n.lid[m] = b.lid[Old(m)]
  <2> DEFINE S == Nat
             t == b.lid
  <2>1. t \in Seq(S) /\ l \in 1 .. Len(t) /\ n.lid = RemoveAt(t, l)
    BY <1>1 DEF UnlinkedFrom, GoodLines
  <2>2. Len(t) = N
    BY <1>1
  <2> HIDE DEF S, t, N
  <2>3. /\ RemoveAt(t, l) \in Seq(S)
        /\ Len(RemoveAt(t, l)) = Len(t) - 1
        /\ \A j \in 1 .. Len(t) - 1 : RemoveAt(t, l)[j] = IF j < l THEN t[j] ELSE t[j + 1]
    BY <2>1, RemoveAtProperties
  <2> QED BY <2>1, <2>2, <2>3 DEF S, t
<1> HIDE DEF N
<1>4. \A m \in 1 .. N - 1 : Old(m) \in 1 .. N /\ (m < l => Old(m) = m) /\ (m >= l => Old(m) = m + 1)
  BY <1>1
<1>5. \A m, j \in 1 .. N - 1 : Old(m) = Old(j) => m = j
  BY <1>1
<1> HIDE DEF Old
<1>6. \A m \in 1 .. N - 1 : n.lid[m] < n.line_id_cnt
  <2>1. \A m \in 1 .. N : b.lid[m] < b.line_id_cnt
    BY DEF GoodLines, N
  <2>2. n.line_id_cnt = b.line_id_cnt
    BY DEF UnlinkedFrom
  <2> QED BY <1>3, <1>4, <2>1, <2>2
<1>7. \A m, j \in 1 .. N - 1 : n.lid[m] = n.lid[j] => m = j
  <2>1. \A m, j \in 1 .. N : b.lid[m] = b.lid[j] => m = j
    BY DEF GoodLines, N
  <2> QED BY <1>3, <1>4, <1>5, <2>1
<1>8. n.last \in Nat /\ n.last >= 1 /\ N - 1 = n.last + height - 1 /\ n.last = b.last - 1
      /\ l \in Nat /\ l <= b.last
  <2>1. l \in Nat /\ l >= 2 /\ l <= b.last
    BY <1>1
  <2>2. n.last = b.last - 1
    BY DEF UnlinkedFrom
  <2> QED BY <1>1, <2>1, <2>2
<1>12. n.first = 1 /\ n.line_id_cnt \in Nat /\ DOMAIN n = Fields
  BY DEF UnlinkedFrom, GoodLines
<1>9. \A m \in n.last + 1 .. N - 1 : n.str[m] = << >>
  <2> TAKE m \in n.last + 1 .. N - 1
  <2> DEFINE L == b.last
  <2>2. L \in Nat /\ L >= 1 /\ N \in Nat /\ l \in Nat /\ l <= L /\ m \in L .. N - 1
    BY <1>1, <1>8
  <2> HIDE DEF L
  <2>3. m \in 1 .. N - 1 /\ m >= l /\ m + 1 \in L + 1 .. N
    BY <2>2
  <2>1. m \in 1 .. N - 1 /\ m >= l /\ m + 1 \in b.last + 1 .. N
    BY <2>3 DEF L
  <2> QED BY <1>2, <1>4, <2>1 DEF GoodLines, N
<1>10. GoodLines(n)
  BY <1>2, <1>3, <1>6, <1>7, <1>8, <1>9, <1>12 DEF GoodLines
<1>11. ASSUME NEW m \in 1 .. N
       PROVE  (m < l => n.str[m] = b.str[m]) /\ (m > l => n.str[m - 1] = b.str[m])
  <2>1. CASE m < l
    <3>1. m \in 1 .. N - 1 /\ ~(m > l)
      BY <1>1, <2>1
    <3> QED BY <1>2, <1>4, <2>1, <3>1
  <2>2. CASE m > l
    <3>1. m - 1 \in 1 .. N - 1 /\ m - 1 >= l /\ (m - 1) + 1 = m /\ ~(m < l)
      BY <1>1, <2>2
    <3> QED BY <1>2, <1>4, <3>1
  <2>3. CASE m = l
    BY <1>1, <2>3
  <2> QED BY <1>1, <2>1, <2>2, <2>3
<1> QED BY <1>2, <1>10, <1>11 DEF N, LineGone

\* c is b after slot k, at the start of its line, joined it to the one above.
Joined(b, c, k) ==
  LET h == b.curs[k].line
      i == h - 1
      p == b.str[i] \o b.str[h]
  IN  /\ c.last = b.last - 1 /\ c.server_mode = b.server_mode
      /\ c.str[i] = p
      /\ \A m \in 1 .. Len(b.str) : m < i => c.str[m] = b.str[m]
      /\ \A m \in 1 .. Len(b.str) : m > h => c.str[m - 1] = b.str[m]
      /\ \A j \in AllSlots : c.curs[j] =
           LET y == b.curs[j] IN
           IF j = k THEN MovedTo(y, i, Len(b.str[i]))
           ELSE IF y.id # NULL /\ y.line = h
             THEN MovedTo(y, i, Min2(y.pos, Len(p)) + Len(b.str[i]))
           ELSE MovedTo(y, Unshift(y.line, h), y.pos)

\* Joining a line to the one above keeps a document sound: its cursors find
\* their position behind the text that was there.
LEMMA JoinLinesSound ==
  ASSUME NEW b, Sound(b), NEW k \in AllSlots, b.curs[k].id # NULL, b.curs[k].pos = 0,
         b.curs[k].line # 1, Foremost(b.curs, k)
  PROVE  /\ Sound(JoinLines(b, k)) /\ SameIds(b, JoinLines(b, k))
         /\ Joined(b, JoinLines(b, k), k)
<1> DEFINE h  == b.curs[k].line
           i  == h - 1
           w  == Len(b.str[i])
           p  == b.str[i] \o b.str[h]
           b0 == [b EXCEPT !.num_lines = @ - 1]
           b1 == bcursor_move(b0, b.curs[k].id, "LEFT")
           c  == b1.curs[k]
           l  == c.line + 1
           b2 == [b1 EXCEPT !.last = IF l = @ THEN c.line ELSE @,
                            !.str[c.line] = @ \o b1.str[l]]
           b3 == IF k # Own /\ OwnLine(b2) = l
                   THEN AddPos(MoveOwn(b2, "UP"), {Own}, c.pos) ELSE b2
           P  == { j \in Slots \ {k} : b3.curs[j] # NoCursor /\ b3.curs[j].line = l }
           b4 == AddPos(MovePeers(b3, P, "UP"), P, c.pos)
           n  == buffer_deletel(b4, l)
           OnNext(j) == j # k /\ b.curs[j].id # NULL /\ b.curs[j].line = h
           Placed(x) == MovedTo(x, i, Min2(x.pos, Len(p)) + w)
<1>1. /\ GoodLines(b) /\ Counted(b) /\ GoodCursors(b) /\ DOMAIN b = Fields
      /\ DOMAIN b.curs = AllSlots /\ b.first = 1 /\ b.last \in Nat /\ IdsOfSlots(b.curs)
      /\ b.last < Len(b.str) /\ Len(b.str) \in Nat
  BY LengthTypes DEF Sound, GoodLines, GoodCursors, IdsOfSlots
<1>2. /\ b.curs[k] \in Cursor /\ h \in 2 .. b.last /\ h \in Nat /\ h <= b.last /\ h >= 2
      /\ h \in 1 .. Len(b.str) /\ b.str[h] \in Seq(Chars) /\ Len(b.str[h]) \in Nat
  BY <1>1, CursorFacts
<1> HIDE DEF h
<1>3. i \in 1 .. b.last /\ i \in Nat /\ i + 1 = h /\ i # h /\ i \in 1 .. Len(b.str)
  BY <1>1, <1>2
<1> HIDE DEF i
<1>4. /\ b.str[i] \in Seq(Chars) /\ w \in Nat
      /\ p \in Seq(Chars) /\ Len(p) = w + Len(b.str[h]) /\ Len(p) \in Nat /\ w <= Len(p)
  <2>1. b.str[i] \in Seq(Chars) /\ w \in Nat
    BY <1>1, <1>3, LengthTypes
  <2>2. p \in Seq(Chars) /\ Len(p) = w + Len(b.str[h])
    BY <1>2, <2>1, ConcatProperties
  <2> HIDE DEF p, w
  <2> QED BY <1>2, <2>1, <2>2
<1>5. /\ DOMAIN b0 = Fields /\ b0.lid = b.lid /\ b0.line_id_cnt = b.line_id_cnt
      /\ b0.str = b.str /\ b0.num_lines = b.num_lines - 1
      /\ b0.first = 1 /\ b0.last = b.last /\ b0.curs = b.curs
      /\ b0.server_mode = b.server_mode
  BY <1>1 DEF Fields
<1> HIDE DEF b0
<1>6. SameLines(b0, b1) /\ b1.curs = [b.curs EXCEPT ![k] = MovedTo(b.curs[k], i, w)]
  <2>1. b.curs[k].pos \in Int
    OBVIOUS
  <2>2. SameLines(b0, b1) /\ b1.curs = [b.curs EXCEPT ![k] = cursor_move(b0, b.curs[k], "LEFT")]
    <3>1. IdsOfSlots(b0.curs) /\ Foremost(b0.curs, k) /\ b0.curs[k].pos \in Int
      BY <1>1, <1>5
    <3>2. LET e == bcursor_move(b0, b0.curs[k].id, "LEFT") IN
          /\ SameLines(b0, e)
          /\ e.curs = [b0.curs EXCEPT ![k] = cursor_move(b0, b0.curs[k], "LEFT")]
      BY <1>5, <3>1, MoveOneExact, SMTT(60)
    <3> QED BY <1>5, <3>2
  <2>3. cursor_move(b0, b.curs[k], "LEFT") =
          MovedTo(b.curs[k], b.curs[k].line - 1, LineLen(b0, b.curs[k].line - 1))
    <3>1. CanUp(b0, b.curs[k])
      BY <1>2, <1>5 DEF CanUp, HasPrev, h
    <3> QED BY <2>1, <3>1, MoveLeft
  <2>4. b.curs[k].line - 1 = i /\ LineLen(b0, i) = w
    BY <1>5 DEF LineLen, h, i
  <2> QED BY <2>2, <2>3, <2>4
<1>7. c.line = i /\ c.pos = w /\ l = h /\ c = MovedTo(b.curs[k], i, w)
      /\ DOMAIN b1.curs = AllSlots
  BY <1>1, <1>3, <1>6 DEF MovedTo
<1> HIDE DEF c, l, w
<1>8. /\ DOMAIN b2 = Fields /\ b2.lid = b.lid /\ b2.line_id_cnt = b.line_id_cnt
      /\ b2.str = [b.str EXCEPT ![i] = p] /\ b2.num_lines = b.num_lines - 1
      /\ b2.first = 1 /\ b2.last = (IF h = b.last THEN i ELSE b.last)
      /\ b2.curs = b1.curs /\ b2.server_mode = b.server_mode
  <2>1. DOMAIN b1 = Fields /\ b1.lid = b.lid /\ b1.line_id_cnt = b.line_id_cnt
        /\ b1.server_mode = b.server_mode
        /\ b1.str = b.str /\ b1.num_lines = b.num_lines - 1
        /\ b1.first = 1 /\ b1.last = b.last
    BY <1>5, <1>6 DEF SameLines
  <2>2. b2 = [b1 EXCEPT !.last = IF h = b.last THEN i ELSE b.last,
                        !.str = [b.str EXCEPT ![i] = b.str[i] \o b.str[h]]]
    BY <1>7, <2>1
  <2> HIDE DEF b2, b1
  <2> QED BY <2>1, <2>2 DEF Fields
<1> HIDE DEF b1, b2, p
<1>9. ASSUME NEW d, SameLines(b2, d), NEW j \in AllSlots, b.curs[j].id # NULL,
             b.curs[j].line = h
      PROVE  Advance(cursor_move(d, b.curs[j], "UP"), w) = Placed(b.curs[j])
  <2> DEFINE x == b.curs[j]
  <2>1. d.first = 1 /\ d.str = [b.str EXCEPT ![i] = p]
    BY <1>8, <1>9 DEF SameLines
  <2>2. x.line - 1 = i
    BY <1>2, <1>3, <1>9
  <2>3. LineLen(d, i) = Len(p)
    <3>1. d.str[i] = p
      BY <1>1, <1>3, <2>1 DEF GoodLines
    <3> QED BY <3>1 DEF LineLen
  <2>4. CanUp(d, x)
    BY <1>2, <1>9, <2>1 DEF CanUp, HasPrev
  <2> HIDE DEF x
  <2>5. cursor_move(d, x, "UP") = MovedTo(x, i, Min2(x.pos, Len(p)))
    BY <2>2, <2>3, <2>4, MoveUp
  <2>6. Advance(cursor_move(d, x, "UP"), w) = Placed(x)
    BY <2>5 DEF Advance, MovedTo
  <2> QED BY <2>6 DEF x
<1>10. /\ \A j \in AllSlots : j # k => b2.curs[j] = b.curs[j]
       /\ b2.curs[k] = MovedTo(b.curs[k], i, w)
  BY <1>1, <1>6, <1>8
<1> HIDE DEF Placed
<1>11. SameLines(b2, b3) /\ DOMAIN b3 = Fields /\ DOMAIN b3.curs = AllSlots
       /\ \A j \in AllSlots : b3.curs[j] =
            IF j = Own /\ OnNext(Own) THEN Placed(b.curs[Own]) ELSE b2.curs[j]
  <2>1. CASE k # Own /\ b.curs[Own].line = h
    <3>1. Own \in AllSlots /\ b.curs[Own].id # NULL /\ b2.curs[Own] = b.curs[Own]
          /\ b.curs[Own].pos \in Int
      BY <1>1, <1>10, <2>1, AllSlotsNat, SlotTypes DEF IdsOfSlots, NULL, Own, GoodCursor, Cursor
    <3>2. b3 = AddPos(MoveOwn(b2, "UP"), {Own}, w)
      BY <1>7, <2>1, <3>1 DEF OwnLine
    <3> DEFINE d == MoveOwn(b2, "UP")
    <3>3. SameLines(b2, d)
          /\ d.curs = [b2.curs EXCEPT ![Own] = cursor_move(b2, b.curs[Own], "UP")]
      BY <1>8, <3>1, MoveOwnExact
    <3> HIDE DEF d
    <3>4. SameLines(d, b3) /\ b3.curs = [j \in DOMAIN d.curs |->
            IF j \in {Own} THEN Advance(d.curs[j], w) ELSE d.curs[j]]
      BY <3>2, <3>3, AddPosExact DEF d, SameLines
    <3>5. SameLines(b2, b3) /\ DOMAIN b3 = Fields
      BY <3>3, <3>4 DEF SameLines
    <3>6. SameLines(b2, b2)
      BY <1>8 DEF SameLines
    <3>7. Advance(cursor_move(b2, b.curs[Own], "UP"), w) = Placed(b.curs[Own])
      BY <1>9, <2>1, <3>1, <3>6
    <3>8. DOMAIN d.curs = AllSlots /\ d.curs[Own] = cursor_move(b2, b.curs[Own], "UP")
          /\ \A j \in AllSlots : j # Own => d.curs[j] = b2.curs[j]
      BY <1>7, <1>8, <3>1, <3>3
    <3> QED BY <2>1, <3>1, <3>4, <3>5, <3>7, <3>8
  <2>2. CASE ~(k # Own /\ b.curs[Own].line = h)
    <3>1. b3 = b2
      BY <1>3, <1>7, <1>10, <2>2, AllSlotsNat DEF OwnLine
    <3> QED BY <1>7, <1>8, <2>2, <3>1 DEF SameLines
  <2> QED BY <2>1, <2>2
<1> HIDE DEF b3
<1>12. \A j \in AllSlots : j \in P <=> (j # Own /\ OnNext(j))
  <2>1. \A j \in AllSlots : b.curs[j] # NoCursor <=> b.curs[j].id # NULL
    BY <1>1, SlotTypes DEF NoCursor
  <2> QED BY <1>7, <1>10, <1>11, <2>1, AllSlotsNat DEF AllSlots
<1> HIDE DEF P
<1>13. SameLines(b2, b4) /\ b4.curs = [j \in AllSlots |->
         IF OnNext(j) THEN Placed(b.curs[j]) ELSE b2.curs[j]]
  <2> DEFINE d == MovePeers(b3, P, "UP")
  <2>1. SameLines(b3, d) /\ d.curs = [j \in DOMAIN b3.curs |->
          IF j \in P THEN cursor_move(b3, b3.curs[j], "UP") ELSE b3.curs[j]]
    BY <1>11, MovePeersExact
  <2> HIDE DEF d
  <2>2. SameLines(d, b4) /\ b4.curs = [j \in DOMAIN d.curs |->
          IF j \in P THEN Advance(d.curs[j], w) ELSE d.curs[j]]
    BY <1>7, <2>1, AddPosExact DEF d, SameLines
  <2>3. SameLines(b2, b4)
    BY <1>11, <2>1, <2>2 DEF SameLines
  <2>4. ASSUME NEW j \in AllSlots
        PROVE  b4.curs[j] = IF OnNext(j) THEN Placed(b.curs[j]) ELSE b2.curs[j]
    <3>1. CASE j \in P
      <4>1. j # Own /\ OnNext(j)
        BY <1>12, <3>1
      <4>2. b3.curs[j] = b.curs[j]
        BY <1>10, <1>11, <4>1
      <4>3. b4.curs[j] = Advance(cursor_move(b3, b.curs[j], "UP"), w)
        BY <1>11, <2>1, <2>2, <3>1, <4>2
      <4>4. Advance(cursor_move(b3, b.curs[j], "UP"), w) = Placed(b.curs[j])
        BY <1>9, <1>11, <4>1
      <4> QED BY <4>1, <4>3, <4>4
    <3>2. CASE j \notin P
      <4>1. b4.curs[j] = b3.curs[j]
        BY <1>11, <2>1, <2>2, <3>2
      <4> QED BY <1>11, <1>12, <3>2, <4>1
    <3> QED BY <3>1, <3>2
  <2>5. b4.curs = [j \in AllSlots |-> b4.curs[j]]
    BY <1>11, <2>1, <2>2
  <2> QED BY <2>3, <2>4, <2>5
<1> HIDE DEF b4
<1>14. \A j \in AllSlots : b4.curs[j].id = b.curs[j].id
         /\ b4.curs[j] = IF OnNext(j) THEN Placed(b.curs[j])
                         ELSE IF j = k THEN MovedTo(b.curs[k], i, w) ELSE b.curs[j]
  BY <1>10, <1>13 DEF Placed, MovedTo
<1>15. ASSUME NEW j \in AllSlots PROVE b4.curs[j].line # h
  <2>1. CASE OnNext(j) \/ j = k
    <3>1. \A x, q : MovedTo(x, i, q).line = i
      BY DEF MovedTo
    <3>2. \A x : Placed(x).line = i
      BY <3>1 DEF Placed
    <3> QED BY <1>3, <1>14, <2>1, <3>1, <3>2
  <2>2. CASE ~OnNext(j) /\ j # k
    <3>1. b4.curs[j] = b.curs[j]
      BY <1>14, <2>2
    <3>2. b.curs[j].id = NULL => b.curs[j].line = 0
      BY <1>1, SlotTypes, NoCursorId
    <3> QED BY <1>2, <2>2, <3>1, <3>2
  <2> QED BY <2>1, <2>2
<1> HIDE DEF OnNext
<1>16. /\ DOMAIN b4 = Fields /\ b4.lid = b.lid /\ b4.line_id_cnt = b.line_id_cnt
       /\ b4.str = [b.str EXCEPT ![i] = p] /\ b4.num_lines = b.num_lines - 1
       /\ b4.first = 1 /\ b4.last = (IF h = b.last THEN i ELSE b.last) /\ b4.last # h
       /\ b4.server_mode = b.server_mode
  BY <1>3, <1>8, <1>13 DEF SameLines
<1>17. /\ DOMAIN n = Fields
       /\ n.lid = RemoveAt(b.lid, h) /\ n.line_id_cnt = b.line_id_cnt
       /\ n.str = RemoveAt([b.str EXCEPT ![i] = p], h) /\ n.num_lines = b.num_lines - 1
       /\ n.first = 1 /\ n.last = b.last - 1 /\ n.server_mode = b.server_mode
       /\ n.curs = [j \in AllSlots |->
            MovedTo(b4.curs[j], Unshift(b4.curs[j].line, h), b4.curs[j].pos)]
  <2>1. b4.curs = [j \in AllSlots |-> b4.curs[j]]
    BY <1>13
  <2>2. LET d == buffer_deletel(b4, h) IN
         /\ DOMAIN d = Fields
         /\ d.lid = RemoveAt(b4.lid, h) /\ d.line_id_cnt = b4.line_id_cnt
         /\ d.str = RemoveAt(b4.str, h) /\ d.num_lines = b4.num_lines
         /\ d.first = Unshift(b4.first, h) /\ d.last = Unshift(b4.last, h)
         /\ d.server_mode = b4.server_mode
         /\ d.curs = [j \in AllSlots |->
                       MovedTo(b4.curs[j], Unshift(b4.curs[j].line, h), b4.curs[j].pos)]
    BY <1>15, <1>16, <2>1, DeleteLineExact
  <2>3. n = buffer_deletel(b4, h)
    BY <1>7
  <2>4. Unshift(1, h) = 1
    BY <1>2 DEF Unshift
  <2>5. Unshift(b4.last, h) = b.last - 1
    BY <1>1, <1>2, <1>3, <1>16 DEF Unshift
  <2> QED BY <1>16, <2>2, <2>3, <2>4, <2>5
<1>18. n = JoinLines(b, k)
  BY DEF JoinLines, JoinNext, OwnJoins, PeersJoin, b0, b1, c, l, b2, b3, P, b4
<1> HIDE DEF n
<1>19. /\ GoodLines(n) /\ Counted(n) /\ n.last = b.last - 1
       /\ n.str[i] = p
       /\ \A m \in 1 .. Len(b.str) : m < i => n.str[m] = b.str[m]
       /\ \A m \in 1 .. Len(b.str) : m > h => n.str[m - 1] = b.str[m]
  <2> DEFINE e == [b EXCEPT !.str = [b.str EXCEPT ![i] = p]]
  <2>1. LineSet(b, e, i, p) /\ e.str = [b.str EXCEPT ![i] = p] /\ e.last = b.last
        /\ e.lid = b.lid /\ e.line_id_cnt = b.line_id_cnt
    BY <1>1 DEF LineSet, Fields
  <2> HIDE DEF e
  <2>2. i \in 1 .. b.last /\ p \in Seq(Chars) /\ GoodLines(b)
    BY <1>1, <1>3, <1>4
  <2>3. GoodLines(e) /\ Len(e.str) = Len(b.str)
    BY <2>1, <2>2, LineSetGood
  <2>4. e.str[i] = p /\ \A m \in 1 .. Len(b.str) : m # i => e.str[m] = b.str[m]
    <3>1. b.str \in Seq(Seq(Chars)) /\ i \in 1 .. Len(b.str)
      BY <1>1, <1>3 DEF GoodLines
    <3> QED BY <2>1, <3>1
  <2>5. UnlinkedFrom(e, n, h) /\ h \in 2 .. e.last
    BY <1>2, <1>17, <2>1 DEF UnlinkedFrom
  <2>6. /\ GoodLines(n) /\ Len(n.str) = Len(e.str) - 1
        /\ \A m \in 1 .. Len(e.str) : m < h => n.str[m] = e.str[m]
        /\ \A m \in 1 .. Len(e.str) : m > h => n.str[m - 1] = e.str[m]
    <3>1. LineGone(e, n, h)
      BY <2>3, <2>5, UnlinkedGood
    <3> QED BY <3>1 DEF LineGone
  <2>7. Counted(n)
    BY <1>1, <1>17, <2>3, <2>6 DEF Counted
  <2>8. n.str[i] = p
    BY <1>2, <1>3, <2>3, <2>4, <2>6
  <2>9. ASSUME NEW m \in 1 .. Len(b.str), m < i PROVE n.str[m] = b.str[m]
    <3>1. m < h /\ m # i /\ m \in 1 .. Len(e.str)
      BY <1>2, <1>3, <2>3, <2>9
    <3> QED BY <2>4, <2>6, <3>1
  <2>10. ASSUME NEW m \in 1 .. Len(b.str), m > h PROVE n.str[m - 1] = b.str[m]
    <3>1. m # i /\ m \in 1 .. Len(e.str)
      BY <1>2, <1>3, <2>3, <2>10
    <3> QED BY <2>4, <2>6, <2>10, <3>1
  <2> QED BY <1>17, <2>6, <2>7, <2>8, <2>9, <2>10
<1>20. ASSUME NEW j \in AllSlots
       PROVE  /\ n.curs[j].id = b.curs[j].id
              /\ n.curs[j] = NoCursor \/ GoodCursor(n, n.curs[j])
  <2> DEFINE x == b.curs[j]
  <2>1. n.curs[j] = MovedTo(b4.curs[j], Unshift(b4.curs[j].line, h), b4.curs[j].pos)
    BY <1>17
  <2>2. CASE x.id = NULL
    <3>1. x = NoCursor /\ b4.curs[j] = x
      BY <1>1, <1>14, <2>2, SlotTypes DEF OnNext
    <3>2. Unshift(x.line, h) = 0
      BY <1>2, <3>1, NoCursorId DEF Unshift
    <3> QED BY <2>1, <3>1, <3>2, NoCursorId DEF MovedTo, NoCursor
  <2>3. CASE x.id # NULL
    <3>1. /\ x \in Cursor /\ x.line \in 1 .. b.last /\ x.line \in 1 .. Len(b.str)
          /\ x.line \in Nat /\ x.pos \in Nat /\ Len(b.str[x.line]) \in Nat
          /\ (Lossless => x.pos <= Len(b.str[x.line]))
      BY <1>1, <2>3, CursorFacts
    <3>2. ASSUME NEW m \in 1 .. n.last, m \in Nat, NEW q \in Nat,
                 Lossless => q <= Len(n.str[m]), n.curs[j] = MovedTo(x, m, q)
          PROVE  n.curs[j].id = x.id /\ GoodCursor(n, n.curs[j])
      <4> HIDE DEF x
      <4>1. GoodCursor(n, MovedTo(x, m, q)) /\ MovedTo(x, m, q).id = x.id
        BY <3>1, <3>2, PlacedGood, ZenonT(60)
      <4> QED BY <3>2, <4>1
    <3>3. i \in 1 .. n.last
      BY <1>1, <1>2, <1>3, <1>19
    <3>4. CASE j = k
      <4>1. b4.curs[j] = MovedTo(x, i, w)
        BY <1>14, <3>4 DEF OnNext
      <4>2. n.curs[j] = MovedTo(x, i, w)
        BY <1>3, <2>1, <4>1 DEF MovedTo, Unshift
      <4> QED BY <1>3, <1>4, <1>19, <3>2, <3>3, <4>2
    <3>5. CASE OnNext(j)
      <4> DEFINE q == Min2(x.pos, Len(p)) + w
      <4>1. b4.curs[j] = MovedTo(x, i, q)
        BY <1>14, <3>5 DEF Placed
      <4>2. q \in Nat /\ (Lossless => q <= Len(p))
        <5>1. x.line = h
          BY <3>5 DEF OnNext
        <5>2. Min2(x.pos, Len(p)) \in Nat /\ Min2(x.pos, Len(p)) <= x.pos
          BY <1>4, <3>1 DEF Min2
        <5>3. Lossless => x.pos <= Len(b.str[h])
          BY <3>1, <5>1
        <5> DEFINE mp == Min2(x.pos, Len(p))
                   lh == Len(b.str[h])
        <5>4. mp \in Nat /\ mp <= x.pos /\ lh \in Nat /\ w \in Nat /\ Len(p) = w + lh
              /\ x.pos \in Nat /\ (Lossless => x.pos <= lh)
          BY <1>2, <1>4, <3>1, <5>2, <5>3
        <5> HIDE DEF mp, lh, x
        <5>5. mp + w \in Nat /\ (Lossless => mp + w <= Len(p))
          BY <5>4
        <5> QED BY <5>5 DEF mp
      <4> HIDE DEF q
      <4>3. n.curs[j] = MovedTo(x, i, q)
        BY <1>3, <2>1, <4>1 DEF MovedTo, Unshift
      <4> QED BY <1>3, <1>19, <3>2, <3>3, <4>2, <4>3
    <3>6. CASE j # k /\ ~OnNext(j)
      <4>1. b4.curs[j] = x /\ x.line # h
        BY <1>14, <1>15, <3>6
      <4> DEFINE m == Unshift(x.line, h)
      <4>2. n.curs[j] = MovedTo(x, m, x.pos)
        BY <2>1, <4>1
      <4>3. m \in 1 .. n.last /\ m \in Nat
        BY SMTT(30), <1>1, <1>2, <1>19, <3>1, <4>1 DEF Unshift
      <4>4. Lossless => x.pos <= Len(n.str[m])
        <5>1. CASE x.line < i
          <6>1. m = x.line
            BY <1>2, <1>3, <3>1, <5>1 DEF Unshift
          <6> HIDE DEF m
          <6>2. n.str[m] = b.str[x.line]
            BY <1>19, <3>1, <5>1, <6>1
          <6> QED BY <3>1, <6>2
        <5>2. CASE x.line = i
          <6>1. m = i
            BY <1>2, <1>3, <5>2 DEF Unshift
          <6>2. Lossless => x.pos <= w
            BY <3>1, <5>2 DEF w
          <6> QED BY <1>4, <1>19, <3>1, <6>1, <6>2, SMTT(60)
        <5>3. CASE x.line > h
          <6>1. m = x.line - 1
            BY <1>2, <3>1, <5>3 DEF Unshift
          <6> HIDE DEF m
          <6>2. n.str[m] = b.str[x.line]
            BY <1>19, <3>1, <5>3, <6>1
          <6> QED BY <3>1, <6>2
        <5> QED BY <1>2, <1>3, <3>1, <4>1, <5>1, <5>2, <5>3, SMTT(60)
      <4> HIDE DEF m
      <4> QED BY <3>1, <3>2, <4>2, <4>3, <4>4
    <3> QED BY <3>4, <3>5, <3>6
  <2> QED BY <2>2, <2>3
<1>21. DOMAIN n.curs = AllSlots
  BY <1>17
<1>22. ASSUME NEW j \in AllSlots
       PROVE  n.curs[j] =
                LET y == b.curs[j] IN
                IF j = k THEN MovedTo(y, i, w)
                ELSE IF y.id # NULL /\ y.line = h THEN MovedTo(y, i, Min2(y.pos, Len(p)) + w)
                ELSE MovedTo(y, Unshift(y.line, h), y.pos)
  <2>1. n.curs[j] = MovedTo(b4.curs[j], Unshift(b4.curs[j].line, h), b4.curs[j].pos)
    BY <1>17
  <2>2. CASE j = k
    <3>1. b4.curs[j] = MovedTo(b.curs[j], i, w)
      BY <1>14, <2>2 DEF OnNext
    <3> QED BY <1>3, <2>1, <2>2, <3>1 DEF MovedTo, Unshift
  <2>3. CASE OnNext(j)
    <3> DEFINE q == Min2(b.curs[j].pos, Len(p)) + w
    <3>1. b4.curs[j] = MovedTo(b.curs[j], i, q)
      BY <1>14, <2>3 DEF Placed
    <3> HIDE DEF q
    <3>2. n.curs[j] = MovedTo(b.curs[j], i, q)
      BY <1>3, <2>1, <3>1 DEF MovedTo, Unshift
    <3> QED BY <2>3, <3>2 DEF OnNext, q
  <2>4. CASE j # k /\ ~OnNext(j)
    <3>1. b4.curs[j] = b.curs[j]
      BY <1>14, <2>4
    <3> QED BY <2>1, <2>4, <3>1 DEF OnNext
  <2> QED BY <2>2, <2>3, <2>4
<1>23. Joined(b, n, k)
  BY <1>17, <1>19, <1>22 DEF Joined, h, i, w, p
<1> QED BY <1>1, <1>18, <1>19, <1>20, <1>21, <1>23, SoundEdited
\* bcursor_del keeps a document sound.
LEMMA DeleteSound ==
  ASSUME NEW b, Sound(b), NEW id \in Nat, HasCursor(b, id)
  PROVE  LET c == bcursor_del(b, id)
             k == bcursor_find(b, id)
             x == b.curs[k]
         IN  /\ Sound(c) /\ SameIds(b, c)
             /\ \/ x.pos = 0 /\ x.line = 1 /\ c = b
                \/ x.pos > 0 /\ Erased(b, c, k)
                \/ x.pos = 0 /\ x.line # 1 /\ Joined(b, c, k)
<1> DEFINE k  == bcursor_find(b, id)
           c  == b.curs[k]
           b1 == IF c.pos > 0 THEN DelChar(b, k) ELSE JoinLines(b, k)
<1>1. k \in AllSlots /\ c.id = id /\ id # NULL /\ Foremost(b.curs, k)
  BY FindSpec DEF HasCursor, NULL
<1>2. GoodLines(b) /\ GoodCursors(b) /\ DOMAIN b.curs = AllSlots /\ b.first = 1
  BY DEF Sound, GoodLines, GoodCursors, IdsOfSlots
<1>3. c.pos \in Nat
  BY <1>1, <1>2, CursorFacts
<1> HIDE DEF k
<1>4. CASE c.pos = 0 /\ c.line = b.first
  <2>1. bcursor_del(b, id) = b
    BY <1>4 DEF bcursor_del, k
  <2> QED BY <1>2, <1>4, <2>1 DEF SameIds, k
<1>5. CASE ~(c.pos = 0 /\ c.line = b.first)
  <2>1. Sound(b1) /\ SameIds(b, b1)
    <3>1. CASE c.pos > 0
      BY <1>1, <3>1, DelCharSound
    <3>2. CASE ~(c.pos > 0)
      <4>1. c.pos = 0 /\ c.line # 1
        BY <1>2, <1>3, <1>5, <3>2
      <4> QED BY <1>1, <3>2, <4>1, JoinLinesSound
    <3> QED BY <3>1, <3>2
  <2>2. bcursor_del(b, id) \in {b1, ui_update(b1)}
    BY <1>5 DEF bcursor_del, PaintCursor, PaintIf, k
  <2>3. \/ c.pos > 0 /\ Erased(b, b1, k)
        \/ c.pos = 0 /\ c.line # 1 /\ Joined(b, b1, k)
    <3>1. CASE c.pos > 0
      BY <1>1, <3>1, DelCharSound
    <3>2. CASE ~(c.pos > 0)
      <4>1. c.pos = 0 /\ c.line # 1
        BY <1>2, <1>3, <1>5, <3>2
      <4> QED BY <1>1, <3>2, <4>1, JoinLinesSound
    <3> QED BY <3>1, <3>2
  <2> HIDE DEF b1
  <2>4. Same(b1, ui_update(b1))
    BY <2>1, UiSame DEF Sound, GoodLines
  <2>5. \A d : Same(b1, d) => /\ (Erased(b, b1, k) => Erased(b, d, k))
                             /\ (Joined(b, b1, k) => Joined(b, d, k))
    BY ZenonT(60) DEF Same, SameLines, Erased, Joined
  <2> QED BY <2>1, <2>2, <2>3, <2>4, <2>5, PaintedSound DEF k
<1> QED BY <1>4, <1>5

-----------------------------------------------------------------------------
(***************************************************************************)
(* Cursors come and go, buffers are built.                                 *)
(***************************************************************************)

\* A line of the text is found by its id.
LEMMA FindLine ==
  ASSUME NEW b, GoodLines(b), NEW l \in 1 .. b.last
  PROVE  bline_find(b, b.lid[l]) = l
<1> DEFINE found == { m \in b.first .. b.last : b.lid[m] = b.lid[l] }
<1>1. found = {l}
  <2>1. b.first = 1 /\ \A m \in 1 .. b.last : m \in 1 .. Len(b.str)
    BY LengthTypes DEF GoodLines
  <2>2. \A m \in 1 .. b.last : b.lid[m] = b.lid[l] => m = l
    BY <2>1 DEF GoodLines
  <2> QED BY <2>1, <2>2
<1>2. l <= l
  BY LengthTypes
<1> HIDE DEF found
<1>3. (CHOOSE x \in found : \A m \in found : m <= x) = l
  BY <1>1, <1>2
<1> QED BY <1>1, <1>3 DEF bline_find, found

\* The ids of the cursors are those of the members, and Own.
IdsIn(b, M) == \A j \in AllSlots : b.curs[j].id \in M \cup {Own, NULL}

\* c is b with the cursor x in a slot that was empty.
Added(b, c, x) ==
  /\ SameLines(b, c)
  /\ \E k \in Slots : /\ b.curs[k] = NoCursor /\ c.curs[k] = x
                      /\ \A j \in AllSlots : j # k => c.curs[j] = b.curs[j]

\* bcursor_new keeps a document sound and gives the id to at most one slot.
LEMMA NewSound ==
  ASSUME NEW b, Sound(b), NEW id \in Nat, id # Own,
         NEW l \in 1 .. b.last, NEW pos \in Nat, Lossless => pos <= Len(b.str[l]),
         NEW M, IdsIn(b, M)
  PROVE  LET c == bcursor_new(b, id, b.lid[l], pos) IN
         /\ Sound(c) /\ IdsIn(c, M \cup {id})
         /\ DistinctIds(b.curs) /\ (\A j \in AllSlots : b.curs[j].id # id) => DistinctIds(c.curs)
         /\ \/ FreeSlots(b) = {} /\ c = b
            \/ FreeSlots(b) # {} /\ Added(b, c, [id |-> id, line |-> l, pos |-> pos])
<1> DEFINE x  == [id |-> id, line |-> l, pos |-> pos]
           k  == CHOOSE s \in FreeSlots(b) : \A t \in FreeSlots(b) : s <= t
           b1 == [b EXCEPT !.curs[k] = x]
           c  == bcursor_new(b, id, b.lid[l], pos)
<1>1. GoodLines(b) /\ Counted(b) /\ GoodCursors(b) /\ DOMAIN b = Fields
      /\ DOMAIN b.curs = AllSlots /\ IdsOfSlots(b.curs) /\ l \in Nat
  BY LengthTypes DEF Sound, GoodLines, GoodCursors, IdsOfSlots
<1>2. bline_find(b, b.lid[l]) = l
  BY <1>1, FindLine
<1>3. CASE FreeSlots(b) = {}
  <2>1. c = b
    BY <1>3 DEF bcursor_new
  <2> QED BY <1>3, <2>1 DEF IdsIn
<1>4. CASE FreeSlots(b) # {}
  <2>1. k \in FreeSlots(b)
    <3>1. FreeSlots(b) \subseteq Nat
      BY AllSlotsNat DEF FreeSlots, AllSlots
    <3>2. \E s \in FreeSlots(b) : \A t \in FreeSlots(b) : s <= t
      BY <1>4, <3>1, Least
    <3> QED BY <3>2
  <2> HIDE DEF k
  <2>2. k \in AllSlots /\ k # Own
    BY <2>1, AllSlotsNat DEF FreeSlots, AllSlots
  <2>3. SameLines(b, b1) /\ b1.curs = [b.curs EXCEPT ![k] = x]
    BY <1>1 DEF SameLines, Fields
  <2>4. c \in {b1, ui_update(b1)}
    BY <1>2, <1>4 DEF bcursor_new, k
  <2> HIDE DEF b1, c
  <2>5. GoodLines(b1) /\ Counted(b1) /\ b1.str = b.str /\ b1.last = b.last
    BY <1>1, <2>3, SameLinesGood
  <2>6. GoodCursor(b1, x)
    BY <1>1, <2>5 DEF GoodCursor, Fits, Cursor
  <2>7. \A j \in AllSlots : b1.curs[j] = IF j = k THEN x ELSE b.curs[j]
    BY <1>1, <2>2, <2>3
  <2>8. IdsOfSlots(b1.curs)
    BY <1>1, <2>2, <2>3, <2>7, AllSlotsNat DEF IdsOfSlots, AllSlots
  <2>14. ASSUME DistinctIds(b.curs), \A j \in AllSlots : b.curs[j].id # id
         PROVE  DistinctIds(b1.curs)
    BY <2>2, <2>7, <2>14 DEF DistinctIds
  <2>9. \A y : GoodCursor(b, y) => GoodCursor(b1, y)
    BY <2>5 DEF GoodCursor, Fits
  <2>10. Sound(b1)
    BY <1>1, <2>5, <2>6, <2>7, <2>8, <2>9 DEF Sound, GoodCursors
  <2>11. Same(b1, ui_update(b1))
    BY <2>3, UiSame DEF SameLines
  <2>12. Sound(c) /\ c.curs = b1.curs
    BY <2>4, <2>10, <2>11, SoundSame DEF Same
  <2>13. Added(b, c, x)
    <3>1. SameLines(b, c)
      BY <2>3, <2>4, <2>11 DEF Same, SameLines
    <3>2. k \in Slots /\ b.curs[k] = NoCursor
      BY <2>1 DEF FreeSlots
    <3> QED BY <2>7, <2>12, <3>1, <3>2, <2>2 DEF Added
  <2>15. DistinctIds(b.curs) /\ (\A j \in AllSlots : b.curs[j].id # id) => DistinctIds(c.curs)
    BY <2>12, <2>14
  <2> QED BY <1>4, <2>7, <2>12, <2>13, <2>15 DEF IdsIn, c
<1> QED BY <1>3, <1>4

\* bcursor_free keeps a document sound, and leaves no slot with the id if ids
\* are distinct.
LEMMA FreeSound ==
  ASSUME NEW b, Sound(b), NEW id \in Nat, id # Own, HasCursor(b, id),
         NEW M, IdsIn(b, M)
  PROVE  LET c == bcursor_free(b, id) IN
         /\ Sound(c) /\ IdsIn(c, M) /\ SameLines(b, c)
         /\ DistinctIds(b.curs) => DistinctIds(c.curs) /\ IdsIn(c, M \ {id})
         /\ \A j \in AllSlots : c.curs[j] = IF j = bcursor_find(b, id) THEN NoCursor ELSE b.curs[j]
<1> DEFINE k  == bcursor_find(b, id)
           b1 == [b EXCEPT !.curs[k] = NoCursor]
           c  == bcursor_free(b, id)
<1>1. k \in AllSlots /\ b.curs[k].id = id /\ id # NULL
  BY FindSpec DEF HasCursor, NULL
<1> HIDE DEF k
<1>2. GoodLines(b) /\ Counted(b) /\ GoodCursors(b) /\ DOMAIN b = Fields
      /\ DOMAIN b.curs = AllSlots /\ IdsOfSlots(b.curs)
  BY DEF Sound, GoodLines, GoodCursors, IdsOfSlots
<1>3. k # Own
  BY <1>1, <1>2 DEF IdsOfSlots
<1>4. SameLines(b, b1) /\ b1.curs = [b.curs EXCEPT ![k] = NoCursor]
  BY <1>2 DEF SameLines, Fields
<1>5. c \in {b1, ui_update(b1)}
  BY <1>3 DEF bcursor_free, k
<1> HIDE DEF b1, c
<1>6. \A j \in AllSlots : b1.curs[j] = IF j = k THEN NoCursor ELSE b.curs[j]
  BY <1>1, <1>2, <1>4
<1>7. GoodLines(b1) /\ Counted(b1) /\ b1.str = b.str /\ b1.last = b.last
  BY <1>2, <1>4, SameLinesGood
<1>8. IdsOfSlots(b1.curs)
  BY <1>2, <1>3, <1>4, <1>6, NoCursorId, AllSlotsNat DEF IdsOfSlots, AllSlots, Own, NULL
<1>15. DistinctIds(b.curs) => DistinctIds(b1.curs)
  BY <1>6, NoCursorId DEF DistinctIds
<1>9. \A y : GoodCursor(b, y) => GoodCursor(b1, y)
  BY <1>7 DEF GoodCursor, Fits
<1>10. Sound(b1)
  BY <1>2, <1>6, <1>7, <1>8, <1>9 DEF Sound, GoodCursors
<1>11. Same(b1, ui_update(b1))
  BY <1>4, UiSame DEF SameLines
<1>12. Sound(c) /\ c.curs = b1.curs
  BY <1>5, <1>10, <1>11, SoundSame DEF Same
<1>13. ASSUME DistinctIds(b.curs), NEW j \in AllSlots
       PROVE  b1.curs[j].id \in (M \ {id}) \cup {Own, NULL}
  <2>1. j # k => b.curs[j].id # id
    BY <1>1, <1>2, <1>13 DEF DistinctIds
  <2> QED BY <1>6, <2>1, NoCursorId DEF IdsIn
<1>16. \A j \in AllSlots : b1.curs[j].id \in M \cup {Own, NULL}
  BY <1>6, NoCursorId DEF IdsIn
<1>14. SameLines(b, c)
  BY <1>4, <1>5, <1>11 DEF Same, SameLines
<1> QED BY <1>6, <1>12, <1>13, <1>14, <1>15, <1>16 DEF IdsIn, c, k
\* The peers that are serialized, the last of each id, are ranked by their ids:
\* each of them gets a slot of its own.
LEMMA RankIsSlot ==
  ASSUME NEW b, Sound(b), NEW j \in SerializedPeers(b)
  PROVE  Rank(b, j) \in Slots /\ \A i \in SerializedPeers(b) : Rank(b, i) = Rank(b, j) => i = j
<1> DEFINE P == SerializedPeers(b)
           Upto(k) == { i \in P : b.curs[i].id <= b.curs[k].id }
<1>1. IsFiniteSet(Slots) /\ Cardinality(Slots) = MAX_CURSOR_NUM /\ P \subseteq Slots
      /\ MAX_CURSOR_NUM \in Nat
  BY ConstantsAssumption, FS_Interval DEF Slots, SerializedPeers
<1>2. ASSUME NEW k
      PROVE  /\ IsFiniteSet(Upto(k)) /\ Cardinality(Upto(k)) <= MAX_CURSOR_NUM
             /\ Cardinality(Upto(k)) \in Nat
  <2>1. Upto(k) \in SUBSET Slots
    BY <1>1
  <2> HIDE DEF Upto
  <2> QED BY <1>1, <2>1, FS_Subset, FS_CardinalityType
<1>3. ASSUME NEW k \in P
      PROVE  k \in AllSlots /\ b.curs[k].id \in Nat /\ b.curs[k].id # NULL
  <2>1. k \in AllSlots /\ b.curs[k] # NoCursor
    BY <1>1 DEF AllSlots, SerializedPeers
  <2>2. b.curs[k].id # NULL
    BY <2>1, SlotTypes DEF Sound
  <2> QED BY <2>1, <2>2, CursorFacts DEF Sound
<1>4. \A k \in P : Rank(b, k) = Cardinality(Upto(k)) /\ k \in Upto(k)
  BY <1>3 DEF Rank
<1>5. ASSUME NEW i \in P, NEW k \in P, b.curs[i].id < b.curs[k].id
      PROVE  Cardinality(Upto(i)) < Cardinality(Upto(k))
  <2>1. Upto(i) \subseteq Upto(k) /\ k \notin Upto(i) /\ k \in Upto(k)
    BY <1>3, <1>5
  <2> HIDE DEF Upto
  <2>2. Cardinality(Upto(i)) <= Cardinality(Upto(k))
        /\ Cardinality(Upto(i)) # Cardinality(Upto(k))
    BY <1>2, <2>1, FS_Subset
  <2> QED BY <1>2, <2>2
<1>6. Upto(j) # {} /\ j \in P
  BY <1>4
<1> HIDE DEF Upto, P
<1>7. Rank(b, j) \in Slots
  <2>1. Cardinality(Upto(j)) # 0
    BY <1>2, <1>6, FS_EmptySet
  <2>2. Cardinality(Upto(j)) \in 1 .. MAX_CURSOR_NUM
    BY <1>1, <1>2, <2>1
  <2> QED BY <1>4, <1>6, <2>2 DEF Slots
<1>8. ASSUME NEW i \in P, Rank(b, i) = Rank(b, j) PROVE i = j
  <2>1. ~(b.curs[i].id < b.curs[j].id) /\ ~(b.curs[j].id < b.curs[i].id)
    BY <1>2, <1>4, <1>5, <1>6, <1>8
  <2>2. b.curs[i].id = b.curs[j].id
    BY <1>3, <1>6, <2>1
  <2>3. ~(i > j) /\ ~(j > i) /\ i \in Slots /\ j \in Slots
    BY <1>6, <2>2 DEF SerializedPeers, P
  <2> QED BY <2>3 DEF Slots
<1> QED BY <1>7, <1>8 DEF P

\* Of the peers of one id below MAX_CURSOR_NUM one is serialized.
LEMMA SomeSerialized ==
  ASSUME NEW b, NEW j \in Slots, b.curs[j].id # NULL, b.curs[j].id < MAX_CURSOR_NUM
  PROVE  \E i \in SerializedPeers(b) : b.curs[i].id = b.curs[j].id
<1> DEFINE T == { MAX_CURSOR_NUM - i : i \in { k \in Slots : b.curs[k].id = b.curs[j].id } }
<1>1. T \subseteq Nat /\ T # {} /\ Slots \subseteq Nat
  BY ConstantsAssumption DEF Slots
<1>2. PICK x \in T : \A y \in T : x <= y
  BY <1>1, Least
<1>3. PICK i \in Slots : b.curs[i].id = b.curs[j].id /\ x = MAX_CURSOR_NUM - i
  BY <1>2
<1>4. ASSUME NEW k \in Slots, k > i, b.curs[k].id = b.curs[i].id PROVE FALSE
  <2>1. MAX_CURSOR_NUM - k \in T
    BY <1>3, <1>4
  <2>2. MAX_CURSOR_NUM - i <= MAX_CURSOR_NUM - k
    BY <1>2, <1>3, <2>1
  <2> QED BY <1>1, <1>4, <2>2, ConstantsAssumption
<1>5. b.curs[i] # NoCursor
  BY <1>3, NoCursorId
<1> QED BY <1>3, <1>4, <1>5 DEF SerializedPeers

\* What an editor builds from a serialized buffer: the same text, each cursor
\* on the line it was on; those whose id is MAX_CURSOR_NUM or more are gone,
\* and of those with one id all but the last.
LEMMA DeserializeSound ==
  ASSUME NEW b, Sound(b), NEW M, IdsIn(b, M)
  PROVE  LET c == buffer_deserialize(b) IN
         /\ Sound(c) /\ IdsIn(c, M) /\ DistinctIds(c.curs)
         /\ c.str = b.str /\ c.last = b.last /\ c.server_mode = FALSE
         /\ c.curs[Own] = b.curs[Own]
         /\ \A j \in Slots : b.curs[j].id # NULL /\ b.curs[j].id < MAX_CURSOR_NUM =>
              \E k \in Slots : /\ c.curs[k].id = b.curs[j].id
                               /\ DistinctIds(b.curs) => c.curs[k] = b.curs[j]
<1> DEFINE all     == [b EXCEPT !.last = NumLines(b)]
           last    == bline_find(all, b.lid[b.last])
           bot     == bline_find(all, b.lid[b.bottom])
           l1      == [b EXCEPT !.last = last, !.bottom = bot]
           Find(l) == bline_find(l1, b.lid[l])
           Peer(k) == { j \in SerializedPeers(b) : Rank(b, j) = k }
           Copy(k) == [b.curs[k] EXCEPT !.line = Find(@)]
           cs == [k \in AllSlots |->
                    IF k = Own THEN Copy(Own)
                    ELSE IF Peer(k) = {} THEN NoCursor ELSE Copy(CHOOSE j \in Peer(k) : TRUE)]
           d  == [l1 EXCEPT !.top = Find(@), !.curs = cs, !.u = TRUE, !.server_mode = FALSE]
<1>1. GoodLines(b) /\ Counted(b) /\ GoodCursors(b) /\ DOMAIN b = Fields /\ b.first = 1
      /\ DOMAIN b.curs = AllSlots /\ IdsOfSlots(b.curs) /\ b.last \in 1 .. Len(b.str)
  BY LengthTypes DEF Sound, GoodLines, GoodCursors, IdsOfSlots
<1>2. /\ l1.first = 1 /\ l1.lid = b.lid /\ l1.str = b.str /\ l1.num_lines = b.num_lines
      /\ l1.line_id_cnt = b.line_id_cnt /\ l1.curs = b.curs /\ DOMAIN l1 = Fields
      /\ l1.last = last
  BY <1>1 DEF Fields
<1>3. last = b.last
  <2> DEFINE found == { m \in 1 .. Len(b.str) : b.lid[m] = b.lid[b.last] }
  <2>1. all.first = 1 /\ all.last = Len(b.str) /\ all.lid = b.lid
    BY <1>1 DEF Fields, NumLines
  <2> HIDE DEF all
  <2>2. found = {b.last}
    BY <1>1 DEF GoodLines
  <2>3. b.last <= b.last
    BY <1>1 DEF GoodLines
  <2> HIDE DEF found
  <2>4. (CHOOSE x \in found : \A m \in found : m <= x) = b.last
    BY <2>2, <2>3
  <2>5. last = IF found = {} THEN 0 ELSE CHOOSE x \in found : \A m \in found : m <= x
    BY <2>1 DEF bline_find, found
  <2> QED BY <2>2, <2>4, <2>5
<1> HIDE DEF last, bot, all, l1
<1>4. GoodLines(l1)
  BY <1>1, <1>2, <1>3 DEF GoodLines
<1>5. \A l \in 1 .. b.last : Find(l) = l
  BY <1>2, <1>3, <1>4, FindLine
<1>6. \A k \in AllSlots : b.curs[k].id # NULL => Copy(k) = b.curs[k]
  <2> TAKE k \in AllSlots
  <2>1. CASE b.curs[k].id # NULL
    <3>1. b.curs[k] \in Cursor /\ b.curs[k].line \in 1 .. b.last
      BY <1>1, <2>1, CursorFacts
    <3>2. Find(b.curs[k].line) = b.curs[k].line
      BY <1>5, <3>1
    <3> HIDE DEF Find
    <3> QED BY <3>1, <3>2 DEF Cursor
  <2> QED BY <2>1
<1> HIDE DEF Find
<1>7. \A j \in SerializedPeers(b) : j \in AllSlots /\ j # Own /\ b.curs[j].id # NULL
  BY <1>1, AllSlotsNat, SlotTypes DEF SerializedPeers, AllSlots
<1>8. \A k \in AllSlots : \/ k = Own /\ cs[k] = b.curs[Own]
                          \/ k # Own /\ cs[k] = NoCursor
                          \/ k # Own /\ \E j \in Peer(k) : cs[k] = b.curs[j]
  <2> TAKE k \in AllSlots
  <2>1. CASE k = Own
    <3>1. b.curs[Own].id # NULL
      BY <1>1 DEF IdsOfSlots, Own, NULL
    <3> QED BY <1>6, <2>1, <3>1
  <2>2. CASE k # Own /\ Peer(k) = {}
    BY <2>2
  <2>3. CASE k # Own /\ Peer(k) # {}
    <3> DEFINE j == CHOOSE j \in Peer(k) : TRUE
    <3>1. j \in Peer(k)
      BY <2>3
    <3>2. cs[k] = Copy(j)
      BY <2>3
    <3> HIDE DEF j, cs, Copy
    <3>3. cs[k] = b.curs[j]
      BY <1>6, <1>7, <3>1, <3>2
    <3> QED BY <2>3, <3>1, <3>3
  <2> QED BY <2>1, <2>2, <2>3
<1>9. DOMAIN cs = AllSlots
  OBVIOUS
<1>27. ASSUME NEW j \in SerializedPeers(b), b.curs[j].id # NULL
       PROVE  \E k \in Slots : cs[k] = b.curs[j]
  <2>1. j \in SerializedPeers(b) /\ j \in Slots
    BY DEF SerializedPeers
  <2> DEFINE k == Rank(b, j)
  <2>2. k \in Slots /\ Peer(k) = {j}
    BY <2>1, RankIsSlot
  <2>3. k # Own /\ k \in AllSlots /\ j \in AllSlots
    BY <2>1, <2>2, AllSlotsNat DEF AllSlots
  <2> HIDE DEF k
  <2>4. cs[k] = Copy(j)
    <3>1. (CHOOSE i \in Peer(k) : TRUE) = j /\ Peer(k) # {}
      BY <2>2
    <3> HIDE DEF Peer, Copy
    <3> QED BY <2>3, <3>1
  <2> HIDE DEF cs, Copy, Peer
  <2> QED BY <1>6, <1>27, <2>2, <2>3, <2>4
<1>22. ASSUME NEW j \in Slots, b.curs[j].id # NULL, b.curs[j].id < MAX_CURSOR_NUM
       PROVE  \E k \in Slots : /\ cs[k].id = b.curs[j].id
                               /\ DistinctIds(b.curs) => cs[k] = b.curs[j]
  <2>1. PICK i \in SerializedPeers(b) : b.curs[i].id = b.curs[j].id
    BY <1>22, SomeSerialized
  <2>2. PICK k \in Slots : cs[k] = b.curs[i]
    BY <1>22, <1>27, <2>1
  <2>3. i \in AllSlots /\ j \in AllSlots
    BY <1>7, <2>1 DEF AllSlots
  <2>4. DistinctIds(b.curs) => i = j
    BY <1>22, <2>1, <2>3 DEF DistinctIds
  <2> HIDE DEF cs
  <2>5. cs[k].id = b.curs[j].id /\ (DistinctIds(b.curs) => cs[k] = b.curs[j])
    BY <2>1, <2>2, <2>4
  <2> QED BY <2>5
<1>28. ASSUME NEW j \in AllSlots, NEW k \in AllSlots, cs[j].id = cs[k].id, cs[j].id # NULL
       PROVE  j = k
  <2>1. \A i \in SerializedPeers(b), m \in SerializedPeers(b) :
          b.curs[i].id = b.curs[m].id => i = m
    BY DEF SerializedPeers, Slots
  <2>2. cs[j] # NoCursor /\ cs[k] # NoCursor /\ Own \in AllSlots /\ b.curs[Own].id = Own
    BY <1>1, <1>28, NoCursorId, AllSlotsNat DEF IdsOfSlots
  <2>3. \A n \in AllSlots : \A i \in Peer(n) : /\ i \in SerializedPeers(b) /\ n = Rank(b, i)
                                              /\ b.curs[i].id # Own
    BY <1>1 DEF IdsOfSlots, SerializedPeers
  <2> HIDE DEF cs, Peer
  <2>4. CASE j = Own /\ k # Own
    <3>1. PICK i \in Peer(k) : cs[k] = b.curs[i]
      BY <1>8, <2>2, <2>4
    <3>2. cs[j] = b.curs[Own]
      BY <1>8, <2>2, <2>4
    <3> QED BY <1>28, <2>2, <2>3, <3>1, <3>2
  <2>5. CASE j # Own /\ k = Own
    <3>1. PICK i \in Peer(j) : cs[j] = b.curs[i]
      BY <1>8, <2>2, <2>5
    <3>2. cs[k] = b.curs[Own]
      BY <1>8, <2>2, <2>5
    <3> QED BY <1>28, <2>2, <2>3, <3>1, <3>2
  <2>6. CASE j # Own /\ k # Own
    <3>1. PICK i \in Peer(j) : cs[j] = b.curs[i]
      BY <1>8, <2>2, <2>6
    <3>2. PICK m \in Peer(k) : cs[k] = b.curs[m]
      BY <1>8, <2>2, <2>6
    <3>3. i = m
      BY <1>28, <2>1, <2>3, <3>1, <3>2
    <3> QED BY <2>3, <3>1, <3>2, <3>3
  <2> QED BY <2>4, <2>5, <2>6
<1> HIDE DEF cs, Copy
<1>10. /\ DOMAIN d = Fields /\ d.lid = b.lid /\ d.line_id_cnt = b.line_id_cnt
       /\ d.str = b.str /\ d.num_lines = b.num_lines /\ d.first = 1 /\ d.last = b.last
       /\ d.curs = cs /\ d.server_mode = FALSE
  BY <1>2, <1>3 DEF Fields
<1>11. buffer_deserialize(b) = ui_update(binit_onscreen_info(d))
  <2>1. DOMAIN l1.curs = AllSlots
    BY <1>1, <1>2
  <2> QED BY <2>1, <1>2 DEF buffer_deserialize, all, last, bot, l1, cs, Copy, Find
<1> HIDE DEF d
<1>12. GoodLines(d) /\ Counted(d)
  BY <1>1, <1>10 DEF GoodLines, Counted
<1>13. IdsOfSlots(cs)
  <2>1. Own \in AllSlots
    BY AllSlotsNat
  <2>2. cs[Own].id = Own
    BY <1>1, <1>8, <2>1 DEF IdsOfSlots
  <2>3. ASSUME NEW k \in Slots PROVE cs[k].id # Own
    <3>1. k \in AllSlots /\ k # Own /\ NoCursor.id # Own
      BY AllSlotsNat DEF AllSlots, NoCursor, NULL, Own
    <3>2. cs[k] = NoCursor \/ \E j \in Peer(k) : cs[k] = b.curs[j]
      BY <1>8, <3>1
    <3>3. \A j \in Peer(k) : b.curs[j].id # Own
      BY <1>1 DEF IdsOfSlots, SerializedPeers
    <3> QED BY <3>1, <3>2, <3>3
  <2> QED BY <1>9, <2>2, <2>3 DEF IdsOfSlots
<1>14. \A k \in AllSlots : cs[k] = NoCursor \/ \E j \in AllSlots : cs[k] = b.curs[j]
  BY <1>7, <1>8
<1>15. \A y : GoodCursor(b, y) => GoodCursor(d, y)
  BY <1>10 DEF GoodCursor, Fits
<1>16. Sound(d)
  BY <1>1, <1>10, <1>12, <1>13, <1>14, <1>15 DEF Sound, GoodCursors
<1>17. IdsIn(d, M)
  BY <1>10, <1>14, NoCursorId DEF IdsIn
<1> DEFINE e == binit_onscreen_info(d)
<1>18. Same(d, e) /\ DOMAIN e = Fields
  BY <1>10, BinitSame DEF Same, SameLines
<1> HIDE DEF e
<1>19. Same(e, ui_update(e))
  BY <1>18, UiSame
<1>20. Same(d, ui_update(e))
  BY <1>18, <1>19, SameTrans
<1>21. Sound(ui_update(e)) /\ ui_update(e).curs = d.curs
  BY <1>16, <1>20, SoundSame DEF Same
<1>23. /\ ui_update(e).str = b.str /\ ui_update(e).last = b.last
       /\ ui_update(e).server_mode = FALSE
  BY <1>10, <1>20 DEF Same, SameLines
<1>24. cs[Own] = b.curs[Own]
  BY <1>8, AllSlotsNat
<1> DEFINE r == ui_update(e)
<1> HIDE DEF r
<1>25. /\ Sound(r) /\ IdsIn(r, M) /\ DistinctIds(r.curs)
       /\ r.str = b.str /\ r.last = b.last /\ r.server_mode = FALSE
       /\ r.curs = cs
  BY <1>10, <1>17, <1>21, <1>23, <1>28 DEF IdsIn, DistinctIds, r
<1>26. buffer_deserialize(b) = r
  BY <1>11 DEF r, e
<1> QED BY <1>22, <1>24, <1>25, <1>26

\* A function on 1..n is the sequence Column makes of it.
LEMMA ColumnSeq ==
  ASSUME NEW n \in Nat, NEW S, NEW f, f \in [1 .. n -> S]
  PROVE  << >> \o f = f /\ f \in Seq(S) /\ Len(f) = n
<1>1. f \in Seq(S)
  BY SeqDef
<1>2. Len(f) = n
  BY <1>1, LenProperties
<1> QED BY <1>1, <1>2, ConcatEmptySeq

\* The buffer a worker starts from.
LEMMA BlankSound ==
  ASSUME NEW M
  PROVE  /\ Sound(BlankBuffer) /\ IdsIn(BlankBuffer, M) /\ DistinctIds(BlankBuffer.curs)
         /\ BlankBuffer.last = 1 /\ BlankBuffer.str[1] = << >>
         /\ BlankBuffer.curs[Own] = [id |-> Own, line |-> 1, pos |-> 0]
<1> DEFINE ids  == << >> \o [l \in 1 .. height |-> l - 1]
           strs == << >> \o [l \in 1 .. height |-> << >>]
           cs   == [k \in AllSlots |->
                      IF k = Own THEN [id |-> Own, line |-> 1, pos |-> 0] ELSE NoCursor]
           d    == [ lid |-> ids, line_id_cnt |-> height,
                     str |-> strs, num_lines |-> height,
                     on_screen |-> << >>, where |-> << >>,
                     first |-> 1, last |-> 1, top |-> 1, bottom |-> height,
                     curs |-> cs,
                     u |-> FALSE, server_mode |-> FALSE, screen |-> NoScreen ]
<1>1. height \in Nat /\ height >= 2
  BY ConstantsAssumption
<1>2. ids \in Seq(Nat) /\ Len(ids) = height /\ \A l \in 1 .. height : ids[l] = l - 1
  <2> DEFINE f == [l \in 1 .. height |-> l - 1]
  <2>1. f \in [1 .. height -> Nat]
    BY <1>1
  <2>2. \A l \in 1 .. height : f[l] = l - 1
    OBVIOUS
  <2>3. ids = << >> \o f
    OBVIOUS
  <2> HIDE DEF f, ids
  <2>4. << >> \o f = f /\ f \in Seq(Nat) /\ Len(f) = height
    BY <1>1, <2>1, ColumnSeq
  <2> QED BY <2>2, <2>3, <2>4
<1>3. strs \in Seq(Seq(Chars)) /\ Len(strs) = height /\ \A l \in 1 .. height : strs[l] = << >>
  <2> DEFINE f == [l \in 1 .. height |-> << >>]
             S == Seq(Chars)
  <2>1. f \in [1 .. height -> S]
    BY EmptySeq
  <2>2. \A l \in 1 .. height : f[l] = << >>
    OBVIOUS
  <2>3. strs = << >> \o f
    OBVIOUS
  <2> HIDE DEF f, strs, S
  <2>4. << >> \o f = f /\ f \in Seq(S) /\ Len(f) = height
    BY <1>1, <2>1, ColumnSeq
  <2> QED BY <2>2, <2>3, <2>4 DEF S
<1> HIDE DEF ids, strs
<1>4. BlankBuffer = binit_onscreen_info(d)
  BY DEF BlankBuffer, Column, ids, strs, AllSlots
<1>5. GoodLines(d) /\ Counted(d) /\ d.curs = cs /\ DOMAIN d = Fields
  <2>1. DOMAIN d = Fields
    BY DEF Fields
  <2>2. /\ d.lid = ids /\ d.line_id_cnt = height /\ d.str = strs /\ d.num_lines = height
        /\ d.first = 1 /\ d.last = 1 /\ d.curs = cs
    OBVIOUS
  <2> HIDE DEF d, cs
  <2>3. height = 1 + height - 1 /\ \A l \in 2 .. height : l \in 1 .. height
    BY <1>1
  <2>4. \A i \in 1 .. height : ids[i] < height
    BY <1>1, <1>2
  <2>5. \A i, j \in 1 .. height : ids[i] = ids[j] => i = j
    BY <1>1, <1>2
  <2>6. Len(d.str) = height /\ Len(d.lid) = height /\ d.last + 1 = 2
    BY <1>2, <1>3, <2>2
  <2>7. \A l \in d.last + 1 .. Len(d.str) : d.str[l] = << >>
    BY <1>3, <2>2, <2>3, <2>6
  <2>8. \A i \in 1 .. Len(d.str) : d.lid[i] < d.line_id_cnt
    BY <2>2, <2>4, <2>6
  <2>9. \A i, j \in 1 .. Len(d.str) : d.lid[i] = d.lid[j] => i = j
    BY <2>2, <2>5, <2>6
  <2>10. d.str \in Seq(Seq(Chars)) /\ d.lid \in Seq(Nat) /\ d.line_id_cnt \in Nat
         /\ d.last \in Nat /\ d.last >= 1 /\ Len(d.str) = d.last + height - 1
    BY <1>1, <1>2, <1>3, <2>2, <2>3, <2>6
  <2> QED BY <2>1, <2>2, <2>6, <2>7, <2>8, <2>9, <2>10 DEF GoodLines, Counted
<1>6. d.str = strs /\ d.last = 1
  OBVIOUS
<1>7. d.curs[Own] = [id |-> Own, line |-> 1, pos |-> 0]
  BY AllSlotsNat
<1> HIDE DEF d
<1>8. GoodCursors(d) /\ IdsIn(d, M) /\ DistinctIds(d.curs)
  <2>1. \A k \in AllSlots : cs[k] = (IF k = Own THEN [id |-> Own, line |-> 1, pos |-> 0] ELSE NoCursor)
    OBVIOUS
  <2>2. DOMAIN cs = AllSlots
    OBVIOUS
  <2> HIDE DEF cs
  <2>3. GoodCursor(d, [id |-> Own, line |-> 1, pos |-> 0])
    <3> PICK x, p : x = [id |-> Own, line |-> 1, pos |-> 0] /\ p = 0
      OBVIOUS
    <3>1. x \in Cursor /\ x.line = 1 /\ x.pos = 0
      BY DEF Cursor, Own
    <3>2. 1 \in 1 .. d.last /\ Len(d.str[1]) \in Nat
      BY <1>5, LengthTypes DEF GoodLines
    <3> QED BY <3>1, <3>2 DEF GoodCursor, Fits
  <2>4. IdsOfSlots(cs)
    BY <2>1, <2>2, AllSlotsNat, NoCursorId DEF IdsOfSlots, AllSlots, Own, NULL
  <2>6. DistinctIds(cs)
    BY <2>1, NoCursorId DEF DistinctIds
  <2>5. IdsIn(d, M)
    BY <1>5, <2>1, NoCursorId DEF IdsIn
  <2> QED BY <1>5, <2>1, <2>3, <2>4, <2>5, <2>6 DEF GoodCursors
<1>9. Sound(d)
  BY <1>5, <1>8 DEF Sound
<1>10. Same(d, binit_onscreen_info(d))
  BY <1>5, BinitSame
<1>11. Sound(binit_onscreen_info(d)) /\ binit_onscreen_info(d).curs = d.curs
  BY <1>9, <1>10, SoundSame DEF Same
<1>12. BlankBuffer.last = 1 /\ BlankBuffer.str[1] = << >>
  <2>1. strs[1] = << >>
    BY SMTT(60), <1>1, <1>3
  <2> QED BY <1>4, <1>6, <1>10, <2>1 DEF Same, SameLines
<1> QED BY <1>4, <1>7, <1>8, <1>11, <1>12 DEF IdsIn

-----------------------------------------------------------------------------
(***************************************************************************)
(* What the theorems about processes use of a buffer: its own cursor, where *)
(* it stays and how it loads a file; who is found; what is sent.           *)
(***************************************************************************)
\* The own cursor is always there, and found by its id.
LEMMA OwnFound ==
  ASSUME NEW b, Sound(b) PROVE HasCursor(b, Own) /\ Own \in Nat
<1>1. Own \in AllSlots /\ b.curs[Own].id = Own /\ b.curs[Own].id # NULL
  BY AllSlotsNat DEF Sound, GoodCursors, IdsOfSlots, Own, NULL
<1>2. bcursor_find(b, Own) = Own
  BY <1>1, FindIs, OwnForemost
<1> QED BY <1>2 DEF HasCursor, Own, NULL

\* Operations that change no id keep the ids among the members.
LEMMA IdsInSame ==
  ASSUME NEW b, NEW c, SameIds(b, c), NEW M, IdsIn(b, M) PROVE IdsIn(c, M)
  BY DEF SameIds, IdsIn

\* What is sent of a buffer (buffer_serialize) has its document and its cursors.
LEMMA SerializeSame ==
  ASSUME NEW b, DOMAIN b = Fields PROVE Same(b, buffer_serialize(b))
  BY DEF Same, SameLines, Fields, buffer_serialize

\* A loaded file leaves the worker's cursor at the start of its line.
LEMMA LoadedSound ==
  ASSUME NEW b, Sound(b)
  PROVE  LET c == [b EXCEPT !.curs[Own].pos = 0, !.server_mode = TRUE] IN
         Sound(c) /\ SameIds(b, c)
<1> DEFINE x == b.curs[Own]
           c == [b EXCEPT !.curs[Own].pos = 0, !.server_mode = TRUE]
<1>1. GoodLines(b) /\ Counted(b) /\ GoodCursors(b) /\ DOMAIN b = Fields
      /\ DOMAIN b.curs = AllSlots /\ Own \in AllSlots /\ x.id # NULL
  BY AllSlotsNat DEF Sound, GoodLines, GoodCursors, IdsOfSlots, Own, NULL
<1>2. x \in Cursor /\ x.line \in 1 .. b.last /\ x.line \in Nat /\ Len(b.str[x.line]) \in Nat
  BY <1>1, CursorFacts
<1>3. c.curs = [b.curs EXCEPT ![Own] = [x EXCEPT !.pos = 0]]
      /\ c.str = b.str /\ c.last = b.last
      /\ DOMAIN c = Fields /\ c.lid = b.lid /\ c.line_id_cnt = b.line_id_cnt
      /\ c.num_lines = b.num_lines /\ c.first = b.first
  BY <1>1 DEF Fields
<1> HIDE DEF c
<1>4. GoodLines(c) /\ Counted(c)
  BY <1>1, <1>3 DEF GoodLines, Counted
<1>5. GoodCursor(c, [x EXCEPT !.pos = 0]) /\ [x EXCEPT !.pos = 0].id = x.id
  BY <1>2, <1>3 DEF Cursor, GoodCursor, Fits
<1>6. \A y : GoodCursor(b, y) => GoodCursor(c, y)
  BY <1>3 DEF GoodCursor, Fits
<1>7. DOMAIN c.curs = AllSlots
      /\ \A j \in AllSlots : /\ c.curs[j].id = b.curs[j].id
                             /\ c.curs[j] = NoCursor \/ GoodCursor(c, c.curs[j])
  BY <1>1, <1>3, <1>5, <1>6 DEF GoodCursors
<1>8. Sound(c) /\ SameIds(b, c)
  BY <1>1, <1>4, <1>7, SoundEdited
<1> QED BY <1>8 DEF c

\* An editor that opens the document has its text, the worker's cursor and those
\* of the peers whose id the reader looks for, one of each id.
LEMMA OpenSound ==
  ASSUME NEW b, Sound(b), NEW M, IdsIn(b, M)
  PROVE  LET c == buffer_deserialize(buffer_serialize(b)) IN
         /\ Sound(c) /\ IdsIn(c, M) /\ DistinctIds(c.curs)
         /\ c.str = b.str /\ c.last = b.last /\ c.server_mode = FALSE
         /\ c.curs[Own] = b.curs[Own]
         /\ \A j \in Slots : b.curs[j].id # NULL /\ b.curs[j].id < MAX_CURSOR_NUM =>
              \E k \in Slots : /\ c.curs[k].id = b.curs[j].id
                               /\ DistinctIds(b.curs) => c.curs[k] = b.curs[j]
<1> DEFINE sent == buffer_serialize(b)
<1>1. Same(b, sent)
  BY SerializeSame DEF Sound, GoodLines
<1>2. Sound(sent) /\ IdsIn(sent, M)
  BY <1>1, SoundSame DEF Same, IdsIn
<1>3. sent.str = b.str /\ sent.last = b.last /\ sent.curs = b.curs
  BY <1>1 DEF Same, SameLines
<1> HIDE DEF sent
<1>4. PICK c : c = buffer_deserialize(sent)
  OBVIOUS
<1>5. /\ Sound(c) /\ IdsIn(c, M) /\ DistinctIds(c.curs)
      /\ c.str = sent.str /\ c.last = sent.last /\ c.server_mode = FALSE
      /\ c.curs[Own] = sent.curs[Own]
      /\ \A j \in Slots : sent.curs[j].id # NULL /\ sent.curs[j].id < MAX_CURSOR_NUM =>
           \E k \in Slots : /\ c.curs[k].id = sent.curs[j].id
                            /\ DistinctIds(sent.curs) => c.curs[k] = sent.curs[j]
  BY <1>2, <1>4, DeserializeSound
<1>6. c = buffer_deserialize(buffer_serialize(b))
  BY <1>4 DEF sent
<1> QED BY <1>3, <1>5, <1>6

OwnAtStart(b) == b.curs[Own].line = 1 /\ b.curs[Own].pos = 0

\* What the other operations of a sound document use of its own cursor.
LEMMA OwnFacts ==
  ASSUME NEW b, Sound(b)
  PROVE  /\ Own \in AllSlots /\ b.curs[Own].id = Own /\ b.curs[Own].id # NULL
         /\ b.curs[Own].line \in Nat /\ b.curs[Own].pos \in Nat
         /\ b.curs[Own].line >= 1 /\ b.first = 1
         /\ bcursor_find(b, Own) = Own
<1>1. Own \in AllSlots /\ b.curs[Own].id = Own /\ b.curs[Own].id # NULL
      /\ IdsOfSlots(b.curs) /\ GoodLines(b) /\ GoodCursors(b) /\ b.last \in Nat
  BY AllSlotsNat DEF Sound, GoodCursors, GoodLines, IdsOfSlots, Own, NULL
<1>2. b.curs[Own].line \in Nat /\ b.curs[Own].pos \in Nat /\ b.curs[Own].line \in 1 .. b.last
  BY <1>1, CursorFacts
<1>3. bcursor_find(b, Own) = Own
  BY <1>1, FindIs, OwnForemost
<1> QED BY <1>1, <1>2, <1>3 DEF Sound, GoodLines

\* Of a buffer in server mode with its own cursor at the start of the text, the
\* cursor in slot k types, erases, breaks or joins: the own one stays.
LEMMA EffectsAtStart ==
  ASSUME NEW b, Sound(b), b.server_mode = TRUE, OwnAtStart(b), NEW c, Sound(c),
         NEW k \in AllSlots, k # Own, b.curs[k].id # NULL, NEW chr,
         \/ Typed(b, c, k, chr)
         \/ Erased(b, c, k) /\ b.curs[k].pos > 0
         \/ BrokenAbove(b, c, k)
         \/ BrokenBelow(b, c, k)
         \/ Joined(b, c, k) /\ b.curs[k].line # 1
  PROVE  c.server_mode = TRUE /\ OwnAtStart(c)
<1> DEFINE x == b.curs[k]
           o == b.curs[Own]
<1>1. /\ Own \in AllSlots /\ o.id # NULL /\ o.line = 1 /\ o.pos = 0
  BY OwnFacts DEF OwnAtStart
<1>2. x.line \in Nat /\ x.line >= 1 /\ x.pos \in Nat
  <2>1. GoodLines(b) /\ GoodCursors(b)
    BY DEF Sound
  <2>2. x.line \in Nat /\ x.pos \in Nat /\ x.line \in 1 .. b.last /\ b.last \in Nat
    BY <2>1, CursorFacts DEF GoodLines
  <2> QED BY <2>2
<1>3. CASE Typed(b, c, k, chr)
  <2>1. ~(x.pos + 1 < 0)
    BY <1>2
  <2>2. c.curs[Own] = o /\ c.server_mode = b.server_mode
    BY <1>1, <1>3, <2>1 DEF Typed
  <2> QED BY <1>1, <2>2 DEF OwnAtStart
<1>4. CASE Erased(b, c, k) /\ x.pos > 0
  <2>1. ~(x.pos - 1 < 0)
    BY <1>2, <1>4
  <2>2. c.curs[Own] = o /\ c.server_mode = b.server_mode
    BY <1>1, <1>4, <2>1 DEF Erased
  <2> QED BY <1>1, <2>2 DEF OwnAtStart
<1>5. CASE BrokenAbove(b, c, k)
  <2>1. PICK p : p = Shifted(o, x.line)
    OBVIOUS
  <2>2. c.server_mode = TRUE
        /\ c.curs[Own] = IF p.line # 1 THEN cursor_move(c, p, "UP") ELSE p
    BY <1>5, <2>1 DEF BrokenAbove
  <2>3. p.pos = 0 /\ p.line = IF 1 >= x.line THEN 2 ELSE 1
    BY <1>1, <2>1 DEF Shifted, MovedTo, Shift
  <2>4. CASE p.line = 1
    BY <2>2, <2>3, <2>4 DEF OwnAtStart
  <2>5. CASE p.line # 1
    <3>1. p.line = 2 /\ c.first = 1
      BY <2>3, <2>5, OwnFacts
    <3>2. CanUp(c, p)
      BY <3>1 DEF CanUp, HasPrev
    <3>3. LineLen(c, 1) \in Nat
      <4>1. GoodLines(c)
        BY DEF Sound
      <4>2. 1 \in 1 .. Len(c.str) /\ Len(c.str[1]) \in Nat
        BY <4>1, LengthTypes
      <4> QED BY <4>2 DEF LineLen
    <3>4. c.curs[Own] = MovedTo(p, 2 - 1, Min2(0, LineLen(c, 2 - 1)))
      BY <2>2, <2>3, <2>5, <3>1, <3>2, MoveUp
    <3>5. 2 - 1 = 1 /\ Min2(0, LineLen(c, 1)) = 0
      BY <3>3 DEF Min2
    <3> QED BY <2>2, <3>4, <3>5 DEF OwnAtStart, MovedTo
  <2> QED BY <2>4, <2>5
<1>6. CASE BrokenBelow(b, c, k)
  <2>1. ~(x.pos < 0) /\ ~(1 >= x.line + 1)
    BY <1>2
  <2>2. Shifted(o, x.line + 1) = MovedTo(o, 1, 0)
    BY <1>1, <2>1 DEF Shifted, Shift
  <2>3. c.server_mode = b.server_mode
        /\ c.curs[Own] = Shifted(o, x.line + 1)
    BY <1>1, <1>6, <2>1 DEF BrokenBelow, IsSplit
  <2> QED BY <2>2, <2>3 DEF OwnAtStart, MovedTo
<1>7. CASE Joined(b, c, k) /\ x.line # 1
  <2>1. c.server_mode = b.server_mode /\ c.curs[Own] = MovedTo(o, Unshift(1, x.line), 0)
    BY <1>1, <1>7 DEF Joined
  <2>2. Unshift(1, x.line) = 1
    BY <1>2 DEF Unshift
  <2> QED BY <2>1, <2>2 DEF OwnAtStart, MovedTo
<1> QED BY <1>3, <1>4, <1>5, <1>6, <1>7

\* What a cursor that is looked up is, and in which slot.
LEMMA FoundSlot ==
  ASSUME NEW b, Sound(b), NEW id \in Nat, HasCursor(b, id)
  PROVE  LET k == bcursor_find(b, id) IN
         /\ k \in AllSlots /\ k # NULL /\ b.curs[k].id = id /\ b.curs[k].id # NULL
         /\ id # Own => k # Own
         /\ b.curs[k].pos \in Int /\ Foremost(b.curs, k)
<1> DEFINE k == bcursor_find(b, id)
<1>1. k # NULL /\ k \in AllSlots /\ b.curs[k].id = id /\ Foremost(b.curs, k)
  BY FindSpec DEF HasCursor
<1> HIDE DEF k
<1>2. id # NULL /\ GoodLines(b) /\ GoodCursors(b) /\ b.curs[Own].id = Own
  BY OwnFacts DEF NULL, Sound
<1>3. b.curs[k].pos \in Nat
  BY <1>1, <1>2, CursorFacts
<1>4. id # Own => k # Own
  BY <1>1, <1>2
<1> QED BY <1>1, <1>2, <1>3, <1>4 DEF k

\* Another cursor that inserts, breaks a line, deletes or moves leaves the own
\* cursor of a buffer in server mode at the start of the text.
LEMMA StaysAtStart ==
  ASSUME NEW b, Sound(b), b.server_mode = TRUE, OwnAtStart(b),
         NEW id \in Nat, id # Own
  PROVE  /\ \A chr \in Chars : LET c == bcursor_insert(b, id, chr) IN
              c.server_mode = TRUE /\ OwnAtStart(c)
         /\ HasCursor(b, id) =>
              /\ LET c == bcursor_insert_line(b, id) IN c.server_mode = TRUE /\ OwnAtStart(c)
              /\ LET c == bcursor_del(b, id) IN c.server_mode = TRUE /\ OwnAtStart(c)
              /\ \A dir \in Dirs : LET c == bcursor_move(b, id, dir) IN
                   c.server_mode = TRUE /\ OwnAtStart(c)
<1>1. PICK k : k = bcursor_find(b, id)
  OBVIOUS
<1>2. HasCursor(b, id) => /\ k \in AllSlots /\ k # Own /\ b.curs[k].id = id
                          /\ b.curs[k].id # NULL /\ b.curs[k].pos \in Int
                           /\ Foremost(b.curs, k)
  BY <1>1, FoundSlot
<1>3. HasCursor(b, id) <=> k # NULL
  BY <1>1 DEF HasCursor
<1>4. ASSUME NEW chr \in Chars, NEW c, c = bcursor_insert(b, id, chr)
      PROVE  c.server_mode = TRUE /\ OwnAtStart(c)
  <2>1. Sound(c) /\ (Same(b, c) \/ (k # NULL /\ Typed(b, c, k, chr)))
    BY <1>1, <1>4, InsertSound
  <2>2. CASE Same(b, c)
    BY <2>2 DEF Same, SameLines, OwnAtStart
  <2>3. CASE k # NULL /\ Typed(b, c, k, chr)
    BY <1>2, <1>3, <2>1, <2>3, EffectsAtStart
  <2> QED BY <2>1, <2>2, <2>3
<1>5. ASSUME HasCursor(b, id), NEW c, c = bcursor_insert_line(b, id)
      PROVE  c.server_mode = TRUE /\ OwnAtStart(c)
  <2>1. Sound(c) /\ (BrokenAbove(b, c, k) \/ BrokenBelow(b, c, k))
    BY <1>1, <1>5, InsertLineSound
  <2> QED BY <1>2, <1>5, <2>1, EffectsAtStart
<1>6. ASSUME HasCursor(b, id), NEW c, c = bcursor_del(b, id)
      PROVE  c.server_mode = TRUE /\ OwnAtStart(c)
  <2>1. Sound(c) /\ \/ c = b
                    \/ b.curs[k].pos > 0 /\ Erased(b, c, k)
                    \/ b.curs[k].line # 1 /\ Joined(b, c, k)
    BY <1>1, <1>6, DeleteSound
  <2> QED BY <1>2, <1>6, <2>1, EffectsAtStart
<1>7. ASSUME HasCursor(b, id), NEW dir \in Dirs, NEW c, c = bcursor_move(b, id, dir)
      PROVE  c.server_mode = TRUE /\ OwnAtStart(c)
  <2>1. DOMAIN b = Fields /\ IdsOfSlots(b.curs)
    BY DEF Sound, GoodLines, GoodCursors
  <2>2. c = bcursor_move(b, b.curs[k].id, dir)
    BY <1>2, <1>7
  <2>3. SameLines(b, c) /\ c.curs = [b.curs EXCEPT ![k] = cursor_move(b, b.curs[k], dir)]
    BY <1>2, <1>7, <2>1, <2>2, MoveOneExact
  <2> QED BY <1>2, <1>7, <2>3 DEF SameLines, OwnAtStart
<1> QED BY <1>4, <1>5, <1>6, <1>7

\* No operation of a cursor changes the mode of the buffer.
LEMMA KeepsMode ==
  ASSUME NEW b, Sound(b), NEW id \in Nat
  PROVE  /\ \A chr \in Chars : bcursor_insert(b, id, chr).server_mode = b.server_mode
         /\ HasCursor(b, id) =>
              /\ bcursor_insert_line(b, id).server_mode = b.server_mode
              /\ bcursor_del(b, id).server_mode = b.server_mode
              /\ \A dir \in Dirs : bcursor_move(b, id, dir).server_mode = b.server_mode
<1>1. PICK k : k = bcursor_find(b, id)
  OBVIOUS
<1>2. ASSUME NEW chr \in Chars, NEW c, c = bcursor_insert(b, id, chr)
      PROVE  c.server_mode = b.server_mode
  <2>1. Same(b, c) \/ Typed(b, c, k, chr)
    BY <1>1, <1>2, InsertSound
  <2> QED BY <2>1 DEF Same, SameLines, Typed
<1>3. ASSUME HasCursor(b, id), NEW c, c = bcursor_insert_line(b, id)
      PROVE  c.server_mode = b.server_mode
  <2>1. BrokenAbove(b, c, k) \/ BrokenBelow(b, c, k)
    BY <1>1, <1>3, InsertLineSound
  <2> QED BY <2>1 DEF BrokenAbove, BrokenBelow, IsSplit
<1>4. ASSUME HasCursor(b, id), NEW c, c = bcursor_del(b, id)
      PROVE  c.server_mode = b.server_mode
  <2>1. c = b \/ Erased(b, c, k) \/ Joined(b, c, k)
    BY <1>1, <1>4, DeleteSound
  <2> QED BY <2>1 DEF Erased, Joined
<1>5. ASSUME HasCursor(b, id), NEW dir \in Dirs, NEW c, c = bcursor_move(b, id, dir)
      PROVE  c.server_mode = b.server_mode
  <2>1. k \in AllSlots /\ b.curs[k].id = id /\ Foremost(b.curs, k) /\ b.curs[k].pos \in Int
    BY <1>1, <1>5, FoundSlot
  <2>2. DOMAIN b = Fields /\ IdsOfSlots(b.curs)
    BY DEF Sound, GoodLines, GoodCursors
  <2>3. SameLines(b, bcursor_move(b, b.curs[k].id, dir))
    BY <2>1, <2>2, MoveOneExact
  <2> QED BY <1>5, <2>1, <2>3 DEF SameLines
<1> QED BY <1>2, <1>3, <1>4, <1>5

\* What reading a file does to the line of the cursor that reads it: a character
\* leaves it there, a newline takes it one line down, and UP one line up again.
LEMMA OwnLoads ==
  ASSUME NEW b, Sound(b), b.server_mode = FALSE
  PROVE  /\ \A chr \in Chars : OwnLine(bcursor_insert(b, Own, chr)) = OwnLine(b)
         /\ OwnLine(bcursor_insert_line(b, Own)) = OwnLine(b) + 1
         /\ OwnLine(b) > 1 => OwnLine(bcursor_move(b, Own, "UP")) = OwnLine(b) - 1
<1> DEFINE o == b.curs[Own]
<1>1. /\ HasCursor(b, Own) /\ Own \in Nat /\ bcursor_find(b, Own) = Own
      /\ Own \in AllSlots /\ o.id = Own /\ o.id # NULL
      /\ o.line \in Nat /\ o.line >= 1 /\ o.pos \in Nat /\ b.first = 1
  BY OwnFound, OwnFacts
<1>2. ASSUME NEW chr \in Chars, NEW c, c = bcursor_insert(b, Own, chr)
      PROVE  OwnLine(c) = OwnLine(b)
  <2>1. Same(b, c) \/ Typed(b, c, Own, chr)
    BY <1>1, <1>2, InsertSound
  <2>2. CASE Same(b, c)
    BY <2>2 DEF Same, OwnLine
  <2>3. CASE Typed(b, c, Own, chr)
    <3>1. c.curs[Own] = MovedTo(o, o.line, o.pos + 1)
      BY <1>1, <2>3 DEF Typed
    <3> QED BY <3>1 DEF OwnLine, MovedTo
  <2> QED BY <2>1, <2>2, <2>3
<1>3. ASSUME NEW c, c = bcursor_insert_line(b, Own)
      PROVE  OwnLine(c) = OwnLine(b) + 1
  <2>1. BrokenAbove(b, c, Own) \/ BrokenBelow(b, c, Own)
    BY <1>1, <1>3, InsertLineSound
  <2>2. CASE BrokenAbove(b, c, Own)
    <3>1. c.curs[Own] = Shifted(o, o.line)
      BY <2>2 DEF BrokenAbove
    <3> QED BY <1>1, <3>1 DEF OwnLine, Shifted, Shift, MovedTo
  <2>3. CASE BrokenBelow(b, c, Own)
    <3>1. c.curs[Own] = MovedTo(o, o.line + 1, 0)
      BY <1>1, <2>3 DEF BrokenBelow
    <3> QED BY <3>1 DEF OwnLine, MovedTo
  <2> QED BY <2>1, <2>2, <2>3
<1>4. ASSUME OwnLine(b) > 1, NEW c, c = bcursor_move(b, Own, "UP")
      PROVE  OwnLine(c) = OwnLine(b) - 1
  <2>1. DOMAIN b = Fields /\ IdsOfSlots(b.curs) /\ o.pos \in Int
    BY <1>1 DEF Sound, GoodLines, GoodCursors
  <2>2. c.curs = [b.curs EXCEPT ![Own] = cursor_move(b, o, "UP")]
    <3>1. c = bcursor_move(b, o.id, "UP")
      BY <1>1, <1>4
    <3> QED BY <1>1, <2>1, <3>1, MoveOneExact, OwnForemost
  <2>3. CanUp(b, o)
    BY <1>1, <1>4 DEF CanUp, HasPrev, OwnLine
  <2>4. cursor_move(b, o, "UP") = MovedTo(o, o.line - 1, Min2(o.pos, LineLen(b, o.line - 1)))
    BY <2>3, MoveUp
  <2>5. c.curs[Own] = cursor_move(b, o, "UP")
    BY <1>1, <2>1, <2>2 DEF IdsOfSlots
  <2> QED BY <2>4, <2>5 DEF OwnLine, MovedTo
<1> QED BY <1>2, <1>3, <1>4

HaveCursors(b, M) == \A u \in M : HasCursor(b, u)

\* A cursor is found if some slot has the id.
LEMMA HasCursorIs ==
  ASSUME NEW b, NEW id
  PROVE  HasCursor(b, id) <=> \E k \in AllSlots : b.curs[k].id = id
BY FindSpec DEF HasCursor

\* Operations that change no id lose no cursor.
LEMMA FindKept ==
  ASSUME NEW b, NEW c, SameIds(b, c), NEW id
  PROVE  HasCursor(c, id) <=> HasCursor(b, id)
BY HasCursorIs DEF SameIds

\* With a slot left, the new cursor is there, and so are the others.
LEMMA AddedFound ==
  ASSUME NEW b, Sound(b), NEW c, NEW x, Added(b, c, x), NEW M, HaveCursors(b, M),
         \A u \in M : u # NULL
  PROVE  HaveCursors(c, M \cup {x.id})
<1>1. PICK k \in Slots : /\ b.curs[k] = NoCursor /\ c.curs[k] = x
                         /\ \A j \in AllSlots : j # k => c.curs[j] = b.curs[j]
  BY DEF Added
<1>2. b.curs[k].id = NULL /\ k \in AllSlots
  BY <1>1, NoCursorId DEF AllSlots
<1>3. HasCursor(c, x.id)
  BY <1>1, <1>2, HasCursorIs
<1>4. ASSUME NEW u \in M PROVE HasCursor(c, u)
  <2>1. PICK j \in AllSlots : b.curs[j].id = u
    BY HasCursorIs DEF HaveCursors
  <2>2. c.curs[j] = b.curs[j]
    BY <1>1, <1>2, <2>1
  <2> QED BY <2>1, <2>2, HasCursorIs
<1> QED BY <1>3, <1>4 DEF HaveCursors

\* Freeing a cursor frees no other.
LEMMA FreedFound ==
  ASSUME NEW b, NEW c, NEW u, HasCursor(b, u), NEW M, HaveCursors(b, M),
         \A j \in AllSlots : c.curs[j] = IF j = bcursor_find(b, u) THEN NoCursor ELSE b.curs[j]
  PROVE  HaveCursors(c, M \ {u})
<1>1. PICK k : k = bcursor_find(b, u)
  OBVIOUS
<1>2. b.curs[k].id = u
  BY <1>1, FindSpec DEF HasCursor
<1>3. ASSUME NEW v \in M \ {u} PROVE HasCursor(c, v)
  <2>1. PICK j \in AllSlots : b.curs[j].id = v
    BY HasCursorIs DEF HaveCursors
  <2>2. c.curs[j] = b.curs[j]
    BY <1>1, <1>2, <2>1
  <2> QED BY <2>1, <2>2, HasCursorIs
<1> QED BY <1>3 DEF HaveCursors
=============================================================================
