---------------------------- MODULE WindowProofs ----------------------------
(***************************************************************************)
(* The window of a buffer.  Which lines are visible is kept twice, as top  *)
(* and bottom and as a flag of every line; which way to trim and to extend *)
(* is decided by flags that are written line by line.  Here both are shown *)
(* to agree, for every screen of three rows or more; and what holds of a   *)
(* buffer when its file was read.                                          *)
(***************************************************************************)
EXTENDS BufferProofs

\* top and bottom are lines of the chain around the own cursor, and exactly the
\* lines between them are flagged.
Window(b) ==
  /\ b.top \in Nat /\ b.bottom \in Nat /\ OwnLine(b) \in Nat /\ Len(b.str) \in Nat
  /\ b.on_screen \in [1 .. Len(b.str) -> BOOLEAN]
  /\ 1 <= b.top /\ b.top <= OwnLine(b) /\ OwnLine(b) <= b.bottom /\ b.bottom <= Len(b.str)
  /\ \A l \in 1 .. Len(b.str) : b.on_screen[l] <=> (b.top <= l /\ l <= b.bottom)

\* The own cursor is not on the last row.
Inside(b) == OwnLine(b) < b.bottom

\* It is on the first row only if that is the first line.
Below(b) == b.top < OwnLine(b) \/ b.top = 1

Rows(b) == b.bottom - b.top + 1

\* Only the window has changed, and is one.
Framed(b, c) == Same(b, c) /\ c.where = b.where /\ c.u = b.u /\ Window(c)

-----------------------------------------------------------------------------
(***************************************************************************)
(* Scrolling, trimming, extending.                                         *)
(***************************************************************************)
LEMMA FramedTrans ==
  ASSUME NEW a, NEW b, NEW c, Framed(a, b), Framed(b, c) PROVE Framed(a, c)
  BY SameTrans DEF Framed

\* A window is framed like itself.
LEMMA FramedRefl ==
  ASSUME NEW b, DOMAIN b = Fields, Window(b) PROVE Framed(b, b)
  BY SameRefl DEF Framed

\* Who is framed alike has the own cursor on the same line of as many.
LEMMA FramedFacts ==
  ASSUME NEW b, NEW c, Framed(b, c)
  PROVE  /\ DOMAIN b = Fields /\ DOMAIN c = Fields /\ OwnLine(c) = OwnLine(b)
         /\ Len(c.str) = Len(b.str) /\ Window(c)
  BY DEF Framed, Same, SameLines, OwnLine

\* What two assignments leave of the flags.
LEMMA TwoFlags ==
  ASSUME NEW n \in Nat, NEW f \in [1 .. n -> BOOLEAN], NEW i \in Int, NEW j \in Int
  PROVE  LET g == [[f EXCEPT ![i] = FALSE] EXCEPT ![j] = TRUE] IN
         /\ g \in [1 .. n -> BOOLEAN]
         /\ \A l \in 1 .. n : g[l] <=> (l = j \/ (l # i /\ f[l]))
<1> DEFINE g == [[f EXCEPT ![i] = FALSE] EXCEPT ![j] = TRUE]
<1>1. g \in [1 .. n -> BOOLEAN]
  OBVIOUS
<1>2. \A l \in 1 .. n : g[l] = IF l = j THEN TRUE ELSE IF l = i THEN FALSE ELSE f[l]
  OBVIOUS
<1> HIDE DEF g
<1>3. \A l \in 1 .. n : g[l] <=> (l = j \/ (l # i /\ f[l]))
  BY <1>2
<1> QED BY <1>1, <1>3 DEF g

\* A scroll moves the window by one line, without the own cursor leaving it.
LEMMA ScrollUpWindow ==
  ASSUME NEW b, DOMAIN b = Fields, Window(b)
  PROVE  LET c == buffer_scroll(b, "UP") IN
         /\ Framed(b, c)
         /\ IF CanScrollUp(b) THEN c.top = b.top - 1 /\ c.bottom = b.bottom - 1 /\ Inside(c)
                              ELSE c = b
<1> DEFINE c == buffer_scroll(b, "UP")
<1>1. CASE CanScrollUp(b)
  <2> DEFINE on == [[b.on_screen EXCEPT ![b.bottom] = FALSE] EXCEPT ![b.top - 1] = TRUE]
  <2>1. c = [b EXCEPT !.on_screen = on, !.bottom = b.bottom - 1, !.top = b.top - 1]
    BY <1>1 DEF buffer_scroll
  <2> HIDE DEF on
  <2>2. c.on_screen = on /\ c.bottom = b.bottom - 1 /\ c.top = b.top - 1
        /\ c.where = b.where /\ c.u = b.u
    BY <2>1 DEF Fields
  <2>3. Same(b, c) /\ c.str = b.str /\ OwnLine(c) = OwnLine(b)
    BY ScrollSame DEF Same, SameLines, OwnLine
  <2> HIDE DEF c
  <2>5. b.on_screen \in [1 .. Len(b.str) -> BOOLEAN]
    BY DEF Window
  <2>6. on \in [1 .. Len(b.str) -> BOOLEAN]
        /\ \A l \in 1 .. Len(b.str) :
             on[l] <=> (l = b.top - 1 \/ (l # b.bottom /\ b.on_screen[l]))
    BY <2>5, TwoFlags DEF on, Window
  <2>7. b.top > 1 /\ OwnLine(b) # b.bottom /\ OwnLine(b) # b.bottom - 1
    BY <1>1 DEF CanScrollUp, HasPrev
  <2>8. \A l \in 1 .. Len(b.str) : c.on_screen[l] <=> (c.top <= l /\ l <= c.bottom)
    BY <2>2, <2>6, <2>7 DEF Window
  <2>4. Window(c) /\ Inside(c)
    BY SMTT(60), <2>2, <2>3, <2>6, <2>7, <2>8 DEF Window, Inside
  <2> QED BY <1>1, <2>2, <2>3, <2>4 DEF Framed, c
<1>2. CASE ~CanScrollUp(b)
  <2>1. c = b
    BY <1>2 DEF buffer_scroll
  <2> QED BY <1>2, <2>1, FramedRefl
<1> QED BY <1>1, <1>2

\* One line down, at both ends.
LEMMA ScrollDownWindow ==
  ASSUME NEW b, DOMAIN b = Fields, Window(b)
  PROVE  LET c == buffer_scroll(b, "DOWN") IN
         /\ Framed(b, c)
         /\ IF CanScrollDown(b) THEN c.top = b.top + 1 /\ c.bottom = b.bottom + 1 /\ Inside(c)
                                ELSE c = b
<1> DEFINE c == buffer_scroll(b, "DOWN")
<1>1. CASE CanScrollDown(b)
  <2> DEFINE on == [[b.on_screen EXCEPT ![b.top] = FALSE] EXCEPT ![b.bottom + 1] = TRUE]
  <2>1. c = [b EXCEPT !.on_screen = on, !.bottom = b.bottom + 1, !.top = b.top + 1]
    BY <1>1 DEF buffer_scroll
  <2> HIDE DEF on
  <2>2. c.on_screen = on /\ c.bottom = b.bottom + 1 /\ c.top = b.top + 1
        /\ c.where = b.where /\ c.u = b.u
    BY <2>1 DEF Fields
  <2>3. Same(b, c) /\ c.str = b.str /\ OwnLine(c) = OwnLine(b)
    BY ScrollSame DEF Same, SameLines, OwnLine
  <2> HIDE DEF c
  <2>5. b.on_screen \in [1 .. Len(b.str) -> BOOLEAN]
    BY DEF Window
  <2>6. on \in [1 .. Len(b.str) -> BOOLEAN]
        /\ \A l \in 1 .. Len(b.str) :
             on[l] <=> (l = b.bottom + 1 \/ (l # b.top /\ b.on_screen[l]))
    BY <2>5, TwoFlags DEF on, Window
  <2>7. b.bottom < Len(b.str) /\ OwnLine(b) # b.top /\ OwnLine(b) # b.top + 1
    BY <1>1 DEF CanScrollDown, HasNext, NumLines
  <2>8. \A l \in 1 .. Len(b.str) : c.on_screen[l] <=> (c.top <= l /\ l <= c.bottom)
    BY SMTT(60), <2>2, <2>6, <2>7 DEF Window
  <2>4. Window(c) /\ Inside(c)
    BY <2>2, <2>3, <2>6, <2>7, <2>8 DEF Window, Inside
  <2> QED BY <1>1, <2>2, <2>3, <2>4 DEF Framed, c
<1>2. CASE ~CanScrollDown(b)
  <2>1. c = b
    BY <1>2 DEF buffer_scroll
  <2> QED BY <1>2, <2>1, FramedRefl
<1> QED BY <1>1, <1>2

\* With three rows there is always one to scroll to, until the text ends.
LEMMA OffTopWindow ==
  ASSUME NEW b, DOMAIN b = Fields, Window(b), Rows(b) >= 3
  PROVE  LET c == OffTop(b) IN
         /\ Framed(b, c) /\ Rows(c) = Rows(b) /\ Below(c)
         /\ Inside(b) => Inside(c)
         /\ Below(b) => c = b
<1> DEFINE c == OffTop(b)
<1>1. CASE b.top = OwnLine(b)
  <2>1. c = buffer_scroll(b, "UP")
    BY <1>1 DEF OffTop
  <2>2. CanScrollUp(b) <=> b.top # 1
    BY <1>1 DEF Window, Rows, CanScrollUp, HasPrev
  <2> HIDE DEF c
  <2>3. /\ Framed(b, c)
        /\ IF CanScrollUp(b) THEN c.top = b.top - 1 /\ c.bottom = b.bottom - 1 /\ Inside(c)
                             ELSE c = b
    BY <2>1, ScrollUpWindow
  <2>4. OwnLine(c) = OwnLine(b)
    BY <2>3, FramedFacts
  <2>5. Rows(c) = Rows(b) /\ Below(c) /\ (Inside(b) => Inside(c))
    BY <1>1, <2>2, <2>3, <2>4 DEF Window, Rows, Below
  <2>6. Below(b) => c = b
    BY <1>1, <2>2, <2>3 DEF Below, Window
  <2> QED BY <2>3, <2>5, <2>6 DEF c
<1>2. CASE b.top # OwnLine(b)
  <2>1. c = b
    BY <1>2 DEF OffTop
  <2> QED BY <1>2, <2>1, FramedRefl DEF Below, Window
<1> QED BY <1>1, <1>2

\* A cursor on the last row is taken off it, by scrolling.
LEMMA OffBottomWindow ==
  ASSUME NEW b, DOMAIN b = Fields, Window(b), Rows(b) >= 3, OwnLine(b) < Len(b.str)
  PROVE  LET c == OffBottom(b) IN
         /\ Framed(b, c) /\ Rows(c) = Rows(b) /\ Inside(c)
         /\ Below(b) => Below(c)
         /\ Inside(b) => c = b
<1> DEFINE c == OffBottom(b)
<1>1. CASE b.bottom = OwnLine(b)
  <2>1. c = buffer_scroll(b, "DOWN")
    BY <1>1 DEF OffBottom
  <2>2. CanScrollDown(b)
    BY <1>1 DEF Window, Rows, CanScrollDown, HasNext, NumLines
  <2> HIDE DEF c
  <2>3. /\ Framed(b, c) /\ c.top = b.top + 1 /\ c.bottom = b.bottom + 1 /\ Inside(c)
    BY <2>1, <2>2, ScrollDownWindow
  <2>4. OwnLine(c) = OwnLine(b)
    BY <2>3, FramedFacts
  <2>5. Rows(c) = Rows(b) /\ Below(c) /\ ~Inside(b)
    BY <1>1, <2>3, <2>4 DEF Window, Rows, Below, Inside
  <2> QED BY <2>3, <2>5 DEF c
<1>2. CASE b.bottom # OwnLine(b)
  <2>1. c = b
    BY <1>2 DEF OffBottom
  <2> QED BY <1>2, <2>1, FramedRefl DEF Inside, Window
<1> QED BY <1>1, <1>2

\* Trimming, extending and moving end with the own cursor off both edges.
LEMMA OffEdgesWindow ==
  ASSUME NEW b, DOMAIN b = Fields, Window(b), Rows(b) >= 3, OwnLine(b) < Len(b.str)
  PROVE  \A c \in {ScrollOffEdges(b), ScrollBefore(b)} :
           Framed(b, c) /\ Rows(c) = Rows(b) /\ Inside(c) /\ Below(c)
<1>1. /\ Framed(b, OffBottom(b)) /\ Rows(OffBottom(b)) = Rows(b) /\ Inside(OffBottom(b))
  BY OffBottomWindow
<1>2. /\ Framed(b, OffTop(b)) /\ Rows(OffTop(b)) = Rows(b) /\ Below(OffTop(b))
  BY OffTopWindow
<1>3. PICK x, y : x = OffBottom(b) /\ y = OffTop(b)
  OBVIOUS
<1>4. Framed(x, OffTop(x)) /\ Rows(OffTop(x)) = Rows(x) /\ Below(OffTop(x)) /\ Inside(OffTop(x))
  BY <1>1, <1>3, FramedFacts, OffTopWindow
<1>5. Framed(y, OffBottom(y)) /\ Rows(OffBottom(y)) = Rows(y) /\ Below(OffBottom(y))
      /\ Inside(OffBottom(y))
  <2>1. DOMAIN y = Fields /\ Window(y) /\ OwnLine(y) < Len(y.str) /\ Rows(y) >= 3 /\ Below(y)
    BY <1>2, <1>3, FramedFacts
  <2> QED BY <2>1, OffBottomWindow
<1> QED BY <1>1, <1>2, <1>3, <1>4, <1>5, FramedTrans DEF ScrollOffEdges, ScrollBefore

\* What one assignment leaves of the flags.
LEMMA OneFlag ==
  ASSUME NEW n \in Nat, NEW f \in [1 .. n -> BOOLEAN], NEW i \in Int, NEW v \in BOOLEAN
  PROVE  LET g == [f EXCEPT ![i] = v] IN
         /\ g \in [1 .. n -> BOOLEAN]
         /\ \A l \in 1 .. n : g[l] <=> ((l = i /\ v) \/ (l # i /\ f[l]))
<1> DEFINE g == [f EXCEPT ![i] = v]
<1>1. g \in [1 .. n -> BOOLEAN]
  OBVIOUS
<1>2. \A l \in 1 .. n : g[l] = IF l = i THEN v ELSE f[l]
  OBVIOUS
<1> HIDE DEF g
<1>3. \A l \in 1 .. n : g[l] <=> ((l = i /\ v) \/ (l # i /\ f[l]))
  BY <1>2
<1> QED BY <1>1, <1>3 DEF g

\* The window with another top, bottom and flag of one line.
Reframed(b, c, t, e, i, v) ==
  /\ Same(b, c) /\ c.where = b.where /\ c.u = b.u
  /\ c.top = t /\ c.bottom = e /\ c.on_screen = [b.on_screen EXCEPT ![i] = v]

\* Reframing by two assignments of flags.
LEMMA EdgesReframed ==
  ASSUME NEW b, DOMAIN b = Fields
  PROVE  /\ Reframed(b, DropBottom(b), b.top, b.bottom - 1, b.bottom, FALSE)
         /\ Reframed(b, DropTop(b), b.top + 1, b.bottom, b.top, FALSE)
         /\ Reframed(b, AddBottom(b), b.top, b.bottom + 1, b.bottom + 1, TRUE)
         /\ Reframed(b, AddTop(b), b.top - 1, b.bottom, b.top - 1, TRUE)
<1>1. /\ Same(b, DropBottom(b)) /\ Same(b, DropTop(b))
      /\ Same(b, AddBottom(b)) /\ Same(b, AddTop(b))
  BY WindowSame
<1> QED BY <1>1 DEF Reframed, DropBottom, DropTop, AddBottom, AddTop, Fields

\* A line leaves or joins the window at one of its ends.
LEMMA ReframedWindow ==
  ASSUME NEW b, DOMAIN b = Fields, Window(b), NEW c, NEW t \in Nat, NEW e \in Nat,
         NEW i, NEW v \in BOOLEAN, Reframed(b, c, t, e, i, v),
         1 <= t, t <= OwnLine(b), OwnLine(b) <= e, e <= Len(b.str),
         \/ (t = b.top /\ e = b.bottom - 1 /\ i = b.bottom /\ v = FALSE)
         \/ (t = b.top + 1 /\ e = b.bottom /\ i = b.top /\ v = FALSE)
         \/ (t = b.top /\ e = b.bottom + 1 /\ i = b.bottom + 1 /\ v = TRUE)
         \/ (t = b.top - 1 /\ e = b.bottom /\ i = b.top - 1 /\ v = TRUE)
  PROVE  Framed(b, c) /\ c.top = t /\ c.bottom = e
<1>1. OwnLine(c) = OwnLine(b) /\ c.str = b.str /\ c.top = t /\ c.bottom = e
      /\ c.on_screen = [b.on_screen EXCEPT ![i] = v]
  BY DEF Reframed, Same, SameLines, OwnLine
<1>2. b.on_screen \in [1 .. Len(b.str) -> BOOLEAN] /\ Len(b.str) \in Nat /\ i \in Int
  BY DEF Window
<1>3. c.on_screen \in [1 .. Len(b.str) -> BOOLEAN]
      /\ \A l \in 1 .. Len(b.str) :
           c.on_screen[l] <=> ((l = i /\ v) \/ (l # i /\ b.on_screen[l]))
  <2>1. PICK n \in Nat : n = Len(b.str)
    BY <1>2
  <2>3. PICK f, g : f = b.on_screen /\ g = [f EXCEPT ![i] = v]
    OBVIOUS
  <2>2. /\ g \in [1 .. n -> BOOLEAN]
        /\ \A l \in 1 .. n : g[l] <=> ((l = i /\ v) \/ (l # i /\ f[l]))
    <3>1. f \in [1 .. n -> BOOLEAN]
      BY <1>2, <2>1, <2>3
    <3>2. \A h \in [1 .. n -> BOOLEAN] :
             /\ [h EXCEPT ![i] = v] \in [1 .. n -> BOOLEAN]
             /\ \A l \in 1 .. n : [h EXCEPT ![i] = v][l] <=> ((l = i /\ v) \/ (l # i /\ h[l]))
      BY OneFlag
    <3> QED BY <2>3, <3>1, <3>2, ZenonT(60)
  <2>4. c.on_screen = g /\ Len(b.str) = n /\ b.on_screen = f
    BY <1>1, <2>1, <2>3
  <2> QED BY <2>2, <2>4, ZenonT(60)
<1>4. \A l \in 1 .. Len(b.str) : c.on_screen[l] <=> (t <= l /\ l <= e)
  BY SMTT(60), <1>3 DEF Window
<1>5. Window(c)
  BY <1>1, <1>3, <1>4 DEF Window
<1> QED BY <1>1, <1>5 DEF Framed, Reframed

LEMMA TopAdded ==
  ASSUME NEW b, DOMAIN b = Fields, Window(b), NEW c, NEW t \in Nat, NEW e \in Nat,
         Reframed(b, c, t, e, t, TRUE), t = b.top - 1, e = b.bottom,
         1 <= t, t <= OwnLine(b), OwnLine(b) <= e, e <= Len(b.str)
  PROVE  Framed(b, c) /\ c.top = t /\ c.bottom = e
<1>1. t = b.top - 1 /\ e = b.bottom /\ t = b.top - 1 /\ TRUE = TRUE /\ TRUE \in BOOLEAN
  OBVIOUS
<1> QED BY ZenonT(60), <1>1, ReframedWindow

\* A visible line that came makes another one leave the window.
LEMMA TrimWindow ==
  ASSUME NEW b, DOMAIN b = Fields, Window(b), Inside(b), NEW l, b.on_screen[l] => Rows(b) >= 4
  PROVE  LET c == buffer_trim(b, l) IN
         /\ Framed(b, c) /\ Inside(c)
         /\ Rows(c) = IF b.on_screen[l] THEN Rows(b) - 1 ELSE Rows(b)
<1> DEFINE c == buffer_trim(b, l)
<1>1. CASE ~b.on_screen[l]
  <2>1. c = b
    BY <1>1 DEF buffer_trim
  <2> QED BY <1>1, <2>1, FramedRefl
<1>2. CASE b.on_screen[l]
  <2>1. PICK x : x = IF b.where[l] \in {"SAME", "BELLOW"}
                       THEN IF b.bottom # OwnLine(b) THEN DropBottom(b) ELSE DropTop(b)
                       ELSE IF b.top # OwnLine(b) THEN DropTop(b) ELSE DropBottom(b)
    OBVIOUS
  <2>2. c = ScrollOffEdges(x)
    BY <1>2, <2>1 DEF buffer_trim
  <2>3. x = DropBottom(b) \/ (x = DropTop(b) /\ b.top # OwnLine(b))
    BY <2>1 DEF Inside, Window
  <2>4. Framed(b, x) /\ Rows(x) = Rows(b) - 1
    <3>1. CASE x = DropBottom(b)
      <4>1. Reframed(b, x, b.top, b.bottom - 1, b.bottom, FALSE)
        BY <3>1, EdgesReframed
      <4>2. b.bottom - 1 \in Nat /\ b.top \in Nat /\ OwnLine(b) <= b.bottom - 1
            /\ b.bottom - 1 <= Len(b.str) /\ 1 <= b.top /\ b.top <= OwnLine(b)
        BY DEF Window, Inside
      <4>3. Framed(b, x) /\ x.top = b.top /\ x.bottom = b.bottom - 1
        BY <4>1, <4>2, ReframedWindow
      <4> QED BY <4>3 DEF Rows, Window
    <3>2. CASE x = DropTop(b) /\ b.top # OwnLine(b)
      <4>1. Reframed(b, x, b.top + 1, b.bottom, b.top, FALSE)
        BY <3>2, EdgesReframed
      <4>2. b.top + 1 \in Nat /\ b.bottom \in Nat /\ b.top + 1 <= OwnLine(b) /\ 1 <= b.top + 1
            /\ OwnLine(b) <= b.bottom /\ b.bottom <= Len(b.str)
        BY <3>2 DEF Window
      <4>3. Framed(b, x) /\ x.top = b.top + 1 /\ x.bottom = b.bottom
        BY <4>1, <4>2, ReframedWindow
      <4> QED BY <4>3 DEF Rows, Window
    <3> QED BY <2>3, <3>1, <3>2
  <2>5. DOMAIN x = Fields /\ Window(x) /\ Rows(x) >= 3 /\ OwnLine(x) < Len(x.str)
    <3>1. DOMAIN x = Fields /\ Window(x) /\ OwnLine(x) = OwnLine(b) /\ Len(x.str) = Len(b.str)
      BY <2>4, FramedFacts
    <3>2. Rows(b) \in Int /\ OwnLine(b) < Len(b.str)
      BY DEF Rows, Window, Inside
    <3> QED BY <1>2, <2>4, <3>1, <3>2
  <2>6. Framed(x, ScrollOffEdges(x)) /\ Rows(ScrollOffEdges(x)) = Rows(x)
        /\ Inside(ScrollOffEdges(x))
    BY <2>5, OffEdgesWindow
  <2> QED BY <1>2, <2>2, <2>4, <2>6, FramedTrans
<1> QED BY <1>1, <1>2

-----------------------------------------------------------------------------
(***************************************************************************)
(* The flags that say where a line is: above the own cursor all are ABOVE. *)
(* Below it, where line_new reads two neighbours, BELLOW does not follow   *)
(* on another flag, so that one of its conditionals assigns the new one.   *)
(***************************************************************************)
FlagsAt(w, n, o) ==
  /\ n \in Nat /\ o \in 1 .. n /\ w \in [1 .. n -> CRP]
  /\ \A l \in 1 .. o - 1 : w[l] = "ABOVE"
  /\ w[o] = "SAME"
  /\ \A l \in o + 2 .. n : w[l] = "BELLOW" => w[l - 1] = "BELLOW"

Marked(b) == FlagsAt(b.where, Len(b.str), OwnLine(b))

\* A sequence of length n is a function on 1..n.
LEMMA FunIsSeq ==
  ASSUME NEW S, NEW n \in Nat, NEW f \in [1 .. n -> S] PROVE f \in Seq(S) /\ Len(f) = n
  BY IsASeq, LenProperties

\* The own cursor moves by one line, and the flags with it.
LEMMA FlagsMoved ==
  ASSUME NEW w, NEW n, NEW o, FlagsAt(w, n, o)
  PROVE  /\ o > 1 => FlagsAt([w EXCEPT ![(o - 1) + 1] = "BELLOW", ![o - 1] = "SAME"], n, o - 1)
         /\ o < n => FlagsAt([w EXCEPT ![(o + 1) - 1] = "ABOVE", ![o + 1] = "SAME"], n, o + 1)
<1>1. n \in Nat /\ o \in 1 .. n /\ w \in [1 .. n -> CRP] /\ o \in Nat
      /\ "ABOVE" \in CRP /\ "BELLOW" \in CRP /\ "SAME" \in CRP
  BY DEF FlagsAt, CRP
<1>2. ASSUME o > 1
      PROVE  FlagsAt([w EXCEPT ![(o - 1) + 1] = "BELLOW", ![o - 1] = "SAME"], n, o - 1)
  <2>1. PICK g : g = [w EXCEPT ![(o - 1) + 1] = "BELLOW", ![o - 1] = "SAME"]
    OBVIOUS
  <2>2. g \in [1 .. n -> CRP]
        /\ \A l \in 1 .. n : g[l] = IF l = o - 1 THEN "SAME" ELSE IF l = o THEN "BELLOW" ELSE w[l]
    BY <1>1, <1>2, <2>1
  <2>3. FlagsAt(g, n, o - 1)
    BY <1>1, <1>2, <2>2 DEF FlagsAt
  <2> QED BY <2>1, <2>3
<1>3. ASSUME o < n
      PROVE  FlagsAt([w EXCEPT ![(o + 1) - 1] = "ABOVE", ![o + 1] = "SAME"], n, o + 1)
  <2>1. PICK g : g = [w EXCEPT ![(o + 1) - 1] = "ABOVE", ![o + 1] = "SAME"]
    OBVIOUS
  <2>2. g \in [1 .. n -> CRP]
        /\ \A l \in 1 .. n : g[l] = IF l = o + 1 THEN "SAME" ELSE IF l = o THEN "ABOVE" ELSE w[l]
    BY <1>1, <1>3, <2>1
  <2>3. FlagsAt(g, n, o + 1)
    BY <1>1, <1>3, <2>2 DEF FlagsAt
  <2> QED BY <2>1, <2>3
<1> QED BY <1>2, <1>3

\* A line is linked in, and gets a flag from its neighbours.
LEMMA FlagsLinked ==
  ASSUME NEW b, Marked(b), NEW i \in 1 .. Len(b.str)
  PROVE  FlagsAt(InsertAt(b.where, i, NewWhere(b, i)), Len(b.str) + 1, Shift(OwnLine(b), i))
<1>1. PICK n, o, w, e :
        n = Len(b.str) /\ o = OwnLine(b) /\ w = b.where /\ e = NewWhere(b, i)
  OBVIOUS
<1>2. FlagsAt(w, n, o) /\ i \in 1 .. n
  BY <1>1 DEF Marked
<1>3. n \in Nat /\ o \in 1 .. n /\ w \in [1 .. n -> CRP]
  BY <1>2 DEF FlagsAt
<1>4. e = IF i = 1 \/ w[i] \in {"SAME", "ABOVE"} THEN "ABOVE"
          ELSE IF w[i - 1] \in {"SAME", "BELLOW"} THEN "BELLOW" ELSE "UNINIT"
  <2>1. i = 1 \/ i > 1
    BY <1>2, <1>3
  <2>2. CASE i = 1
    BY <1>1, <1>3, <2>2 DEF NewWhere, NumLines
  <2>3. CASE i > 1
    BY <1>1, <1>2, <1>3, <2>3 DEF NewWhere, NumLines
  <2> QED BY <2>1, <2>2, <2>3
<1>5. i > o /\ w[i] = "BELLOW" => w[i - 1] \in {"SAME", "BELLOW"}
  BY <1>2, <1>3 DEF FlagsAt
<1>6. e \in CRP /\ (i <= o => e = "ABOVE") /\ (e = "BELLOW" => w[i] = "BELLOW")
  BY <1>2, <1>3, <1>4, <1>5 DEF FlagsAt, CRP
<1>7. PICK g : g = InsertAt(w, i, e)
  OBVIOUS
<1>8. w \in Seq(CRP) /\ Len(w) = n
  BY <1>3, FunIsSeq
<1>9. g \in Seq(CRP) /\ Len(g) = n + 1
      /\ \A j \in 1 .. n + 1 : g[j] = IF j < i THEN w[j] ELSE IF j = i THEN e ELSE w[j - 1]
  <2>1. w \in Seq(CRP) /\ i \in 1 .. Len(w) + 1 /\ e \in CRP
    BY <1>2, <1>3, <1>6, <1>8
  <2>2. Inserted(CRP, g, w, i, e)
    BY <1>7, <2>1, InsertAtInserted
  <2> QED BY <1>8, <2>2 DEF Inserted
<1>10. g \in [1 .. n + 1 -> CRP]
  BY <1>9, LenProperties
<1>11. FlagsAt(g, n + 1, Shift(o, i))
  <2>1. CASE i <= o
    <3>1. Shift(o, i) = o + 1
      BY <1>2, <1>3, <2>1 DEF Shift
    <3>2. \A l \in 1 .. o : g[l] = "ABOVE"
      BY <1>2, <1>3, <1>6, <1>9, <2>1 DEF FlagsAt
    <3>3. g[o + 1] = w[o] /\ w[o] = "SAME"
      BY <1>2, <1>3, <1>9, <2>1 DEF FlagsAt
    <3>4. \A l \in o + 3 .. n + 1 : g[l] = "BELLOW" => g[l - 1] = "BELLOW"
      BY <1>2, <1>3, <1>9, <2>1 DEF FlagsAt
    <3>5. FlagsAt(g, n + 1, o + 1)
      BY <1>3, <1>10, <3>2, <3>3, <3>4 DEF FlagsAt
    <3> QED BY <3>1, <3>5
  <2>2. CASE i > o
    <3>1. Shift(o, i) = o
      BY <1>2, <1>3, <2>2 DEF Shift
    <3>2. \A l \in o + 2 .. n + 1 : g[l] = "BELLOW" => g[l - 1] = "BELLOW"
      <4> SUFFICES ASSUME NEW l \in o + 2 .. n + 1, g[l] = "BELLOW" PROVE g[l - 1] = "BELLOW"
        OBVIOUS
      <4>1. CASE l < i
        BY <1>2, <1>3, <1>9, <4>1 DEF FlagsAt
      <4>2. CASE l = i
        BY <1>2, <1>3, <1>6, <1>9, <4>2 DEF FlagsAt
      <4>3. CASE l = i + 1
        BY <1>2, <1>3, <1>4, <1>5, <1>9, <2>2, <4>3 DEF FlagsAt
      <4>4. CASE l > i + 1
        BY <1>2, <1>3, <1>9, <2>2, <4>4 DEF FlagsAt
      <4> QED BY <1>3, <4>1, <4>2, <4>3, <4>4
    <3>3. FlagsAt(g, n + 1, o)
      BY <1>2, <1>3, <1>9, <1>10, <2>2, <3>2 DEF FlagsAt
    <3> QED BY <3>1, <3>3
  <2> QED BY <1>2, <1>3, <2>1, <2>2
<1> QED BY <1>1, <1>7, <1>11

\* A line is unlinked, and not the own cursor's.
LEMMA FlagsUnlinked ==
  ASSUME NEW w, NEW n, NEW o, FlagsAt(w, n, o), NEW l \in 1 .. n, l # o
  PROVE  FlagsAt(RemoveAt(w, l), n - 1, Unshift(o, l))
<1>1. n \in Nat /\ o \in 1 .. n /\ w \in [1 .. n -> CRP]
  BY DEF FlagsAt
<1>2. PICK g : g = RemoveAt(w, l)
  OBVIOUS
<1>3. w \in Seq(CRP) /\ Len(w) = n
  BY <1>1, FunIsSeq
<1>4. g \in Seq(CRP) /\ Len(g) = n - 1
      /\ \A j \in 1 .. n - 1 : g[j] = IF j < l THEN w[j] ELSE w[j + 1]
  BY <1>2, <1>3, RemoveAtProperties
<1>5. g \in [1 .. n - 1 -> CRP] /\ n - 1 \in Nat
  BY <1>1, <1>4, LenProperties
<1>6. CASE l < o
  <2>1. Unshift(o, l) = o - 1
    BY <1>1, <1>6 DEF Unshift
  <2>2. FlagsAt(g, n - 1, o - 1)
    BY <1>1, <1>4, <1>5, <1>6 DEF FlagsAt
  <2> QED BY <1>2, <2>1, <2>2
<1>7. CASE l > o
  <2>1. Unshift(o, l) = o
    BY <1>1, <1>7 DEF Unshift
  <2>2. \A j \in o + 2 .. n - 1 : g[j] = "BELLOW" => g[j - 1] = "BELLOW"
    <3> SUFFICES ASSUME NEW j \in o + 2 .. n - 1, g[j] = "BELLOW" PROVE g[j - 1] = "BELLOW"
      OBVIOUS
    <3>1. CASE j < l
      BY <1>1, <1>4, <3>1 DEF FlagsAt
    <3>2. CASE j = l
      BY <1>1, <1>4, <3>2 DEF FlagsAt
    <3>3. CASE j > l
      BY <1>1, <1>4, <1>7, <3>3 DEF FlagsAt
    <3> QED BY <1>1, <3>1, <3>2, <3>3
  <2>3. FlagsAt(g, n - 1, o)
    BY <1>1, <1>4, <1>5, <1>7, <2>2 DEF FlagsAt
  <2> QED BY <1>2, <2>1, <2>3
<1> QED BY <1>1, <1>6, <1>7

-----------------------------------------------------------------------------
(***************************************************************************)
(* A line is linked into the window, or unlinked from it.                  *)
(***************************************************************************)

\* f flags the lines t to e of n.
Span(f, n, t, e) ==
  /\ n \in Nat /\ t \in Nat /\ e \in Nat /\ f \in [1 .. n -> BOOLEAN]
  /\ 1 <= t /\ t <= e /\ e <= n
  /\ \A l \in 1 .. n : f[l] <=> (t <= l /\ l <= e)

\* The window is the span of the flags around the own cursor.
LEMMA WindowSpan ==
  ASSUME NEW b
  PROVE  Window(b) <=> ( /\ Span(b.on_screen, Len(b.str), b.top, b.bottom)
                         /\ OwnLine(b) \in Nat
                         /\ b.top <= OwnLine(b) /\ OwnLine(b) <= b.bottom )
  BY DEF Window, Span

\* A line is put into the span of visible ones.
LEMMA SpanLinked ==
  ASSUME NEW f, NEW n, NEW t, NEW e, Span(f, n, t, e), NEW i \in 1 .. n,
         NEW on \in BOOLEAN, on <=> (t < i /\ i <= e)
  PROVE  Span(InsertAt(f, i, on), n + 1, Shift(t, i), Shift(e, i))
<1>1. n \in Nat /\ t \in Nat /\ e \in Nat /\ 1 <= t /\ t <= e /\ e <= n
      /\ f \in [1 .. n -> BOOLEAN] /\ \A l \in 1 .. n : f[l] <=> (t <= l /\ l <= e)
  BY DEF Span
<1>2. PICK g : g = InsertAt(f, i, on)
  OBVIOUS
<1>3. f \in Seq(BOOLEAN) /\ Len(f) = n
  BY <1>1, FunIsSeq
<1>4. g \in Seq(BOOLEAN) /\ Len(g) = n + 1
      /\ \A j \in 1 .. n + 1 : g[j] = IF j < i THEN f[j] ELSE IF j = i THEN on ELSE f[j - 1]
  <2>1. f \in Seq(BOOLEAN) /\ i \in 1 .. Len(f) + 1 /\ on \in BOOLEAN
    BY <1>1, <1>3
  <2>2. /\ InsertAt(f, i, on) \in Seq(BOOLEAN)
        /\ Len(InsertAt(f, i, on)) = Len(f) + 1
        /\ \A j \in 1 .. Len(f) + 1 : InsertAt(f, i, on)[j] =
             IF j < i THEN f[j] ELSE IF j = i THEN on ELSE f[j - 1]
    BY <2>1, InsertAtProperties
  <2> QED BY <1>2, <1>3, <2>2
<1>5. g \in [1 .. n + 1 -> BOOLEAN]
  BY <1>4, LenProperties
<1>6. PICK s, d : s = Shift(t, i) /\ d = Shift(e, i)
  OBVIOUS
<1>7. s = (IF t >= i THEN t + 1 ELSE t) /\ d = (IF e >= i THEN e + 1 ELSE e)
  BY <1>6 DEF Shift
<1>8. \A l \in 1 .. n + 1 : g[l] <=> (s <= l /\ l <= d)
  <2> SUFFICES ASSUME NEW l \in 1 .. n + 1 PROVE g[l] <=> (s <= l /\ l <= d)
    OBVIOUS
  <2>1. CASE l < i
    <3>1. l \in 1 .. n /\ (g[l] <=> f[l])
      BY <1>1, <1>4, <2>1
    <3> QED BY <1>1, <1>7, <2>1, <3>1
  <2>2. CASE l = i
    <3>1. g[l] <=> on
      BY <1>1, <1>4, <2>2
    <3> QED BY <1>1, <1>7, <2>2, <3>1
  <2>3. CASE l > i
    <3>1. l - 1 \in 1 .. n /\ (g[l] <=> f[l - 1])
      BY <1>1, <1>4, <2>3
    <3> QED BY <1>1, <1>7, <2>3, <3>1
  <2> QED BY <1>1, <2>1, <2>2, <2>3
<1>9. s \in Nat /\ d \in Nat /\ 1 <= s /\ s <= d /\ d <= n + 1
  BY <1>1, <1>7
<1>10. Span(g, n + 1, s, d)
  BY <1>1, <1>5, <1>8, <1>9 DEF Span
<1> QED BY <1>2, <1>6, <1>10

\* Neither end of the window is the line that goes.
LEMMA SpanUnlinked ==
  ASSUME NEW f, NEW n, NEW t, NEW e, Span(f, n, t, e), NEW l \in 1 .. n, l # t, l # e
  PROVE  Span(RemoveAt(f, l), n - 1, Unshift(t, l), Unshift(e, l))
<1>1. n \in Nat /\ t \in Nat /\ e \in Nat /\ 1 <= t /\ t <= e /\ e <= n
      /\ f \in [1 .. n -> BOOLEAN] /\ \A m \in 1 .. n : f[m] <=> (t <= m /\ m <= e)
  BY DEF Span
<1>2. PICK g : g = RemoveAt(f, l)
  OBVIOUS
<1>3. f \in Seq(BOOLEAN) /\ Len(f) = n
  BY <1>1, FunIsSeq
<1>4. g \in Seq(BOOLEAN) /\ Len(g) = n - 1
      /\ \A j \in 1 .. n - 1 : g[j] = IF j < l THEN f[j] ELSE f[j + 1]
  <2>1. f \in Seq(BOOLEAN) /\ l \in 1 .. Len(f)
    BY <1>1, <1>3
  <2>2. /\ RemoveAt(f, l) \in Seq(BOOLEAN)
        /\ Len(RemoveAt(f, l)) = Len(f) - 1
        /\ \A j \in 1 .. Len(f) - 1 : RemoveAt(f, l)[j] = IF j < l THEN f[j] ELSE f[j + 1]
    BY <2>1, RemoveAtProperties
  <2> QED BY <1>2, <1>3, <2>2
<1>5. g \in [1 .. n - 1 -> BOOLEAN]
  BY <1>4, LenProperties
<1>6. PICK s, d : s = Unshift(t, l) /\ d = Unshift(e, l)
  OBVIOUS
<1>7. s = (IF t > l THEN t - 1 ELSE t) /\ d = (IF e > l THEN e - 1 ELSE e)
  BY <1>6 DEF Unshift
<1>8. \A m \in 1 .. n - 1 : g[m] <=> (s <= m /\ m <= d)
  <2> SUFFICES ASSUME NEW m \in 1 .. n - 1 PROVE g[m] <=> (s <= m /\ m <= d)
    OBVIOUS
  <2>1. CASE m < l
    <3>1. m \in 1 .. n /\ (g[m] <=> f[m])
      BY <1>1, <1>4, <2>1
    <3> QED BY <1>1, <1>7, <2>1, <3>1
  <2>2. CASE m >= l
    <3>1. m + 1 \in 1 .. n /\ (g[m] <=> f[m + 1])
      BY <1>1, <1>4, <2>2
    <3> QED BY <1>1, <1>7, <2>2, <3>1
  <2> QED BY <1>1, <2>1, <2>2
<1>9. s \in Nat /\ d \in Nat /\ 1 <= s /\ s <= d /\ d <= n - 1
  BY <1>1, <1>7
<1>10. Span(g, n - 1, s, d)
  BY <1>1, <1>5, <1>8, <1>9 DEF Span
<1> QED BY <1>2, <1>6, <1>10

-----------------------------------------------------------------------------
(***************************************************************************)
(* A viewed buffer: all of the above, and rows enough to scroll.           *)
(***************************************************************************)
Viewed(b) ==
  /\ DOMAIN b = Fields /\ Own \in DOMAIN b.curs
  /\ Window(b) /\ Inside(b) /\ Marked(b) /\ Rows(b) >= 3

\* c is as viewed as b, with as many rows, and paints if b does.
Views(b, c) == Viewed(c) /\ Rows(c) = Rows(b) /\ c.u = b.u

\* c is b where it concerns the window.
Kept(b, c) ==
  /\ DOMAIN c = Fields /\ Own \in DOMAIN c.curs
  /\ c.top = b.top /\ c.bottom = b.bottom
  /\ c.on_screen = b.on_screen /\ c.where = b.where
  /\ c.u = b.u /\ Len(c.str) = Len(b.str) /\ OwnLine(c) = OwnLine(b)

\* Whatever is kept, the window is.
LEMMA KeptViews ==
  ASSUME NEW b, NEW c, Kept(b, c), Viewed(b) PROVE Views(b, c)
  BY DEF Kept, Viewed, Views, Window, Inside, Marked, Rows

\* Trimming, extending and scrolling keep the flags.
LEMMA FramedViews ==
  ASSUME NEW b, NEW c, Framed(b, c), Viewed(b), Inside(c), Rows(c) >= 3
  PROVE  Viewed(c) /\ c.u = b.u /\ Same(b, c)
  BY DEF Framed, Viewed, Marked, Same, SameLines, OwnLine

\* ui_update changes only the screen.
LEMMA PaintKept ==
  ASSUME NEW b, DOMAIN b = Fields, Own \in DOMAIN b.curs, NEW seen
  PROVE  Kept(b, ui_update(b)) /\ Kept(b, PaintIf(seen, b))
  BY DEF Kept, ui_update, PaintIf, Fields, OwnLine

\* Where the own cursor goes when it moves up or down, by lines alone.
LEMMA UpOrDown ==
  ASSUME NEW b, NEW c, SameLines(b, c), NEW x, NEW dir \in {"UP", "DOWN"}
  PROVE  cursor_move(c, x, dir) = cursor_move(b, x, dir)
<1>1. (CanUp(c, x) <=> CanUp(b, x)) /\ (CanDown(c, x) <=> CanDown(b, x))
  BY DEF SameLines, CanUp, CanDown, HasPrev, HasNext, NumLines
<1>2. \A l : LineLen(c, l) = LineLen(b, l)
  BY DEF SameLines, LineLen
<1> QED BY <1>1, <1>2, MoveUp, MoveDown

\* The scroll after a move leaves the last row again.
LEMMA ScrollAfterWindow ==
  ASSUME NEW b, DOMAIN b = Fields, Window(b), Rows(b) >= 3, NEW from \in Nat,
         OwnLine(b) < Len(b.str), OwnLine(b) <= from => Inside(b)
  PROVE  LET c == ScrollAfter(b, from, OwnLine(b)) IN
         Framed(b, c) /\ Rows(c) = Rows(b) /\ Inside(c)
<1> DEFINE to == OwnLine(b)
           c == ScrollAfter(b, from, to)
<1>1. to \in Nat /\ b.top \in Nat /\ b.bottom \in Nat
  BY DEF Window
<1>2. CASE to < from /\ b.top = to
  <2>1. c = buffer_scroll(b, "UP")
    BY <1>1, <1>2 DEF ScrollAfter
  <2> HIDE DEF c
  <2>2. /\ Framed(b, c)
        /\ IF CanScrollUp(b) THEN c.top = b.top - 1 /\ c.bottom = b.bottom - 1 /\ Inside(c)
                             ELSE c = b
    BY <2>1, ScrollUpWindow
  <2>3. Rows(c) = Rows(b) /\ Inside(c)
    BY <1>1, <1>2, <2>2 DEF Rows
  <2> QED BY <2>2, <2>3 DEF c
<1>3. CASE to > from /\ b.bottom = to
  <2>1. c = buffer_scroll(b, "DOWN")
    BY <1>1, <1>3 DEF ScrollAfter
  <2>2. CanScrollDown(b)
    BY <1>3 DEF Window, Rows, CanScrollDown, HasNext, NumLines
  <2> HIDE DEF c
  <2>3. Framed(b, c) /\ c.top = b.top + 1 /\ c.bottom = b.bottom + 1 /\ Inside(c)
    BY <2>1, <2>2, ScrollDownWindow
  <2>4. Rows(c) = Rows(b)
    BY <1>1, <2>3 DEF Rows
  <2> QED BY <2>3, <2>4 DEF c
<1>4. CASE ~(to < from /\ b.top = to) /\ ~(to > from /\ b.bottom = to)
  <2>1. c = b
    BY <1>4 DEF ScrollAfter
  <2>2. Inside(b)
    BY <1>1, <1>4 DEF Inside, Window
  <2> QED BY <2>1, <2>2, FramedRefl
<1> QED BY <1>2, <1>3, <1>4

\* Then the two lines get their flags.
LEMMA FlagMoveMarked ==
  ASSUME NEW b, DOMAIN b = Fields, NEW from, FlagsAt(b.where, Len(b.str), from),
         OwnLine(b) \in {from - 1, from, from + 1}, 1 <= OwnLine(b), OwnLine(b) <= Len(b.str)
  PROVE  LET c == FlagMove(b, from, OwnLine(b)) IN
         /\ Marked(c) /\ Same(b, c) /\ c.u = b.u
         /\ c.top = b.top /\ c.bottom = b.bottom /\ c.on_screen = b.on_screen
<1> DEFINE to == OwnLine(b)
           c == FlagMove(b, from, to)
<1>1. from \in Nat /\ Len(b.str) \in Nat
  BY DEF FlagsAt
<1>2. Same(b, c)
  BY FlagMoveSame
<1>3. c.u = b.u /\ c.top = b.top /\ c.bottom = b.bottom /\ c.on_screen = b.on_screen
  BY DEF FlagMove, Fields
<1>4. FlagsAt(c.where, Len(b.str), to)
  <2>4. PICK w, n : w = b.where /\ n = Len(b.str)
    OBVIOUS
  <2>5. /\ from > 1 =>
             FlagsAt([w EXCEPT ![(from - 1) + 1] = "BELLOW", ![from - 1] = "SAME"], n, from - 1)
        /\ from < n =>
             FlagsAt([w EXCEPT ![(from + 1) - 1] = "ABOVE", ![from + 1] = "SAME"], n, from + 1)
    <3>1. FlagsAt(w, n, from)
      BY <2>4
    <3> QED BY <3>1, FlagsMoved
  <2>1. CASE to = from - 1
    <3>1. c.where = [b.where EXCEPT ![(from - 1) + 1] = "BELLOW", ![from - 1] = "SAME"]
      BY <1>1, <2>1 DEF FlagMove, Fields
    <3>2. from > 1
      BY <1>1, <2>1
    <3> QED BY <2>1, <2>4, <2>5, <3>1, <3>2
  <2>2. CASE to = from + 1
    <3>1. c.where = [b.where EXCEPT ![(from + 1) - 1] = "ABOVE", ![from + 1] = "SAME"]
      BY <1>1, <2>2 DEF FlagMove, Fields
    <3>2. from < Len(b.str)
      BY <1>1, <2>2
    <3> QED BY <2>2, <2>4, <2>5, <3>1, <3>2
  <2>3. CASE to = from
    <3>1. c = b
      BY <1>1, <2>3 DEF FlagMove
    <3> QED BY <2>3, <3>1
  <2> QED BY <2>1, <2>2, <2>3
<1>5. Marked(c)
  BY <1>2, <1>4 DEF Marked, Same, SameLines, OwnLine
<1> QED BY <1>2, <1>3, <1>5

\* The own cursor moves, by at most one line: the window goes with it, and is
\* painted.
LEMMA MoveOwnWindow ==
  ASSUME NEW b, Viewed(b), NEW dir, dir \in {"UP", "DOWN"} \/ b.curs[Own].pos \in Int,
         NEW m, m = cursor_move(b, b.curs[Own], dir),
         m.line \in {OwnLine(b) - 1, OwnLine(b), OwnLine(b) + 1},
         1 <= m.line, m.line < Len(b.str)
  PROVE  LET c == MoveOwn(b, dir) IN
         /\ Views(b, c) /\ SameLines(b, c) /\ c.curs = [b.curs EXCEPT ![Own] = m]
         /\ OwnLine(c) = m.line
         /\ \E x : DOMAIN x = Fields /\ c = ui_update(x)
<1> DEFINE from == OwnLine(b)
           c == MoveOwn(b, dir)
<1>1. DOMAIN b = Fields /\ Own \in DOMAIN b.curs /\ Window(b) /\ Inside(b)
      /\ FlagsAt(b.where, Len(b.str), from) /\ Rows(b) >= 3 /\ from \in Nat
      /\ Len(b.str) \in Nat /\ from < Len(b.str)
  BY DEF Viewed, Marked, Window, Inside
<1>2. PICK x : x = ScrollBefore(b)
  OBVIOUS
<1>3. Framed(b, x) /\ Rows(x) = Rows(b) /\ Inside(x) /\ Below(x) /\ Same(b, x)
  BY <1>1, <1>2, OffEdgesWindow DEF Framed
<1>4. cursor_move(x, x.curs[Own], dir) = m /\ OwnLine(x) = from
  <2>1. SameLines(b, x) /\ x.curs = b.curs
    BY <1>3 DEF Same
  <2>2. cursor_move(x, b.curs[Own], dir) = cursor_move(b, b.curs[Own], dir)
    BY <2>1, UpOrDown, CursorMoveSame
  <2> QED BY <2>1, <2>2 DEF OwnLine
<1>5. PICK y : y = [x EXCEPT !.curs[Own] = m]
  OBVIOUS
<1>6. /\ DOMAIN y = Fields /\ SameLines(b, y) /\ y.curs = [b.curs EXCEPT ![Own] = m]
      /\ OwnLine(y) = m.line /\ y.str = x.str /\ x.str = b.str
      /\ y.top = x.top /\ y.bottom = x.bottom /\ y.on_screen = x.on_screen
      /\ y.where = b.where /\ y.u = b.u
  <2>1. SameLines(b, x) /\ x.curs = b.curs /\ x.where = b.where /\ x.u = b.u /\ DOMAIN x = Fields
    BY <1>3 DEF Same, SameLines, Framed
  <2> QED BY <1>1, <1>5, <2>1 DEF SameLines, Fields, OwnLine
<1>7. Window(y) /\ Rows(y) >= 3 /\ Rows(y) = Rows(b) /\ OwnLine(y) < Len(y.str)
      /\ (OwnLine(y) <= from => Inside(y))
  <2>1. Window(x) /\ OwnLine(x) = from /\ m.line \in Nat
    BY <1>1, <1>3, <1>4 DEF Framed
  <2>2. x.top <= m.line /\ m.line <= x.bottom /\ (m.line <= from => m.line < x.bottom)
    BY <1>1, <1>3, <2>1 DEF Window, Inside, Below
  <2> QED BY <1>1, <1>3, <1>6, <2>1, <2>2 DEF Window, Rows, Inside
<1>8. PICK a : a = ScrollAfter(y, from, m.line)
  OBVIOUS
<1>9. Framed(y, a) /\ Rows(a) = Rows(b) /\ Inside(a)
  BY <1>1, <1>6, <1>7, <1>8, ScrollAfterWindow
<1>10. /\ DOMAIN a = Fields /\ Same(y, a) /\ Window(a) /\ OwnLine(a) = m.line
       /\ a.where = b.where /\ a.u = b.u /\ Len(a.str) = Len(b.str)
  BY <1>6, <1>9 DEF Framed, Same, SameLines, OwnLine
<1>11. PICK d : d = FlagMove(a, from, m.line)
  OBVIOUS
<1>12. /\ Marked(d) /\ Same(a, d) /\ d.u = b.u
       /\ d.top = a.top /\ d.bottom = a.bottom /\ d.on_screen = a.on_screen
  BY <1>1, <1>10, <1>11, FlagMoveMarked
<1>13. c = ui_update(d)
  <2>1. b.on_screen[from]
    BY <1>1 DEF Window
  <2> QED BY <1>2, <1>4, <1>5, <1>8, <1>11, <2>1 DEF MoveOwn, StepOwn, PlaceOwn, PaintIf
<1>14. /\ DOMAIN d = Fields /\ Own \in DOMAIN d.curs /\ d.curs = [b.curs EXCEPT ![Own] = m]
       /\ SameLines(b, d) /\ OwnLine(d) = m.line
  BY <1>1, <1>6, <1>10, <1>12 DEF Same, SameLines, OwnLine
<1>15. Viewed(d) /\ Rows(d) = Rows(b)
  BY <1>1, <1>9, <1>10, <1>12, <1>14 DEF Viewed, Window, Inside, Rows, Same, SameLines, OwnLine
<1>16. Views(d, ui_update(d)) /\ Same(d, ui_update(d))
  BY <1>14, <1>15, PaintKept, KeptViews, UiSame
<1>17. Views(b, c) /\ SameLines(b, c) /\ c.curs = d.curs
  BY <1>12, <1>13, <1>14, <1>15, <1>16 DEF Views, Same, SameLines
<1> QED BY <1>13, <1>14, <1>17 DEF OwnLine

-----------------------------------------------------------------------------
\* A new line is in the window if both its neighbours are, and the window then
\* has a row more.
LEMMA LinkedWindow ==
  ASSUME NEW b, Viewed(b), b.str \in Seq(Seq(Chars)), NEW i \in 1 .. Len(b.str)
  PROVE  LET c == line_new(b, i) IN
         /\ Viewed(c) /\ c.u = b.u /\ DOMAIN c.curs = DOMAIN b.curs
         /\ OwnLine(c) = Shift(OwnLine(b), i) /\ Len(c.str) = Len(b.str) + 1
         /\ Rows(c) = IF c.on_screen[i] THEN Rows(b) + 1 ELSE Rows(b)
<1> DEFINE c == line_new(b, i)
           N == Len(b.str)
<1>0. /\ b.top \in Nat /\ b.bottom \in Nat /\ N \in Nat /\ OwnLine(b) \in Nat /\ i \in Nat
      /\ b.top <= OwnLine(b) /\ OwnLine(b) < b.bottom /\ b.bottom <= N /\ 1 <= b.top
      /\ 1 <= i /\ i <= N
  BY DEF Viewed, Inside, Window
<1>1. /\ DOMAIN b = Fields /\ Own \in DOMAIN b.curs /\ Rows(b) >= 3
      /\ Span(b.on_screen, N, b.top, b.bottom)
      /\ b.on_screen \in [1 .. N -> BOOLEAN]
      /\ \A l \in 1 .. N : b.on_screen[l] <=> (b.top <= l /\ l <= b.bottom)
  BY WindowSpan DEF Viewed, Window
<1>2. PICK on : on = (i > 1 /\ i <= N /\ b.on_screen[i - 1] /\ b.on_screen[i])
  OBVIOUS
<1>13. on \in BOOLEAN /\ (on <=> (i > 1 /\ b.on_screen[i - 1] /\ b.on_screen[i]))
  BY <1>0, <1>2
<1>3. /\ DOMAIN c = Fields /\ c.u = b.u
      /\ c.str = InsertAt(b.str, i, << >>)
      /\ c.on_screen = InsertAt(b.on_screen, i, on)
      /\ c.where = InsertAt(b.where, i, NewWhere(b, i))
      /\ c.top = Shift(b.top, i) /\ c.bottom = Shift(b.bottom, i)
      /\ c.curs = [k \in DOMAIN b.curs |->
                    MovedTo(b.curs[k], Shift(b.curs[k].line, i), b.curs[k].pos)]
  BY <1>1, <1>2 DEF line_new, Fields, NumLines
<1> HIDE DEF c
<1>4. OwnLine(c) = Shift(OwnLine(b), i) /\ DOMAIN c.curs = DOMAIN b.curs
  BY <1>1, <1>3 DEF OwnLine, MovedTo
<1>5. Len(c.str) = N + 1
  <2>1. b.str \in Seq(Seq(Chars)) /\ i \in 1 .. Len(b.str) + 1 /\ << >> \in Seq(Chars)
    BY <1>0
  <2> DEFINE S == Seq(Chars)
             t == b.str
             e == << >>
  <2>2. t \in Seq(S) /\ i \in 1 .. Len(t) + 1 /\ e \in S
    BY <2>1
  <2> HIDE DEF S, t, e
  <2>3. Len(InsertAt(t, i, e)) = Len(t) + 1
    BY <2>2, InsertAtProperties
  <2> QED BY <1>3, <2>3 DEF t, e
<1>6. Marked(c)
  BY <1>3, <1>4, <1>5, FlagsLinked DEF Viewed, Marked
<1>7. on \in BOOLEAN /\ (on <=> (b.top < i /\ i <= b.bottom))
  <2>1. CASE i = 1
    BY <1>0, <1>13, <2>1
  <2>2. CASE i > 1
    <3>1. i - 1 \in 1 .. N /\ i \in 1 .. N
      BY <1>0, <2>2
    <3>2. (b.on_screen[i - 1] <=> (b.top <= i - 1 /\ i - 1 <= b.bottom))
          /\ (b.on_screen[i] <=> (b.top <= i /\ i <= b.bottom))
      BY <1>1, <3>1
    <3>3. on <=> ((b.top <= i - 1 /\ i - 1 <= b.bottom) /\ (b.top <= i /\ i <= b.bottom))
      BY <1>13, <2>2, <3>2
    <3>4. ((b.top <= i - 1 /\ i - 1 <= b.bottom) /\ (b.top <= i /\ i <= b.bottom))
            <=> (b.top < i /\ i <= b.bottom)
      BY <1>0
    <3> QED BY <1>13, <3>3, <3>4
  <2> QED BY <1>0, <2>1, <2>2
<1>8. Span(c.on_screen, N + 1, c.top, c.bottom)
  BY <1>1, <1>3, <1>7, <1>13, SpanLinked
<1>9. c.top = (IF b.top >= i THEN b.top + 1 ELSE b.top)
      /\ c.bottom = (IF b.bottom >= i THEN b.bottom + 1 ELSE b.bottom)
      /\ OwnLine(c) = (IF OwnLine(b) >= i THEN OwnLine(b) + 1 ELSE OwnLine(b))
  BY <1>3, <1>4 DEF Shift
<1>10. Window(c) /\ Inside(c)
  <2>1. OwnLine(c) \in Nat /\ c.top <= OwnLine(c) /\ OwnLine(c) < c.bottom
        /\ OwnLine(c) <= c.bottom
    BY SMTT(60), <1>0, <1>9
  <2> QED BY <1>5, <1>8, <2>1, WindowSpan DEF Inside
<1>11. c.on_screen[i] <=> (c.top <= i /\ i <= c.bottom)
  BY <1>0, <1>8 DEF Span
<1>12. Rows(c) = IF c.on_screen[i] THEN Rows(b) + 1 ELSE Rows(b)
  <2>1. CASE b.top < i /\ i <= b.bottom
    <3>1. c.top = b.top /\ c.bottom = b.bottom + 1 /\ c.on_screen[i]
      BY <1>0, <1>9, <1>11, <2>1
    <3> QED BY <1>0, <3>1 DEF Rows
  <2>2. CASE ~(b.top < i /\ i <= b.bottom)
    <3>1. CASE b.top >= i
      <4>1. c.top = b.top + 1 /\ c.bottom = b.bottom + 1 /\ ~(c.top <= i)
        BY <1>0, <1>9, <3>1
      <4> QED BY <1>0, <1>11, <4>1 DEF Rows
    <3>2. CASE b.bottom < i
      <4>1. c.top = b.top /\ c.bottom = b.bottom /\ ~(i <= c.bottom)
        BY <1>0, <1>9, <3>2
      <4> QED BY <1>0, <1>11, <4>1 DEF Rows
    <3> QED BY <1>0, <2>2, <3>1, <3>2
  <2> QED BY <2>1, <2>2
<1>14. Rows(c) >= 3
  BY <1>0, <1>1, <1>12 DEF Rows
<1> QED BY <1>1, <1>3, <1>4, <1>5, <1>6, <1>10, <1>12, <1>14 DEF Viewed, c

\* A line that goes, and is neither an end of the window nor the own cursor's,
\* takes a row with it if it was in the window.
LEMMA UnlinkedWindow ==
  ASSUME NEW b, DOMAIN b = Fields, Own \in DOMAIN b.curs, Window(b), Inside(b), Marked(b),
         b.str \in Seq(Seq(Chars)), NEW l \in 1 .. Len(b.str),
         l # OwnLine(b), l # b.top, l # b.bottom
  PROVE  LET c == line_free(b, l) IN
         /\ DOMAIN c = Fields /\ Own \in DOMAIN c.curs
         /\ Window(c) /\ Inside(c) /\ Marked(c) /\ c.u = b.u
         /\ OwnLine(c) = Unshift(OwnLine(b), l)
         /\ c.top = Unshift(b.top, l) /\ c.bottom = Unshift(b.bottom, l)
         /\ Rows(c) = IF b.on_screen[l] THEN Rows(b) - 1 ELSE Rows(b)
<1> DEFINE c == line_free(b, l)
           N == Len(b.str)
<1>1. /\ Span(b.on_screen, N, b.top, b.bottom) /\ OwnLine(b) \in Nat
      /\ b.top <= OwnLine(b) /\ OwnLine(b) < b.bottom
      /\ b.top \in Nat /\ b.bottom \in Nat /\ N \in Nat /\ b.bottom <= N /\ 1 <= b.top
      /\ \A m \in 1 .. N : b.on_screen[m] <=> (b.top <= m /\ m <= b.bottom)
  BY WindowSpan DEF Inside, Window
<1>3. /\ DOMAIN c = Fields /\ c.u = b.u
      /\ c.str = RemoveAt(b.str, l)
      /\ c.on_screen = RemoveAt(b.on_screen, l)
      /\ c.where = RemoveAt(b.where, l)
      /\ c.top = Unshift(b.top, l) /\ c.bottom = Unshift(b.bottom, l)
      /\ c.curs = [k \in DOMAIN b.curs |->
                    MovedTo(b.curs[k], Unshift(b.curs[k].line, l), b.curs[k].pos)]
  BY DEF line_free, Fields
<1> HIDE DEF c
<1>4. OwnLine(c) = Unshift(OwnLine(b), l) /\ Own \in DOMAIN c.curs
  BY <1>3 DEF OwnLine, MovedTo
<1>5. Len(c.str) = N - 1
  <2> DEFINE S == Seq(Chars)
             t == b.str
  <2>2. t \in Seq(S) /\ l \in 1 .. Len(t)
    OBVIOUS
  <2> HIDE DEF S, t
  <2>3. Len(RemoveAt(t, l)) = Len(t) - 1
    BY <2>2, RemoveAtProperties
  <2> QED BY <1>3, <2>3 DEF t
<1>6. Marked(c)
  <2>1. PICK w, n, o : w = b.where /\ n = N /\ o = OwnLine(b)
    OBVIOUS
  <2>2. FlagsAt(w, n, o) /\ l \in 1 .. n /\ l # o
    BY <2>1 DEF Marked
  <2>3. FlagsAt(RemoveAt(w, l), n - 1, Unshift(o, l))
    BY <2>2, FlagsUnlinked
  <2> QED BY <1>3, <1>4, <1>5, <2>1, <2>3 DEF Marked
<1>8. Span(c.on_screen, N - 1, c.top, c.bottom)
  BY <1>1, <1>3, SpanUnlinked
<1>9. c.top = (IF b.top > l THEN b.top - 1 ELSE b.top)
      /\ c.bottom = (IF b.bottom > l THEN b.bottom - 1 ELSE b.bottom)
      /\ OwnLine(c) = (IF OwnLine(b) > l THEN OwnLine(b) - 1 ELSE OwnLine(b))
  BY <1>3, <1>4 DEF Unshift
<1>10. Window(c) /\ Inside(c)
  <2>1. OwnLine(c) \in Nat /\ c.top <= OwnLine(c) /\ OwnLine(c) < c.bottom
        /\ OwnLine(c) <= c.bottom
    BY SMTT(60), <1>1, <1>9
  <2> QED BY <1>5, <1>8, <2>1, WindowSpan DEF Inside
<1>12. Rows(c) = IF b.on_screen[l] THEN Rows(b) - 1 ELSE Rows(b)
  <2>1. CASE b.top <= l /\ l <= b.bottom
    <3>1. c.top = b.top /\ c.bottom = b.bottom - 1 /\ b.on_screen[l]
      BY <1>1, <1>9, <2>1
    <3> QED BY <1>1, <3>1 DEF Rows
  <2>2. CASE ~(b.top <= l /\ l <= b.bottom)
    <3>1. ~b.on_screen[l] /\ c.bottom - c.top = b.bottom - b.top
      BY SMTT(60), <1>1, <1>9, <2>2
    <3> QED BY <1>1, <1>9, <3>1 DEF Rows
  <2> QED BY <2>1, <2>2
<1> QED BY <1>3, <1>4, <1>6, <1>10, <1>12 DEF c

-----------------------------------------------------------------------------
(***************************************************************************)
(* Moving cursors.                                                         *)
(***************************************************************************)

\* c is what ui_update made of some buffer.
Updated(c) == \E x : DOMAIN x = Fields /\ c = ui_update(x)

\* It shows what it is, if it paints.
LEMMA UpdatedShows ==
  ASSUME NEW c, Updated(c), c.u PROVE c.screen = View(c)
<1>1. PICK x : DOMAIN x = Fields /\ c = ui_update(x)
  BY DEF Updated
<1>2. CASE x.u
  <2>1. c = [x EXCEPT !.screen = View(x)]
    BY <1>1, <1>2 DEF ui_update
  <2>2. /\ c.screen = View(x)
        /\ c.str = x.str /\ c.top = x.top /\ c.curs = x.curs /\ c.on_screen = x.on_screen
    BY <1>1, <2>1 DEF Fields
  <2>3. View(c) = View(x)
    BY <2>2 DEF View, NumLines, OwnLine, OnScreen
  <2> QED BY <2>2, <2>3
<1>3. CASE ~x.u
  BY <1>1, <1>3 DEF ui_update
<1> QED BY <1>2, <1>3

\* A cursor moves by at most one line.
LEMMA OneLine ==
  ASSUME NEW b, NEW c, c.line \in Nat, c.pos \in Int, LineLen(b, c.line) \in Int, NEW dir
  PROVE  cursor_move(b, c, dir).line \in {c.line - 1, c.line, c.line + 1}
<1>1. \A l, p : MovedTo(c, l, p).line = l
  BY DEF MovedTo
<1>2. CASE dir = "UP"
  BY <1>1, <1>2, MoveUp
<1>3. CASE dir = "DOWN"
  BY <1>1, <1>3, MoveDown
<1>4. CASE dir = "LEFT"
  BY <1>1, <1>4, MoveLeft
<1>5. CASE dir = "RIGHT"
  BY <1>1, <1>5, MoveRight
<1>6. CASE dir \notin Dirs
  BY <1>6 DEF cursor_move, Dirs
<1> QED BY <1>2, <1>3, <1>4, <1>5, <1>6 DEF Dirs

\* Up, the own cursor can always go.
LEMMA MoveUpWindow ==
  ASSUME NEW b, Viewed(b)
  PROVE  LET c == MoveOwn(b, "UP") IN
         /\ Views(b, c) /\ SameLines(b, c) /\ Updated(c)
         /\ c.curs = [b.curs EXCEPT ![Own] = cursor_move(b, b.curs[Own], "UP")]
         /\ OwnLine(c) = IF CanUp(b, b.curs[Own]) THEN OwnLine(b) - 1 ELSE OwnLine(b)
<1>1. PICK m : m = cursor_move(b, b.curs[Own], "UP")
  OBVIOUS
<1>2. m.line = IF CanUp(b, b.curs[Own]) THEN OwnLine(b) - 1 ELSE OwnLine(b)
  BY <1>1, MoveUp DEF MovedTo, OwnLine
<1>3. OwnLine(b) \in Nat /\ 1 <= OwnLine(b) /\ OwnLine(b) < Len(b.str) /\ Len(b.str) \in Nat
  BY DEF Viewed, Window, Inside
<1>4. CanUp(b, b.curs[Own]) => OwnLine(b) > 1
  BY DEF CanUp, HasPrev, OwnLine
<1>5. m.line \in {OwnLine(b) - 1, OwnLine(b), OwnLine(b) + 1} /\ 1 <= m.line
      /\ m.line < Len(b.str)
  BY <1>2, <1>3, <1>4
<1>6. PICK c : c = MoveOwn(b, "UP")
  OBVIOUS
<1>7. /\ Views(b, c) /\ SameLines(b, c) /\ c.curs = [b.curs EXCEPT ![Own] = m]
      /\ OwnLine(c) = m.line
      /\ \E x : DOMAIN x = Fields /\ c = ui_update(x)
  BY <1>1, <1>5, <1>6, MoveOwnWindow
<1> QED BY <1>1, <1>2, <1>6, <1>7 DEF Updated

\* Down, within the text.
LEMMA MoveDownWindow ==
  ASSUME NEW b, Viewed(b), b.last \in Nat, OwnLine(b) <= b.last, b.last < Len(b.str)
  PROVE  LET c == MoveOwn(b, "DOWN") IN
         /\ Views(b, c) /\ SameLines(b, c) /\ Updated(c)
         /\ c.curs = [b.curs EXCEPT ![Own] = cursor_move(b, b.curs[Own], "DOWN")]
         /\ OwnLine(c) = IF OwnLine(b) < b.last THEN OwnLine(b) + 1 ELSE OwnLine(b)
<1>1. PICK m : m = cursor_move(b, b.curs[Own], "DOWN")
  OBVIOUS
<1>2. m.line = IF CanDown(b, b.curs[Own]) THEN OwnLine(b) + 1 ELSE OwnLine(b)
  BY <1>1, MoveDown DEF MovedTo, OwnLine
<1>3. OwnLine(b) \in Nat /\ 1 <= OwnLine(b) /\ Len(b.str) \in Nat
  BY DEF Viewed, Window
<1>4. CanDown(b, b.curs[Own]) <=> OwnLine(b) < b.last
  BY <1>3 DEF CanDown, HasNext, OwnLine, NumLines
<1>5. m.line \in {OwnLine(b) - 1, OwnLine(b), OwnLine(b) + 1} /\ 1 <= m.line
      /\ m.line < Len(b.str)
  BY <1>2, <1>3, <1>4
<1>6. PICK c : c = MoveOwn(b, "DOWN")
  OBVIOUS
<1>7. /\ Views(b, c) /\ SameLines(b, c) /\ c.curs = [b.curs EXCEPT ![Own] = m]
      /\ OwnLine(c) = m.line
      /\ \E x : DOMAIN x = Fields /\ c = ui_update(x)
  BY <1>1, <1>5, <1>6, MoveOwnWindow
<1> QED BY <1>1, <1>2, <1>4, <1>6, <1>7 DEF Updated

\* Anywhere, in a sound document.
LEMMA MoveSoundWindow ==
  ASSUME NEW b, Viewed(b), GoodLines(b), GoodCursor(b, b.curs[Own]), NEW dir
  PROVE  LET c == MoveOwn(b, dir) IN
         Views(b, c) /\ SameLines(b, c) /\ Updated(c)
         /\ c.curs = [b.curs EXCEPT ![Own] = cursor_move(b, b.curs[Own], dir)]
<1>1. PICK m : m = cursor_move(b, b.curs[Own], dir)
  OBVIOUS
<1>2. OwnLine(b) \in Nat /\ b.curs[Own].pos \in Int /\ OwnLine(b) \in 1 .. b.last
  BY DEF GoodCursor, Cursor, Fits, OwnLine
<1>3. LineLen(b, OwnLine(b)) \in Int /\ b.last \in Nat /\ b.last < Len(b.str)
      /\ Len(b.str) \in Nat
  BY <1>2, LengthTypes DEF LineLen
<1>4. m.line \in {OwnLine(b) - 1, OwnLine(b), OwnLine(b) + 1}
  BY <1>1, <1>2, <1>3, OneLine DEF OwnLine
<1>5. GoodCursor(b, m)
  BY <1>1, CursorMoveFits
<1>6. 1 <= m.line /\ m.line < Len(b.str)
  BY <1>3, <1>5 DEF GoodCursor, Fits
<1>7. PICK c : c = MoveOwn(b, dir)
  OBVIOUS
<1>8. /\ Views(b, c) /\ SameLines(b, c) /\ c.curs = [b.curs EXCEPT ![Own] = m]
      /\ OwnLine(c) = m.line
      /\ \E x : DOMAIN x = Fields /\ c = ui_update(x)
  BY <1>1, <1>2, <1>4, <1>6, <1>7, MoveOwnWindow
<1> QED BY <1>1, <1>7, <1>8 DEF Updated

\* Moving peers moves the window nowhere.
LEMMA MovePeersWindow ==
  ASSUME NEW b, DOMAIN b = Fields, Own \in DOMAIN b.curs, NEW S, Own \notin S, NEW dir
  PROVE  Kept(b, MovePeers(b, S, dir))
<1>1. PICK f : f = [k \in DOMAIN b.curs |->
                      IF k \in S THEN cursor_move(b, b.curs[k], dir) ELSE b.curs[k]]
  OBVIOUS
<1>2. PICK x : x = [b EXCEPT !.curs = f]
  OBVIOUS
<1>3. DOMAIN x = Fields /\ Own \in DOMAIN x.curs /\ Kept(b, x)
  BY <1>1, <1>2 DEF Kept, Fields, OwnLine
<1>4. MovePeers(b, S, dir) \in {x, ui_update(x)}
  BY <1>1, <1>2 DEF MovePeers, PlacePeers, PaintIf
<1>5. Kept(x, ui_update(x))
  BY <1>3, PaintKept
<1> QED BY <1>3, <1>4, <1>5 DEF Kept

\* Nor does moving cursors along their lines.
LEMMA AddPosWindow ==
  ASSUME NEW b, DOMAIN b = Fields, Own \in DOMAIN b.curs, NEW S, NEW d
  PROVE  Kept(b, AddPos(b, S, d))
  BY DEF Kept, AddPos, Advance, MovedTo, Fields, OwnLine

-----------------------------------------------------------------------------
(***************************************************************************)
(* Breaking a line.                                                        *)
(***************************************************************************)
LEMMA ViewsTrans ==
  ASSUME NEW a, NEW b, NEW c, Views(a, b), Views(b, c) PROVE Views(a, c)
  BY DEF Views

\* The last line of the text may become another one.
LEMMA EndsKept ==
  ASSUME NEW b, DOMAIN b = Fields, Own \in DOMAIN b.curs, NEW n, NEW t, Len(t) = Len(b.str)
  PROVE  /\ Kept(b, [b EXCEPT !.first = n]) /\ Kept(b, [b EXCEPT !.last = n])
         /\ Kept(b, [b EXCEPT !.num_lines = n]) /\ Kept(b, [b EXCEPT !.str = t])
         /\ Kept(b, b)
  BY DEF Kept, Fields, OwnLine

\* A line linked above that of a cursor, and the flags of both.
LEMMA LinkAboveWindow ==
  ASSUME NEW b, Viewed(b), b.str \in Seq(Seq(Chars)), NEW l \in 1 .. Len(b.str)
  PROVE  LET c == LinkAbove(b, l) IN
         /\ Viewed(c) /\ c.u = b.u /\ c.server_mode = b.server_mode
         /\ OwnLine(c) = Shift(OwnLine(b), l)
         /\ Rows(c) = IF c.on_screen[l] THEN Rows(b) + 1 ELSE Rows(b)
<1>1. PICK x, y : x = line_new(b, l) /\ y = [x EXCEPT !.first = l]
  OBVIOUS
<1>2. /\ Viewed(x) /\ x.u = b.u /\ x.server_mode = b.server_mode
      /\ OwnLine(x) = Shift(OwnLine(b), l)
      /\ Rows(x) = IF x.on_screen[l] THEN Rows(b) + 1 ELSE Rows(b)
  BY <1>1, LinkedWindow, LineNewExact DEF Viewed
<1>3. Kept(x, y) /\ y.server_mode = x.server_mode
  BY <1>1, <1>2, EndsKept DEF Viewed, Fields
<1>4. Views(x, y) /\ OwnLine(y) = OwnLine(x) /\ y.on_screen = x.on_screen
  BY <1>2, <1>3, KeptViews DEF Kept
<1>5. LinkAbove(b, l) \in {x, y}
  BY <1>1 DEF LinkAbove
<1> QED BY <1>2, <1>3, <1>4, <1>5 DEF Views

\* A line that comes makes another one leave: the rows stay as many.
LEMMA TrimmedBack ==
  ASSUME NEW b, NEW n, n >= 3, n \in Nat, NEW x, Viewed(x), NEW l,
         Rows(x) = IF x.on_screen[l] THEN n + 1 ELSE n
  PROVE  LET c == buffer_trim(x, l) IN
         Viewed(c) /\ c.u = x.u /\ Rows(c) = n /\ Same(x, c)
<1>1. DOMAIN x = Fields /\ Window(x) /\ Inside(x) /\ (x.on_screen[l] => Rows(x) >= 4)
  BY DEF Viewed
<1>2. PICK c : c = buffer_trim(x, l)
  OBVIOUS
<1>3. /\ Framed(x, c) /\ Inside(c)
      /\ Rows(c) = IF x.on_screen[l] THEN Rows(x) - 1 ELSE Rows(x)
  BY <1>1, <1>2, TrimWindow
<1>4. Rows(c) = n
  BY <1>3
<1> QED BY <1>2, <1>3, <1>4, FramedViews

\* The new line above that of cursor k.
LEMMA InsertLineAboveWindow ==
  ASSUME NEW b, Viewed(b), b.str \in Seq(Seq(Chars)), NEW k,
         b.curs[k].line \in 1 .. Len(b.str)
  PROVE  LET c == InsertLineAbove(b, k) IN
         Views(b, c) /\ (k = Own /\ b.server_mode = FALSE => Updated(c))
<1> DEFINE l == b.curs[k].line
<1>1. PICK x, y, z, w : /\ x = LinkAbove(b, l) /\ y = buffer_trim(x, l)
                        /\ z = OwnScrollsUp(y, k) /\ w = StayAtStart(z)
  OBVIOUS
<1>2. /\ Viewed(x) /\ x.u = b.u /\ x.server_mode = b.server_mode
      /\ OwnLine(x) = Shift(OwnLine(b), l)
      /\ Rows(x) = IF x.on_screen[l] THEN Rows(b) + 1 ELSE Rows(b)
  BY <1>1, LinkAboveWindow
<1>3. Rows(b) \in Nat /\ Rows(b) >= 3
  BY SMTT(60) DEF Viewed, Rows, Window
<1>4. Viewed(y) /\ y.u = b.u /\ Rows(y) = Rows(b) /\ Same(x, y)
  BY <1>1, <1>2, <1>3, TrimmedBack
<1>5. OwnLine(y) = OwnLine(x) /\ y.server_mode = b.server_mode
  BY <1>2, <1>4 DEF Same, SameLines, OwnLine
<1>6. Views(b, z) /\ z.server_mode = b.server_mode
      /\ (k = Own => OwnLine(z) = l + 1 /\ z.top <= l)
  <2>1. CASE k = Own
    <3>1. z = buffer_scroll(y, "UP") /\ DOMAIN y = Fields /\ Window(y)
      BY <1>1, <1>4, <2>1 DEF OwnScrollsUp, Viewed
    <3>2. /\ Framed(y, z)
          /\ IF CanScrollUp(y) THEN z.top = y.top - 1 /\ z.bottom = y.bottom - 1 /\ Inside(z)
                               ELSE z = y
      BY <3>1, ScrollUpWindow
    <3>3. y.top \in Nat /\ y.bottom \in Nat /\ Inside(y) /\ Rows(y) >= 3
      BY <1>4 DEF Viewed, Window
    <3>4. Rows(z) = Rows(y) /\ Inside(z)
      <4>1. CASE CanScrollUp(y)
        <5>1. z.top = y.top - 1 /\ z.bottom = y.bottom - 1 /\ Inside(z)
          BY <3>2, <4>1
        <5>2. \A t, e \in Nat : (e - 1) - (t - 1) + 1 = e - t + 1
          OBVIOUS
        <5>3. z.bottom - z.top + 1 = (y.bottom - 1) - (y.top - 1) + 1
          BY <5>1
        <5>4. z.bottom - z.top + 1 = y.bottom - y.top + 1
          BY <3>3, <5>2, <5>3
        <5> QED BY <5>1, <5>4 DEF Rows
      <4>2. CASE ~CanScrollUp(y)
        BY <3>2, <3>3, <4>2
      <4> QED BY <4>1, <4>2
    <3>5. Viewed(z) /\ z.u = y.u /\ Same(y, z)
      BY <1>4, <3>2, <3>3, <3>4, FramedViews
    <3>6. OwnLine(z) = OwnLine(y) /\ z.server_mode = y.server_mode
      BY <3>5 DEF Same, SameLines, OwnLine
    <3>7. OwnLine(y) = l + 1 /\ l \in Nat /\ l >= 1
      BY <1>2, <1>5, <2>1 DEF OwnLine, Shift
    <3>8. z.top <= l
      <4>1. y.top <= OwnLine(y)
        BY <3>1 DEF Window
      <4>2. CASE y.top = l + 1
        <5>1. CanScrollUp(y)
          BY SMTT(60), <3>3, <3>7, <4>2 DEF CanScrollUp, HasPrev, Rows
        <5> QED BY <3>2, <3>3, <3>7, <4>2, <5>1
      <4>3. CASE y.top # l + 1
        <5>1. \A t, n \in Nat : t <= n + 1 /\ t # n + 1 => t <= n
          OBVIOUS
        <5>2. y.top <= l + 1 /\ y.top # l + 1 /\ y.top \in Nat /\ l \in Nat
          BY <3>3, <3>7, <4>1, <4>3
        <5>3. y.top <= l
          BY <5>1, <5>2
        <5> QED BY <3>2, <3>3, <3>7, <5>3
      <4> QED BY <4>2, <4>3
    <3> QED BY <1>4, <1>5, <3>4, <3>5, <3>6, <3>7, <3>8 DEF Views
  <2>2. CASE k # Own
    <3>1. z = y
      BY <1>1, <2>2 DEF OwnScrollsUp
    <3> QED BY <1>4, <1>5, <2>2, <3>1 DEF Views
  <2> QED BY <2>1, <2>2
<1>7. Views(b, w)
  <2>1. Viewed(z)
    BY <1>6 DEF Views
  <2>2. Views(z, MoveOwn(z, "UP"))
    BY <2>1, MoveUpWindow
  <2>3. w = z \/ w = MoveOwn(z, "UP")
    BY <1>1 DEF StayAtStart
  <2> QED BY <1>6, <2>2, <2>3, ViewsTrans
<1>8. Views(w, PaintIf(w.on_screen[l], w)) /\ Viewed(w)
  BY <1>7, PaintKept, KeptViews DEF Views, Viewed
<1>9. InsertLineAbove(b, k) = PaintIf(w.on_screen[l], w)
  BY <1>1 DEF InsertLineAbove, PaintLine
<1>10. ASSUME k = Own, b.server_mode = FALSE PROVE Updated(PaintIf(w.on_screen[l], w))
  <2>1. w = z
    BY <1>1, <1>6, <1>10 DEF StayAtStart
  <2>2. /\ Len(z.str) \in Nat /\ z.bottom \in Nat /\ z.top \in Nat
        /\ 1 <= z.top /\ OwnLine(z) < z.bottom /\ z.bottom <= Len(z.str)
        /\ \A i \in 1 .. Len(z.str) : z.on_screen[i] <=> (z.top <= i /\ i <= z.bottom)
    BY <1>6 DEF Views, Viewed, Window, Inside
  <2>4. PICK i \in Int : i = l
    BY <1>3 DEF Viewed, Window
  <2>5. OwnLine(z) = i + 1 /\ z.top <= i
    BY <1>6, <1>10, <2>4
  <2>6. i \in 1 .. Len(z.str) /\ z.top <= i /\ i <= z.bottom
    BY <2>2, <2>5
  <2>3. z.on_screen[l]
    BY <2>2, <2>4, <2>6
  <2> QED BY <1>8, <2>1, <2>3 DEF PaintIf, Updated, Viewed
<1> QED BY <1>7, <1>8, <1>9, <1>10, ViewsTrans

\* Two lines of a sequence get other values: it stays as long.
LEMMA ExceptLen ==
  ASSUME NEW S, NEW s \in Seq(S), NEW i, NEW j, NEW p, NEW q
  PROVE  Len([s EXCEPT ![i] = p, ![j] = q]) = Len(s) /\ Len([s EXCEPT ![i] = p]) = Len(s)
<1>1. PICK n \in Nat : n = Len(s) /\ s \in [1 .. n -> S]
  BY LenProperties
<1>2. PICK T : T = S \cup {p, q}
  OBVIOUS
<1>3. PICK f, g : f = [s EXCEPT ![i] = p] /\ g = [s EXCEPT ![i] = p, ![j] = q]
  OBVIOUS
<1>4. f \in [1 .. n -> T] /\ g \in [1 .. n -> T]
  BY <1>1, <1>2, <1>3
<1>5. Len(f) = n /\ Len(g) = n
  BY <1>4, FunIsSeq
<1> QED BY <1>1, <1>3, <1>5

\* The own cursor is found first.
LEMMA FindOwn ==
  ASSUME NEW b, NEW id, b.curs[Own].id = id PROVE bcursor_find(b, id) = Own
<1> DEFINE found == { k \in AllSlots : b.curs[k].id = id }
<1>1. bcursor_find(b, id) = IF found = {} THEN NULL ELSE CHOOSE k \in found : \A j \in found : k <= j
  BY DEF bcursor_find, AllSlots
<1>2. Own \in found /\ found \subseteq Nat
  BY AllSlotsNat
<1>3. \E k \in found : \A j \in found : k <= j
  BY <1>2, Least
<1>4. PICK k : k = bcursor_find(b, id)
  OBVIOUS
<1>5. k \in found /\ \A j \in found : k <= j
  BY <1>1, <1>2, <1>3, <1>4
<1>6. k \in Nat /\ k <= 0
  BY <1>2, <1>5 DEF Own
<1> QED BY <1>4, <1>6 DEF Own

\* The line of the own cursor and the next one are visible.
LEMMA NextShown ==
  ASSUME NEW b, Viewed(b), NEW l, l = OwnLine(b) \/ l = OwnLine(b) + 1
  PROVE  b.on_screen[l]
<1>1. /\ Len(b.str) \in Nat /\ b.bottom \in Nat /\ b.top \in Nat /\ OwnLine(b) \in Nat
      /\ 1 <= b.top /\ b.top <= OwnLine(b) /\ OwnLine(b) < b.bottom /\ b.bottom <= Len(b.str)
  BY DEF Viewed, Window, Inside
<1>2. l \in 1 .. Len(b.str) /\ b.top <= l /\ l <= b.bottom
  BY <1>1
<1> QED BY <1>2 DEF Viewed, Window

\* A line linked below that of a cursor, and the flags of both.
LEMMA LinkBelowWindow ==
  ASSUME NEW b, Viewed(b), GoodLines(b), NEW i \in 1 .. b.last
  PROVE  LET c == LinkBelow(b, i) IN
         /\ Viewed(c) /\ c.u = b.u
         /\ OwnLine(c) = Shift(OwnLine(b), i + 1)
         /\ Rows(c) = IF c.on_screen[i + 1] THEN Rows(b) + 1 ELSE Rows(b)
         /\ c.str \in Seq(Seq(Chars)) /\ Len(c.str) = Len(b.str) + 1 /\ c.last = b.last + 1
         /\ DOMAIN c.curs = DOMAIN b.curs /\ c.curs[Own].id = b.curs[Own].id
<1>1. PICK x, y : x = line_new(b, i + 1) /\ y = [x EXCEPT !.last = i + 1]
  OBVIOUS
<1>2. b.last \in Nat /\ Len(b.str) \in Nat /\ b.last < Len(b.str) /\ i \in Nat
      /\ i + 1 \in 1 .. Len(b.str) /\ b.str \in Seq(Seq(Chars)) /\ DOMAIN b = Fields
      /\ Own \in DOMAIN b.curs
  <2>1. b.last \in Nat /\ Len(b.str) \in Nat /\ b.last < Len(b.str)
    BY LengthTypes
  <2>2. b.str \in Seq(Seq(Chars)) /\ DOMAIN b = Fields /\ Own \in DOMAIN b.curs
    BY DEF GoodLines, Viewed
  <2> QED BY <2>1, <2>2
<1>3. /\ Viewed(x) /\ x.u = b.u /\ DOMAIN x.curs = DOMAIN b.curs
      /\ OwnLine(x) = Shift(OwnLine(b), i + 1) /\ Len(x.str) = Len(b.str) + 1
      /\ Rows(x) = IF x.on_screen[i + 1] THEN Rows(b) + 1 ELSE Rows(b)
  BY <1>1, <1>2, LinkedWindow
<1>4. /\ x.str = InsertAt(b.str, i + 1, << >>) /\ x.last = Shift(b.last, i + 1)
      /\ x.curs = [k \in DOMAIN b.curs |->
                    MovedTo(b.curs[k], Shift(b.curs[k].line, i + 1), b.curs[k].pos)]
  BY <1>1, <1>2, LineNewExact
<1>5. x.curs[Own].id = b.curs[Own].id
  BY <1>2, <1>4 DEF MovedTo
<1>6. x.str \in Seq(Seq(Chars))
  <2> DEFINE S == Seq(Chars)
             t == b.str
             e == << >>
             j == i + 1
  <2>1. t \in Seq(S) /\ j \in 1 .. Len(t) + 1 /\ e \in S
    BY <1>2
  <2> HIDE DEF S, t, e, j
  <2>2. InsertAt(t, j, e) \in Seq(S)
    BY <2>1, InsertAtProperties
  <2> QED BY <1>4, <2>2 DEF S, t, e, j
<1>7. DOMAIN x = Fields /\ Own \in DOMAIN x.curs /\ Kept(x, y) /\ y.last = i + 1 /\ y.str = x.str
      /\ y.curs = x.curs
  BY <1>1, <1>3, EndsKept DEF Viewed, Fields
<1>8. Views(x, y) /\ OwnLine(y) = OwnLine(x) /\ y.on_screen = x.on_screen
  BY <1>3, <1>7, KeptViews DEF Kept
<1>9. PICK c : c = LinkBelow(b, i)
  OBVIOUS
<1>10. c = (IF i = b.last THEN y ELSE x)
  BY <1>1, <1>9 DEF LinkBelow
<1>11. c.last = b.last + 1
  BY <1>2, <1>4, <1>7, <1>10 DEF Shift
<1>12. /\ Viewed(c) /\ c.u = x.u /\ OwnLine(c) = OwnLine(x) /\ Rows(c) = Rows(x)
       /\ c.on_screen = x.on_screen /\ c.str = x.str /\ c.curs = x.curs
  BY <1>3, <1>7, <1>8, <1>10 DEF Views
<1> QED BY <1>3, <1>5, <1>6, <1>9, <1>11, <1>12

\* What becomes of the window when the cursors in R go down from line i.
CarriedDown(b, c, R, i) ==
  /\ Views(b, c) /\ c.last = b.last /\ Len(c.str) = Len(b.str)
  /\ OwnLine(c) <= c.last
  /\ c.on_screen[i + 1] <=> b.on_screen[i + 1]
  /\ Own \notin R => OwnLine(c) = OwnLine(b) /\ c.curs[Own] = b.curs[Own]
  /\ DOMAIN c.curs = DOMAIN b.curs

\* The cursors that go down with their part of a line.
LEMMA CarryDownWindow ==
  ASSUME NEW b, Viewed(b), NEW R, NEW d, NEW i \in Nat, Own \in R => OwnLine(b) = i,
         b.last \in Nat, OwnLine(b) <= b.last, b.last < Len(b.str)
  PROVE  CarriedDown(b, CarryDown(b, R, d), R, i)
<1>1. PICK x, y, c : x = AddPos(b, R, -d) /\ y = OwnDown(x, R) /\ c = MovePeers(y, R \ {Own}, "DOWN")
  OBVIOUS
<1>2. DOMAIN b = Fields /\ Own \in DOMAIN b.curs
  BY DEF Viewed
<1>3. /\ Views(b, x) /\ x.on_screen = b.on_screen /\ OwnLine(x) = OwnLine(b)
      /\ x.last = b.last /\ x.str = b.str /\ DOMAIN x.curs = DOMAIN b.curs
      /\ (Own \notin R => x.curs[Own] = b.curs[Own])
  <2>1. Kept(b, x)
    BY <1>1, <1>2, AddPosWindow
  <2>2. SameLines(b, x)
        /\ x.curs = [k \in DOMAIN b.curs |-> IF k \in R THEN Advance(b.curs[k], -d) ELSE b.curs[k]]
    BY <1>1, <1>2, AddPosExact
  <2> QED BY <1>2, <2>1, <2>2, KeptViews DEF Kept, SameLines
<1>4. /\ Views(x, y) /\ y.last = b.last /\ y.str = b.str /\ OwnLine(y) <= y.last
      /\ (y.on_screen[i + 1] <=> b.on_screen[i + 1])
      /\ (Own \notin R => y = x) /\ DOMAIN y.curs = DOMAIN x.curs
  <2>1. CASE Own \in R
    <3>1. y = MoveOwn(x, "DOWN") /\ Viewed(x)
      BY <1>1, <1>3, <2>1 DEF OwnDown, Views
    <3>2. x.last \in Nat /\ OwnLine(x) <= x.last /\ x.last < Len(x.str)
      BY <1>3
    <3>3. /\ Views(x, y) /\ SameLines(x, y)
          /\ y.curs = [x.curs EXCEPT ![Own] = cursor_move(x, x.curs[Own], "DOWN")]
          /\ OwnLine(y) = IF OwnLine(x) < x.last THEN OwnLine(x) + 1 ELSE OwnLine(x)
      BY <3>1, <3>2, MoveDownWindow
    <3>4. OwnLine(x) = i /\ OwnLine(y) \in {i, i + 1}
      BY <1>3, <2>1, <3>3
    <3>5. y.on_screen[i + 1] /\ b.on_screen[i + 1]
      BY <1>3, <3>3, <3>4, NextShown DEF Views
    <3>6. OwnLine(y) <= x.last
      BY <1>3, <3>2, <3>3, <3>4
    <3> QED BY <1>3, <2>1, <3>3, <3>5, <3>6 DEF SameLines
  <2>2. CASE Own \notin R
    <3>1. y = x
      BY <1>1, <2>2 DEF OwnDown
    <3> QED BY <1>3, <2>2, <3>1 DEF Views
  <2> QED BY <2>1, <2>2
<1>5. DOMAIN y = Fields /\ Own \in DOMAIN y.curs /\ Viewed(y)
  BY <1>4 DEF Views, Viewed
<1>6. Kept(y, c) /\ SameLines(y, c)
      /\ c.curs = [k \in DOMAIN y.curs |->
              IF k \in R \ {Own} THEN cursor_move(y, y.curs[k], "DOWN") ELSE y.curs[k]]
  BY <1>1, <1>5, MovePeersWindow, MovePeersExact
<1>7. Views(y, c) /\ c.last = b.last /\ c.str = b.str /\ OwnLine(c) = OwnLine(y)
      /\ c.on_screen = y.on_screen /\ c.curs[Own] = y.curs[Own] /\ DOMAIN c.curs = DOMAIN y.curs
  BY <1>4, <1>5, <1>6, KeptViews DEF Kept, SameLines
<1>8. Views(b, c)
  BY <1>3, <1>4, <1>7, ViewsTrans
<1>9. c = CarryDown(b, R, d)
  BY <1>1 DEF CarryDown
<1> QED BY <1>3, <1>4, <1>7, <1>8, <1>9 DEF CarriedDown

\* The new line below that of cursor k.
LEMMA InsertLineBelowWindow ==
  ASSUME NEW b, Viewed(b), GoodLines(b), DOMAIN b.curs = AllSlots, NEW k \in AllSlots,
         OwnLine(b) <= b.last, NEW i \in 1 .. b.last, b.curs[k].line = i
  PROVE  LET c == InsertLineBelow(b, k) IN
         Views(b, c) /\ (k = Own /\ b.curs[Own].id = Own => Updated(c))
<1> DEFINE l == i + 1
<1>22. PICK d, s, at : d = b.curs[k].pos /\ s = b.str[i] /\ at = Min2(d, Len(s))
  OBVIOUS
<1>1. PICK R : R = IF d = Len(s) THEN {} ELSE RightOf(b, k, d)
  OBVIOUS
<1>2. PICK x, y, z : /\ x = LinkBelow(b, i) /\ y = SplitAt(x, i, s, at)
                     /\ z = CarryDown(y, R, d)
  OBVIOUS
<1>3. PICK w, t, m : /\ w = [z EXCEPT !.curs[k] = MovedTo(@, i, 0)] /\ t = buffer_trim(w, l)
                     /\ m = bcursor_move(t, b.curs[k].id, "DOWN")
  OBVIOUS
<1>4. InsertLineBelow(b, k) = PaintLine(m, l)
  BY <1>1, <1>2, <1>3, <1>22 DEF InsertLineBelow
<1>5. i \in Nat /\ b.last \in Nat /\ i <= b.last /\ Len(b.str) \in Nat /\ b.last < Len(b.str)
      /\ OwnLine(b) \in Nat
  BY LengthTypes DEF Viewed, Window
<1>6. (Own \in R => Own # k /\ OwnLine(b) = i) /\ (k = Own => OwnLine(b) = i)
  BY <1>1 DEF RightOf, OwnLine
<1>7. /\ Viewed(x) /\ x.u = b.u
      /\ OwnLine(x) = Shift(OwnLine(b), i + 1)
      /\ Rows(x) = IF x.on_screen[i + 1] THEN Rows(b) + 1 ELSE Rows(b)
      /\ x.str \in Seq(Seq(Chars)) /\ Len(x.str) = Len(b.str) + 1 /\ x.last = b.last + 1
      /\ DOMAIN x.curs = DOMAIN b.curs /\ x.curs[Own].id = b.curs[Own].id
  BY <1>2, LinkBelowWindow
<1>8. OwnLine(x) <= b.last + 1 /\ (OwnLine(b) = i => OwnLine(x) = i)
  BY SMTT(60), <1>5, <1>7 DEF Shift
<1>9. Kept(x, y) /\ y.curs = x.curs /\ y.last = x.last
  <2>1. PICK v : v = [x.str EXCEPT ![i] = SubSeq(s, 1, at), ![l] = SubSeq(s, at + 1, Len(s))]
    OBVIOUS
  <2>2. Len(v) = Len(x.str)
    BY <1>7, <2>1, ExceptLen
  <2>3. y = [x EXCEPT !.str = v]
    BY <1>2, <2>1 DEF SplitAt
  <2>4. DOMAIN x = Fields /\ Own \in DOMAIN x.curs
    BY <1>7 DEF Viewed
  <2> QED BY <2>2, <2>3, <2>4, EndsKept DEF Fields
<1>10. Views(x, y) /\ y.on_screen = x.on_screen /\ OwnLine(y) = OwnLine(x)
       /\ Len(y.str) = Len(x.str)
  BY <1>7, <1>9, KeptViews DEF Kept
<1>23. CarriedDown(y, z, R, i)
  <2>1. Own \in R => OwnLine(y) = i
    BY <1>6, <1>8, <1>10
  <2>2. y.last \in Nat /\ OwnLine(y) <= y.last /\ y.last < Len(y.str)
    BY SMTT(60), <1>5, <1>7, <1>8, <1>9, <1>10
  <2>3. Viewed(y)
    BY <1>10 DEF Views
  <2>4. z = CarryDown(y, R, d) /\ i \in Nat
    BY <1>2, <1>5
  <2> QED BY <2>1, <2>2, <2>3, <2>4, CarryDownWindow
<1>11. /\ Views(y, z) /\ z.last = y.last /\ Len(z.str) = Len(y.str)
       /\ OwnLine(z) <= z.last
       /\ z.on_screen[i + 1] <=> y.on_screen[i + 1]
       /\ Own \notin R => OwnLine(z) = OwnLine(y) /\ z.curs[Own] = y.curs[Own]
       /\ DOMAIN z.curs = DOMAIN y.curs
  BY <1>23 DEF CarriedDown
<1>12. Kept(z, w) /\ w.last = z.last /\ w.str = z.str /\ w.on_screen = z.on_screen
       /\ OwnLine(w) = OwnLine(z)
       /\ (k = Own => w.curs[Own].id = z.curs[Own].id)
  <2>1. DOMAIN z = Fields /\ Own \in DOMAIN z.curs /\ k \in DOMAIN z.curs
    BY <1>7, <1>9, <1>11 DEF Views, Viewed
  <2>2. w.curs = [z.curs EXCEPT ![k] = MovedTo(z.curs[k], i, 0)]
        /\ DOMAIN w = Fields /\ w.last = z.last /\ w.str = z.str /\ w.on_screen = z.on_screen
        /\ w.top = z.top /\ w.bottom = z.bottom /\ w.where = z.where /\ w.u = z.u
    BY <1>3, <2>1 DEF Fields
  <2>3. CASE k = Own
    <3>1. OwnLine(z) = i
      BY <1>6, <1>8, <1>10, <1>11, <2>3
    <3>2. w.curs[Own] = MovedTo(z.curs[Own], i, 0) /\ Own \in DOMAIN w.curs
      BY <2>1, <2>2, <2>3
    <3> QED BY <2>2, <3>1, <3>2 DEF Kept, OwnLine, MovedTo
  <2>4. CASE k # Own
    <3>1. w.curs[Own] = z.curs[Own] /\ Own \in DOMAIN w.curs
      BY <2>1, <2>2, <2>4
    <3> QED BY <2>2, <2>4, <3>1 DEF Kept, OwnLine
  <2> QED BY <2>3, <2>4
<1>13. Views(z, w)
  BY <1>11, <1>12, KeptViews DEF Views
<1>14. Viewed(w) /\ w.u = b.u /\ Rows(w) = IF w.on_screen[l] THEN Rows(b) + 1 ELSE Rows(b)
  <2>1. Rows(w) = Rows(x) /\ w.u = b.u /\ Viewed(w)
    BY <1>7, <1>10, <1>11, <1>13 DEF Views
  <2>2. w.on_screen[l] <=> x.on_screen[l]
    BY <1>10, <1>11, <1>12
  <2> QED BY <1>7, <2>1, <2>2
<1>15. Rows(b) \in Nat /\ Rows(b) >= 3
  BY DEF Viewed, Rows, Window
<1>16. Viewed(t) /\ t.u = b.u /\ Rows(t) = Rows(b) /\ Same(w, t)
  <2>1. PICK n \in Nat : n = Rows(b) /\ n >= 3
    BY <1>15
  <2>2. Rows(w) = IF w.on_screen[l] THEN n + 1 ELSE n
    BY <1>14, <2>1
  <2>4. t = buffer_trim(w, l) /\ Viewed(w)
    BY <1>3, <1>14
  <2> HIDE DEF l
  <2>3. Viewed(t) /\ t.u = w.u /\ Rows(t) = n /\ Same(w, t)
    BY <2>1, <2>2, <2>4, TrimmedBack
  <2> QED BY <1>14, <2>1, <2>3
<1>17. t.last = b.last + 1 /\ Len(t.str) = Len(b.str) + 1 /\ t.curs = w.curs
       /\ OwnLine(t) = OwnLine(w) /\ OwnLine(t) <= t.last /\ t.last \in Nat
  <2>1. t.last = w.last /\ t.str = w.str /\ t.curs = w.curs /\ OwnLine(t) = OwnLine(w)
    BY <1>16 DEF Same, SameLines, OwnLine
  <2> QED BY SMTT(60), <1>5, <1>7, <1>9, <1>10, <1>11, <1>12, <2>1
<1>18. Views(t, m) /\ (k = Own /\ b.curs[Own].id = Own => Updated(m) /\ OwnLine(m) = l)
  <2>1. PICK p : p = bcursor_find(t, b.curs[k].id)
    OBVIOUS
  <2>2. k = Own /\ b.curs[Own].id = Own => p = Own /\ OwnLine(t) = i
    <3> SUFFICES ASSUME k = Own, b.curs[Own].id = Own PROVE p = Own /\ OwnLine(t) = i
      OBVIOUS
    <3>1. Own \notin R /\ OwnLine(b) = i
      BY <1>6
    <3>2. t.curs[Own].id = Own
      BY <1>7, <1>9, <1>11, <1>12, <1>17, <3>1
    <3> QED BY <1>8, <1>10, <1>11, <1>12, <1>17, <2>1, <3>1, <3>2, FindOwn
  <2>3. CASE p = Own
    <3>1. m = MoveOwn(t, "DOWN")
      BY <1>3, <2>1, <2>3 DEF bcursor_move
    <3>2. t.last < Len(t.str)
      BY <1>5, <1>17
    <3>3. /\ Views(t, m) /\ Updated(m)
          /\ OwnLine(m) = IF OwnLine(t) < t.last THEN OwnLine(t) + 1 ELSE OwnLine(t)
      BY <1>16, <1>17, <3>1, <3>2, MoveDownWindow
    <3>4. OwnLine(t) = i => OwnLine(m) = l
      BY <1>5, <1>17, <3>3
    <3> QED BY <2>2, <3>3, <3>4
  <2>4. CASE p # Own
    <3>1. m = MovePeers(t, {p}, "DOWN")
      BY <1>3, <2>1, <2>4 DEF bcursor_move
    <3>2. Kept(t, m)
      BY <1>16, <2>4, <3>1, MovePeersWindow DEF Viewed
    <3> QED BY <1>16, <2>2, <2>4, <3>2, KeptViews
  <2> QED BY <2>3, <2>4
<1>19. Viewed(m) /\ Views(b, m)
  BY <1>16, <1>18 DEF Views
<1>20. Views(b, PaintLine(m, l))
  BY <1>19, PaintKept, KeptViews, ViewsTrans DEF Viewed, PaintLine
<1>21. ASSUME k = Own, b.curs[Own].id = Own PROVE Updated(PaintLine(m, l))
  <2>1. OwnLine(m) = l
    BY <1>18, <1>21
  <2>2. m.on_screen[l]
    BY <1>19, <2>1, NextShown
  <2> QED BY <1>19, <2>2 DEF PaintLine, PaintIf, Updated, Viewed
<1> QED BY <1>4, <1>20, <1>21

-----------------------------------------------------------------------------
(***************************************************************************)
(* The operations of a viewed, sound document.  Those of the own cursor    *)
(* end with ui_update.                                                     *)
(***************************************************************************)

\* What these operations use of the document.
LEMMA SoundFacts ==
  ASSUME NEW b, Sound(b), NEW k \in AllSlots, b.curs[k].id # NULL
  PROVE  /\ GoodLines(b) /\ DOMAIN b = Fields /\ DOMAIN b.curs = AllSlots
         /\ Own \in AllSlots /\ b.curs[Own].id = Own /\ GoodCursor(b, b.curs[Own])
         /\ b.curs[k].line \in 1 .. b.last /\ b.curs[k].line \in 1 .. Len(b.str)
         /\ b.curs[k].line \in Nat /\ b.curs[k].pos \in Nat
         /\ b.str \in Seq(Seq(Chars)) /\ b.first = 1
         /\ OwnLine(b) \in 1 .. b.last /\ b.last \in Nat /\ OwnLine(b) <= b.last
<1>1. GoodLines(b) /\ GoodCursors(b) /\ DOMAIN b = Fields /\ DOMAIN b.curs = AllSlots
      /\ b.str \in Seq(Seq(Chars)) /\ b.first = 1 /\ b.last \in Nat /\ b.curs[Own].id = Own
  BY DEF Sound, GoodLines, GoodCursors, IdsOfSlots
<1>2. GoodCursor(b, b.curs[Own]) /\ Own \in AllSlots
  BY <1>1, SlotTypes, AllSlotsNat
<1>3. b.curs[k].line \in 1 .. b.last /\ b.curs[k].line \in 1 .. Len(b.str)
      /\ b.curs[k].line \in Nat /\ b.curs[k].pos \in Nat
  BY <1>1, CursorFacts
<1>4. OwnLine(b) \in 1 .. b.last /\ OwnLine(b) <= b.last
  BY <1>1, <1>2 DEF GoodCursor, Fits, OwnLine
<1> QED BY <1>1, <1>2, <1>3, <1>4

\* Breaking a line keeps the window; of an editor, the local user sees it.
LEMMA InsertLineWindow ==
  ASSUME NEW b, Viewed(b), Sound(b), NEW id \in Nat, HasCursor(b, id)
  PROVE  LET c == bcursor_insert_line(b, id) IN
         Views(b, c) /\ (id = Own /\ b.server_mode = FALSE => Updated(c))
<1>1. PICK k, x : k = bcursor_find(b, id) /\ x = [b EXCEPT !.num_lines = @ + 1]
  OBVIOUS
<1>2. k \in AllSlots /\ b.curs[k].id # NULL /\ (id = Own => k = Own)
  BY <1>1, FoundSlot, OwnFacts
<1>3. /\ GoodLines(b) /\ DOMAIN b = Fields /\ DOMAIN b.curs = AllSlots /\ Own \in AllSlots
      /\ b.curs[Own].id = Own /\ OwnLine(b) <= b.last
      /\ b.curs[k].line \in 1 .. b.last /\ b.curs[k].line \in 1 .. Len(b.str)
      /\ b.str \in Seq(Seq(Chars))
  BY <1>2, SoundFacts
<1>4. /\ Kept(b, x) /\ x.str = b.str /\ x.curs = b.curs /\ x.last = b.last
      /\ x.server_mode = b.server_mode /\ GoodLines(x)
  <2>1. Kept(b, x)
    BY <1>1, <1>3, EndsKept
  <2>2. x.str = b.str /\ x.curs = b.curs /\ x.last = b.last /\ x.server_mode = b.server_mode
        /\ x.lid = b.lid /\ x.line_id_cnt = b.line_id_cnt /\ x.first = b.first
        /\ DOMAIN x = Fields
    BY <1>1, <1>3 DEF Fields
  <2> QED BY <1>3, <2>1, <2>2 DEF GoodLines
<1>5. Viewed(x) /\ Views(b, x) /\ OwnLine(x) = OwnLine(b)
  BY <1>4, KeptViews DEF Views, Kept
<1>6. PICK c : c = bcursor_insert_line(b, id)
  OBVIOUS
<1>7. c = IF b.curs[k].pos = 0 THEN InsertLineAbove(x, k) ELSE InsertLineBelow(x, k)
  BY <1>1, <1>6 DEF bcursor_insert_line
<1>8. CASE b.curs[k].pos = 0
  <2>1. c = InsertLineAbove(x, k)
    BY <1>7, <1>8
  <2>2. Views(x, c) /\ (k = Own /\ x.server_mode = FALSE => Updated(c))
    BY <1>3, <1>4, <1>5, <2>1, InsertLineAboveWindow
  <2> QED BY <1>2, <1>4, <1>5, <1>6, <2>2, ViewsTrans
<1>9. CASE b.curs[k].pos # 0
  <2>1. c = InsertLineBelow(x, k)
    BY <1>7, <1>9
  <2>2. PICK i \in 1 .. x.last : x.curs[k].line = i
    BY <1>3, <1>4
  <2>3. Views(x, c) /\ (k = Own /\ x.curs[Own].id = Own => Updated(c))
    BY <1>2, <1>3, <1>4, <1>5, <2>1, <2>2, InsertLineBelowWindow
  <2> QED BY <1>2, <1>3, <1>4, <1>5, <1>6, <2>3, ViewsTrans
<1> QED BY <1>8, <1>9

\* A character goes into a line or out of it, and cursors along it.
LEMMA TypedKept ==
  ASSUME NEW b, DOMAIN b = Fields, Own \in DOMAIN b.curs, b.str \in Seq(Seq(Chars)),
         NEW k \in DOMAIN b.curs, NEW l, NEW s, NEW d,
         NEW c, c = [b EXCEPT !.str[l] = s, !.curs[k] = Advance(@, d)]
  PROVE  Kept(b, c)
<1>1. PICK v, f : v = [b.str EXCEPT ![l] = s] /\ f = [b.curs EXCEPT ![k] = Advance(b.curs[k], d)]
  OBVIOUS
<1>5. c = [b EXCEPT !.str = v, !.curs = f]
  BY <1>1
<1>2. Len(v) = Len(b.str)
  BY <1>1, ExceptLen
<1>3. c.str = v /\ c.curs = f
      /\ DOMAIN c = Fields /\ c.top = b.top /\ c.bottom = b.bottom
      /\ c.on_screen = b.on_screen /\ c.where = b.where /\ c.u = b.u
  BY <1>5 DEF Fields
<1>4. c.curs[Own].line = b.curs[Own].line /\ Own \in DOMAIN c.curs
  BY <1>1, <1>3 DEF Advance, MovedTo
<1> QED BY <1>2, <1>3, <1>4 DEF Kept, OwnLine

\* Keeping is transitive.
LEMMA KeptTrans ==
  ASSUME NEW a, NEW b, NEW c, Kept(a, b), Kept(b, c) PROVE Kept(a, c)
  BY DEF Kept

\* Typing keeps the window; the local user sees what he types.
LEMMA InsertWindow ==
  ASSUME NEW b, Viewed(b), Sound(b), NEW id \in Nat, NEW chr
  PROVE  LET c == bcursor_insert(b, id, chr) IN
         Views(b, c) /\ (id = Own => Updated(c))
<1>1. PICK k : k = bcursor_find(b, id)
  OBVIOUS
<1>2. DOMAIN b = Fields /\ Own \in DOMAIN b.curs
  BY DEF Viewed
<1>3. id = Own => k = Own /\ k # NULL
  BY <1>1, OwnFacts DEF Own, NULL
<1>4. CASE k = NULL
  <2>1. bcursor_insert(b, id, chr) = b
    BY <1>1, <1>4 DEF bcursor_insert
  <2> QED BY <1>3, <1>4, <2>1 DEF Views
<1>5. CASE k # NULL
  <2>1. k \in AllSlots /\ b.curs[k].id # NULL
    BY <1>1, <1>5, FoundSlot DEF HasCursor
  <2>2. b.str \in Seq(Seq(Chars)) /\ k \in DOMAIN b.curs
    BY <2>1, SoundFacts
  <2>3. PICK x, p : /\ x = [b EXCEPT !.str[b.curs[k].line] = rope_insert(@, b.curs[k].pos, chr),
                                     !.curs[k] = Advance(@, 1)]
                    /\ p = AddPos(x, RightOf(x, k, b.curs[k].pos + 1), 1)
    OBVIOUS
  <2>4. Kept(b, x) /\ DOMAIN x = Fields /\ Own \in DOMAIN x.curs
    <3>1. Kept(b, x)
      BY <1>2, <2>2, <2>3, TypedKept
    <3> QED BY <3>1 DEF Kept
  <2>5. Kept(b, p)
    <3>1. Kept(x, p)
      BY <2>3, <2>4, AddPosWindow
    <3> QED BY <2>4, <3>1, KeptTrans
  <2>6. PICK c : c = bcursor_insert(b, id, chr)
    OBVIOUS
  <2>7. c = ui_update(b) \/ c = ui_update(p)
    BY <1>1, <1>5, <2>3, <2>6 DEF bcursor_insert
  <2>8. DOMAIN p = Fields /\ Own \in DOMAIN p.curs
    BY <2>5 DEF Kept
  <2>9. Kept(b, c) /\ Updated(c)
    BY <1>2, <2>5, <2>7, <2>8, PaintKept, KeptTrans DEF Updated
  <2> QED BY <2>6, <2>9, KeptViews
<1> QED BY <1>4, <1>5

\* Erasing a character keeps the window.
LEMMA DelCharWindow ==
  ASSUME NEW b, DOMAIN b = Fields, Own \in DOMAIN b.curs, b.str \in Seq(Seq(Chars)),
         NEW k \in DOMAIN b.curs
  PROVE  Kept(b, DelChar(b, k))
<1>1. PICK x, p : /\ x = [b EXCEPT !.str[b.curs[k].line] = rope_del(@, b.curs[k].pos - 1, 1),
                                   !.curs[k] = Advance(@, -1)]
                  /\ p = AddPos(x, RightOf(x, k, b.curs[k].pos - 1), -1)
  OBVIOUS
<1>2. Kept(b, x) /\ DOMAIN x = Fields /\ Own \in DOMAIN x.curs
  <2>1. Kept(b, x)
    BY <1>1, TypedKept
  <2> QED BY <2>1 DEF Kept
<1>3. Kept(b, p)
  <2>1. Kept(x, p)
    BY ZenonT(60), <1>1, <1>2, AddPosWindow
  <2> QED BY <1>2, <2>1, KeptTrans
<1>4. DelChar(b, k) = p
  BY <1>1 DEF DelChar
<1> QED BY <1>3, <1>4

\* Moving a cursor keeps the window; the local user sees it.
LEMMA MoveWindow ==
  ASSUME NEW b, Viewed(b), Sound(b), NEW id \in Nat, NEW dir
  PROVE  LET c == bcursor_move(b, id, dir) IN
         Views(b, c) /\ (id = Own => Updated(c))
<1>1. PICK k : k = bcursor_find(b, id)
  OBVIOUS
<1>2. id = Own => k = Own
  BY <1>1, OwnFacts
<1>3. CASE k = Own
  <2>1. bcursor_move(b, id, dir) = MoveOwn(b, dir)
    BY <1>1, <1>3 DEF bcursor_move
  <2>2. GoodLines(b) /\ GoodCursor(b, b.curs[Own])
    BY OwnFacts, SoundFacts
  <2>3. PICK c : c = bcursor_move(b, id, dir)
    OBVIOUS
  <2>4. Views(b, c) /\ Updated(c)
    <3>1. Views(b, MoveOwn(b, dir)) /\ Updated(MoveOwn(b, dir))
      BY <2>2, MoveSoundWindow
    <3> QED BY <2>1, <2>3, <3>1
  <2> QED BY <2>3, <2>4
<1>4. CASE k # Own
  <2>1. bcursor_move(b, id, dir) = MovePeers(b, {k}, dir)
    BY <1>1, <1>4 DEF bcursor_move
  <2>2. Kept(b, MovePeers(b, {k}, dir))
    BY <1>4, MovePeersWindow DEF Viewed
  <2> QED BY <1>2, <1>4, <2>1, <2>2, KeptViews
<1> QED BY <1>3, <1>4

\* Cursors of peers come and go.
LEMMA SlotSetKept ==
  ASSUME NEW b, Viewed(b), NEW k, k # Own, NEW x, NEW seen
  PROVE  LET c == [b EXCEPT !.curs = [@ EXCEPT ![k] = x]] IN
         Views(b, c) /\ Views(b, PaintIf(seen, c))
<1>1. PICK c : c = [b EXCEPT !.curs = [@ EXCEPT ![k] = x]]
  OBVIOUS
<1>2. Kept(b, c)
  BY <1>1 DEF Kept, Viewed, Fields, OwnLine
<1>3. Kept(b, PaintIf(seen, c))
  BY <1>2, PaintKept, KeptTrans DEF Kept
<1> QED BY <1>1, <1>2, <1>3, KeptViews

\* A new cursor of a user keeps the window.
LEMMA NewWindow ==
  ASSUME NEW b, Viewed(b), NEW id, id # Own, NEW lid, NEW pos
  PROVE  Views(b, bcursor_new(b, id, lid, pos))
<1> DEFINE l == bline_find(b, lid)
           x == [id |-> id, line |-> l, pos |-> pos]
<1>1. CASE FreeSlots(b) = {}
  <2>1. bcursor_new(b, id, lid, pos) = b
    BY <1>1 DEF bcursor_new
  <2> QED BY <2>1 DEF Views
<1>2. CASE FreeSlots(b) # {}
  <2>1. PICK k : k = CHOOSE s \in FreeSlots(b) : \A t \in FreeSlots(b) : s <= t
    OBVIOUS
  <2>2. FreeSlots(b) \subseteq Nat /\ Own \notin FreeSlots(b)
    BY AllSlotsNat DEF FreeSlots, AllSlots
  <2>3. k \in FreeSlots(b)
    <3>1. \E s \in FreeSlots(b) : \A t \in FreeSlots(b) : s <= t
      BY <1>2, <2>2, Least
    <3> QED BY <2>1, <3>1
  <2>4. bcursor_new(b, id, lid, pos)
          = PaintIf(b.on_screen[l], [b EXCEPT !.curs = [@ EXCEPT ![k] = x]])
    BY <1>2, <2>1 DEF bcursor_new, PaintIf
  <2> QED BY SMTT(60), <2>2, <2>3, <2>4, SlotSetKept
<1> QED BY <1>1, <1>2

\* So does freeing one.
LEMMA FreeWindow ==
  ASSUME NEW b, Viewed(b), NEW id
  PROVE  Views(b, bcursor_free(b, id))
<1>1. PICK k : k = bcursor_find(b, id)
  OBVIOUS
<1>2. CASE k = Own
  BY <1>1, <1>2 DEF bcursor_free, Views
<1>3. CASE k # Own
  <2>1. PICK x, seen : x = NoCursor /\ seen = b.on_screen[b.curs[k].line]
    OBVIOUS
  <2>2. bcursor_free(b, id) = PaintIf(seen, [b EXCEPT !.curs = [@ EXCEPT ![k] = x]])
    BY <1>1, <1>3, <2>1 DEF bcursor_free, PaintIf
  <2> QED BY <1>3, <2>2, SlotSetKept
<1> QED BY <1>2, <1>3

\* A loaded file: the own cursor goes to the start of its line.
LEMMA LoadedWindow ==
  ASSUME NEW b, Viewed(b)
  PROVE  Views(b, [b EXCEPT !.curs[Own].pos = 0, !.server_mode = TRUE])
<1>1. PICK c : c = [b EXCEPT !.curs[Own].pos = 0, !.server_mode = TRUE]
  OBVIOUS
<1>2. Own \in DOMAIN b.curs /\ DOMAIN b = Fields
  BY DEF Viewed
<1>3. c.curs = [b.curs EXCEPT ![Own] = [b.curs[Own] EXCEPT !.pos = 0]]
      /\ DOMAIN c = Fields /\ c.top = b.top /\ c.bottom = b.bottom /\ c.str = b.str
      /\ c.on_screen = b.on_screen /\ c.where = b.where /\ c.u = b.u
  BY <1>1, <1>2 DEF Fields
<1>4. Own \in DOMAIN c.curs /\ c.curs[Own].line = b.curs[Own].line
  BY <1>2, <1>3
<1>5. Kept(b, c)
  BY <1>3, <1>4 DEF Kept, OwnLine
<1> QED BY <1>1, <1>5, KeptViews

-----------------------------------------------------------------------------
(***************************************************************************)
(* A line is to go: the window makes room for another one.                 *)
(***************************************************************************)

\* With the own cursor off both edges there is nothing to scroll.
LEMMA EdgesStill ==
  ASSUME NEW b, DOMAIN b = Fields, Window(b), Rows(b) >= 3, Inside(b), Below(b)
  PROVE  ScrollOffEdges(b) = b
<1>1. OwnLine(b) < Len(b.str)
  BY DEF Window, Inside
<1>2. OffBottom(b) = b /\ OffTop(b) = b
  BY <1>1, OffBottomWindow, OffTopWindow
<1> QED BY <1>2 DEF ScrollOffEdges

\* The room of a line l that goes: neither end of the window is it, and if it is
\* visible there is a row more than the screen has.  While the window ends within
\* the chain and starts with it, it has grown by just that row.
Roomy(b, c, l) ==
  /\ Viewed(c) /\ c.u = b.u /\ Same(b, c) /\ l # c.top /\ l # c.bottom
  /\ Rows(c) >= height /\ (c.on_screen[l] => Rows(c) >= height + 1)
  /\ (b.top = 1 /\ b.bottom < Len(b.str)
        => Rows(c) = IF c.on_screen[l] THEN Rows(b) + 1 ELSE Rows(b))

\* Or bottom is NULL, for want of a line that is not visible.
Escaped(b, c) ==
  Same(b, c) /\ b.bottom = Len(b.str) /\ c.bottom = Len(b.str) + 1

\* A line at the edge of the window is left for its neighbour.
LEMMA LeaveEdges ==
  ASSUME NEW b, DOMAIN b = Fields, Window(b), Inside(b), NEW l \in Nat, l # OwnLine(b),
         2 <= l, l < Len(b.str)
  PROVE  LET c == LeaveBottom(LeaveTop(b, l), l) IN
         /\ Framed(b, c) /\ Inside(c) /\ l # c.top /\ l # c.bottom /\ Rows(c) >= Rows(b)
         /\ (l # b.top /\ l # b.bottom => c = b)
<1>1. PICK x : x = LeaveTop(b, l)
  OBVIOUS
<1>2. Framed(b, x) /\ Inside(x) /\ l # x.top /\ Rows(x) >= Rows(b) /\ x.bottom = b.bottom
      /\ (l # b.top => x = b)
  <2>1. CASE l # b.top
    <3>1. x = b
      BY <1>1, <2>1 DEF LeaveTop
    <3>2. Framed(b, b) /\ Rows(b) >= Rows(b)
      BY SMTT(60), FramedRefl DEF Rows, Window
    <3> QED BY <2>1, <3>1, <3>2
  <2>2. CASE l = b.top
    <3>1. x = AddTop(b)
      BY <1>1, <2>2 DEF LeaveTop, AddTop, Fields
    <3>2. Reframed(b, x, b.top - 1, b.bottom, b.top - 1, TRUE)
      BY <3>1, EdgesReframed
    <3>3. b.top - 1 \in Nat /\ b.bottom \in Nat /\ 1 <= b.top - 1 /\ b.top - 1 <= OwnLine(b)
          /\ OwnLine(b) <= b.bottom /\ b.bottom <= Len(b.str)
      BY <2>2 DEF Window
    <3>4. Framed(b, x) /\ x.top = b.top - 1 /\ x.bottom = b.bottom
      BY <3>2, <3>3, ReframedWindow
    <3>6. OwnLine(x) = OwnLine(b)
      BY <3>4, FramedFacts
    <3>5. Inside(x) /\ l # x.top /\ Rows(x) >= Rows(b)
      BY <2>2, <3>3, <3>4, <3>6 DEF Inside, Rows, Window
    <3> QED BY <2>2, <3>4, <3>5
  <2> QED BY <2>1, <2>2
<1>3. DOMAIN x = Fields /\ OwnLine(x) = OwnLine(b) /\ Len(x.str) = Len(b.str) /\ Window(x)
  BY <1>2, FramedFacts
<1>4. PICK c : c = LeaveBottom(x, l)
  OBVIOUS
<1>5. Framed(x, c) /\ Inside(c) /\ l # c.top /\ l # c.bottom /\ Rows(c) >= Rows(x)
      /\ (l # x.bottom => c = x)
  <2>1. CASE l # x.bottom
    <3>1. c = x
      BY <1>4, <2>1 DEF LeaveBottom
    <3>3. x.top \in Nat /\ x.bottom \in Nat
      BY <1>3 DEF Window
    <3>4. l # x.top /\ l # x.bottom /\ Inside(x)
      BY <1>2, <2>1
    <3>2. Framed(x, x) /\ Rows(x) >= Rows(x)
      BY <1>3, <3>3, FramedRefl DEF Rows
    <3> QED BY <2>1, <3>1, <3>2, <3>4
  <2>2. CASE l = x.bottom
    <3>1. c = AddBottom(x)
      BY <1>3, <1>4, <2>2 DEF LeaveBottom, AddBottom, Fields
    <3>2. Reframed(x, c, x.top, x.bottom + 1, x.bottom + 1, TRUE)
      BY <1>3, <3>1, EdgesReframed
    <3>3. x.top \in Nat /\ x.bottom + 1 \in Nat /\ 1 <= x.top /\ x.top <= OwnLine(x)
          /\ OwnLine(x) <= x.bottom + 1 /\ x.bottom + 1 <= Len(x.str)
      BY <1>3, <2>2 DEF Window
    <3>4. Framed(x, c) /\ c.top = x.top /\ c.bottom = x.bottom + 1
      BY <1>3, <3>2, <3>3, ReframedWindow
    <3>6. OwnLine(c) = OwnLine(x)
      BY <3>4, FramedFacts
    <3>5. Inside(c) /\ l # c.top /\ l # c.bottom /\ Rows(c) >= Rows(x)
      BY <1>2, <1>3, <2>2, <3>3, <3>4, <3>6 DEF Inside, Rows, Window
    <3> QED BY <2>2, <3>4, <3>5
  <2> QED BY <2>1, <2>2
<1>6. Framed(b, c)
  BY <1>2, <1>5, FramedTrans
<1>7. Rows(c) >= Rows(b)
  BY SMTT(60), <1>2, <1>3, <1>5, FramedFacts DEF Rows, Window
<1> QED BY <1>1, <1>2, <1>4, <1>5, <1>6, <1>7

\* What making room for line l does, when l is visible and not the own cursor's.
LEMMA ExtendWindow ==
  ASSUME NEW b, Viewed(b), height >= 3, Rows(b) >= height, NEW l \in Nat, 2 <= l,
         l + height - 1 <= Len(b.str), l # OwnLine(b), b.on_screen[l]
  PROVE  LET c == buffer_extend(b, l) IN
         \/ /\ Framed(b, c) /\ Inside(c) /\ Rows(c) >= height + 1
            /\ (b.top = 1 /\ b.bottom < Len(b.str)
                  => c.top = 1 /\ c.bottom = b.bottom + 1)
         \/ Escaped(b, c) /\ c.top = 1
<1> DEFINE c == buffer_extend(b, l)
<1>0. height \in Nat
  BY ConstantsAssumption
<1>1. /\ DOMAIN b = Fields /\ Window(b) /\ Inside(b) /\ Marked(b) /\ Rows(b) >= 3
      /\ Len(b.str) \in Nat /\ OwnLine(b) \in Nat /\ b.top \in Nat /\ b.bottom \in Nat
      /\ 1 <= b.top /\ b.top <= OwnLine(b) /\ OwnLine(b) < b.bottom /\ b.bottom <= Len(b.str)
      /\ b.top <= l /\ l <= b.bottom
  <2>1. /\ DOMAIN b = Fields /\ Window(b) /\ Inside(b) /\ Marked(b) /\ Rows(b) >= 3
    BY DEF Viewed
  <2>2. /\ Len(b.str) \in Nat /\ OwnLine(b) \in Nat /\ b.top \in Nat /\ b.bottom \in Nat
        /\ 1 <= b.top /\ b.top <= OwnLine(b) /\ OwnLine(b) < b.bottom /\ b.bottom <= Len(b.str)
    BY <2>1 DEF Window, Inside
  <2>3. l \in 1 .. Len(b.str)
    BY <1>0, <2>2
  <2>4. b.top <= l /\ l <= b.bottom
    BY <2>1, <2>3 DEF Window
  <2> QED BY <2>1, <2>2, <2>4
<1>2. ASSUME NEW x, Framed(b, x), Inside(x), Rows(x) >= height + 1, c = ScrollOffEdges(x),
             b.top = 1 /\ b.bottom < Len(b.str) => x.top = 1 /\ x.bottom = b.bottom + 1
      PROVE  /\ Framed(b, c) /\ Inside(c) /\ Rows(c) >= height + 1
             /\ (b.top = 1 /\ b.bottom < Len(b.str)
                   => c.top = 1 /\ c.bottom = b.bottom + 1)
  <2> HIDE DEF c
  <2>1. DOMAIN x = Fields /\ Window(x) /\ OwnLine(x) = OwnLine(b) /\ Len(x.str) = Len(b.str)
    BY <1>2, FramedFacts
  <2>6. x.top \in Nat /\ x.bottom \in Nat
    BY <2>1 DEF Window
  <2>7. Rows(x) >= 3
    BY <1>0, <1>2, <2>6 DEF Rows
  <2>8. OwnLine(b) < Len(b.str)
    BY <1>1
  <2>2. Rows(x) >= 3 /\ OwnLine(x) < Len(x.str)
    BY <2>1, <2>7, <2>8
  <2>3. Framed(x, ScrollOffEdges(x)) /\ Rows(ScrollOffEdges(x)) = Rows(x)
        /\ Inside(ScrollOffEdges(x))
    BY <2>1, <2>2, OffEdgesWindow
  <2>4. b.top = 1 /\ b.bottom < Len(b.str) => ScrollOffEdges(x) = x
    <3>1. SUFFICES ASSUME b.top = 1 /\ b.bottom < Len(b.str) PROVE ScrollOffEdges(x) = x
      OBVIOUS
    <3>2. Below(x)
      BY <1>2, <3>1 DEF Below
    <3> QED BY <1>2, <2>1, <2>2, <3>2, EdgesStill
  <2>5. Framed(b, ScrollOffEdges(x))
    BY <1>2, <2>3, FramedTrans
  <2> QED BY <1>2, <2>3, <2>4, <2>5
<1>3. CASE b.bottom < Len(b.str) /\ c = ScrollOffEdges(AddBottom(b))
  <2>1. PICK x : x = AddBottom(b)
    OBVIOUS
  <2>2. Reframed(b, x, b.top, b.bottom + 1, b.bottom + 1, TRUE)
    BY <1>1, <2>1, EdgesReframed
  <2>3. /\ b.bottom + 1 \in Nat /\ OwnLine(b) <= b.bottom + 1 /\ b.bottom + 1 <= Len(b.str)
        /\ b.top \in Nat /\ 1 <= b.top /\ b.top <= OwnLine(b)
        /\ DOMAIN b = Fields /\ Window(b)
    BY <1>1, <1>3
  <2>4. Framed(b, x) /\ x.top = b.top /\ x.bottom = b.bottom + 1
    BY ZenonT(60), <2>2, <2>3, ReframedWindow
  <2>5. OwnLine(x) = OwnLine(b)
    BY <2>4, FramedFacts
  <2>6. Inside(x) /\ Rows(x) >= height + 1
    BY <1>0, <1>1, <2>4, <2>5 DEF Inside, Rows
  <2> QED BY <1>2, <1>3, <2>1, <2>4, <2>6
<1>4. CASE b.top > 1 /\ c = ScrollOffEdges(AddTop(b))
  <2>1. PICK x : x = AddTop(b)
    OBVIOUS
  <2>2. Reframed(b, x, b.top - 1, b.bottom, b.top - 1, TRUE)
    BY <1>1, <2>1, EdgesReframed
  <2>3. /\ b.top - 1 \in Nat /\ 1 <= b.top - 1 /\ b.top - 1 <= OwnLine(b)
        /\ b.bottom \in Nat /\ OwnLine(b) <= b.bottom /\ b.bottom <= Len(b.str)
        /\ DOMAIN b = Fields /\ Window(b)
    BY <1>1, <1>4
  <2>7. PICK t \in Nat : t = b.top - 1
    BY <2>3
  <2>8. Reframed(b, x, t, b.bottom, t, TRUE) /\ 1 <= t /\ t <= OwnLine(b)
    BY <2>2, <2>3, <2>7
  <2>9. Framed(b, x) /\ x.top = t /\ x.bottom = b.bottom
    BY <2>3, <2>7, <2>8, TopAdded
  <2>4. Framed(b, x) /\ x.top = b.top - 1 /\ x.bottom = b.bottom
    BY <2>7, <2>9
  <2>5. OwnLine(x) = OwnLine(b)
    BY <2>4, FramedFacts
  <2>6. Inside(x) /\ Rows(x) >= height + 1
    BY <1>0, <1>1, <2>4, <2>5 DEF Inside, Rows
  <2> QED BY <1>1, <1>2, <1>4, <2>1, <2>4, <2>6
<1>5. CASE b.where[l] \in {"SAME", "BELLOW"} /\ b.bottom = Len(b.str) /\ c = ScrollOffEdges(b)
  <2>1. l > OwnLine(b)
    <3>1. l < OwnLine(b) => b.where[l] = "ABOVE"
      BY <1>1 DEF Marked, FlagsAt
    <3> QED BY <1>1, <1>5, <3>1
  <2>2. Rows(b) >= height + 1
    BY <1>0, <1>1, <1>5, <2>1 DEF Rows
  <2> QED BY <1>1, <1>2, <1>5, <2>2, FramedRefl
<1>6. CASE b.top = 1 /\ b.bottom = Len(b.str) /\ c = ScrollOffEdges(AddBottom(b))
  <2>1. PICK x : x = AddBottom(b)
    OBVIOUS
  <2>2. Reframed(b, x, b.top, b.bottom + 1, b.bottom + 1, TRUE)
    BY <1>1, <2>1, EdgesReframed
  <2>3. Same(b, x) /\ x.top = 1 /\ x.bottom = Len(b.str) + 1 /\ OwnLine(x) = OwnLine(b)
    BY <1>6, <2>2 DEF Reframed, Same, OwnLine
  <2>4. OffBottom(x) = x
    BY <1>1, <2>3 DEF OffBottom
  <2>5. OffTop(x) = x
    BY <2>3 DEF OffTop, buffer_scroll, CanScrollUp, HasPrev
  <2>6. c = x
    BY <1>6, <2>1, <2>4, <2>5 DEF ScrollOffEdges
  <2> QED BY <1>6, <2>3, <2>6 DEF Escaped
<1>7. \/ b.bottom < Len(b.str) /\ c = ScrollOffEdges(AddBottom(b))
      \/ b.top > 1 /\ c = ScrollOffEdges(AddTop(b))
      \/ b.where[l] \in {"SAME", "BELLOW"} /\ b.bottom = Len(b.str) /\ c = ScrollOffEdges(b)
      \/ b.top = 1 /\ b.bottom = Len(b.str) /\ c = ScrollOffEdges(AddBottom(b))
  <2>1. (HasNext(b, b.bottom) <=> b.bottom < Len(b.str)) /\ (HasPrev(b, b.top) <=> b.top > 1)
    BY DEF HasNext, HasPrev, NumLines
  <2>2. (b.bottom < Len(b.str) \/ b.bottom = Len(b.str)) /\ (b.top > 1 \/ b.top = 1)
    BY <1>1
  <2> QED BY <2>1, <2>2 DEF buffer_extend
<1> QED BY <1>3, <1>4, <1>5, <1>6, <1>7

\* What leaving line l to the others does.
LEMMA LeaveWindowRoom ==
  ASSUME NEW b, Viewed(b), height >= 3, Rows(b) >= height, NEW l \in Nat, 2 <= l,
         l + height - 1 <= Len(b.str), l # OwnLine(b)
  PROVE  LET c == LeaveWindow(b, l) IN Roomy(b, c, l) \/ Escaped(b, c)
<1> DEFINE c == LeaveWindow(b, l)
<1>0. height \in Nat /\ l < Len(b.str)
  BY ConstantsAssumption DEF Viewed, Window
<1>1. /\ DOMAIN b = Fields /\ Window(b) /\ Inside(b) /\ l \in 1 .. Len(b.str)
      /\ Len(b.str) \in Nat /\ b.top \in Nat /\ b.bottom \in Nat /\ OwnLine(b) \in Nat
      /\ 1 <= b.top /\ b.top <= OwnLine(b) /\ OwnLine(b) < b.bottom /\ b.bottom <= Len(b.str)
      /\ (b.on_screen[l] <=> (b.top <= l /\ l <= b.bottom))
  BY <1>0 DEF Viewed, Window, Inside
<1>2. CASE ~b.on_screen[l]
  <2>1. l # b.top /\ l # b.bottom
    <3>1. b.top <= b.bottom
      BY <1>1
    <3>2. ~(b.top <= l /\ l <= b.bottom)
      BY <1>1, <1>2
    <3> QED BY <1>1, <3>1, <3>2
  <2>2. c = b
    BY <1>2, <2>1 DEF LeaveWindow, MakeRoom, LeaveTop, LeaveBottom
  <2> QED BY <1>1, <1>2, <2>1, <2>2, SameRefl DEF Roomy
<1>3. CASE b.on_screen[l]
  <2>1. PICK e : e = buffer_extend(b, l)
    OBVIOUS
  <2>2. c = LeaveBottom(LeaveTop(e, l), l)
    BY <1>3, <2>1 DEF LeaveWindow, MakeRoom
  <2> HIDE DEF c
  <2>3. \/ /\ Framed(b, e) /\ Inside(e) /\ Rows(e) >= height + 1
           /\ (b.top = 1 /\ b.bottom < Len(b.str)
                 => e.top = 1 /\ e.bottom = b.bottom + 1)
        \/ Escaped(b, e) /\ e.top = 1
    BY <1>3, <2>1, ExtendWindow
  <2>4. CASE Escaped(b, e) /\ e.top = 1
    <3>1. l # e.top /\ l # e.bottom
      BY <1>1, <2>4 DEF Escaped
    <3>2. c = e
      BY <2>2, <3>1 DEF LeaveTop, LeaveBottom
    <3> QED BY <2>4, <3>2 DEF c
  <2>5. CASE /\ Framed(b, e) /\ Inside(e) /\ Rows(e) >= height + 1
             /\ (b.top = 1 /\ b.bottom < Len(b.str)
                   => e.top = 1 /\ e.bottom = b.bottom + 1)
    <3>1. DOMAIN e = Fields /\ Window(e) /\ OwnLine(e) = OwnLine(b) /\ Len(e.str) = Len(b.str)
      BY <2>5, FramedFacts
    <3>2. /\ Framed(e, c) /\ Inside(c) /\ l # c.top /\ l # c.bottom /\ Rows(c) >= Rows(e)
          /\ (l # e.top /\ l # e.bottom => c = e)
      BY <1>0, <2>2, <2>5, <3>1, LeaveEdges
    <3>3. Framed(b, c)
      BY <2>5, <3>2, FramedTrans
    <3>4. Rows(c) >= height + 1 /\ Rows(c) >= 3 /\ Rows(c) >= height
      BY SMTT(60), <1>0, <2>5, <3>1, <3>2, <3>3 DEF Rows, Window, Framed
    <3>5. Viewed(c) /\ c.u = b.u /\ Same(b, c)
      BY <3>2, <3>3, <3>4, FramedViews
    <3>6. ASSUME b.top = 1 /\ b.bottom < Len(b.str)
          PROVE  Rows(c) = IF c.on_screen[l] THEN Rows(b) + 1 ELSE Rows(b)
      <4>1. e.top = 1 /\ e.bottom = b.bottom + 1
        BY <2>5, <3>6
      <4>2. c = e
        BY <1>1, <1>3, <3>2, <4>1
      <4>3. e.on_screen[l]
        BY <1>1, <1>3, <3>1, <4>1 DEF Window
      <4> QED BY <1>1, <3>6, <4>1, <4>2, <4>3 DEF Rows
    <3> QED BY <3>2, <3>4, <3>5, <3>6 DEF Roomy, c
  <2> QED BY <2>3, <2>4, <2>5
<1> QED BY <1>2, <1>3

\* The number of rows is an integer.
LEMMA RowsInt ==
  ASSUME NEW b, Viewed(b) PROVE Rows(b) \in Int
  BY DEF Viewed, Window, Rows

\* A line that goes takes the row with it that was made for it, or bottom stays
\* NULL.
LEMMA DeletelWindow ==
  ASSUME NEW b, Viewed(b), height >= 3, Rows(b) >= height, b.str \in Seq(Seq(Chars)),
         NEW l \in Nat, 2 <= l, l + height - 1 <= Len(b.str), l # OwnLine(b), b.last # l
  PROVE  LET c == buffer_deletel(b, l) IN
         \/ /\ Viewed(c) /\ c.u = b.u /\ Rows(c) >= height
            /\ (b.top = 1 /\ b.bottom < Len(b.str) => Rows(c) = Rows(b))
         \/ ~Alive(c) /\ b.bottom = Len(b.str)
<1> DEFINE c == buffer_deletel(b, l)
<1>0. height \in Nat /\ l \in 1 .. Len(b.str) /\ Len(b.str) \in Nat
  <2>1. height \in Nat /\ Len(b.str) \in Nat
    BY ConstantsAssumption DEF Viewed, Window
  <2> QED BY <2>1
<1>1. PICK x, S, z : /\ x = LeaveWindow(b, l) /\ S = { k \in Slots : x.curs[k].line = l }
                     /\ z = MovePeers(x, S, "UP")
  OBVIOUS
<1>2. Roomy(b, x, l) \/ Escaped(b, x)
  BY <1>1, LeaveWindowRoom
<1>3. /\ Same(b, x) /\ DOMAIN x = Fields /\ Own \in DOMAIN x.curs /\ x.str = b.str
      /\ x.last = b.last /\ OwnLine(x) = OwnLine(b)
  BY <1>2 DEF Roomy, Escaped, Same, SameLines, OwnLine, Viewed
<1>4. Kept(x, z) /\ z.str = b.str
  <2>1. Own \notin S
    BY <1>1, AllSlotsNat
  <2>2. Kept(x, z)
    BY <1>1, <1>3, <2>1, MovePeersWindow
  <2>3. SameLines(x, z)
    BY <1>1, <1>3, MovePeersExact
  <2> QED BY <1>3, <2>2, <2>3 DEF SameLines
<1>5. c = line_free(z, l)
  <2>1. LeaveLast(x, l) = x /\ OwnUp(x, l) = x
    BY <1>3 DEF LeaveLast, OwnUp
  <2>2. CursorsUp(x, l) = z
    BY <1>1, <2>1 DEF CursorsUp, PeersUp, HasPrev
  <2> QED BY <1>1, <2>1, <2>2 DEF buffer_deletel
<1> HIDE DEF c
<1>6. CASE Roomy(b, x, l)
  <2>1. /\ Viewed(x) /\ x.u = b.u /\ l # x.top /\ l # x.bottom
        /\ Rows(x) >= height /\ (x.on_screen[l] => Rows(x) >= height + 1)
        /\ (b.top = 1 /\ b.bottom < Len(b.str)
              => Rows(x) = IF x.on_screen[l] THEN Rows(b) + 1 ELSE Rows(b))
    BY <1>6 DEF Roomy
  <2>2. Views(x, z) /\ OwnLine(z) = OwnLine(x) /\ z.on_screen = x.on_screen
        /\ z.top = x.top /\ z.bottom = x.bottom
    BY <1>4, <2>1, KeptViews DEF Kept
  <2>3. /\ DOMAIN z = Fields /\ Own \in DOMAIN z.curs /\ Window(z) /\ Inside(z) /\ Marked(z)
        /\ Rows(z) = Rows(x) /\ z.u = b.u
        /\ z.str \in Seq(Seq(Chars)) /\ l \in 1 .. Len(z.str)
        /\ l # OwnLine(z) /\ l # z.top /\ l # z.bottom
    BY <1>0, <1>3, <1>4, <2>1, <2>2 DEF Views, Viewed
  <2>4. /\ DOMAIN c = Fields /\ Own \in DOMAIN c.curs
        /\ Window(c) /\ Inside(c) /\ Marked(c) /\ c.u = z.u
        /\ Rows(c) = IF z.on_screen[l] THEN Rows(z) - 1 ELSE Rows(z)
    BY <1>5, <2>3, UnlinkedWindow
  <2>5. Rows(x) \in Int /\ Rows(b) \in Int
    BY <2>1, RowsInt
  <2>6. Rows(c) >= height /\ Rows(c) >= 3
    BY SMTT(60), <1>0, <2>1, <2>2, <2>3, <2>4, <2>5
  <2>7. ASSUME b.top = 1 /\ b.bottom < Len(b.str) PROVE Rows(c) = Rows(b)
    BY <2>1, <2>2, <2>3, <2>4, <2>5, <2>7
  <2> QED BY <2>3, <2>4, <2>6, <2>7 DEF Viewed, c
<1>7. CASE Escaped(b, x)
  <2>1. z.bottom = Len(b.str) + 1
    BY <1>4, <1>7 DEF Escaped, Kept
  <2>2. c.bottom = Unshift(Len(b.str) + 1, l) /\ c.str = RemoveAt(b.str, l)
    <3>1. DOMAIN z = Fields
      BY <1>4 DEF Kept
    <3> QED BY <1>4, <1>5, <2>1, <3>1 DEF line_free, Fields
  <2>3. c.bottom = Len(b.str)
    BY <1>0, <2>2 DEF Unshift
  <2>4. Len(c.str) = Len(b.str) - 1
    <3> DEFINE S0 == Seq(Chars)
               t == b.str
    <3>1. t \in Seq(S0) /\ l \in 1 .. Len(t)
      BY <1>0
    <3> HIDE DEF S0, t
    <3>2. Len(RemoveAt(t, l)) = Len(t) - 1
      BY <3>1, RemoveAtProperties
    <3> QED BY <2>2, <3>2 DEF t
  <2>5. ~Alive(c)
    BY <1>0, <2>3, <2>4 DEF Alive, NumLines
  <2> QED BY <1>7, <2>5 DEF Escaped, c
<1> QED BY <1>2, <1>6, <1>7

\* The cursor of the joining slot k goes to the end of the line above.
LEMMA LeftWindow ==
  ASSUME NEW b, Viewed(b), GoodLines(b), GoodCursors(b), NEW k \in AllSlots,
         Foremost(b.curs, k), b.curs[k].id # NULL, b.curs[k].pos = 0, b.curs[k].line # 1
  PROVE  LET c == bcursor_move(b, b.curs[k].id, "LEFT")
             i == b.curs[k].line - 1 IN
         /\ Views(b, c) /\ SameLines(b, c) /\ (k # Own => Kept(b, c))
         /\ c.curs = [b.curs EXCEPT ![k] = MovedTo(b.curs[k], i, Len(b.str[i]))]
<1>1. PICK i, m : i = b.curs[k].line - 1 /\ m = cursor_move(b, b.curs[k], "LEFT")
  OBVIOUS
<1>2. /\ GoodCursor(b, b.curs[Own]) /\ DOMAIN b = Fields /\ IdsOfSlots(b.curs)
      /\ b.curs[k].line \in 1 .. b.last /\ b.last \in Nat /\ b.curs[k].pos \in Int /\ b.first = 1
  <2>1. b.curs[k].line \in 1 .. b.last
    BY CursorFacts
  <2>2. GoodCursor(b, b.curs[Own]) /\ IdsOfSlots(b.curs)
    BY SlotTypes DEF GoodCursors
  <2>3. DOMAIN b = Fields /\ b.last \in Nat /\ b.first = 1
    BY DEF GoodLines
  <2>4. b.curs[k].pos \in Int
    OBVIOUS
  <2> QED BY <2>1, <2>2, <2>3, <2>4
<1>3. m = MovedTo(b.curs[k], i, Len(b.str[i]))
  <2>1. CanUp(b, b.curs[k])
    BY <1>2 DEF CanUp, HasPrev
  <2> QED BY <1>1, <1>2, <2>1, MoveLeft DEF LineLen
<1>4. PICK c : c = bcursor_move(b, b.curs[k].id, "LEFT")
  OBVIOUS
<1>5. SameLines(b, c) /\ c.curs = [b.curs EXCEPT ![k] = m]
  <2>1. LET e == bcursor_move(b, b.curs[k].id, "LEFT") IN
        SameLines(b, e) /\ e.curs = [b.curs EXCEPT ![k] = cursor_move(b, b.curs[k], "LEFT")]
    BY <1>2, MoveOneExact
  <2> QED BY <1>1, <1>4, <2>1
<1>6. bcursor_find(b, b.curs[k].id) = k
  BY <1>2, FindIs
<1>7. Views(b, c) /\ (k # Own => Kept(b, c))
  <2>1. CASE k = Own
    <3>1. bcursor_move(b, b.curs[k].id, "LEFT") = MoveOwn(b, "LEFT")
      BY <1>6, <2>1 DEF bcursor_move
    <3>2. Views(b, MoveOwn(b, "LEFT"))
      BY <1>2, MoveSoundWindow
    <3> QED BY <1>4, <2>1, <3>1, <3>2
  <2>2. CASE k # Own
    <3>1. bcursor_move(b, b.curs[k].id, "LEFT") = MovePeers(b, {k}, "LEFT")
      BY <1>6, <2>2 DEF bcursor_move
    <3>2. Kept(b, MovePeers(b, {k}, "LEFT"))
      BY <2>2, MovePeersWindow DEF Viewed
    <3>3. Kept(b, c)
      BY <1>4, <3>1, <3>2
    <3> QED BY <3>3, KeptViews
  <2> QED BY <2>1, <2>2
<1> QED BY <1>1, <1>3, <1>4, <1>5, <1>7

\* The own cursor leaves the line that goes, unless it is not on it.
LEMMA OwnJoinsWindow ==
  ASSUME NEW b, Viewed(b), b.first = 1, NEW k, NEW h \in Nat, h >= 2, NEW d,
         k = Own => OwnLine(b) # h
  PROVE  LET c == OwnJoins(b, k, h, d) IN
         /\ Views(b, c) /\ SameLines(b, c) /\ OwnLine(c) # h
         /\ (OwnLine(b) # h => c = b)
<1>1. PICK c : c = OwnJoins(b, k, h, d)
  OBVIOUS
<1>2. CASE OwnLine(b) # h
  <2>1. c = b
    BY <1>1, <1>2 DEF OwnJoins
  <2> QED BY <1>1, <1>2, <2>1 DEF Views, SameLines, Viewed
<1>3. CASE OwnLine(b) = h
  <2>1. PICK x : x = MoveOwn(b, "UP")
    OBVIOUS
  <2>2. c = AddPos(x, {Own}, d)
    BY <1>1, <1>3, <2>1 DEF OwnJoins
  <2>3. Views(b, x) /\ SameLines(b, x)
        /\ OwnLine(x) = IF CanUp(b, b.curs[Own]) THEN OwnLine(b) - 1 ELSE OwnLine(b)
    <3>1. /\ Views(b, MoveOwn(b, "UP")) /\ SameLines(b, MoveOwn(b, "UP"))
          /\ OwnLine(MoveOwn(b, "UP")) =
               IF CanUp(b, b.curs[Own]) THEN OwnLine(b) - 1 ELSE OwnLine(b)
      BY MoveUpWindow
    <3> QED BY <2>1, <3>1
  <2>4. CanUp(b, b.curs[Own])
    BY <1>3 DEF CanUp, HasPrev, OwnLine
  <2>5. DOMAIN x = Fields /\ Own \in DOMAIN x.curs /\ Viewed(x)
    BY <2>3 DEF Views, Viewed
  <2>6. Kept(x, c) /\ SameLines(x, c)
    BY <2>2, <2>5, AddPosWindow, AddPosExact
  <2>7. OwnLine(c) # h
    BY <1>3, <2>3, <2>4, <2>6 DEF Kept
  <2>8. Views(b, c)
    BY <2>3, <2>5, <2>6, KeptViews, ViewsTrans
  <2>9. SameLines(b, c)
    BY <2>3, <2>6 DEF SameLines
  <2> QED BY <1>1, <1>3, <2>7, <2>8, <2>9
<1> QED BY <1>2, <1>3

\* Nor do the peers move the window that do so.
LEMMA PeersJoinWindow ==
  ASSUME NEW b, DOMAIN b = Fields, Own \in DOMAIN b.curs, NEW k, NEW h, NEW d
  PROVE  LET c == PeersJoin(b, k, h, d) IN Kept(b, c) /\ SameLines(b, c)
<1>1. PICK P, x, c : /\ P = { j \in Slots \ {k} : b.curs[j] # NoCursor /\ b.curs[j].line = h }
                     /\ x = MovePeers(b, P, "UP") /\ c = AddPos(x, P, d)
  OBVIOUS
<1>2. Own \notin P
  BY <1>1, AllSlotsNat
<1>3. Kept(b, x) /\ SameLines(b, x)
  BY <1>1, <1>2, MovePeersWindow, MovePeersExact
<1>4. DOMAIN x = Fields /\ Own \in DOMAIN x.curs
  BY <1>3 DEF Kept
<1>5. Kept(x, c) /\ SameLines(x, c)
  BY <1>1, <1>4, AddPosWindow, AddPosExact
<1>6. Kept(b, c)
  BY <1>3, <1>5, KeptTrans
<1>7. SameLines(b, c)
  BY <1>3, <1>5 DEF SameLines
<1>8. PeersJoin(b, k, h, d) = c
  BY <1>1 DEF PeersJoin
<1> QED BY <1>6, <1>7, <1>8

\* A line joined to the one above leaves a window of as many rows as the screen
\* has, or no bottom.  With the own cursor on the first line, and staying there,
\* the window stays as it is.
LEMMA JoinLinesWindow ==
  ASSUME NEW b, Viewed(b), Sound(b), height >= 3, Rows(b) >= height,
         NEW k \in AllSlots, Foremost(b.curs, k), b.curs[k].id # NULL,
         b.curs[k].pos = 0, b.curs[k].line # 1
  PROVE  LET c == JoinLines(b, k) IN
         \/ /\ Viewed(c) /\ c.u = b.u /\ Rows(c) >= height
            /\ (k # Own /\ OwnLine(b) = 1 /\ b.bottom < Len(b.str) => Rows(c) = Rows(b))
         \/ ~Alive(c) /\ (k # Own /\ OwnLine(b) = 1 => b.bottom = Len(b.str))
<1>1. PICK h, i, w, p : /\ h = b.curs[k].line /\ i = h - 1 /\ w = Len(b.str[i])
                        /\ p = b.str[i] \o b.str[h]
  OBVIOUS
<1>2. /\ GoodLines(b) /\ GoodCursors(b) /\ DOMAIN b = Fields /\ DOMAIN b.curs = AllSlots
      /\ Own \in AllSlots /\ b.first = 1 /\ b.last \in Nat /\ b.str \in Seq(Seq(Chars))
      /\ height \in Nat /\ Len(b.str) = b.last + height - 1 /\ Len(b.str) \in Nat
      /\ h \in 1 .. b.last /\ h \in Nat /\ h # 1
  <2>1. GoodLines(b) /\ GoodCursors(b)
    BY DEF Sound
  <2>2. /\ DOMAIN b = Fields /\ DOMAIN b.curs = AllSlots /\ Own \in AllSlots
        /\ b.first = 1 /\ b.last \in Nat /\ b.str \in Seq(Seq(Chars))
        /\ Len(b.str) = b.last + height - 1
    BY <2>1, AllSlotsNat DEF GoodLines, GoodCursors, IdsOfSlots
  <2>3. height \in Nat /\ Len(b.str) \in Nat
    BY <2>1, LengthTypes
  <2>4. h \in 1 .. b.last /\ h \in Nat /\ h # 1
    BY <1>1, <2>1, CursorFacts
  <2> QED BY <2>1, <2>2, <2>3, <2>4
<1>3. /\ 2 <= h /\ i \in Nat /\ i # h /\ i \in 1 .. Len(b.str) /\ h \in 1 .. Len(b.str)
      /\ h + height - 1 <= Len(b.str)
  <2>1. PICK n, m : n = Len(b.str) /\ m = b.last
    OBVIOUS
  <2>2. /\ height \in Nat /\ height >= 3 /\ m \in Nat /\ n \in Nat /\ n = m + height - 1
        /\ h \in Nat /\ 1 <= h /\ h # 1 /\ h <= m /\ i = h - 1
    <3>1. height \in Nat /\ height >= 3 /\ m \in Nat /\ n \in Nat /\ n = m + height - 1
      BY <1>2, <2>1
    <3>2. h \in 1 .. m /\ h \in Nat /\ h # 1 /\ i = h - 1
      BY <1>1, <1>2, <2>1
    <3>3. 1 <= h /\ h <= m
      BY <3>1, <3>2
    <3> QED BY <3>1, <3>2, <3>3
  <2>3. 2 <= h /\ i \in Nat /\ i # h /\ 1 <= i /\ i <= n /\ h <= n /\ h + height - 1 <= n
    BY <2>2
  <2> QED BY <2>1, <2>2, <2>3
<1>4. PICK x : x = [b EXCEPT !.num_lines = @ - 1]
  OBVIOUS
<1>5. /\ Kept(b, x) /\ x.str = b.str /\ x.curs = b.curs /\ x.last = b.last /\ x.first = 1
      /\ GoodLines(x) /\ GoodCursors(x)
  <2>1. Kept(b, x)
    BY <1>2, <1>4, EndsKept
  <2>2. x.str = b.str /\ x.curs = b.curs /\ x.last = b.last /\ x.lid = b.lid
        /\ x.line_id_cnt = b.line_id_cnt /\ x.first = b.first /\ DOMAIN x = Fields
    BY <1>2, <1>4 DEF Fields
  <2>3. GoodLines(x)
    <3>1. GoodLines(b)
      BY <1>2
    <3> QED BY <2>2, <3>1 DEF GoodLines
  <2>4. GoodCursors(x)
    BY <1>2, <2>2 DEF GoodCursors, GoodCursor, Fits
  <2> QED BY <1>2, <2>1, <2>2, <2>3, <2>4
<1>6. Views(b, x) /\ Viewed(x)
  BY <1>5, KeptViews DEF Views
<1>7. PICK y : y = bcursor_move(x, b.curs[k].id, "LEFT")
  OBVIOUS
<1>8. /\ Views(x, y) /\ SameLines(x, y) /\ (k # Own => Kept(x, y))
      /\ y.curs = [b.curs EXCEPT ![k] = MovedTo(b.curs[k], i, w)]
  <2>1. x.curs[k] = b.curs[k] /\ x.curs[k].id # NULL /\ x.curs[k].pos = 0 /\ x.curs[k].line # 1
        /\ Foremost(x.curs, k)
    BY <1>5
  <2>2. LET e == bcursor_move(x, x.curs[k].id, "LEFT")
            j == x.curs[k].line - 1 IN
        /\ Views(x, e) /\ SameLines(x, e) /\ (k # Own => Kept(x, e))
        /\ e.curs = [x.curs EXCEPT ![k] = MovedTo(x.curs[k], j, Len(x.str[j]))]
    BY <1>5, <1>6, <2>1, LeftWindow
  <2> QED BY <1>1, <1>5, <1>7, <2>2
<1>9. y.curs[k].line = i /\ y.curs[k].line + 1 = h /\ DOMAIN y = Fields
      /\ Own \in DOMAIN y.curs /\ y.str = b.str /\ y.last = b.last /\ y.first = 1
  <2>1. y.curs[k].line = i
    BY <1>2, <1>8 DEF MovedTo
  <2>2. i + 1 = h
    <3>1. h \in Nat /\ i = h - 1
      BY <1>1, <1>2
    <3> QED BY <3>1
  <2> QED BY <1>5, <1>8, <2>1, <2>2 DEF Views, Viewed, SameLines
<1>10. PICK e, t, z : /\ e = (IF h = b.last THEN i ELSE b.last) /\ t = [b.str EXCEPT ![i] = p]
                      /\ z = [y EXCEPT !.last = e, !.str = t]
  OBVIOUS
<1>11. /\ t \in Seq(Seq(Chars)) /\ Len(t) = Len(b.str)
  <2>1. b.str[i] \in Seq(Chars) /\ b.str[h] \in Seq(Chars)
    BY <1>2, <1>3, LengthTypes
  <2>2. p \in Seq(Chars)
    BY <1>1, <2>1, ConcatProperties
  <2> QED BY <1>2, <1>3, <1>10, <2>2, ExceptSeq
<1>12. /\ Kept(y, z) /\ z.curs = y.curs /\ z.str = t /\ z.last = e /\ z.first = 1
       /\ DOMAIN z = Fields
  BY <1>9, <1>10, <1>11 DEF Kept, Fields, OwnLine
<1>13. Views(b, z) /\ Viewed(z) /\ (k # Own => Kept(b, z))
  <2>1. Views(y, z)
    BY <1>8, <1>12, KeptViews DEF Views
  <2>2. Views(b, z)
    BY <1>6, <1>8, <2>1, ViewsTrans
  <2>3. k # Own => Kept(b, z)
    BY <1>5, <1>8, <1>12, KeptTrans
  <2> QED BY <2>2, <2>3 DEF Views
<1>14. k = Own => OwnLine(z) # h
  BY <1>3, <1>9, <1>12 DEF OwnLine
<1>15. PICK q, r : q = OwnJoins(z, k, h, w) /\ r = PeersJoin(q, k, h, w)
  OBVIOUS
<1>16. /\ Views(z, q) /\ SameLines(z, q) /\ OwnLine(q) # h
       /\ (OwnLine(z) # h => q = z)
  <2>1. Viewed(z) /\ h \in Nat /\ h >= 2
    BY <1>2, <1>3, <1>13
  <2>2. z.first = 1
    BY <1>2, <1>12
  <2>3. k = Own => OwnLine(z) # h
    BY <1>14
  <2> QED BY <1>15, <2>1, <2>2, <2>3, OwnJoinsWindow
<1>17. Kept(q, r) /\ SameLines(q, r)
  BY <1>15, <1>16, PeersJoinWindow DEF Views, Viewed
<1>18. /\ Views(b, r) /\ Viewed(r) /\ OwnLine(r) # h /\ r.str = t /\ r.last = e
  <2>1. Views(q, r) /\ OwnLine(r) = OwnLine(q)
    BY <1>16, <1>17, KeptViews DEF Views, Kept
  <2>2. Views(b, r)
    BY <1>13, <1>16, <2>1, ViewsTrans
  <2> QED BY <1>12, <1>16, <1>17, <2>1, <2>2 DEF Views, SameLines
<1>19. ASSUME k # Own /\ OwnLine(b) = 1
       PROVE  r.bottom = b.bottom /\ r.top = 1 /\ Len(r.str) = Len(b.str)
  <2>1. OwnLine(z) = 1
    BY <1>13, <1>19 DEF Kept
  <2>2. q = z
    BY <1>2, <1>16, <2>1
  <2>3. Kept(b, r)
    BY <1>13, <1>17, <1>19, <2>2, KeptTrans
  <2>4. b.top = 1
    BY <1>19 DEF Viewed, Window
  <2> QED BY <2>3, <2>4 DEF Kept
<1>20. PICK c : c = buffer_deletel(r, h)
  OBVIOUS
<1>21. \/ /\ Viewed(c) /\ c.u = r.u /\ Rows(c) >= height
          /\ (r.top = 1 /\ r.bottom < Len(r.str) => Rows(c) = Rows(r))
       \/ ~Alive(c) /\ r.bottom = Len(r.str)
  <2>1. e # h /\ Rows(r) = Rows(b)
    BY <1>2, <1>3, <1>10, <1>18 DEF Views
  <2>2. /\ Viewed(r) /\ Rows(r) >= height /\ r.str \in Seq(Seq(Chars))
        /\ h + height - 1 <= Len(r.str) /\ h # OwnLine(r) /\ r.last # h
    BY <1>3, <1>11, <1>18, <2>1
  <2> QED BY <1>2, <1>3, <1>20, <2>2, DeletelWindow
<1>22. c = JoinLines(b, k)
  <2>1. y.curs[k].pos = w /\ b.last = y.last
    BY <1>2, <1>8, <1>9 DEF MovedTo
  <2>2. z = [y EXCEPT !.last = IF y.curs[k].line + 1 = @ THEN y.curs[k].line ELSE @,
                      !.str[y.curs[k].line] = @ \o y.str[y.curs[k].line + 1]]
    BY <1>1, <1>9, <1>10
  <2>3. c = JoinNext(y, k)
    BY <1>9, <1>15, <1>20, <2>1, <2>2 DEF JoinNext
  <2> QED BY <1>4, <1>5, <1>7, <2>3 DEF JoinLines
<1> QED BY <1>18, <1>19, <1>21, <1>22 DEF Views

\* Whatever is deleted, the window stays one of as many rows as the screen has, or
\* bottom is NULL, which a delete of a peer does not bring about as long as the
\* window starts with the own cursor on the first line and ends within the chain.
LEMMA DeleteWindow ==
  ASSUME NEW b, Viewed(b), Sound(b), height >= 3, Rows(b) >= height, NEW id \in Nat,
         HasCursor(b, id)
  PROVE  LET c == bcursor_del(b, id) IN
         \/ /\ Viewed(c) /\ c.u = b.u /\ Rows(c) >= height
            /\ (id # Own /\ OwnLine(b) = 1 /\ b.bottom < Len(b.str) => Rows(c) = Rows(b))
            /\ (id = Own => c = b \/ Updated(c))
         \/ ~Alive(c) /\ (id # Own /\ OwnLine(b) = 1 => b.bottom = Len(b.str))
<1>1. PICK k, seen : k = bcursor_find(b, id) /\ seen = b.on_screen[b.curs[k].line]
  OBVIOUS
<1>2. k \in AllSlots /\ b.curs[k].id = id /\ id # NULL /\ (id = Own <=> k = Own)
      /\ Foremost(b.curs, k)
  <2>1. k \in AllSlots /\ b.curs[k].id = id /\ Foremost(b.curs, k)
    BY <1>1, FindSpec DEF HasCursor
  <2>2. id = Own => k = Own
    BY <1>1, OwnFacts
  <2>3. b.curs[Own].id = Own
    BY OwnFacts, SoundFacts
  <2> QED BY <2>1, <2>2, <2>3 DEF NULL
<1>3. /\ DOMAIN b = Fields /\ DOMAIN b.curs = AllSlots /\ Own \in AllSlots
      /\ b.str \in Seq(Seq(Chars)) /\ b.curs[k].pos \in Nat /\ b.first = 1
  BY <1>2, SoundFacts
<1>4. PICK c : c = bcursor_del(b, id)
  OBVIOUS
<1>5. CASE b.curs[k].pos = 0 /\ b.curs[k].line = b.first
  <2>1. c = b
    BY <1>1, <1>4, <1>5 DEF bcursor_del
  <2> QED BY <1>4, <2>1
<1>6. CASE ~(b.curs[k].pos = 0 /\ b.curs[k].line = b.first)
  <2>1. PICK z : z = IF b.curs[k].pos > 0 THEN DelChar(b, k) ELSE JoinLines(b, k)
    OBVIOUS
  <2>2. PICK s : s = (seen \/ z.on_screen[z.curs[k].line]) /\ c = PaintIf(s, z)
    BY <1>1, <1>4, <1>6, <2>1 DEF bcursor_del, PaintCursor
  <2>3. k = Own => s
    <3>1. k = Own => b.on_screen[b.curs[k].line]
      BY NextShown DEF OwnLine
    <3> QED BY <1>1, <2>2, <3>1
  <2>4. /\ DOMAIN z = Fields /\ Own \in DOMAIN z.curs
        /\ \/ /\ Viewed(z) /\ z.u = b.u /\ Rows(z) >= height
              /\ (k # Own /\ OwnLine(b) = 1 /\ b.bottom < Len(b.str) => Rows(z) = Rows(b))
           \/ ~Alive(z) /\ (k # Own /\ OwnLine(b) = 1 => b.bottom = Len(b.str))
    <3>1. CASE b.curs[k].pos > 0
      <4>1. Kept(b, DelChar(b, k))
        BY <1>2, <1>3, DelCharWindow
      <4>2. Kept(b, z)
        BY <2>1, <3>1, <4>1
      <4>3. Views(b, z)
        BY <4>2, KeptViews
      <4> QED BY <4>3 DEF Views, Viewed
    <3>2. CASE ~(b.curs[k].pos > 0)
      <4>1. b.curs[k].pos = 0
        BY <1>3, <3>2
      <4>2. b.curs[k].line # 1 /\ z = JoinLines(b, k)
        BY <1>3, <1>6, <2>1, <3>2, <4>1
      <4>3. Sound(z)
        BY <1>2, <4>1, <4>2, JoinLinesSound
      <4>4. DOMAIN z = Fields /\ Own \in DOMAIN z.curs
        BY <4>3, AllSlotsNat DEF Sound, GoodLines, GoodCursors, IdsOfSlots
      <4>5. \/ /\ Viewed(z) /\ z.u = b.u /\ Rows(z) >= height
               /\ (k # Own /\ OwnLine(b) = 1 /\ b.bottom < Len(b.str) => Rows(z) = Rows(b))
            \/ ~Alive(z) /\ (k # Own /\ OwnLine(b) = 1 => b.bottom = Len(b.str))
        BY <1>2, <4>1, <4>2, JoinLinesWindow
      <4> QED BY <4>4, <4>5
    <3> QED BY <3>1, <3>2
  <2>5. Kept(z, c) /\ (s => Updated(c))
    <3>1. Kept(z, PaintIf(s, z))
      BY <2>4, PaintKept
    <3>2. s => c = ui_update(z)
      BY <2>2 DEF PaintIf
    <3> QED BY <2>2, <2>4, <3>1, <3>2 DEF Updated
  <2>6. CASE Viewed(z)
    <3>1. Views(z, c)
      BY <2>5, <2>6, KeptViews
    <3>2. Alive(z)
      BY <2>6 DEF Viewed, Window, Alive, NumLines
    <3> QED BY <1>2, <1>4, <2>3, <2>4, <2>5, <3>1, <3>2 DEF Views
  <2>7. CASE ~Viewed(z)
    <3>1. ~Alive(z) /\ (k # Own /\ OwnLine(b) = 1 => b.bottom = Len(b.str))
      BY <2>4, <2>7
    <3>2. ~Alive(c)
      BY <2>5, <3>1 DEF Kept, Alive, NumLines
    <3> QED BY <1>2, <1>4, <3>1, <3>2
  <2> QED BY <2>6, <2>7
<1> QED BY <1>5, <1>6

-----------------------------------------------------------------------------
(***************************************************************************)
(* Where buffers come from.                                                *)
(***************************************************************************)

\* The pass over the chain that sets the flags of lines finds the own cursor on
\* the first line, where the window starts.
LEMMA BinitWindow ==
  ASSUME NEW b, DOMAIN b = Fields, Own \in DOMAIN b.curs, Len(b.str) \in Nat, b.first = 1,
         OwnLine(b) = 1, b.top = 1, b.bottom \in Nat, b.bottom >= 3, b.bottom <= Len(b.str)
  PROVE  LET c == binit_onscreen_info(b) IN
         Viewed(c) /\ Same(b, c) /\ c.u = b.u /\ c.top = 1 /\ c.bottom = b.bottom
<1> DEFINE n == Len(b.str)
           f == [l \in 1 .. n |-> b.top <= l /\ ~(b.top < b.bottom /\ b.bottom < l)]
           g == [l \in 1 .. n |->
                   CASE OwnLine(b) = b.first \/ OwnLine(b) = l -> "SAME"
                     [] OwnLine(b) # b.first /\ l < OwnLine(b) -> "ABOVE"
                     [] OwnLine(b) # b.first /\ l > OwnLine(b) -> "BELLOW"]
<1>1. PICK c : c = binit_onscreen_info(b)
  OBVIOUS
<1>2. c = [b EXCEPT !.on_screen = << >> \o f, !.where = << >> \o g]
  BY <1>1 DEF binit_onscreen_info, Column, NumLines
<1>3. f \in [1 .. n -> BOOLEAN] /\ \A l \in 1 .. n : f[l] <=> (1 <= l /\ l <= b.bottom)
  <2>1. f \in [1 .. n -> BOOLEAN]
    OBVIOUS
  <2>2. ASSUME NEW l \in 1 .. n PROVE f[l] <=> (1 <= l /\ l <= b.bottom)
    <3>1. f[l] <=> (b.top <= l /\ ~(b.top < b.bottom /\ b.bottom < l))
      OBVIOUS
    <3> HIDE DEF f
    <3>2. (1 <= l /\ ~(1 < b.bottom /\ b.bottom < l)) <=> (1 <= l /\ l <= b.bottom)
      OBVIOUS
    <3> QED BY <3>1, <3>2
  <2> QED BY <2>1, <2>2
<1>4. g \in [1 .. n -> CRP] /\ \A l \in 1 .. n : g[l] = "SAME"
  <2>1. g = [l \in 1 .. n |-> "SAME"]
    OBVIOUS
  <2> QED BY <2>1 DEF CRP
<1> HIDE DEF f, g
<1>5. << >> \o f = f /\ << >> \o g = g
  BY <1>3, <1>4, ColumnSeq
<1>6. /\ Same(b, c) /\ c.u = b.u /\ c.top = 1 /\ c.bottom = b.bottom
      /\ c.on_screen = f /\ c.where = g
  <2>1. Same(b, c)
    BY <1>1, BinitSame
  <2>2. c = [b EXCEPT !.on_screen = f, !.where = g]
    BY <1>2, <1>5
  <2>3. c.u = b.u /\ c.top = 1 /\ c.bottom = b.bottom /\ c.on_screen = f /\ c.where = g
    BY <2>2 DEF Fields
  <2> QED BY <2>1, <2>3
<1>7. /\ DOMAIN c = Fields /\ Own \in DOMAIN c.curs /\ OwnLine(c) = 1 /\ c.str = b.str
  BY <1>6 DEF Same, SameLines, OwnLine
<1>8. Window(c) /\ Inside(c) /\ Rows(c) >= 3
  BY <1>3, <1>6, <1>7 DEF Window, Inside, Rows
<1>9. Marked(c)
  BY <1>4, <1>6, <1>7 DEF Marked, FlagsAt
<1> QED BY <1>1, <1>6, <1>7, <1>8, <1>9 DEF Viewed

\* The buffer a worker starts from shows all its lines.
LEMMA BlankWindow ==
  ASSUME height >= 3
  PROVE  Viewed(BlankBuffer) /\ Rows(BlankBuffer) = height
<1>1. PICK d : d = [ lid |-> Column(height, LAMBDA l : l - 1), line_id_cnt |-> height,
      str |-> Column(height, LAMBDA l : << >>), num_lines |-> height,
      on_screen |-> << >>, where |-> << >>,
      first |-> 1, last |-> 1, top |-> 1, bottom |-> height,
      curs |-> [k \in {Own} \cup Slots |->
                  IF k = Own THEN [id |-> Own, line |-> 1, pos |-> 0] ELSE NoCursor],
      u |-> FALSE, server_mode |-> FALSE, screen |-> NoScreen ]
  OBVIOUS
<1>2. BlankBuffer = binit_onscreen_info(d)
  BY <1>1 DEF BlankBuffer
<1>3. DOMAIN d = Fields /\ d.first = 1 /\ d.top = 1 /\ d.bottom = height
  BY <1>1 DEF Fields
<1>4. d.curs[Own].line = 1 /\ Own \in DOMAIN d.curs
  BY <1>1
<1>5. Same(d, BlankBuffer)
  BY <1>2, <1>3, BinitSame
<1>6. Len(d.str) = height /\ height \in Nat
  <2>1. BlankBuffer.str = d.str /\ GoodLines(BlankBuffer) /\ BlankBuffer.last = 1
    BY <1>5, BlankSound DEF Same, SameLines, Sound
  <2>2. Len(BlankBuffer.str) = 1 + height - 1 /\ height \in Nat
    BY <2>1, ConstantsAssumption DEF GoodLines
  <2> QED BY <2>1, <2>2
<1>7. /\ Viewed(BlankBuffer) /\ BlankBuffer.top = 1 /\ BlankBuffer.bottom = height
  <2>1. PICK c : c = binit_onscreen_info(d)
    OBVIOUS
  <2>2. Viewed(c) /\ c.top = 1 /\ c.bottom = d.bottom
    BY <1>3, <1>4, <1>6, <2>1, BinitWindow DEF OwnLine
  <2> QED BY <1>2, <1>3, <2>1, <2>2
<1> QED BY <1>6, <1>7 DEF Rows

\* A line is found by its id, wherever the text ends that is searched.
LEMMA FindAnyLine ==
  ASSUME NEW b, GoodLines(b), NEW c, c.lid = b.lid, c.first = 1, NEW n \in 1 .. Len(b.str),
         c.last = n, NEW l \in 1 .. n
  PROVE  bline_find(c, b.lid[l]) = l
<1> DEFINE found == { m \in 1 .. n : b.lid[m] = b.lid[l] }
<1>1. bline_find(c, b.lid[l]) =
        IF found = {} THEN 0 ELSE CHOOSE x \in found : \A m \in found : m <= x
  BY DEF bline_find
<1>2. found = {l}
  <2>1. Len(b.str) \in Nat /\ \A i, j \in 1 .. Len(b.str) : b.lid[i] = b.lid[j] => i = j
    BY LengthTypes DEF GoodLines
  <2>2. \A m \in 1 .. n : m \in 1 .. Len(b.str)
    BY <2>1
  <2> QED BY <2>1, <2>2
<1> HIDE DEF found
<1>3. l <= l
  OBVIOUS
<1>4. (CHOOSE x \in found : \A m \in found : m <= x) = l
  BY <1>2, <1>3
<1> QED BY <1>1, <1>2, <1>4

\* The editor that opens a document sees the lines that its worker had in its
\* window, the first line at the top.
LEMMA DeserializeWindow ==
  ASSUME NEW b, Viewed(b), Sound(b), OwnLine(b) = 1
  PROVE  LET c == buffer_deserialize(buffer_serialize(b)) IN
         Viewed(c) /\ Rows(c) = Rows(b) /\ c.u = TRUE
<1>1. PICK s : s = buffer_serialize(b)
  OBVIOUS
<1>2. /\ GoodLines(b) /\ DOMAIN b = Fields /\ DOMAIN b.curs = AllSlots /\ Own \in AllSlots
      /\ b.first = 1 /\ b.last \in 1 .. Len(b.str) /\ Len(b.str) \in Nat
      /\ b.curs[Own] \in Cursor
  <2>1. GoodLines(b) /\ GoodCursor(b, b.curs[Own]) /\ DOMAIN b.curs = AllSlots
    BY SlotTypes DEF Sound, GoodCursors, IdsOfSlots
  <2> QED BY <2>1, LengthTypes, AllSlotsNat DEF GoodLines, GoodCursor
<1>3. /\ DOMAIN s = Fields /\ s.str = b.str /\ s.lid = b.lid /\ s.first = 1 /\ s.last = b.last
      /\ s.curs = b.curs /\ s.top = b.top /\ s.bottom = b.bottom
  BY <1>1, <1>2 DEF buffer_serialize, Fields
<1>4. b.top = 1 /\ b.bottom \in Nat /\ b.bottom >= 3 /\ b.bottom <= Len(b.str) /\ Rows(b) = b.bottom
  BY DEF Viewed, Window, Rows
<1> DEFINE all     == [s EXCEPT !.last = NumLines(s)]
           l1      == [s EXCEPT !.last = bline_find(all, s.lid[s.last]),
                                !.bottom = bline_find(all, s.lid[s.bottom])]
           Find(l) == bline_find(l1, s.lid[l])
           Peer(k) == { j \in SerializedPeers(s) : Rank(s, j) = k }
           Copy(k) == [s.curs[k] EXCEPT !.line = Find(@)]
           cs == [k \in AllSlots |->
                    IF k = Own THEN Copy(Own)
                    ELSE IF Peer(k) = {} THEN NoCursor ELSE Copy(CHOOSE j \in Peer(k) : TRUE)]
           d  == [l1 EXCEPT !.top = Find(@), !.curs = cs, !.u = TRUE, !.server_mode = FALSE]
<1>5. bline_find(all, s.lid[s.last]) = b.last /\ bline_find(all, s.lid[s.bottom]) = b.bottom
  <2>1. all.lid = b.lid /\ all.first = 1 /\ all.last = Len(b.str)
    BY <1>3 DEF Fields, NumLines
  <2> HIDE DEF all
  <2>2. Len(b.str) \in 1 .. Len(b.str) /\ b.last \in 1 .. Len(b.str) /\ b.bottom \in 1 .. Len(b.str)
    BY <1>2, <1>4
  <2>3. PICK n \in 1 .. Len(b.str) : n = Len(b.str)
    BY <2>2
  <2>4. bline_find(all, b.lid[b.last]) = b.last
    BY <1>2, <2>1, <2>2, <2>3, FindAnyLine
  <2>5. bline_find(all, b.lid[b.bottom]) = b.bottom
    BY <1>2, <2>1, <2>2, <2>3, FindAnyLine
  <2> QED BY <1>3, <2>4, <2>5
<1> HIDE DEF all
<1>6. /\ DOMAIN l1 = Fields /\ l1.str = b.str /\ l1.lid = b.lid /\ l1.first = 1
      /\ l1.last = b.last /\ l1.bottom = b.bottom /\ l1.top = 1 /\ l1.curs = b.curs
  BY <1>3, <1>4, <1>5 DEF Fields
<1> HIDE DEF l1
<1>7. Find(1) = 1
  <2>1. 1 \in 1 .. b.last
    BY <1>2
  <2>2. bline_find(l1, b.lid[1]) = 1
    BY <1>2, <1>6, <2>1, FindAnyLine
  <2> QED BY <1>3, <2>2
<1> HIDE DEF Find
<1>8. cs[Own].line = 1 /\ Own \in DOMAIN cs
  <2>1. cs[Own] = [b.curs[Own] EXCEPT !.line = Find(b.curs[Own].line)]
    BY <1>2, <1>3
  <2>2. b.curs[Own].line = 1
    BY DEF OwnLine
  <2> QED BY <1>2, <1>7, <2>1, <2>2 DEF Cursor
<1> HIDE DEF cs, Copy, Peer
<1>9. /\ DOMAIN d = Fields /\ d.str = b.str /\ d.first = 1 /\ d.top = 1 /\ d.bottom = b.bottom
      /\ d.curs = cs /\ d.u = TRUE
  BY <1>6, <1>7 DEF Fields
<1>10. buffer_deserialize(s) = ui_update(binit_onscreen_info(d))
  <2>1. DOMAIN l1.curs = AllSlots
    BY <1>2, <1>6
  <2> QED BY <2>1 DEF buffer_deserialize, all, l1, cs, Copy, Find, Peer
<1> HIDE DEF d
<1>11. PICK e : e = binit_onscreen_info(d)
  OBVIOUS
<1>12. Viewed(e) /\ e.u = TRUE /\ e.top = 1 /\ e.bottom = b.bottom
  BY <1>2, <1>4, <1>8, <1>9, <1>11, BinitWindow DEF OwnLine
<1>13. Rows(e) = Rows(b)
  BY <1>4, <1>12 DEF Rows
<1>14. Views(e, ui_update(e))
  <2>1. Kept(e, ui_update(e))
    BY <1>12, PaintKept DEF Viewed
  <2> QED BY <1>12, <2>1, KeptViews
<1> QED BY <1>1, <1>10, <1>11, <1>12, <1>13, <1>14 DEF Views

\* Nobody can join lines where there is one.
LEMMA OneLineDelete ==
  ASSUME NEW b, Viewed(b), Sound(b), b.last = 1, NEW id \in Nat, HasCursor(b, id)
  PROVE  Views(b, bcursor_del(b, id))
<1>1. PICK k, c : k = bcursor_find(b, id) /\ c = bcursor_del(b, id)
  OBVIOUS
<1>2. k \in AllSlots /\ b.curs[k].id # NULL
  BY <1>1, FoundSlot
<1>3. /\ DOMAIN b = Fields /\ DOMAIN b.curs = AllSlots /\ Own \in AllSlots
      /\ b.str \in Seq(Seq(Chars)) /\ b.curs[k].pos \in Nat /\ b.first = 1
      /\ b.curs[k].line \in 1 .. b.last
  BY <1>2, SoundFacts
<1>4. b.curs[k].line = 1
  BY <1>3
<1>5. CASE b.curs[k].pos = 0
  <2>1. c = b
    BY <1>1, <1>3, <1>4, <1>5 DEF bcursor_del
  <2> QED BY <1>1, <2>1 DEF Views
<1>6. CASE b.curs[k].pos # 0
  <2>1. b.curs[k].pos > 0
    BY <1>3, <1>6
  <2>2. PICK z : z = DelChar(b, k)
    OBVIOUS
  <2>3. PICK s : c = PaintIf(s, z)
    BY <1>1, <1>6, <2>1, <2>2 DEF bcursor_del, PaintCursor
  <2>4. Kept(b, z)
    BY <1>2, <1>3, <2>2, DelCharWindow
  <2>5. Kept(z, c)
    BY <2>3, <2>4, PaintKept DEF Kept
  <2>6. Kept(b, c)
    BY <2>4, <2>5, KeptTrans
  <2> QED BY <1>1, <2>6, KeptViews
<1> QED BY <1>5, <1>6

-----------------------------------------------------------------------------
(***************************************************************************)
(* The buffer a worker reads from its file.                                *)
(***************************************************************************)
\* A delete of a user whose buffer's own cursor stays at the start leaves the window
\* as it is.
LEMMA ServedDelete ==
  ASSUME height >= 3, NEW b, Viewed(b), Sound(b), Rows(b) = height, OwnLine(b) = 1,
         NEW u \in Nat, u # Own, HasCursor(b, u)
  PROVE  Views(b, bcursor_del(b, u))
<1>1. PICK c : c = bcursor_del(b, u)
  OBVIOUS
<1>2. b.top = 1 /\ b.bottom = height /\ height \in Nat /\ Rows(b) >= height
  <2>1. b.top \in Nat /\ 1 <= b.top /\ b.top <= 1 /\ b.bottom \in Nat
        /\ b.bottom - b.top + 1 = height
    BY DEF Viewed, Window, Rows
  <2>2. height \in Nat
    BY ConstantsAssumption
  <2> QED BY <2>1, <2>2
<1>3. Len(b.str) = b.last + height - 1 /\ b.last \in Nat /\ b.last >= 1
  BY DEF Sound, GoodLines
<1>4. CASE b.last = 1
  BY <1>4, OneLineDelete
<1>5. CASE b.last # 1
  <2>1. b.bottom < Len(b.str) /\ b.bottom # Len(b.str)
    BY <1>2, <1>3, <1>5
  <2>2. \/ /\ Viewed(c) /\ c.u = b.u /\ Rows(c) >= height
           /\ (u # Own /\ OwnLine(b) = 1 /\ b.bottom < Len(b.str) => Rows(c) = Rows(b))
        \/ ~Alive(c) /\ (u # Own /\ OwnLine(b) = 1 => b.bottom = Len(b.str))
    BY <1>1, <1>2, DeleteWindow
  <2> QED BY <1>1, <2>1, <2>2 DEF Views
<1> QED BY <1>4, <1>5

\* What holds from the first line read until the cursor has climbed back to it,
\* with the own cursor on line i.
Loading(b, i) ==
  /\ Sound(b) /\ IdsIn(b, {}) /\ b.server_mode = FALSE /\ OwnLine(b) = i
  /\ height >= 3 => Viewed(b) /\ Rows(b) = height

\* It holds of the blank buffer, and each step of buffer_from_file keeps it.
LEMMA BlankLoading == Loading(BlankBuffer, 1)
<1>1. Sound(BlankBuffer) /\ IdsIn(BlankBuffer, {}) /\ OwnLine(BlankBuffer) = 1
  BY BlankSound DEF OwnLine
<1>2. BlankBuffer.server_mode = FALSE
  BY DEF BlankBuffer, binit_onscreen_info
<1> QED BY <1>1, <1>2, BlankWindow DEF Loading

LEMMA StepLoading ==
  ASSUME NEW b, NEW i, Loading(b, i)
  PROVE  /\ \A chr \in Chars : Loading(bcursor_insert(b, Own, chr), i)
         /\ Loading(bcursor_insert_line(b, Own), i + 1)
         /\ i > 1 => Loading(bcursor_move(b, Own, "UP"), i - 1)
<1>1. Sound(b) /\ IdsIn(b, {}) /\ b.server_mode = FALSE /\ OwnLine(b) = i
      /\ Own \in Nat /\ HasCursor(b, Own)
  BY OwnFound DEF Loading
<1>2. height >= 3 => Viewed(b) /\ Rows(b) = height
  BY DEF Loading
<1>3. ASSUME NEW chr \in Chars PROVE Loading(bcursor_insert(b, Own, chr), i)
  <2>1. Sound(bcursor_insert(b, Own, chr)) /\ IdsIn(bcursor_insert(b, Own, chr), {})
    BY <1>1, InsertSound, IdsInSame
  <2>2. bcursor_insert(b, Own, chr).server_mode = FALSE
        /\ OwnLine(bcursor_insert(b, Own, chr)) = i
    BY <1>1, KeepsMode, OwnLoads
  <2>3. ASSUME height >= 3 PROVE Views(b, bcursor_insert(b, Own, chr))
    BY <1>1, <1>2, <2>3, InsertWindow
  <2> QED BY <1>2, <2>1, <2>2, <2>3 DEF Loading, Views
<1>4. Loading(bcursor_insert_line(b, Own), i + 1)
  <2>1. Sound(bcursor_insert_line(b, Own)) /\ IdsIn(bcursor_insert_line(b, Own), {})
    BY <1>1, InsertLineSound, IdsInSame
  <2>2. bcursor_insert_line(b, Own).server_mode = FALSE
        /\ OwnLine(bcursor_insert_line(b, Own)) = i + 1
    BY <1>1, KeepsMode, OwnLoads
  <2>3. ASSUME height >= 3 PROVE Views(b, bcursor_insert_line(b, Own))
    BY <1>1, <1>2, <2>3, InsertLineWindow
  <2> QED BY <1>2, <2>1, <2>2, <2>3 DEF Loading, Views
<1>5. ASSUME i > 1 PROVE Loading(bcursor_move(b, Own, "UP"), i - 1)
  <2>1. Sound(bcursor_move(b, Own, "UP")) /\ IdsIn(bcursor_move(b, Own, "UP"), {})
    BY <1>1, MoveSound, IdsInSame
  <2>2. bcursor_move(b, Own, "UP").server_mode = FALSE
        /\ OwnLine(bcursor_move(b, Own, "UP")) = i - 1
    BY <1>1, <1>5, KeepsMode, OwnLoads DEF Dirs
  <2>3. ASSUME height >= 3 PROVE Views(b, bcursor_move(b, Own, "UP"))
    BY <1>1, <1>2, <2>3, MoveWindow
  <2> QED BY <1>2, <2>1, <2>2, <2>3 DEF Loading, Views
<1> QED BY <1>3, <1>4, <1>5

\* Induction up to N, over the numbers of a set.
LEMMA CountUp ==
  ASSUME NEW N \in Nat, NEW T, 0 \in T, \A n \in 0 .. N : n < N /\ n \in T => n + 1 \in T
  PROVE  \A n \in 0 .. N : n \in T
<1> DEFINE F == { n \in 0 .. N : n \notin T }
<1> SUFFICES ASSUME F # {} PROVE FALSE
  OBVIOUS
<1>1. F \subseteq Nat
  OBVIOUS
<1>2. PICK m \in F : \A y \in F : ~ (<<y, m>> \in OpToRel(<, Nat))
  BY <1>1, WFMin, NatLessThanWellFounded
<1>3. m \in 0 .. N /\ m \notin T /\ m # 0 /\ \A y \in F : ~(y < m)
  BY <1>1, <1>2 DEF OpToRel
<1>4. m - 1 \in 0 .. N /\ m - 1 < N /\ (m - 1) + 1 = m /\ m - 1 < m
  BY <1>3
<1>5. m - 1 \in T
  BY <1>3, <1>4
<1> QED BY <1>3, <1>4, <1>5

\* The numbers up to n + 1.
LEMMA UpToNext ==
  ASSUME NEW n \in Nat, NEW m \in 0 .. n + 1
  PROVE  \/ m = n + 1 /\ m # 0 /\ m - 1 = n /\ n \in 0 .. n
         \/ m \in 0 .. n /\ (m # 0 => m - 1 \in 0 .. n)
  OBVIOUS

-----------------------------------------------------------------------------
\* f[n] is the buffer after n characters of the line s.
LineUpTo(f, b, s, N) ==
  f = [n \in 0 .. N |-> IF n = 0 THEN b ELSE bcursor_insert(f[n - 1], Own, s[n])]

LEMMA LineExists ==
  ASSUME NEW b, NEW s, NEW N \in Nat PROVE \E f : LineUpTo(f, b, s, N)
<1> DEFINE T == { n \in Nat : \E f : LineUpTo(f, b, s, n) }
<1>1. 0 \in T
  <2> DEFINE f == [n \in 0 .. 0 |-> b]
  <2>1. LineUpTo(f, b, s, 0)
    BY DEF LineUpTo
  <2> QED BY <2>1
<1>2. ASSUME NEW n \in 0 .. N, n \in T PROVE n + 1 \in T
  <2>0. n \in Nat
    OBVIOUS
  <2>1. PICK f : LineUpTo(f, b, s, n)
    BY <1>2
  <2>2. PICK last : last = bcursor_insert(f[n], Own, s[n + 1])
    OBVIOUS
  <2> DEFINE g == [m \in 0 .. n + 1 |-> IF m = n + 1 THEN last ELSE f[m]]
  <2>3. /\ g = [m \in 0 .. n + 1 |-> g[m]] /\ g[n + 1] = last
        /\ \A m \in 0 .. n : g[m] = f[m]
    BY <2>0
  <2> HIDE DEF g
  <2>4. \A m \in 0 .. n : f[m] = IF m = 0 THEN b ELSE bcursor_insert(f[m - 1], Own, s[m])
    BY <2>1 DEF LineUpTo
  <2>5. ASSUME NEW m \in 0 .. n + 1
        PROVE  g[m] = IF m = 0 THEN b ELSE bcursor_insert(g[m - 1], Own, s[m])
    <3>1. CASE m = n + 1 /\ m # 0 /\ m - 1 = n /\ n \in 0 .. n
      BY <2>2, <2>3, <3>1
    <3>2. CASE m \in 0 .. n /\ (m # 0 => m - 1 \in 0 .. n)
      BY <2>3, <2>4, <3>2
    <3> QED BY <2>0, <3>1, <3>2, UpToNext
  <2>6. LineUpTo(g, b, s, n + 1)
    BY <2>3, <2>5 DEF LineUpTo
  <2> QED BY <2>0, <2>6
<1> QED
  <2> HIDE DEF T
  <2>1. \A n \in 0 .. N : n \in T
    BY <1>1, <1>2, CountUp
  <2>2. N \in T
    BY <2>1
  <2> QED BY <2>2 DEF T

\* Reading a line.
LEMMA ReadLineLoading ==
  ASSUME NEW b, NEW i, Loading(b, i), NEW s \in Seq(Chars)
  PROVE  Loading(ReadLine(b, s), i)
<1> PICK N : N = Len(s)
  OBVIOUS
<1>0. N \in Nat
  BY LenProperties
<1> DEFINE f == CHOOSE g : LineUpTo(g, b, s, N)
<1>1. LineUpTo(f, b, s, N)
  BY <1>0, LineExists
<1>2. ReadLine(b, s) = f[N]
  BY DEF ReadLine, LineUpTo
<1> HIDE DEF f
<1>3. \A n \in 0 .. N : f[n] = IF n = 0 THEN b ELSE bcursor_insert(f[n - 1], Own, s[n])
  BY <1>1 DEF LineUpTo
<1> DEFINE T == { n \in Nat : Loading(f[n], i) }
<1>4. 0 \in T
  BY <1>0, <1>3
<1>5. ASSUME NEW n \in 0 .. N, n < N, n \in T PROVE n + 1 \in T
  <2>1. n + 1 \in 0 .. N /\ n + 1 # 0 /\ (n + 1) - 1 = n /\ n + 1 \in 1 .. Len(s) /\ n \in Nat
    BY <1>0, <1>5
  <2>2. f[n + 1] = bcursor_insert(f[n], Own, s[n + 1])
    BY <1>3, <2>1
  <2>3. s[n + 1] \in Chars
    BY <2>1, ElementOfSeq
  <2>4. Loading(f[n], i)
    BY <1>5
  <2>5. Loading(f[n + 1], i)
    BY <2>2, <2>3, <2>4, StepLoading
  <2> QED BY <2>1, <2>5
<1>6. N \in T
  <2> HIDE DEF T
  <2>1. \A n \in 0 .. N : n \in T
    BY <1>0, <1>4, <1>5, CountUp
  <2> QED BY <1>0, <2>1
<1> QED BY <1>2, <1>6

\* f[n] is the buffer after n lines of the file.
FileUpTo(f, file, N) ==
  f = [n \in 1 .. N |-> IF n = 1 THEN ReadLine(BlankBuffer, file[1])
                        ELSE ReadLine(bcursor_insert_line(f[n - 1], Own), file[n])]

LEMMA FileExists ==
  ASSUME NEW file, NEW N \in Nat PROVE \E f : FileUpTo(f, file, N + 1)
<1> DEFINE T == { n \in Nat : \E f : FileUpTo(f, file, n + 1) }
<1>1. 0 \in T
  <2> DEFINE f == [n \in 1 .. 1 |-> ReadLine(BlankBuffer, file[1])]
  <2>1. FileUpTo(f, file, 0 + 1)
    BY DEF FileUpTo
  <2> QED BY <2>1
<1>2. ASSUME NEW n \in 0 .. N, n \in T PROVE n + 1 \in T
  <2>0. n \in Nat
    OBVIOUS
  <2>1. PICK f : FileUpTo(f, file, n + 1)
    BY <1>2
  <2>2. PICK last : last = ReadLine(bcursor_insert_line(f[n + 1], Own), file[n + 2])
    OBVIOUS
  <2> DEFINE g == [m \in 1 .. n + 2 |-> IF m = n + 2 THEN last ELSE f[m]]
  <2>3. g = [m \in 1 .. n + 2 |-> g[m]] /\ g[n + 2] = last /\ \A m \in 1 .. n + 1 : g[m] = f[m]
    BY <2>0
  <2> HIDE DEF g
  <2>4. \A m \in 1 .. n + 1 : f[m] = IF m = 1 THEN ReadLine(BlankBuffer, file[1])
                        ELSE ReadLine(bcursor_insert_line(f[m - 1], Own), file[m])
    BY <2>1 DEF FileUpTo
  <2>5. ASSUME NEW m \in 1 .. n + 2
        PROVE  g[m] = IF m = 1 THEN ReadLine(BlankBuffer, file[1])
                        ELSE ReadLine(bcursor_insert_line(g[m - 1], Own), file[m])
    <3>1. CASE m = n + 2
      <4>1. m # 1 /\ m - 1 = n + 1 /\ n + 1 \in 1 .. n + 1
        BY <2>0, <3>1
      <4> QED BY <2>2, <2>3, <3>1, <4>1
    <3>2. CASE m # n + 2
      <4>1. m \in 1 .. n + 1 /\ (m # 1 => m - 1 \in 1 .. n + 1)
        BY <2>0, <3>2
      <4> QED BY <2>3, <2>4, <4>1
    <3> QED BY <3>1, <3>2
  <2>6. FileUpTo(g, file, n + 2)
    BY <2>3, <2>5 DEF FileUpTo
  <2>7. (n + 1) + 1 = n + 2 /\ n + 1 \in Nat
    BY <2>0
  <2> QED BY <2>6, <2>7
<1> QED
  <2> HIDE DEF T
  <2>1. \A n \in 0 .. N : n \in T
    BY <1>1, <1>2, CountUp
  <2>2. N \in T
    BY <2>1
  <2> QED BY <2>2 DEF T

\* Reading the file leaves the own cursor on its last line.
LEMMA ReadFileLoading ==
  ASSUME NEW file \in Seq(Seq(Chars)), file # << >>
  PROVE  Loading(ReadFile(file), Len(file)) /\ Len(file) \in Nat /\ Len(file) >= 1
<1>0. PICK N \in Nat : N + 1 = Len(file)
  <2>1. Len(file) \in Nat /\ Len(file) # 0
    BY LenProperties, EmptySeq
  <2>2. PICK L : L = Len(file)
    OBVIOUS
  <2>3. L - 1 \in Nat /\ (L - 1) + 1 = L
    BY <2>1, <2>2
  <2> QED BY <2>2, <2>3
<1> DEFINE f == CHOOSE g : FileUpTo(g, file, N + 1)
<1>1. FileUpTo(f, file, N + 1)
  BY <1>0, FileExists
<1>2. ReadFile(file) = f[N + 1]
  BY <1>0 DEF ReadFile, FileUpTo
<1> HIDE DEF f
<1>3. \A n \in 1 .. N + 1 : f[n] = IF n = 1 THEN ReadLine(BlankBuffer, file[1])
                        ELSE ReadLine(bcursor_insert_line(f[n - 1], Own), file[n])
  BY <1>1 DEF FileUpTo
<1>a. \A n \in 1 .. N + 1 : file[n] \in Seq(Chars)
  BY <1>0, ElementOfSeq
<1> DEFINE T == { n \in Nat : Loading(f[n + 1], n + 1) }
<1>4. 0 \in T
  <2>1. f[1] = ReadLine(BlankBuffer, file[1]) /\ file[1] \in Seq(Chars)
    BY <1>0, <1>3, <1>a
  <2>2. Loading(f[0 + 1], 0 + 1)
    BY <2>1, BlankLoading, ReadLineLoading
  <2> QED BY <2>2
<1>5. ASSUME NEW n \in 0 .. N, n < N, n \in T PROVE n + 1 \in T
  <2>1. n + 2 \in 1 .. N + 1 /\ n + 2 # 1 /\ (n + 2) - 1 = n + 1 /\ n \in Nat
        /\ (n + 1) + 1 = n + 2
    BY <1>0, <1>5
  <2>2. f[n + 2] = ReadLine(bcursor_insert_line(f[n + 1], Own), file[n + 2])
    BY <1>3, <2>1
  <2>3. file[n + 2] \in Seq(Chars)
    BY <1>a, <2>1
  <2>4. Loading(f[n + 1], n + 1)
    BY <1>5
  <2>5. Loading(bcursor_insert_line(f[n + 1], Own), (n + 1) + 1)
    BY <2>4, StepLoading
  <2>6. Loading(f[n + 2], (n + 1) + 1)
    BY <2>2, <2>3, <2>5, ReadLineLoading
  <2> QED BY <2>1, <2>6
<1>6. N \in T
  <2> HIDE DEF T
  <2>1. \A n \in 0 .. N : n \in T
    BY <1>0, <1>4, <1>5, CountUp
  <2> QED BY <1>0, <2>1
<1> QED BY <1>0, <1>2, <1>6

\* f[n] is the buffer after the own cursor has climbed n lines.
RewoundUpTo(f, b, N) ==
  f = [n \in 0 .. N |-> IF n = 0 THEN b ELSE bcursor_move(f[n - 1], Own, "UP")]

LEMMA RewoundExists ==
  ASSUME NEW b, NEW N \in Nat PROVE \E f : RewoundUpTo(f, b, N)
<1> DEFINE T == { n \in Nat : \E f : RewoundUpTo(f, b, n) }
<1>1. 0 \in T
  <2> DEFINE f == [n \in 0 .. 0 |-> b]
  <2>1. RewoundUpTo(f, b, 0)
    BY DEF RewoundUpTo
  <2> QED BY <2>1
<1>2. ASSUME NEW n \in 0 .. N, n \in T PROVE n + 1 \in T
  <2>0. n \in Nat
    OBVIOUS
  <2>1. PICK f : RewoundUpTo(f, b, n)
    BY <1>2
  <2>2. PICK last : last = bcursor_move(f[n], Own, "UP")
    OBVIOUS
  <2> DEFINE g == [m \in 0 .. n + 1 |-> IF m = n + 1 THEN last ELSE f[m]]
  <2>3. /\ g = [m \in 0 .. n + 1 |-> g[m]] /\ g[n + 1] = last
        /\ \A m \in 0 .. n : g[m] = f[m]
    BY <2>0
  <2> HIDE DEF g
  <2>4. \A m \in 0 .. n : f[m] = IF m = 0 THEN b ELSE bcursor_move(f[m - 1], Own, "UP")
    BY <2>1 DEF RewoundUpTo
  <2>5. ASSUME NEW m \in 0 .. n + 1
        PROVE  g[m] = IF m = 0 THEN b ELSE bcursor_move(g[m - 1], Own, "UP")
    <3>1. CASE m = n + 1 /\ m # 0 /\ m - 1 = n /\ n \in 0 .. n
      BY <2>2, <2>3, <3>1
    <3>2. CASE m \in 0 .. n /\ (m # 0 => m - 1 \in 0 .. n)
      BY <2>3, <2>4, <3>2
    <3> QED BY <2>0, <3>1, <3>2, UpToNext
  <2>6. RewoundUpTo(g, b, n + 1)
    BY <2>3, <2>5 DEF RewoundUpTo
  <2> QED BY <2>0, <2>6
<1> QED
  <2> HIDE DEF T
  <2>1. \A n \in 0 .. N : n \in T
    BY <1>1, <1>2, CountUp
  <2>2. N \in T
    BY <2>1
  <2> QED BY <2>2 DEF T

\* The own cursor climbs back to the first line.
LEMMA RewoundLoading ==
  ASSUME NEW N \in Nat, NEW b, Loading(b, N + 1)
  PROVE  Loading(Rewound(b, N), 1)
<1> DEFINE f == CHOOSE g : RewoundUpTo(g, b, N)
<1>1. RewoundUpTo(f, b, N)
  BY RewoundExists
<1>2. Rewound(b, N) = f[N]
  BY DEF Rewound, RewoundUpTo
<1> HIDE DEF f
<1>3. \A n \in 0 .. N : f[n] = IF n = 0 THEN b ELSE bcursor_move(f[n - 1], Own, "UP")
  BY <1>1 DEF RewoundUpTo
<1> DEFINE T == { n \in Nat : Loading(f[n], N + 1 - n) }
<1>4. 0 \in T
  <2>1. f[0] = b /\ N + 1 - 0 = N + 1
    BY <1>3
  <2> QED BY <2>1
<1>5. ASSUME NEW n \in 0 .. N, n < N, n \in T PROVE n + 1 \in T
  <2>1. n + 1 \in 0 .. N /\ n + 1 # 0 /\ (n + 1) - 1 = n /\ n \in Nat
        /\ N + 1 - n > 1 /\ (N + 1 - n) - 1 = N + 1 - (n + 1)
    BY <1>5
  <2>2. f[n + 1] = bcursor_move(f[n], Own, "UP")
    BY <1>3, <2>1
  <2>3. Loading(f[n], N + 1 - n)
    BY <1>5
  <2>4. Loading(f[n + 1], (N + 1 - n) - 1)
    BY <2>1, <2>2, <2>3, StepLoading
  <2> QED BY <2>1, <2>4
<1>6. N \in T
  <2> HIDE DEF T
  <2>1. \A n \in 0 .. N : n \in T
    BY <1>4, <1>5, CountUp
  <2> QED BY <2>1
<1>7. N + 1 - N = 1
  OBVIOUS
<1> QED BY <1>2, <1>6, <1>7

\* The buffer of a worker that has just been forked: sound, in server mode, with the
\* cursor it gives to whoever joins at the start, and nobody else's.
LEMMA FileSound ==
  ASSUME NEW file \in Seq(Seq(Chars)), file # << >>
  PROVE  LET b == buffer_from_file(file) IN
         /\ Sound(b) /\ IdsIn(b, {}) /\ b.server_mode = TRUE /\ OwnAtStart(b)
         /\ height >= 3 => Viewed(b) /\ Rows(b) = height
<1>1. PICK N \in Nat : N = Len(file) - 1 /\ N + 1 = Len(file)
  BY ReadFileLoading
<1>2. PICK b : b = Rewound(ReadFile(file), N)
  OBVIOUS
<1>3. Loading(b, 1)
  BY <1>1, <1>2, ReadFileLoading, RewoundLoading
<1>4. PICK c : c = [b EXCEPT !.curs[Own].pos = 0, !.server_mode = TRUE]
  OBVIOUS
<1>5. c = buffer_from_file(file)
  BY <1>1, <1>2, <1>4 DEF buffer_from_file
<1>6. Sound(b) /\ IdsIn(b, {}) /\ OwnLine(b) = 1 /\ (height >= 3 => Viewed(b) /\ Rows(b) = height)
  BY <1>3 DEF Loading
<1>7. Sound(c) /\ SameIds(b, c) /\ IdsIn(c, {})
  BY <1>4, <1>6, LoadedSound, IdsInSame
<1>8. height >= 3 => Viewed(c) /\ Rows(c) = height
  BY <1>4, <1>6, LoadedWindow DEF Views
<1>9. c.server_mode = TRUE /\ OwnAtStart(c)
  <2>1. DOMAIN b = Fields /\ DOMAIN b.curs = AllSlots /\ Own \in AllSlots
        /\ b.curs[Own] = [id |-> b.curs[Own].id, line |-> b.curs[Own].line, pos |-> b.curs[Own].pos]
    <3>1. GoodLines(b) /\ GoodCursors(b)
      BY <1>6 DEF Sound
    <3>2. b.curs[Own] \in Cursor
      BY <1>6, <3>1, OwnFacts, CursorFacts
    <3> QED BY <1>6, <3>1, <3>2, OwnFacts DEF GoodLines, GoodCursors, IdsOfSlots, Cursor
  <2> QED BY <1>4, <1>6, <2>1 DEF Fields, OwnLine, OwnAtStart
<1> QED BY <1>5, <1>7, <1>8, <1>9
=============================================================================
