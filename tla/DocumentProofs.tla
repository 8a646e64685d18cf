--------------------------- MODULE DocumentProofs ---------------------------
(***************************************************************************)
(* A replica implements Document: what an operation does to the lines and  *)
(* the slots of a buffer is what Document says it does to a text and to    *)
(* the cursors of its users, provided that every byte can be inserted      *)
(* (Lossless) and that every user's id is below MAX_CURSOR_NUM (FewUsers). *)
(***************************************************************************)
EXTENDS ReplicaProofs

\* The text of a buffer, and where the cursors of the users in M are.
Text(b)      == SubSeq(b.str, 1, b.last)
Where(x)     == [line |-> x.line, pos |-> x.pos]
Places(b, M) == [u \in M |-> Where(b.curs[bcursor_find(b, u)])]

-----------------------------------------------------------------------------
\* The text is as many lines as last says, those of the chain.
LEMMA TextFacts ==
  ASSUME NEW b, GoodLines(b)
  PROVE  /\ Text(b) \in Seq(Seq(Chars)) /\ b.last \in Nat /\ Len(Text(b)) = b.last
         /\ \A l \in 1 .. b.last : /\ Text(b)[l] = b.str[l]
                                   /\ b.str[l] \in Seq(Chars) /\ Len(b.str[l]) \in Nat
<1>1. /\ b.last \in Nat /\ b.last >= 1
      /\ \A l \in 1 .. b.last : b.str[l] \in Seq(Chars) /\ Len(b.str[l]) \in Nat
  BY LengthTypes DEF GoodLines
<1> DEFINE t == SubSeq(b.str, 1, b.last)
<1>2. /\ t \in Seq(Seq(Chars)) /\ Len(t) = IF 1 <= b.last THEN b.last - 1 + 1 ELSE 0
      /\ \A l \in 1 .. b.last - 1 + 1 : t[l] = b.str[1 + l - 1]
  BY <1>1, SubSeqProperties
<1> HIDE DEF t
<1>3. Len(t) = b.last
  BY <1>1, <1>2
<1>4. \A l \in 1 .. b.last : t[l] = b.str[l]
  <2> TAKE l \in 1 .. b.last
  <2>1. l \in 1 .. b.last - 1 + 1 /\ 1 + l - 1 = l
    BY <1>1
  <2> QED BY <1>2, <2>1
<1> QED BY <1>1, <1>2, <1>3, <1>4 DEF Text, t

\* Which sequence the text is.
LEMMA TextIs ==
  ASSUME NEW c, GoodLines(c), NEW r \in Seq(Seq(Chars)), Len(r) = c.last,
         \A l \in 1 .. c.last : r[l] = c.str[l]
  PROVE  Text(c) = r
<1>1. /\ Text(c) \in Seq(Seq(Chars)) /\ Len(Text(c)) = Len(r)
      /\ \A l \in 1 .. Len(Text(c)) : Text(c)[l] = r[l]
  BY TextFacts
<1> QED BY <1>1, SeqEqual

\* Two buffers of the same ids have the cursor of a user in the same slot.
LEMMA PlacePair ==
  ASSUME NEW b, Sound(b), NEW c, Sound(c), SameIds(b, c), NEW M, NULL \notin M,
         HaveCursors(b, M), NEW u \in M
  PROVE  \E j \in AllSlots :
           /\ b.curs[j].id = u /\ b.curs[j].id # NULL /\ bcursor_find(b, u) = j
           /\ Places(b, M)[u] = Where(b.curs[j]) /\ Places(c, M)[u] = Where(c.curs[j])
           /\ b.curs[j].line \in 1 .. b.last /\ b.curs[j].line \in Nat /\ b.curs[j].pos \in Nat
           /\ b.str[b.curs[j].line] \in Seq(Chars)
           /\ Lossless => b.curs[j].pos <= Len(b.str[b.curs[j].line])
<1>1. PICK j \in AllSlots : b.curs[j].id = u /\ Foremost(b.curs, j)
  BY FindSpec DEF HaveCursors, HasCursor
<1>2. u # NULL /\ c.curs[j].id = u /\ Foremost(c.curs, j)
  BY <1>1, IdsKept DEF SameIds
<1>3. GoodLines(b) /\ GoodCursors(b)
  BY DEF Sound
<1>4. bcursor_find(b, u) = j
  BY <1>1, <1>2, <1>3, FindIs
<1>5. bcursor_find(c, u) = j
  BY <1>1, <1>2, <1>3, FindIs
<1>6. Places(b, M)[u] = Where(b.curs[j]) /\ Places(c, M)[u] = Where(c.curs[j])
  BY <1>4, <1>5 DEF Places
<1> QED BY <1>1, <1>2, <1>3, <1>4, <1>6, CursorFacts

-----------------------------------------------------------------------------
(***************************************************************************)
(* What the actions of Document do to a text t and to cursors s: of the    *)
(* cursor i, they become r and q.                                          *)
(***************************************************************************)
LetterTyped(t, s, i, x, r, q) ==
  /\ Len(t[s[i].line]) < width - 1
  /\ r = [t EXCEPT ![s[i].line] = InsertAt(@, s[i].pos + 1, x)]
  /\ q = [j \in DOMAIN s |->
            IF j = i \/ (s[j].line = s[i].line /\ s[j].pos > s[i].pos + 1)
              THEN [s[j] EXCEPT !.pos = @ + 1] ELSE s[j]]

LetterErased(t, s, i, r, q) ==
  /\ s[i].pos > 0
  /\ r = [t EXCEPT ![s[i].line] = RemoveAt(@, s[i].pos)]
  /\ q = [j \in DOMAIN s |->
            IF s[j].line = s[i].line /\ s[j].pos >= s[i].pos
              THEN [s[j] EXCEPT !.pos = @ - 1] ELSE s[j]]

LineBroken(t, s, i, r, q) ==
  /\ r = SubSeq(t, 1, s[i].line - 1)
           \o << SubSeq(t[s[i].line], 1, s[i].pos),
                 SubSeq(t[s[i].line], s[i].pos + 1, Len(t[s[i].line])) >>
           \o SubSeq(t, s[i].line + 1, Len(t))
  /\ q = [j \in DOMAIN s |->
            IF s[j].line > s[i].line THEN [line |-> s[j].line + 1, pos |-> s[j].pos]
            ELSE IF s[j].line = s[i].line /\ (j = i \/ s[i].pos = 0 \/ s[j].pos > s[i].pos)
              THEN [line |-> s[i].line + 1, pos |-> s[j].pos - s[i].pos]
            ELSE s[j]]

LinesJoined(t, s, i, r, q) ==
  /\ s[i].pos = 0 /\ s[i].line > 1
  /\ r = SubSeq(t, 1, s[i].line - 2)
           \o << t[s[i].line - 1] \o t[s[i].line] >>
           \o SubSeq(t, s[i].line + 1, Len(t))
  /\ q = [j \in DOMAIN s |->
            IF s[j].line > s[i].line THEN [line |-> s[j].line - 1, pos |-> s[j].pos]
            ELSE IF s[j].line = s[i].line
              THEN [line |-> s[i].line - 1, pos |-> s[j].pos + Len(t[s[i].line - 1])]
            ELSE s[j]]

-----------------------------------------------------------------------------
\* A letter typed in slot k is Document's Type.
LEMMA TypeEffect ==
  ASSUME Lossless, NEW b, Sound(b), NEW c, Sound(c), SameIds(b, c),
         NEW M, NULL \notin M, HaveCursors(b, M), NEW i \in M, NEW chr \in Chars,
         Typed(b, c, bcursor_find(b, i), chr),
         ~(LineLen(b, b.curs[bcursor_find(b, i)].line) >= width - 1),
         NEW t, t = Text(b), NEW s, s = Places(b, M)
  PROVE  LetterTyped(t, s, i, chr, Text(c), Places(c, M))
<1>1. PICK k \in AllSlots :
         /\ b.curs[k].id = i /\ b.curs[k].id # NULL /\ bcursor_find(b, i) = k
         /\ s[i] = Where(b.curs[k])
         /\ b.curs[k].line \in 1 .. b.last /\ b.curs[k].line \in Nat /\ b.curs[k].pos \in Nat
         /\ b.str[b.curs[k].line] \in Seq(Chars)
         /\ b.curs[k].pos <= Len(b.str[b.curs[k].line])
  BY PlacePair
<1>2. PICK x : x = b.curs[k]
  OBVIOUS
<1>3. GoodLines(b) /\ GoodLines(c)
  BY DEF Sound
<1>4. s[i].line = x.line /\ s[i].pos = x.pos /\ t[x.line] = b.str[x.line]
  <2>1. s[i].line = x.line /\ s[i].pos = x.pos
    BY <1>1, <1>2 DEF Where
  <2>2. x.line \in 1 .. b.last
    BY <1>1, <1>2
  <2> QED BY <1>3, <2>1, <2>2, TextFacts
<1>5. /\ c.str = [b.str EXCEPT ![x.line] = rope_insert(b.str[x.line], x.pos, chr)]
      /\ c.last = b.last
      /\ \A j \in AllSlots : c.curs[j] =
           LET y == b.curs[j] IN
           IF j = k \/ (y.id # NULL /\ y.line = x.line /\ x.pos + 1 < y.pos)
             THEN MovedTo(y, y.line, y.pos + 1) ELSE y
  BY <1>1, <1>2 DEF Typed
<1>6. Len(t[s[i].line]) < width - 1
  <2>1. Len(b.str[x.line]) \in Nat /\ width \in Nat
    BY <1>1, <1>2, <1>3, TextFacts, ConstantsAssumption
  <2> QED BY <1>1, <1>2, <1>4, <2>1 DEF LineLen
<1>7. rope_insert(b.str[x.line], x.pos, chr) = InsertAt(t[s[i].line], s[i].pos + 1, chr)
  <2>1. x.pos <= Len(b.str[x.line])
    BY <1>1, <1>2
  <2>2. Min2(x.pos, Len(b.str[x.line])) = x.pos
    BY <2>1 DEF Min2
  <2>3. chr \notin Refused
    BY DEF Lossless
  <2> QED BY <1>4, <2>2, <2>3 DEF rope_insert
<1>8. Text(c) = [t EXCEPT ![s[i].line] = InsertAt(@, s[i].pos + 1, chr)]
  <2>1. PICK e : e = InsertAt(t[s[i].line], s[i].pos + 1, chr)
    OBVIOUS
  <2>2. e \in Seq(Chars)
    <3>1. b.str[x.line] \in Seq(Chars) /\ x.pos \in Nat
      BY <1>1, <1>2
    <3> QED BY <1>7, <2>1, <3>1, RopeInsert
  <2>3. /\ t \in Seq(Seq(Chars)) /\ Len(t) = b.last /\ x.line \in 1 .. b.last
        /\ \A l \in 1 .. b.last : t[l] = b.str[l]
    BY <1>1, <1>2, <1>3, TextFacts
  <2>4. PICK r : r = [t EXCEPT ![x.line] = e]
    OBVIOUS
  <2>5. /\ r \in Seq(Seq(Chars)) /\ Len(r) = b.last
        /\ \A l \in 1 .. b.last : r[l] = IF l = x.line THEN e ELSE t[l]
    BY <2>2, <2>3, <2>4, ExceptSeq
  <2>6. DOMAIN b.str = 1 .. Len(b.str) /\ \A l \in 1 .. b.last : l \in 1 .. Len(b.str)
    BY <1>3, LengthTypes, LenProperties DEF GoodLines
  <2>7. \A l \in 1 .. c.last : r[l] = c.str[l]
    BY SMTT(60), <1>5, <1>7, <2>1, <2>3, <2>5, <2>6
  <2>8. Text(c) = r
    BY <1>3, <1>5, <2>5, <2>7, TextIs
  <2> QED BY <1>4, <2>1, <2>4, <2>8
<1>9. ASSUME NEW u \in M
      PROVE  Places(c, M)[u] =
               IF u = i \/ (s[u].line = s[i].line /\ s[u].pos > s[i].pos + 1)
                 THEN [s[u] EXCEPT !.pos = @ + 1] ELSE s[u]
  <2>1. PICK j \in AllSlots :
           /\ b.curs[j].id = u /\ b.curs[j].id # NULL /\ bcursor_find(b, u) = j
           /\ s[u] = Where(b.curs[j]) /\ Places(c, M)[u] = Where(c.curs[j])
           /\ b.curs[j].pos \in Nat
    BY PlacePair
  <2>2. PICK y : y = b.curs[j]
    OBVIOUS
  <2>3. u = i <=> j = k
    BY <1>1, <2>1
  <2>4. s[u].line = y.line /\ s[u].pos = y.pos /\ y.pos \in Nat /\ x.pos \in Nat
        /\ s[u] = [line |-> y.line, pos |-> y.pos]
    BY <1>1, <1>2, <2>1, <2>2 DEF Where
  <2>5. (s[u].pos > s[i].pos + 1) <=> (x.pos + 1 < y.pos)
    BY <1>4, <2>4
  <2>6. CASE u = i \/ (s[u].line = s[i].line /\ s[u].pos > s[i].pos + 1)
    <3>1. c.curs[j] = MovedTo(y, y.line, y.pos + 1)
      BY <1>4, <1>5, <2>1, <2>2, <2>3, <2>4, <2>5, <2>6
    <3>2. Places(c, M)[u] = [line |-> y.line, pos |-> y.pos + 1]
      BY <2>1, <3>1 DEF Where, MovedTo
    <3> QED BY <2>4, <2>6, <3>2
  <2>7. CASE ~(u = i \/ (s[u].line = s[i].line /\ s[u].pos > s[i].pos + 1))
    <3>1. c.curs[j] = y
      BY <1>4, <1>5, <2>1, <2>2, <2>3, <2>4, <2>5, <2>7
    <3> QED BY <2>1, <2>2, <2>7, <3>1
  <2> QED BY <2>6, <2>7
<1>10. Places(c, M) = [u \in M |-> Places(c, M)[u]]
  BY DEF Places
<1>11. Places(c, M) = [j \in M |->
              IF j = i \/ (s[j].line = s[i].line /\ s[j].pos > s[i].pos + 1)
                THEN [s[j] EXCEPT !.pos = @ + 1] ELSE s[j]]
  BY <1>9, <1>10
<1>12. DOMAIN s = M
  BY DEF Places
<1> QED BY <1>6, <1>8, <1>11, <1>12 DEF LetterTyped

\* Taking the character in front of a position out of a line is RemoveAt.
LEMMA RopeDelIs ==
  ASSUME NEW s \in Seq(Chars), NEW p \in Nat, p > 0, p <= Len(s)
  PROVE  rope_del(s, p - 1, 1) = RemoveAt(s, p)
<1>1. Len(s) \in Nat
  BY LenProperties
<1>2. Min2(p - 1, Len(s)) = p - 1 /\ Min2(1, Len(s) - (p - 1)) = 1 /\ p - 1 + 1 + 1 = p + 1
  BY <1>1 DEF Min2
<1>3. rope_del(s, p - 1, 1) = SubSeq(s, 1, p - 1) \o SubSeq(s, p + 1, Len(s))
  BY <1>2 DEF rope_del
<1> QED BY <1>3 DEF RemoveAt

\* A letter erased in front of slot k is Document's EraseLetter.
LEMMA EraseEffect ==
  ASSUME Lossless, NEW b, Sound(b), NEW c, Sound(c), SameIds(b, c),
         NEW M, NULL \notin M, HaveCursors(b, M), NEW i \in M,
         Erased(b, c, bcursor_find(b, i)), b.curs[bcursor_find(b, i)].pos > 0,
         NEW t, t = Text(b), NEW s, s = Places(b, M)
  PROVE  LetterErased(t, s, i, Text(c), Places(c, M))
<1>1. PICK k \in AllSlots :
         /\ b.curs[k].id = i /\ b.curs[k].id # NULL /\ bcursor_find(b, i) = k
         /\ s[i] = Where(b.curs[k])
         /\ b.curs[k].line \in 1 .. b.last /\ b.curs[k].line \in Nat /\ b.curs[k].pos \in Nat
         /\ b.str[b.curs[k].line] \in Seq(Chars)
         /\ b.curs[k].pos <= Len(b.str[b.curs[k].line])
  BY PlacePair
<1>2. PICK x : x = b.curs[k]
  OBVIOUS
<1>3. GoodLines(b) /\ GoodLines(c)
  BY DEF Sound
<1>4. s[i].line = x.line /\ s[i].pos = x.pos /\ t[x.line] = b.str[x.line]
  <2>1. s[i].line = x.line /\ s[i].pos = x.pos
    BY <1>1, <1>2 DEF Where
  <2>2. x.line \in 1 .. b.last
    BY <1>1, <1>2
  <2> QED BY <1>3, <2>1, <2>2, TextFacts
<1>5. /\ c.str = [b.str EXCEPT ![x.line] = rope_del(b.str[x.line], x.pos - 1, 1)]
      /\ c.last = b.last
      /\ \A j \in AllSlots : c.curs[j] =
           LET y == b.curs[j] IN
           IF j = k \/ (y.id # NULL /\ y.line = x.line /\ x.pos - 1 < y.pos)
             THEN MovedTo(y, y.line, y.pos + (-1)) ELSE y
  BY <1>1, <1>2 DEF Erased
<1>6. x.pos > 0 /\ x.pos \in Nat /\ x.pos <= Len(b.str[x.line]) /\ b.str[x.line] \in Seq(Chars)
  BY <1>1, <1>2
<1>7. rope_del(b.str[x.line], x.pos - 1, 1) = RemoveAt(t[s[i].line], s[i].pos)
  BY <1>4, <1>6, RopeDelIs
<1>8. Text(c) = [t EXCEPT ![s[i].line] = RemoveAt(@, s[i].pos)]
  <2>1. PICK e : e = RemoveAt(t[s[i].line], s[i].pos)
    OBVIOUS
  <2>2. e \in Seq(Chars)
    <3>1. x.pos - 1 \in Nat
      BY <1>6
    <3> QED BY <1>6, <1>7, <2>1, <3>1, RopeDel
  <2>3. /\ t \in Seq(Seq(Chars)) /\ Len(t) = b.last /\ x.line \in 1 .. b.last
        /\ \A l \in 1 .. b.last : t[l] = b.str[l]
    BY <1>1, <1>2, <1>3, TextFacts
  <2>4. PICK r : r = [t EXCEPT ![x.line] = e]
    OBVIOUS
  <2>5. /\ r \in Seq(Seq(Chars)) /\ Len(r) = b.last
        /\ \A l \in 1 .. b.last : r[l] = IF l = x.line THEN e ELSE t[l]
    BY <2>2, <2>3, <2>4, ExceptSeq
  <2>6. DOMAIN b.str = 1 .. Len(b.str) /\ \A l \in 1 .. b.last : l \in 1 .. Len(b.str)
    BY <1>3, LengthTypes, LenProperties DEF GoodLines
  <2>7. \A l \in 1 .. c.last : r[l] = c.str[l]
    BY SMTT(60), <1>5, <1>7, <2>1, <2>3, <2>5, <2>6
  <2>8. Text(c) = r
    BY <1>3, <1>5, <2>5, <2>7, TextIs
  <2> QED BY <1>4, <2>1, <2>4, <2>8
<1>9. ASSUME NEW u \in M
      PROVE  Places(c, M)[u] = IF s[u].line = s[i].line /\ s[u].pos >= s[i].pos
                                 THEN [s[u] EXCEPT !.pos = @ - 1] ELSE s[u]
  <2>1. PICK j \in AllSlots :
           /\ b.curs[j].id = u /\ b.curs[j].id # NULL /\ bcursor_find(b, u) = j
           /\ s[u] = Where(b.curs[j]) /\ Places(c, M)[u] = Where(c.curs[j])
           /\ b.curs[j].pos \in Nat
    BY PlacePair
  <2>2. PICK y : y = b.curs[j]
    OBVIOUS
  <2>3. j = k => y = x
    BY <1>2, <2>2
  <2>4. s[u].line = y.line /\ s[u].pos = y.pos /\ y.pos \in Nat
        /\ s[u] = [line |-> y.line, pos |-> y.pos]
    BY <2>1, <2>2 DEF Where
  <2>5. (s[u].pos >= s[i].pos) <=> (x.pos - 1 < y.pos)
    BY <1>4, <1>6, <2>4
  <2>6. CASE s[u].line = s[i].line /\ s[u].pos >= s[i].pos
    <3>1. c.curs[j] = MovedTo(y, y.line, y.pos + (-1))
      BY <1>4, <1>5, <2>1, <2>2, <2>4, <2>5, <2>6
    <3>2. y.pos + (-1) = y.pos - 1
      BY <2>4
    <3>3. Places(c, M)[u] = [line |-> y.line, pos |-> y.pos - 1]
      BY <2>1, <3>1, <3>2 DEF Where, MovedTo
    <3> QED BY <2>4, <2>6, <3>3
  <2>7. CASE ~(s[u].line = s[i].line /\ s[u].pos >= s[i].pos)
    <3>1. ~(y.line = x.line /\ x.pos - 1 < y.pos) /\ j # k
      BY <1>4, <1>6, <2>3, <2>4, <2>5, <2>7
    <3>2. c.curs[j] = y
      BY <1>5, <2>1, <2>2, <3>1
    <3> QED BY <2>1, <2>2, <2>7, <3>2
  <2> QED BY <2>6, <2>7
<1>10. Places(c, M) = [u \in M |-> Places(c, M)[u]]
  BY DEF Places
<1>11. Places(c, M) = [j \in M |->
              IF s[j].line = s[i].line /\ s[j].pos >= s[i].pos
                THEN [s[j] EXCEPT !.pos = @ - 1] ELSE s[j]]
  BY <1>9, <1>10
<1>12. DOMAIN s = M
  BY DEF Places
<1> QED BY <1>4, <1>6, <1>8, <1>11, <1>12 DEF LetterErased

\* A sequence of which the elements after h up to n give way to those of m.
Splice(t, h, m, n) == SubSeq(t, 1, h) \o m \o SubSeq(t, n + 1, Len(t))

\* Its length, and what is where.
LEMMA SpliceProperties ==
  ASSUME NEW S, NEW t \in Seq(S), NEW m \in Seq(S), NEW h \in 0 .. Len(t), NEW n \in h .. Len(t)
  PROVE  LET r == Splice(t, h, m, n) IN
         /\ r \in Seq(S) /\ Len(r) = h + Len(m) + (Len(t) - n) /\ Len(r) \in Nat
         /\ \A l \in 1 .. Len(r) : r[l] = IF l <= h THEN t[l]
                                          ELSE IF l <= h + Len(m) THEN m[l - h]
                                          ELSE t[l - h - Len(m) + n]
<1>1. Len(t) \in Nat /\ Len(m) \in Nat /\ h \in Nat /\ n \in Nat /\ h <= n /\ n <= Len(t)
      /\ \A l \in 1 .. Len(t) : t[l] \in S
  BY LenProperties, ElementOfSeq
<1>2. PICK p : p = SubSeq(t, 1, h)
  OBVIOUS
<1>3. PICK q : q = SubSeq(t, n + 1, Len(t))
  OBVIOUS
<1>4. p \in Seq(S) /\ Len(p) = h /\ \A l \in 1 .. h : p[l] = t[l]
  <2>1. 1 \in Int /\ h \in Int /\ \A l \in 1 .. h : t[l] \in S
    BY <1>1
  <2>2. /\ p \in Seq(S) /\ Len(p) = (IF 1 <= h THEN h - 1 + 1 ELSE 0)
        /\ \A l \in 1 .. h - 1 + 1 : p[l] = t[1 + l - 1]
    BY <1>2, <2>1, SubSeqProperties
  <2>3. \A l \in 1 .. h : 1 + l - 1 = l
    OBVIOUS
  <2>4. h - 1 + 1 = h /\ (IF 1 <= h THEN h - 1 + 1 ELSE 0) = h
    BY <1>1
  <2> QED BY <2>2, <2>3, <2>4
<1>5. q \in Seq(S) /\ Len(q) = Len(t) - n /\ \A l \in 1 .. Len(t) - n : q[l] = t[l + n]
  <2>1. n + 1 \in Int /\ Len(t) \in Int /\ \A l \in n + 1 .. Len(t) : t[l] \in S
    BY <1>1
  <2>2. /\ q \in Seq(S)
        /\ Len(q) = (IF n + 1 <= Len(t) THEN Len(t) - (n + 1) + 1 ELSE 0)
        /\ \A l \in 1 .. Len(t) - (n + 1) + 1 : q[l] = t[(n + 1) + l - 1]
    BY <1>3, <2>1, SubSeqProperties
  <2>3. Len(t) - (n + 1) + 1 = Len(t) - n /\ \A l \in 1 .. Len(t) - n : (n + 1) + l - 1 = l + n
    BY <1>1
  <2>4. Len(q) = Len(t) - n
    BY <1>1, <2>2
  <2> QED BY <2>2, <2>3, <2>4
<1>6. PICK w : w = p \o m
  OBVIOUS
<1>7. /\ w \in Seq(S) /\ Len(w) = h + Len(m)
      /\ \A l \in 1 .. h + Len(m) : w[l] = IF l <= h THEN p[l] ELSE m[l - h]
  BY <1>4, <1>6, ConcatProperties
<1>8. PICK r : r = Splice(t, h, m, n)
  OBVIOUS
<1>9. r = w \o q
  BY <1>2, <1>3, <1>6, <1>8 DEF Splice
<1>10. /\ r \in Seq(S) /\ Len(r) = Len(w) + Len(q)
      /\ \A l \in 1 .. Len(w) + Len(q) : r[l] = IF l <= Len(w) THEN w[l] ELSE q[l - Len(w)]
  <2>1. w \in Seq(S) /\ q \in Seq(S)
    BY <1>5, <1>7
  <2>2. /\ w \o q \in Seq(S) /\ Len(w \o q) = Len(w) + Len(q)
        /\ \A l \in 1 .. Len(w) + Len(q) :
             (w \o q)[l] = IF l <= Len(w) THEN w[l] ELSE q[l - Len(w)]
    BY <2>1, ConcatProperties
  <2> QED BY <1>9, <2>2
<1>11. Len(r) = h + Len(m) + (Len(t) - n) /\ Len(r) \in Nat
  <2>1. Len(w) = h + Len(m) /\ Len(q) = Len(t) - n /\ Len(r) = Len(w) + Len(q)
    BY <1>5, <1>7, <1>10
  <2>2. /\ Len(t) \in Nat /\ Len(m) \in Nat /\ h \in Nat /\ n \in Nat /\ n <= Len(t)
    BY <1>1
  <2>3. PICK lr, lw, lq, lm, lt : /\ lr = Len(r) /\ lw = Len(w) /\ lq = Len(q)
                                 /\ lm = Len(m) /\ lt = Len(t)
    OBVIOUS
  <2>4. lr = h + lm + (lt - n) /\ lr \in Nat
    BY <2>1, <2>2, <2>3
  <2> QED BY <2>3, <2>4
<1>12. ASSUME NEW l \in 1 .. Len(r)
       PROVE  r[l] = IF l <= h THEN t[l]
                     ELSE IF l <= h + Len(m) THEN m[l - h] ELSE t[l - h - Len(m) + n]
  <2>1. l \in Nat /\ l >= 1 /\ l <= h + Len(m) + (Len(t) - n)
    <3>1. PICK N \in Nat : N = Len(r)
      BY <1>11
    <3>2. l \in 1 .. N
      BY <3>1
    <3>3. l \in Nat /\ l >= 1 /\ l <= N
      BY <3>2
    <3> QED BY <1>11, <3>1, <3>3
  <2>2. r[l] = IF l <= h + Len(m) THEN w[l] ELSE q[l - (h + Len(m))]
    <3>1. Len(w) = h + Len(m) /\ l \in 1 .. Len(w) + Len(q)
      BY <1>7, <1>10
    <3> QED BY <1>10, <3>1
  <2>3. CASE l <= h + Len(m)
    <3>1. w[l] = IF l <= h THEN p[l] ELSE m[l - h]
      BY <1>1, <1>7, <2>1, <2>3
    <3>2. l <= h => p[l] = t[l]
      BY <1>1, <1>4, <2>1
    <3>3. l <= h => l <= h + Len(m)
      BY <1>1, <2>1
    <3> QED BY <2>2, <2>3, <3>1, <3>2
  <2>4. CASE ~(l <= h + Len(m))
    <3>1. l - (h + Len(m)) \in 1 .. Len(t) - n /\ ~(l <= h)
      BY <1>1, <2>1, <2>4
    <3>2. q[l - (h + Len(m))] = t[l - (h + Len(m)) + n]
      BY <1>5, <3>1
    <3>3. l - (h + Len(m)) + n = l - h - Len(m) + n
      BY <1>1, <2>1
    <3> QED BY <2>2, <2>4, <3>1, <3>2, <3>3
  <2> QED BY <2>3, <2>4
<1> QED BY <1>8, <1>10, <1>11, <1>12

\* Its length alone, with nothing assumed of what is spliced but what is needed.
LEMMA SpliceLen ==
  ASSUME NEW S, NEW t, NEW m, NEW h, NEW n,
         t \in Seq(S), m \in Seq(S), h \in 0 .. Len(t), n \in h .. Len(t)
  PROVE  Len(Splice(t, h, m, n)) = h + Len(m) + (Len(t) - n)
BY SpliceProperties, Zenon

\* The lines after h up to n of the text of b gave way to those of m.
Spliced(b, c, h, m, n) ==
  /\ c.last = h + Len(m) + (b.last - n)
  /\ \A l \in 1 .. c.last : c.str[l] = IF l <= h THEN b.str[l]
                                       ELSE IF l <= h + Len(m) THEN m[l - h]
                                       ELSE b.str[l - h - Len(m) + n]

\* The text of a spliced chain is a splice of the text.
LEMMA SplicedText ==
  ASSUME NEW b, GoodLines(b), NEW c, GoodLines(c), NEW t, t = Text(b),
         NEW h \in 0 .. b.last, NEW n \in h .. b.last, NEW m \in Seq(Seq(Chars)),
         Spliced(b, c, h, m, n)
  PROVE  Text(c) = Splice(t, h, m, n)
<1>1. t \in Seq(Seq(Chars)) /\ Len(t) = b.last /\ b.last \in Nat
      /\ \A l \in 1 .. b.last : t[l] = b.str[l]
  BY TextFacts
<1>2. PICK r : r = Splice(t, h, m, n)
  OBVIOUS
<1>3. h \in 0 .. Len(t) /\ n \in h .. Len(t)
  BY <1>1
<1>4. /\ r \in Seq(Seq(Chars)) /\ Len(r) = h + Len(m) + (Len(t) - n) /\ Len(r) \in Nat
      /\ \A l \in 1 .. Len(r) : r[l] = IF l <= h THEN t[l]
                                       ELSE IF l <= h + Len(m) THEN m[l - h]
                                       ELSE t[l - h - Len(m) + n]
  <2>1. PICK S : S = Seq(Chars)
    OBVIOUS
  <2>2. t \in Seq(S) /\ m \in Seq(S)
    BY <1>1, <2>1
  <2>3. r \in Seq(S) /\ Len(r) \in Nat
    BY <1>2, <1>3, <2>2, SpliceProperties
  <2>4. Len(Splice(t, h, m, n)) = h + Len(m) + (Len(t) - n)
    BY SMTT(60), <1>3, <2>2, SpliceLen
  <2>5. \A l \in 1 .. Len(r) : r[l] = IF l <= h THEN t[l]
                                      ELSE IF l <= h + Len(m) THEN m[l - h]
                                      ELSE t[l - h - Len(m) + n]
    <3> TAKE l \in 1 .. Len(r)
    <3>1. l \in 1 .. Len(Splice(t, h, m, n))
      BY <1>2
    <3>2. Splice(t, h, m, n)[l] = IF l <= h THEN t[l]
                                  ELSE IF l <= h + Len(m) THEN m[l - h]
                                  ELSE t[l - h - Len(m) + n]
      BY <1>3, <2>2, <3>1, SpliceProperties
    <3> QED BY <1>2, <3>2
  <2> QED BY <1>2, <2>1, <2>3, <2>4, <2>5
<1>5. Len(r) = c.last
  BY <1>1, <1>4 DEF Spliced
<1>6. ASSUME NEW l \in 1 .. c.last PROVE r[l] = c.str[l]
  <2>1. PICK N \in Nat : N = c.last /\ l \in 1 .. N
    BY <1>4, <1>5
  <2>2. PICK k \in Nat : k = Len(m)
    BY LenProperties
  <2>3. l \in Nat /\ l >= 1 /\ l <= h + k + (b.last - n) /\ h \in Nat /\ n \in Nat
        /\ h <= n /\ n <= b.last
    <3>1. N = h + k + (b.last - n)
      BY <2>1, <2>2 DEF Spliced
    <3>2. h \in Nat /\ n \in Nat /\ h <= n /\ n <= b.last
      BY <1>1
    <3> QED BY <2>1, <3>1, <3>2
  <2>4. r[l] = IF l <= h THEN t[l] ELSE IF l <= h + k THEN m[l - h] ELSE t[l - h - k + n]
    <3>1. l \in 1 .. Len(r)
      BY <1>5
    <3> QED BY <1>4, <2>2, <3>1
  <2>5. c.str[l] = IF l <= h THEN b.str[l] ELSE IF l <= h + k THEN m[l - h]
                   ELSE b.str[l - h - k + n]
    BY <2>2 DEF Spliced
  <2>6. l <= h => l \in 1 .. b.last
    BY <1>1, <2>3
  <2>7. ~(l <= h + k) => l - h - k + n \in 1 .. b.last
    BY <1>1, <2>2, <2>3
  <2> QED BY <1>1, <2>4, <2>5, <2>6, <2>7
<1> QED BY <1>2, <1>4, <1>5, <1>6, TextIs

\* A line broken above slot k, or below it, is Document's Break.
LEMMA BreakEffect ==
  ASSUME Lossless, NEW b, Sound(b), NEW c, Sound(c), SameIds(b, c),
         NEW M, NULL \notin M, HaveCursors(b, M), NEW i \in M,
         Own \in M => b.server_mode = FALSE,
         IF b.curs[bcursor_find(b, i)].pos = 0 THEN BrokenAbove(b, c, bcursor_find(b, i))
                                               ELSE BrokenBelow(b, c, bcursor_find(b, i)),
         NEW t, t = Text(b), NEW s, s = Places(b, M)
  PROVE  LineBroken(t, s, i, Text(c), Places(c, M))
<1>1. PICK k \in AllSlots :
         /\ b.curs[k].id = i /\ b.curs[k].id # NULL /\ bcursor_find(b, i) = k
         /\ s[i] = Where(b.curs[k])
         /\ b.curs[k].line \in 1 .. b.last /\ b.curs[k].line \in Nat /\ b.curs[k].pos \in Nat
         /\ b.str[b.curs[k].line] \in Seq(Chars)
         /\ b.curs[k].pos <= Len(b.str[b.curs[k].line])
  BY PlacePair
<1>2. PICK x : x = b.curs[k]
  OBVIOUS
<1>3. GoodLines(b) /\ GoodLines(c)
  BY DEF Sound
<1>4. PICK l, p, z : l = x.line /\ p = x.pos /\ z = b.str[l]
  OBVIOUS
<1>5. s[i].line = l /\ s[i].pos = p
  BY <1>1, <1>2, <1>4 DEF Where
<1>6. /\ l \in 1 .. b.last /\ l \in Nat /\ l >= 1 /\ p \in Nat /\ p <= Len(z) /\ b.last \in Nat
      /\ z \in Seq(Chars) /\ Len(z) \in Nat /\ l <= b.last
  BY SMTT(60), <1>1, <1>2, <1>3, <1>4, TextFacts
<1>7. t[l] = z /\ Len(t) = b.last
  BY <1>3, <1>4, <1>6, TextFacts
<1>8. PICK A, B : A = SubSeq(z, 1, p) /\ B = SubSeq(z, p + 1, Len(z))
  OBVIOUS
<1>9. A \in Seq(Chars) /\ B \in Seq(Chars) /\ Len(B) = Len(z) - p
      /\ (p = 0 => A = << >> /\ B = z)
  <2>1. \A j \in 1 .. Len(z) : z[j] \in Chars
    BY <1>6, ElementOfSeq
  <2>2. A \in Seq(Chars)
    <3>1. 1 \in Int /\ p \in Int /\ \A j \in 1 .. p : z[j] \in Chars
      BY <1>6, <2>1
    <3> QED BY <1>8, <3>1, SubSeqProperties
  <2>3. B \in Seq(Chars) /\ Len(B) = IF p + 1 <= Len(z) THEN Len(z) - (p + 1) + 1 ELSE 0
    <3>1. p + 1 \in Int /\ Len(z) \in Int /\ \A j \in p + 1 .. Len(z) : z[j] \in Chars
      BY <1>6, <2>1
    <3> QED BY <1>8, <3>1, SubSeqProperties
  <2>4. p = 0 => A = << >>
    BY <1>8, SubSeqEmpty
  <2>5. p = 0 => B = z
    BY <1>6, <1>8, SubSeqFull
  <2>6. Len(B) = Len(z) - p
    BY <1>6, <2>3
  <2> QED BY <2>2, <2>3, <2>4, <2>5, <2>6
\* The lines of c.
<1>10. /\ c.last = b.last + 1
       /\ \A m \in 1 .. b.last + 1 :
            c.str[m] = IF m < l THEN b.str[m] ELSE IF m = l THEN A
                       ELSE IF m = l + 1 THEN B ELSE b.str[m - 1]
  <2>1. \A m \in 1 .. b.last : m \in 1 .. Len(b.str)
    BY <1>3, LengthTypes
  <2>2. \A m \in 1 .. b.last + 1 : m \in 1 .. Len(b.str) + 1
    <3>1. Len(b.str) \in Nat /\ b.last < Len(b.str)
      BY <1>3, LengthTypes
    <3> QED BY <1>6, <3>1
  <2>3. CASE p = 0
    <3>1. BrokenAbove(b, c, k)
      BY <1>1, <1>2, <1>4, <2>3
    <3>2. /\ c.last = b.last + 1
          /\ \A m \in 1 .. Len(b.str) + 1 :
               c.str[m] = IF m < l THEN b.str[m] ELSE IF m = l THEN << >> ELSE b.str[m - 1]
      BY <1>2, <1>4, <3>1 DEF BrokenAbove
    <3>3. (l + 1) - 1 = l
      BY <1>6
    <3> QED BY <1>4, <1>9, <2>2, <2>3, <3>2, <3>3
  <2>4. CASE p # 0
    <3>1. BrokenBelow(b, c, k)
      BY <1>1, <1>2, <1>4, <2>4
    <3>2. Min2(p, Len(z)) = p
      BY <1>6 DEF Min2
    <3>3. IsSplit(b, c, l, A, B)
      BY <1>2, <1>4, <1>8, <3>1, <3>2 DEF BrokenBelow
    <3>4. /\ c.last = b.last + 1 /\ c.str[l] = A /\ c.str[l + 1] = B
          /\ \A m \in 1 .. Len(b.str) : m < l => c.str[m] = b.str[m]
          /\ \A m \in 1 .. Len(b.str) : m > l => c.str[m + 1] = b.str[m]
      BY <3>3 DEF IsSplit
    <3>5. ASSUME NEW m \in 1 .. b.last + 1
          PROVE  c.str[m] = IF m < l THEN b.str[m] ELSE IF m = l THEN A
                            ELSE IF m = l + 1 THEN B ELSE b.str[m - 1]
      <4>1. m \in Nat /\ m >= 1 /\ m <= b.last + 1
        BY <1>6
      <4>2. m < l => m \in 1 .. b.last
        BY <1>6, <4>1
      <4>3. m > l + 1 => m - 1 \in 1 .. b.last /\ m - 1 > l /\ (m - 1) + 1 = m
        BY <1>6, <4>1
      <4>4. m < l \/ m = l \/ m = l + 1 \/ m > l + 1
        BY <1>6, <4>1
      <4>5. CASE m < l
        BY <2>1, <3>4, <4>2, <4>5
      <4>6. CASE m = l
        BY <1>6, <3>4, <4>6
      <4>7. CASE m = l + 1
        BY <1>6, <3>4, <4>7
      <4>8. CASE m > l + 1
        <5>1. c.str[m] = b.str[m - 1]
          BY <2>1, <3>4, <4>3, <4>8
        <5> QED BY <1>6, <4>1, <4>8, <5>1
      <4> QED BY <4>4, <4>5, <4>6, <4>7, <4>8
    <3> QED BY <3>4, <3>5
  <2> QED BY <2>3, <2>4
<1>11. Text(c) = Splice(t, l - 1, << A, B >>, l)
  <2>1. PICK m : m = << A, B >>
    OBVIOUS
  <2>2. m \in Seq(Seq(Chars)) /\ Len(m) = 2 /\ m[1] = A /\ m[2] = B
    BY <1>9, <2>1
  <2>3. PICK h : h = l - 1
    OBVIOUS
  <2>4. h \in 0 .. b.last /\ l \in h .. b.last /\ h + 1 = l /\ h \in Nat
    BY <1>6, <2>3
  <2>5. c.last = h + 2 + (b.last - l)
    <3>1. c.last = b.last + 1 /\ b.last \in Nat /\ l \in Nat
      BY <1>6, <1>10
    <3> QED BY <2>3, <3>1
  <2>6. ASSUME NEW n \in 1 .. c.last
        PROVE  c.str[n] = IF n <= h THEN b.str[n] ELSE IF n <= h + 2 THEN m[n - h]
                          ELSE b.str[n - h - 2 + l]
    <3>1. n \in Nat /\ n >= 1 /\ n \in 1 .. b.last + 1
      BY <1>6, <1>10
    <3>2. c.str[n] = IF n < l THEN b.str[n] ELSE IF n = l THEN A
                     ELSE IF n = l + 1 THEN B ELSE b.str[n - 1]
      BY <1>10, <3>1
    <3>3. n <= h \/ n = h + 1 \/ n = h + 2 \/ n > h + 2
      BY <2>4, <3>1
    <3>4. CASE n <= h
      BY <2>4, <3>1, <3>2, <3>4
    <3>5. CASE n = h + 1
      <4>1. n - h = 1 /\ n = l /\ ~(n <= h) /\ n <= h + 2
        BY <2>4, <3>5
      <4> QED BY <1>6, <2>2, <3>2, <4>1
    <3>6. CASE n = h + 2
      <4>1. n - h = 2 /\ n = l + 1 /\ ~(n <= h) /\ n <= h + 2
        BY <2>4, <3>6
      <4> QED BY <1>6, <2>2, <3>2, <4>1
    <3>7. CASE n > h + 2
      <4>1. n \in Nat /\ h \in Nat /\ l = h + 1
        BY <2>4, <3>1
      <4>2. n - h - 2 + l = n - 1 /\ ~(n < l) /\ n # l /\ n # l + 1 /\ ~(n <= h) /\ ~(n <= h + 2)
        BY <3>7, <4>1
      <4> QED BY <3>2, <4>2
    <3> QED BY <3>3, <3>4, <3>5, <3>6, <3>7
  <2>7. Text(c) = Splice(t, h, m, l)
    <3>1. c.last = h + Len(m) + (b.last - l)
      BY <2>2, <2>5
    <3>2. \A n \in 1 .. c.last :
            c.str[n] = IF n <= h THEN b.str[n] ELSE IF n <= h + Len(m) THEN m[n - h]
                       ELSE b.str[n - h - Len(m) + l]
      BY <2>2, <2>6
    <3>3. m \in Seq(Seq(Chars)) /\ h \in 0 .. b.last /\ l \in h .. b.last
      BY <2>2, <2>4
    <3>4. Spliced(b, c, h, m, l)
      BY <3>1, <3>2 DEF Spliced
    <3> QED BY <1>3, <3>3, <3>4, SplicedText
  <2> QED BY <2>1, <2>3, <2>7
\* The cursors of c.
<1>12. ASSUME NEW u \in M
       PROVE  Places(c, M)[u] =
                IF s[u].line > l THEN [line |-> s[u].line + 1, pos |-> s[u].pos]
                ELSE IF s[u].line = l /\ (u = i \/ p = 0 \/ s[u].pos > p)
                  THEN [line |-> l + 1, pos |-> s[u].pos - p]
                ELSE s[u]
  <2>1. PICK j \in AllSlots :
           /\ b.curs[j].id = u /\ b.curs[j].id # NULL /\ bcursor_find(b, u) = j
           /\ s[u] = Where(b.curs[j]) /\ Places(c, M)[u] = Where(c.curs[j])
           /\ b.curs[j].line \in 1 .. b.last /\ b.curs[j].line \in Nat /\ b.curs[j].pos \in Nat
           /\ b.curs[j].pos <= Len(b.str[b.curs[j].line])
    BY PlacePair
  <2>2. PICK y : y = b.curs[j]
    OBVIOUS
  <2>3. (u = i <=> j = k) /\ (j = k => y = x)
    BY <1>1, <1>2, <2>1, <2>2
  <2>4. s[u].line = y.line /\ s[u].pos = y.pos /\ y.pos \in Nat /\ y.line \in Nat
        /\ s[u] = [line |-> y.line, pos |-> y.pos] /\ y.id # NULL
        /\ (y.line = l => y.pos <= Len(z))
    BY <1>4, <2>1, <2>2 DEF Where
  <2>5. \A n : Where(MovedTo(y, y.line + 1, n)) = [line |-> y.line + 1, pos |-> n]
               /\ Where(MovedTo(y, l + 1, n)) = [line |-> l + 1, pos |-> n]
               /\ Where(MovedTo(y, y.line, n)) = [line |-> y.line, pos |-> n]
    BY DEF Where, MovedTo
  <2>6. CASE p = 0
    <3>1. BrokenAbove(b, c, k)
      BY <1>1, <1>2, <1>4, <2>6
    <3>2. c.curs[j] = Shifted(y, l)
      <4>1. CASE j # Own
        BY <1>2, <1>4, <2>2, <3>1, <4>1 DEF BrokenAbove
      <4>2. CASE j = Own
        <5>1. u = Own
          BY <2>1, <4>2, OwnFacts
        <5>2. b.server_mode = FALSE
          BY <5>1
        <5> QED BY <1>2, <1>4, <2>2, <3>1, <4>2, <5>2 DEF BrokenAbove
      <4> QED BY <4>1, <4>2
    <3>3. Shifted(y, l) = IF y.line >= l THEN MovedTo(y, y.line + 1, y.pos)
                                         ELSE MovedTo(y, y.line, y.pos)
      BY DEF Shifted, Shift
    <3>4. y.pos - p = y.pos
      BY <2>4, <2>6
    <3>5. CASE y.line > l
      BY <1>6, <2>1, <2>4, <2>5, <3>2, <3>3, <3>5
    <3>6. CASE y.line = l
      BY <1>6, <2>1, <2>4, <2>5, <2>6, <3>2, <3>3, <3>4, <3>6
    <3>7. CASE y.line < l
      BY <1>6, <2>1, <2>4, <2>5, <3>2, <3>3, <3>7
    <3>8. y.line > l \/ y.line = l \/ y.line < l
      BY <1>6, <2>4
    <3> QED BY <3>5, <3>6, <3>7, <3>8
  <2>7. CASE p # 0
    <3>1. BrokenBelow(b, c, k)
      BY <1>1, <1>2, <1>4, <2>7
    <3>2. Min2(p, Len(z)) = p
      BY <1>6 DEF Min2
    <3>3. c.curs[j] = IF j = k THEN MovedTo(y, l + 1, 0)
                      ELSE IF p # Len(z) /\ y.id # NULL /\ y.line = l /\ p < y.pos
                        THEN MovedTo(y, l + 1, Min2(y.pos - p, Len(B)))
                      ELSE Shifted(y, l + 1)
      BY <1>2, <1>4, <1>8, <2>2, <3>1, <3>2 DEF BrokenBelow
    <3>4. Shifted(y, l + 1) = IF y.line >= l + 1 THEN MovedTo(y, y.line + 1, y.pos)
                                                 ELSE MovedTo(y, y.line, y.pos)
      BY DEF Shifted, Shift
    <3>5. CASE j = k
      <4>1. y.line = l /\ y.pos - p = 0
        BY <1>4, <1>6, <2>3, <3>5
      <4>2. c.curs[j] = MovedTo(y, l + 1, 0)
        BY <3>3, <3>5
      <4>3. Places(c, M)[u] = [line |-> l + 1, pos |-> s[u].pos - p]
        BY <2>1, <2>4, <2>5, <4>1, <4>2
      <4>4. s[u].line = l /\ u = i /\ ~(l > l)
        BY <1>6, <2>3, <2>4, <3>5, <4>1
      <4> QED BY <4>3, <4>4
    <3>6. CASE j # k /\ y.line = l /\ p < y.pos
      <4>1. p # Len(z) /\ Min2(y.pos - p, Len(B)) = y.pos - p
        BY <1>6, <1>9, <2>4, <3>6 DEF Min2
      <4>2. c.curs[j] = MovedTo(y, l + 1, y.pos - p)
        BY <2>4, <3>3, <3>6, <4>1
      <4>3. Places(c, M)[u] = [line |-> l + 1, pos |-> s[u].pos - p]
        BY <2>1, <2>4, <2>5, <4>2
      <4>4. s[u].line = l /\ s[u].pos > p /\ ~(l > l)
        BY <1>6, <2>4, <3>6
      <4> QED BY <4>3, <4>4
    <3>7. CASE j # k /\ ~(y.line = l /\ p < y.pos)
      <4>1. c.curs[j] = IF y.line >= l + 1 THEN MovedTo(y, y.line + 1, y.pos)
                                           ELSE MovedTo(y, y.line, y.pos)
        BY <3>3, <3>4, <3>7
      <4>2. ~(s[u].line = l /\ (u = i \/ p = 0 \/ s[u].pos > p))
        BY <1>6, <2>3, <2>4, <2>7, <3>7
      <4>3. y.line >= l + 1 <=> s[u].line > l
        BY <1>6, <2>4
      <4> QED BY <2>1, <2>4, <2>5, <4>1, <4>2, <4>3
    <3> QED BY <3>5, <3>6, <3>7
  <2> QED BY <2>6, <2>7
<1>13. Places(c, M) = [u \in M |-> Places(c, M)[u]]
  BY DEF Places
<1>14. Places(c, M) = [j \in M |->
              IF s[j].line > l THEN [line |-> s[j].line + 1, pos |-> s[j].pos]
              ELSE IF s[j].line = l /\ (j = i \/ p = 0 \/ s[j].pos > p)
                THEN [line |-> l + 1, pos |-> s[j].pos - p]
              ELSE s[j]]
  BY <1>12, <1>13
<1>15. DOMAIN s = M
  BY DEF Places
<1> QED BY <1>5, <1>7, <1>8, <1>11, <1>14, <1>15 DEF Splice, LineBroken

\* The line of slot k joined to the one above is Document's EraseBreak.
LEMMA JoinEffect ==
  ASSUME Lossless, NEW b, Sound(b), NEW c, Sound(c), SameIds(b, c),
         NEW M, NULL \notin M, HaveCursors(b, M), NEW i \in M,
         b.curs[bcursor_find(b, i)].pos = 0, b.curs[bcursor_find(b, i)].line # 1,
         Joined(b, c, bcursor_find(b, i)),
         NEW t, t = Text(b), NEW s, s = Places(b, M)
  PROVE  LinesJoined(t, s, i, Text(c), Places(c, M))
<1>1. PICK k \in AllSlots :
         /\ b.curs[k].id = i /\ b.curs[k].id # NULL /\ bcursor_find(b, i) = k
         /\ s[i] = Where(b.curs[k])
         /\ b.curs[k].line \in 1 .. b.last /\ b.curs[k].line \in Nat
  BY PlacePair
<1>2. PICK x : x = b.curs[k]
  OBVIOUS
<1>3. GoodLines(b) /\ GoodLines(c)
  BY DEF Sound
<1>4. PICK l, h : l = x.line /\ h = l - 1
  OBVIOUS
<1>5. s[i].line = l /\ s[i].pos = 0 /\ x.pos = 0
  BY <1>1, <1>2, <1>4 DEF Where
<1>6. /\ l \in 1 .. b.last /\ l \in Nat /\ l > 1 /\ b.last \in Nat /\ l <= b.last
      /\ h \in Nat /\ h >= 1 /\ h \in 1 .. b.last /\ h + 1 = l
  <2>1. l \in 1 .. b.last /\ l \in Nat /\ l # 1 /\ b.last \in Nat
    BY <1>1, <1>2, <1>3, <1>4, TextFacts
  <2> QED BY <1>4, <2>1
<1>7. /\ t[l] = b.str[l] /\ t[h] = b.str[h] /\ Len(t) = b.last
      /\ b.str[l] \in Seq(Chars) /\ Len(b.str[l]) \in Nat
      /\ b.str[h] \in Seq(Chars) /\ Len(b.str[h]) \in Nat
  BY <1>3, <1>6, TextFacts
<1>8. PICK P : P = b.str[h] \o b.str[l]
  OBVIOUS
<1>9. P \in Seq(Chars) /\ Len(P) = Len(b.str[h]) + Len(b.str[l])
  BY <1>7, <1>8, ConcatProperties
<1>91. Joined(b, c, k) /\ b.curs[k].line = l /\ b.curs[k].line - 1 = h
  BY <1>1, <1>2, <1>4
<1>10. /\ c.last = b.last - 1 /\ c.str[h] = P
       /\ \A m \in 1 .. Len(b.str) : m < h => c.str[m] = b.str[m]
       /\ \A m \in 1 .. Len(b.str) : m > l => c.str[m - 1] = b.str[m]
       /\ \A j \in AllSlots : c.curs[j] =
            LET y == b.curs[j] IN
            IF j = k THEN MovedTo(y, h, Len(b.str[h]))
            ELSE IF y.id # NULL /\ y.line = l
              THEN MovedTo(y, h, Min2(y.pos, Len(P)) + Len(b.str[h]))
            ELSE MovedTo(y, Unshift(y.line, l), y.pos)
  BY <1>8, <1>91 DEF Joined
\* The lines of c.
<1>11. Text(c) = Splice(t, h - 1, << P >>, l)
  <2>1. PICK m : m = << P >>
    OBVIOUS
  <2>2. m \in Seq(Seq(Chars)) /\ Len(m) = 1 /\ m[1] = P
    BY <1>9, <2>1
  <2>3. PICK g : g = h - 1
    OBVIOUS
  <2>4. g \in 0 .. b.last /\ l \in g .. b.last /\ g + 1 = h /\ g + 2 = l /\ g \in Nat
    BY <1>6, <2>3
  <2>5. c.last = g + 1 + (b.last - l)
    <3>1. c.last = b.last - 1
      BY <1>10
    <3>2. b.last - 1 = g + 1 + (b.last - l)
      BY <1>6, <2>4
    <3> QED BY <3>1, <3>2
  <2>6. ASSUME NEW n \in 1 .. c.last
        PROVE  c.str[n] = IF n <= g THEN b.str[n] ELSE IF n <= g + 1 THEN m[n - g]
                          ELSE b.str[n - g - 1 + l]
    <3>1. n \in Nat /\ n >= 1 /\ n <= b.last - 1
      BY <1>6, <1>10
    <3>2. \A q \in 1 .. b.last : q \in 1 .. Len(b.str)
      BY <1>3, LengthTypes
    <3>3. n <= g \/ n = g + 1 \/ n > g + 1
      BY <2>4, <3>1
    <3>4. CASE n <= g
      <4>1. n < h /\ n \in 1 .. b.last
        BY <1>6, <2>4, <3>1, <3>4
      <4> QED BY <1>10, <3>2, <3>4, <4>1
    <3>5. CASE n = g + 1
      <4>1. n - g = 1 /\ n = h /\ ~(n <= g) /\ n <= g + 1
        BY <2>4, <3>5
      <4> QED BY <1>10, <2>2, <4>1
    <3>6. CASE n > g + 1
      <4>1. n - g - 1 + l = n + 1 /\ ~(n <= g) /\ ~(n <= g + 1)
        BY <2>4, <3>1, <3>6
      <4>2. n + 1 \in 1 .. b.last /\ n + 1 > l /\ (n + 1) - 1 = n
        BY <1>6, <2>4, <3>1, <3>6
      <4>3. c.str[(n + 1) - 1] = b.str[n + 1]
        BY <1>10, <3>2, <4>2
      <4> QED BY <4>1, <4>2, <4>3
    <3> QED BY <3>3, <3>4, <3>5, <3>6
  <2>7. Text(c) = Splice(t, g, m, l)
    <3>1. c.last = g + Len(m) + (b.last - l)
      BY <2>2, <2>5
    <3>2. \A n \in 1 .. c.last :
            c.str[n] = IF n <= g THEN b.str[n] ELSE IF n <= g + Len(m) THEN m[n - g]
                       ELSE b.str[n - g - Len(m) + l]
      BY <2>2, <2>6
    <3>3. m \in Seq(Seq(Chars)) /\ g \in 0 .. b.last /\ l \in g .. b.last
      BY <2>2, <2>4
    <3>4. Spliced(b, c, g, m, l)
      BY <3>1, <3>2 DEF Spliced
    <3> QED BY <1>3, <3>3, <3>4, SplicedText
  <2> QED BY <2>1, <2>3, <2>7
\* The cursors of c.
<1>12. ASSUME NEW u \in M
       PROVE  Places(c, M)[u] =
                IF s[u].line > l THEN [line |-> s[u].line - 1, pos |-> s[u].pos]
                ELSE IF s[u].line = l THEN [line |-> h, pos |-> s[u].pos + Len(t[h])]
                ELSE s[u]
  <2>1. PICK j \in AllSlots :
           /\ b.curs[j].id = u /\ b.curs[j].id # NULL /\ bcursor_find(b, u) = j
           /\ s[u] = Where(b.curs[j]) /\ Places(c, M)[u] = Where(c.curs[j])
           /\ b.curs[j].line \in 1 .. b.last /\ b.curs[j].line \in Nat /\ b.curs[j].pos \in Nat
           /\ b.curs[j].pos <= Len(b.str[b.curs[j].line])
    BY PlacePair
  <2>2. PICK y : y = b.curs[j]
    OBVIOUS
  <2>3. j = k => y = x
    BY <1>2, <2>2
  <2>4. s[u].line = y.line /\ s[u].pos = y.pos /\ y.pos \in Nat /\ y.line \in Nat
        /\ s[u] = [line |-> y.line, pos |-> y.pos] /\ y.id # NULL
        /\ (y.line = l => y.pos <= Len(b.str[l]))
    BY <2>1, <2>2 DEF Where
  <2>5. \A n, m : Where(MovedTo(y, n, m)) = [line |-> n, pos |-> m]
    BY DEF Where, MovedTo
  <2>6. c.curs[j] = IF j = k THEN MovedTo(y, h, Len(b.str[h]))
                    ELSE IF y.line = l THEN MovedTo(y, h, Min2(y.pos, Len(P)) + Len(b.str[h]))
                    ELSE MovedTo(y, Unshift(y.line, l), y.pos)
    BY <1>10, <2>2, <2>4
  <2>7. CASE j = k
    <3>1. y.line = l /\ y.pos = 0 /\ ~(l > l)
      BY <1>4, <1>5, <1>6, <2>3, <2>7
    <3>2. s[u].pos + Len(t[h]) = Len(b.str[h])
      BY <1>7, <2>4, <3>1
    <3> QED BY <2>1, <2>4, <2>5, <2>6, <2>7, <3>1, <3>2
  <2>8. CASE j # k /\ y.line = l
    <3>1. Min2(y.pos, Len(P)) = y.pos /\ ~(l > l)
      <4>0. PICK n \in Nat, m \in Nat : n = Len(b.str[h]) /\ m = Len(b.str[l])
        BY <1>7
      <4>1. Len(P) \in Nat /\ y.pos <= Len(P)
        <5>1. Len(P) = n + m /\ y.pos \in Nat /\ y.pos <= m
          BY <1>9, <2>4, <2>8, <4>0
        <5> QED BY <5>1
      <4> QED BY <1>6, <4>1 DEF Min2
    <3>2. Min2(y.pos, Len(P)) + Len(b.str[h]) = s[u].pos + Len(t[h])
      BY <1>7, <2>4, <3>1
    <3> QED BY <2>1, <2>4, <2>5, <2>6, <2>8, <3>1, <3>2
  <2>9. CASE j # k /\ y.line # l
    <3>1. Unshift(y.line, l) = IF y.line > l THEN y.line - 1 ELSE y.line
      BY DEF Unshift
    <3> QED BY <2>1, <2>4, <2>5, <2>6, <2>9, <3>1
  <2> QED BY <2>7, <2>8, <2>9
<1>13. Places(c, M) = [u \in M |-> Places(c, M)[u]]
  BY DEF Places
<1>14. Places(c, M) = [j \in M |->
              IF s[j].line > l THEN [line |-> s[j].line - 1, pos |-> s[j].pos]
              ELSE IF s[j].line = l THEN [line |-> h, pos |-> s[j].pos + Len(t[h])]
              ELSE s[j]]
  BY <1>12, <1>13
<1>15. h - 1 = l - 2 /\ h = l - 1
  BY <1>4, <1>6
<1>92. DOMAIN s = M
  BY DEF Places
<1> QED BY ZenonT(60), <1>5, <1>6, <1>7, <1>8, <1>11, <1>14, <1>15, <1>92 DEF Splice, LinesJoined

\* Where a cursor at s may go in one step: nowhere, up, down, left or right, to the
\* line above from the start of one, to the one below from its end.
Reach(t, s, q) ==
  \/ q = s
  \/ s.line > 1 /\ q = [line |-> s.line - 1,
       pos |-> IF s.pos <= Len(t[s.line - 1]) THEN s.pos ELSE Len(t[s.line - 1])]
  \/ s.line < Len(t) /\ q = [line |-> s.line + 1,
       pos |-> IF s.pos <= Len(t[s.line + 1]) THEN s.pos ELSE Len(t[s.line + 1])]
  \/ s.pos > 0 /\ q = [line |-> s.line, pos |-> s.pos - 1]
  \/ ~(s.pos > 0) /\ s.line > 1 /\ q = [line |-> s.line - 1, pos |-> Len(t[s.line - 1])]
  \/ s.pos < Len(t[s.line]) /\ q = [line |-> s.line, pos |-> s.pos + 1]
  \/ ~(s.pos < Len(t[s.line])) /\ s.line < Len(t) /\ q = [line |-> s.line + 1, pos |-> 0]

\* A cursor that moves goes to one of these places.
LEMMA MoveTargets ==
  ASSUME NEW b, GoodLines(b), NEW x, x.line \in 1 .. b.last, x.line \in Nat, x.pos \in Nat,
         NEW dir \in Dirs
  PROVE  Reach(Text(b), Where(x), Where(cursor_move(b, x, dir)))
<1>0. PICK t, m, s : t = Text(b) /\ m = cursor_move(b, x, dir) /\ s = Where(x)
  OBVIOUS
<1> SUFFICES Reach(t, s, Where(m))
  BY <1>0
<1>1. /\ b.last \in Nat /\ Len(t) = b.last /\ b.first = 1
      /\ \A l \in 1 .. b.last : t[l] = b.str[l] /\ Len(b.str[l]) \in Nat
  BY <1>0, TextFacts DEF GoodLines
<1>2. \A n, p : Where(MovedTo(x, n, p)) = [line |-> n, pos |-> p]
  BY DEF Where, MovedTo
<1>3. CanUp(b, x) => x.line > 1 /\ x.line - 1 \in 1 .. b.last
  BY <1>1 DEF CanUp, HasPrev
<1>4. CanDown(b, x) => x.line < b.last /\ x.line + 1 \in 1 .. b.last
  BY <1>1 DEF CanDown
<1>5. \A n, p : Min2(n, p) = IF n <= p THEN n ELSE p
  BY DEF Min2
<1>6. x.pos \in Int /\ LineLen(b, x.line) = Len(t[x.line]) /\ LineLen(b, x.line) \in Int
  BY <1>1 DEF LineLen
<1>7. \A l \in 1 .. b.last : LineLen(b, l) = Len(t[l])
  BY <1>1 DEF LineLen
<1>71. s.line = x.line /\ s.pos = x.pos
  BY <1>0 DEF Where
<1>8. CASE dir = "UP"
  <2>1. m = IF CanUp(b, x) THEN MovedTo(x, x.line - 1, Min2(x.pos, LineLen(b, x.line - 1)))
            ELSE x
    BY <1>0, <1>8, MoveUp
  <2> QED BY <1>0, <1>71, <1>2, <1>3, <1>5, <1>7, <2>1 DEF Reach
<1>9. CASE dir = "DOWN"
  <2>1. m = IF CanDown(b, x) THEN MovedTo(x, x.line + 1, Min2(x.pos, LineLen(b, x.line + 1)))
            ELSE x
    BY <1>0, <1>9, MoveDown
  <2> QED BY SMTT(60), <1>0, <1>71, <1>1, <1>2, <1>4, <1>5, <1>7, <2>1 DEF Reach
<1>10. CASE dir = "LEFT"
  <2>1. m = IF x.pos > 0 THEN MovedTo(x, x.line, x.pos - 1)
            ELSE IF CanUp(b, x) THEN MovedTo(x, x.line - 1, LineLen(b, x.line - 1))
            ELSE x
    BY <1>6, <1>0, <1>10, MoveLeft
  <2> QED BY <1>0, <1>71, <1>2, <1>3, <1>7, <2>1 DEF Reach
<1>11. CASE dir = "RIGHT"
  <2>1. m = IF x.pos < LineLen(b, x.line) THEN MovedTo(x, x.line, x.pos + 1)
            ELSE IF CanDown(b, x) THEN MovedTo(x, x.line + 1, 0)
            ELSE x
    BY <1>6, <1>0, <1>11, MoveRight
  <2> QED BY <1>0, <1>71, <1>1, <1>2, <1>4, <1>6, <2>1 DEF Reach
<1> QED BY <1>8, <1>9, <1>10, <1>11 DEF Dirs

\* Only the cursor in slot k moved.
OnlyMoved(b, c, k, dir) ==
  SameLines(b, c) /\ c.curs = [b.curs EXCEPT ![k] = cursor_move(b, b.curs[k], dir)]

\* A move leaves the text and takes the cursor there, nobody else's.
LEMMA MoveEffect ==
  ASSUME NEW b, Sound(b), NEW c, Sound(c), SameIds(b, c),
         NEW M, NULL \notin M, HaveCursors(b, M), NEW i \in M, NEW dir \in Dirs,
         OnlyMoved(b, c, bcursor_find(b, i), dir),
         NEW t, t = Text(b), NEW s, s = Places(b, M)
  PROVE  /\ Text(c) = t
         /\ \E q : Places(c, M) = [s EXCEPT ![i] = q] /\ Reach(t, s[i], q)
<1>1. PICK k \in AllSlots :
         /\ b.curs[k].id = i /\ b.curs[k].id # NULL /\ bcursor_find(b, i) = k
         /\ s[i] = Where(b.curs[k]) /\ Places(c, M)[i] = Where(c.curs[k])
         /\ b.curs[k].line \in 1 .. b.last /\ b.curs[k].line \in Nat /\ b.curs[k].pos \in Nat
  BY PlacePair
<1>2. PICK m : m = cursor_move(b, b.curs[k], dir)
  OBVIOUS
<1>3. GoodLines(b) /\ DOMAIN b.curs = AllSlots /\ c.curs = [b.curs EXCEPT ![k] = m]
      /\ SameLines(b, c)
  BY <1>1, <1>2 DEF Sound, GoodCursors, IdsOfSlots, OnlyMoved
<1>4. Places(c, M) = [s EXCEPT ![i] = Where(m)]
  <2>1. Places(c, M)[i] = Where(m)
    BY <1>1, <1>3
  <2>2. ASSUME NEW u \in M, u # i PROVE Places(c, M)[u] = s[u]
    <3>1. PICK j \in AllSlots :
             /\ b.curs[j].id = u /\ s[u] = Where(b.curs[j]) /\ Places(c, M)[u] = Where(c.curs[j])
      BY PlacePair
    <3>2. j # k
      BY <1>1, <2>2, <3>1
    <3>3. c.curs[j] = b.curs[j]
      BY <1>3, <3>2
    <3> QED BY <3>1, <3>3
  <2>3. DOMAIN s = M /\ Places(c, M) = [u \in M |-> Places(c, M)[u]] /\ s = [u \in M |-> s[u]]
    BY DEF Places
  <2> QED BY <2>1, <2>2, <2>3
<1>5. Text(c) = t
  BY <1>3 DEF Text, SameLines
<1>6. Reach(t, s[i], Where(m))
  BY <1>1, <1>2, <1>3, MoveTargets
<1> QED BY <1>4, <1>5, <1>6

-----------------------------------------------------------------------------
(***************************************************************************)
(* The steps of Document, in terms of what the replica's buffer stands     *)
(* for: DocText and DocCursors.                                            *)
(***************************************************************************)

\* A letter that fits, in front of i.
LEMMA TypeIs ==
  ASSUME NEW i \in {Own} \cup Users, NEW x \in Chars, i \in DOMAIN DocCursors,
         LetterTyped(DocText, DocCursors, i, x, DocText', DocCursors')
  PROVE  Document_!Next
<1>1. Document_!Type(i, x)
  BY DEF LetterTyped, Document_!Type, Document_!Present, Document_!Length,
         Document_!InsertAt, InsertAt
<1> QED BY <1>1 DEF Document_!Next

\* The line of i, broken in front of it.
LEMMA BreakIs ==
  ASSUME NEW i \in {Own} \cup Users, i \in DOMAIN DocCursors,
         \A j \in DOMAIN DocCursors : DocCursors[j].line \in Int,
         LineBroken(DocText, DocCursors, i, DocText', DocCursors')
  PROVE  Document_!Next
<1>1. Document_!Break(i)
  BY SMTT(60) DEF LineBroken, Document_!Break, Document_!Present, Document_!At
<1> QED BY <1>1 DEF Document_!Next

\* The letter in front of i, erased.
LEMMA EraseLetterIs ==
  ASSUME NEW i \in {Own} \cup Users, i \in DOMAIN DocCursors,
         LetterErased(DocText, DocCursors, i, DocText', DocCursors')
  PROVE  Document_!Next
<1>1. Document_!EraseLetter(i)
  BY DEF LetterErased, Document_!EraseLetter, Document_!Present, Document_!RemoveAt, RemoveAt
<1> QED BY <1>1 DEF Document_!Next

\* The line break in front of i, erased.
LEMMA EraseBreakIs ==
  ASSUME NEW i \in {Own} \cup Users, i \in DOMAIN DocCursors,
         \A j \in DOMAIN DocCursors : DocCursors[j].line \in Int,
         LinesJoined(DocText, DocCursors, i, DocText', DocCursors')
  PROVE  Document_!Next
<1>1. Document_!EraseBreak(i)
  BY SMTT(60) DEF LinesJoined, Document_!EraseBreak, Document_!Present, Document_!Length, Document_!At
<1> QED BY <1>1 DEF Document_!Next

\* A step of i, or none.
LEMMA StepIs ==
  ASSUME NEW i \in {Own} \cup Users, i \in DOMAIN DocCursors, DocText' = DocText, NEW q,
         DocCursors' = [DocCursors EXCEPT ![i] = q], Reach(DocText, DocCursors[i], q)
  PROVE  [Document_!Next]_<<DocText, DocCursors>>
<1>1. CASE q = DocCursors[i]
  BY <1>1 DEF DocCursors
<1>2. CASE q # DocCursors[i]
  <2>1. Document_!Step(i)
    BY <1>2 DEF Reach, Document_!Step, Document_!Present, Document_!Length, Document_!At
  <2> QED BY <2>1 DEF Document_!Next
<1> QED BY <1>1, <1>2

\* Who joins does so at the start.
LEMMA JoinIs ==
  ASSUME NEW i \in {Own} \cup Users, i \notin DOMAIN DocCursors, DocText' = DocText,
         DocCursors' = [j \in DOMAIN DocCursors \cup {i} |->
           IF j = i THEN [line |-> 1, pos |-> 0] ELSE DocCursors[j]]
  PROVE  Document_!Next
<1>1. Document_!Join(i)
  BY DEF Document_!Join, Document_!Present, Document_!Start, Document_!At
<1> QED BY <1>1 DEF Document_!Next

\* Who leaves takes nothing along.
LEMMA LeaveIs ==
  ASSUME NEW i \in {Own} \cup Users, i \in DOMAIN DocCursors, DocText' = DocText,
         DocCursors' = [j \in DOMAIN DocCursors \ {i} |-> DocCursors[j]]
  PROVE  Document_!Next
<1>1. Document_!Leave(i)
  BY DEF Document_!Leave, Document_!Present
<1> QED BY <1>1 DEF Document_!Next

-----------------------------------------------------------------------------
(***************************************************************************)
(* Every step of the replica is one of Document, or none.                  *)
(***************************************************************************)

\* Whose cursors DocCursors has: while a worker serves its own stands for nobody.
Who == members \cup (IF phase = "worker" THEN {} ELSE {Own})

\* What the refinement needs to know of a replica.
DInv == Inv /\ Phased /\ HaveCursors(buf, members)

\* What the buffer stands for, before and after a step.
LEMMA Mapped ==
  ASSUME Inv
  PROVE  DocText = Text(buf) /\ DocCursors = Places(buf, Who) /\ DOMAIN DocCursors = Who
BY DEF Inv, Sound, GoodLines, DocText, Text, DocCursors, Places, Where, Who, CursorOf

\* The same of the next state.
LEMMA MappedNext ==
  ASSUME Inv'
  PROVE  DocText' = Text(buf') /\ DocCursors' = Places(buf', Who')
BY DEF Inv, Sound, GoodLines, DocText, Text, DocCursors, Places, Where, Who, CursorOf

\* All of them have a cursor, on a line.
LEMMA WhoFacts ==
  ASSUME DInv
  PROVE  /\ Sound(buf) /\ NULL \notin Who /\ HaveCursors(buf, Who)
         /\ Who \subseteq {Own} \cup Users /\ Who \subseteq Nat
         /\ Own \in Who => buf.server_mode = FALSE \/ phase \in {"closed", "crashed"}
         /\ \A j \in Who : HasCursor(buf, j) /\ DocCursors[j].line \in Int
<1>1. Sound(buf) /\ members \subseteq Users /\ Own \in Nat /\ HasCursor(buf, Own)
  BY OwnFound DEF DInv, Inv
<1>2. NULL \notin Who /\ Who \subseteq {Own} \cup Users /\ Who \subseteq Nat
  BY <1>1, UserIds DEF Who, Own, NULL
<1>3. HaveCursors(buf, Who)
  BY <1>1 DEF DInv, Who, HaveCursors
<1>4. Own \in Who => buf.server_mode = FALSE \/ phase \in {"closed", "crashed"}
  <2>1. Own \notin members
    BY <1>1, UserIds
  <2> QED BY <2>1 DEF DInv, Inv, Phased, Phases, Who
<1>5. ASSUME NEW j \in Who PROVE HasCursor(buf, j) /\ DocCursors[j].line \in Int
  <2>1. SameIds(buf, buf)
    BY <1>1 DEF SameIds, Sound, GoodCursors, IdsOfSlots
  <2>2. PICK k \in AllSlots : Places(buf, Who)[j] = Where(buf.curs[k]) /\ buf.curs[k].line \in Nat
    BY <1>1, <1>2, <1>3, <2>1, PlacePair
  <2>3. DocCursors = Places(buf, Who)
    BY Mapped DEF DInv
  <2> QED BY <1>3, <2>2, <2>3 DEF HaveCursors, Where
<1> QED BY <1>1, <1>2, <1>3, <1>4, <1>5

\* Buffers with the same document stand for the same.
LEMMA SameDoc ==
  ASSUME NEW b, NEW c, Same(b, c), NEW M
  PROVE  Text(c) = Text(b) /\ Places(c, M) = Places(b, M)
BY DEF Same, SameLines, Text, Places, bcursor_find

\* A character is a letter typed, or nothing where the line is full.
LEMMA InsertStep ==
  ASSUME Lossless, DInv, Inv', Who' = Who, NEW i \in Who, NEW chr \in Chars,
         buf' = bcursor_insert(buf, i, chr)
  PROVE  [Document_!Next]_<<DocText, DocCursors>>
<1>1. /\ DocText = Text(buf) /\ DocCursors = Places(buf, Who) /\ DOMAIN DocCursors = Who
      /\ DocText' = Text(buf') /\ DocCursors' = Places(buf', Who)
  BY Mapped, MappedNext DEF DInv
<1>2. PICK k : k = bcursor_find(buf, i)
  OBVIOUS
<1>3. /\ SameIds(buf, buf')
      /\ \/ Same(buf, buf')
         \/ ~(LineLen(buf, buf.curs[k].line) >= width - 1) /\ Typed(buf, buf', k, chr)
  BY <1>2, WhoFacts, InsertSound
<1>4. CASE Same(buf, buf')
  BY <1>1, <1>4, SameDoc
<1>5. CASE ~(LineLen(buf, buf.curs[k].line) >= width - 1) /\ Typed(buf, buf', k, chr)
  <2>1. Sound(buf') /\ Sound(buf) /\ NULL \notin Who /\ HaveCursors(buf, Who)
        /\ i \in {Own} \cup Users
    BY WhoFacts DEF Inv
  <2>2. LetterTyped(Text(buf), Places(buf, Who), i, chr, Text(buf'), Places(buf', Who))
    BY <1>2, <1>3, <1>5, <2>1, TypeEffect
  <2>3. Document_!Next
    BY <1>1, <2>1, <2>2, TypeIs
  <2> QED BY <2>3
<1> QED BY <1>3, <1>4, <1>5

\* A new line is a line broken.
LEMMA BreakStep ==
  ASSUME Lossless, DInv, Inv', Who' = Who, NEW i \in Who,
         Own \in Who => buf.server_mode = FALSE, buf' = bcursor_insert_line(buf, i)
  PROVE  [Document_!Next]_<<DocText, DocCursors>>
<1>1. /\ DocText = Text(buf) /\ DocCursors = Places(buf, Who) /\ DOMAIN DocCursors = Who
      /\ DocText' = Text(buf') /\ DocCursors' = Places(buf', Who)
  BY Mapped, MappedNext DEF DInv
<1>2. /\ SameIds(buf, buf')
      /\ IF buf.curs[bcursor_find(buf, i)].pos = 0
           THEN BrokenAbove(buf, buf', bcursor_find(buf, i))
           ELSE BrokenBelow(buf, buf', bcursor_find(buf, i))
  BY WhoFacts, InsertLineSound
<1>3. Sound(buf') /\ Sound(buf) /\ NULL \notin Who /\ HaveCursors(buf, Who)
      /\ i \in {Own} \cup Users /\ \A j \in Who : DocCursors[j].line \in Int
  BY WhoFacts DEF Inv
<1>4. LineBroken(Text(buf), Places(buf, Who), i, Text(buf'), Places(buf', Who))
  BY <1>2, <1>3, BreakEffect
<1>5. Document_!Next
  BY <1>1, <1>3, <1>4, BreakIs
<1> QED BY <1>5

\* A delete erases a letter, or the line break, or nothing at the start.
LEMMA DeleteStep ==
  ASSUME Lossless, DInv, Inv', Who' = Who, NEW i \in Who, buf' = bcursor_del(buf, i)
  PROVE  [Document_!Next]_<<DocText, DocCursors>>
<1>1. /\ DocText = Text(buf) /\ DocCursors = Places(buf, Who) /\ DOMAIN DocCursors = Who
      /\ DocText' = Text(buf') /\ DocCursors' = Places(buf', Who)
  BY Mapped, MappedNext DEF DInv
<1>2. PICK k : k = bcursor_find(buf, i)
  OBVIOUS
<1>3. /\ SameIds(buf, buf')
      /\ \/ buf' = buf
         \/ buf.curs[k].pos > 0 /\ Erased(buf, buf', k)
         \/ buf.curs[k].pos = 0 /\ buf.curs[k].line # 1 /\ Joined(buf, buf', k)
  BY <1>2, WhoFacts, DeleteSound
<1>4. Sound(buf') /\ Sound(buf) /\ NULL \notin Who /\ HaveCursors(buf, Who)
      /\ i \in {Own} \cup Users /\ \A j \in Who : DocCursors[j].line \in Int
  BY WhoFacts DEF Inv
<1>5. CASE buf' = buf
  BY <1>1, <1>5
<1>6. CASE buf.curs[k].pos > 0 /\ Erased(buf, buf', k)
  <2>1. LetterErased(Text(buf), Places(buf, Who), i, Text(buf'), Places(buf', Who))
    BY <1>2, <1>3, <1>4, <1>6, EraseEffect
  <2>2. Document_!Next
    BY <1>1, <1>4, <2>1, EraseLetterIs
  <2> QED BY <2>2
<1>7. CASE buf.curs[k].pos = 0 /\ buf.curs[k].line # 1 /\ Joined(buf, buf', k)
  <2>1. LinesJoined(Text(buf), Places(buf, Who), i, Text(buf'), Places(buf', Who))
    BY <1>2, <1>3, <1>4, <1>7, JoinEffect
  <2>2. Document_!Next
    BY <1>1, <1>4, <2>1, EraseBreakIs
  <2> QED BY <2>2
<1> QED BY <1>3, <1>5, <1>6, <1>7

\* A move is a step of the cursor, or nothing at an end of the text.
LEMMA MoveStep ==
  ASSUME DInv, Inv', Who' = Who, NEW i \in Who, NEW dir \in Dirs,
         buf' = bcursor_move(buf, i, dir)
  PROVE  [Document_!Next]_<<DocText, DocCursors>>
<1>1. /\ DocText = Text(buf) /\ DocCursors = Places(buf, Who) /\ DOMAIN DocCursors = Who
      /\ DocText' = Text(buf') /\ DocCursors' = Places(buf', Who)
  BY Mapped, MappedNext DEF DInv
<1>2. Sound(buf') /\ Sound(buf) /\ NULL \notin Who /\ HaveCursors(buf, Who)
      /\ i \in {Own} \cup Users /\ i \in Nat /\ HasCursor(buf, i)
  BY WhoFacts DEF Inv
<1>3. PICK k : k = bcursor_find(buf, i)
  OBVIOUS
<1>4. k \in AllSlots /\ buf.curs[k].id = i /\ Foremost(buf.curs, k) /\ buf.curs[k].pos \in Int
  BY <1>2, <1>3, FoundSlot
<1>5. OnlyMoved(buf, buf', k, dir)
  <2>1. DOMAIN buf = Fields /\ IdsOfSlots(buf.curs)
    BY <1>2 DEF Sound, GoodLines, GoodCursors
  <2>2. buf' = bcursor_move(buf, buf.curs[k].id, dir)
    BY <1>4
  <2> QED BY <1>4, <2>1, <2>2, MoveOneExact DEF OnlyMoved
<1>6. SameIds(buf, buf')
  BY <1>2, MoveSound
<1>7. DocText' = DocText
  BY <1>1, <1>2, <1>3, <1>5, <1>6, MoveEffect
<1>8. PICK q : DocCursors' = [DocCursors EXCEPT ![i] = q] /\ Reach(DocText, DocCursors[i], q)
  BY <1>1, <1>2, <1>3, <1>5, <1>6, MoveEffect
<1> QED BY <1>1, <1>2, <1>7, <1>8, StepIs

\* The place of whoever has slot k.
LEMMA PlaceIs ==
  ASSUME NEW b, DistinctIds(b.curs), NEW k \in AllSlots, NEW u, u # NULL, b.curs[k].id = u,
         NEW M, u \in M
  PROVE  Places(b, M)[u] = Where(b.curs[k])
<1>1. bcursor_find(b, u) = k
  BY FindIs, DistinctForemost
<1> QED BY <1>1 DEF Places

\* Whoever keeps his cursor, in whatever slot, keeps his place.
LEMMA PlaceKept ==
  ASSUME NEW b, NEW c, DistinctIds(b.curs), DistinctIds(c.curs),
         NEW u, u # NULL, NEW M, u \in M, NEW N, u \in N, HasCursor(b, u),
         \A j \in AllSlots : b.curs[j].id = u => \E k \in AllSlots : c.curs[k] = b.curs[j]
  PROVE  Places(c, N)[u] = Places(b, M)[u]
<1>1. PICK j \in AllSlots : b.curs[j].id = u
  BY HasCursorIs
<1>2. PICK k \in AllSlots : c.curs[k] = b.curs[j]
  BY <1>1
<1>3. Places(b, M)[u] = Where(b.curs[j])
  BY <1>1, PlaceIs
<1>4. Places(c, N)[u] = Where(c.curs[k])
  BY <1>1, <1>2, PlaceIs
<1> QED BY <1>2, <1>3, <1>4

\* A cursor for u at the start of the text is Document's Join.
LEMMA AddStep ==
  ASSUME DInv, Inv', NEW u \in Users \ Who, Who' = Who \cup {u},
         Added(buf, buf', [id |-> u, line |-> 1, pos |-> 0])
  PROVE  Document_!Next
<1>1. /\ DocText = Text(buf) /\ DocCursors = Places(buf, Who) /\ DOMAIN DocCursors = Who
      /\ DocText' = Text(buf') /\ DocCursors' = Places(buf', Who \cup {u})
  BY Mapped, MappedNext DEF DInv
<1>2. Sound(buf') /\ Sound(buf) /\ DistinctIds(buf.curs) /\ DistinctIds(buf'.curs)
      /\ NULL \notin Who /\ HaveCursors(buf, Who) /\ u # NULL
  BY WhoFacts, UserIds DEF Inv, DInv
<1>3. PICK k \in Slots : /\ buf.curs[k] = NoCursor
                         /\ buf'.curs[k] = [id |-> u, line |-> 1, pos |-> 0]
                         /\ \A j \in AllSlots : j # k => buf'.curs[j] = buf.curs[j]
  BY DEF Added
<1>4. DocText' = DocText
  BY <1>1 DEF Added, SameLines, Text
<1>5. Places(buf', Who \cup {u})[u] = [line |-> 1, pos |-> 0]
  <2>1. k \in AllSlots /\ buf'.curs[k].id = u
    BY <1>3 DEF AllSlots
  <2>2. Places(buf', Who \cup {u})[u] = Where(buf'.curs[k])
    BY <1>2, <2>1, PlaceIs
  <2> QED BY <1>3, <2>2 DEF Where
<1>6. ASSUME NEW v \in Who
      PROVE  Places(buf', Who \cup {u})[v] = Places(buf, Who)[v]
  <2>1. v # NULL /\ HasCursor(buf, v)
    BY <1>2 DEF HaveCursors
  <2>2. \A j \in AllSlots : buf.curs[j].id = v => buf'.curs[j] = buf.curs[j]
    BY <1>3, <2>1, NoCursorId
  <2> QED BY <1>2, <2>1, <2>2, PlaceKept
<1>7. DocCursors' = [j \in DOMAIN DocCursors \cup {u} |->
                       IF j = u THEN [line |-> 1, pos |-> 0] ELSE DocCursors[j]]
  <2>1. Places(buf', Who \cup {u}) = [j \in Who \cup {u} |-> Places(buf', Who \cup {u})[j]]
    BY DEF Places
  <2> QED BY <1>1, <1>5, <1>6, <2>1
<1>8. u \in {Own} \cup Users /\ u \notin DOMAIN DocCursors
  BY <1>1
<1> QED BY <1>4, <1>7, <1>8, JoinIs

\* A freed cursor is Document's Leave.
LEMMA FreeStep ==
  ASSUME DInv, Inv', NEW u \in Users, u \in Who, Who' = Who \ {u}, HasCursor(buf, u),
         buf' = bcursor_free(buf, u)
  PROVE  Document_!Next
<1>1. /\ DocText = Text(buf) /\ DocCursors = Places(buf, Who) /\ DOMAIN DocCursors = Who
      /\ DocText' = Text(buf') /\ DocCursors' = Places(buf', Who \ {u})
  BY Mapped, MappedNext DEF DInv
<1>2. Sound(buf') /\ Sound(buf) /\ DistinctIds(buf.curs) /\ DistinctIds(buf'.curs)
      /\ NULL \notin Who /\ HaveCursors(buf, Who) /\ u # NULL
      /\ u # Own /\ u \in Nat /\ IdsIn(buf, members)
  BY WhoFacts, UserIds DEF Inv, DInv
<1>3. /\ SameLines(buf, buf')
      /\ \A j \in AllSlots :
           buf'.curs[j] = IF j = bcursor_find(buf, u) THEN NoCursor ELSE buf.curs[j]
  BY <1>2, FreeSound
<1>4. PICK k : k = bcursor_find(buf, u)
  OBVIOUS
<1>5. buf.curs[k].id = u
  BY <1>2, <1>4, FoundSlot
<1>6. DocText' = DocText
  BY <1>1, <1>3 DEF SameLines, Text
<1>7. ASSUME NEW v \in Who \ {u}
      PROVE  Places(buf', Who \ {u})[v] = Places(buf, Who)[v]
  <2>1. v # NULL /\ HasCursor(buf, v)
    BY <1>2 DEF HaveCursors
  <2>2. \A j \in AllSlots : buf.curs[j].id = v => buf'.curs[j] = buf.curs[j]
    BY <1>3, <1>4, <1>5
  <2>3. \A j \in AllSlots : buf.curs[j].id = v => \E i \in AllSlots : buf'.curs[i] = buf.curs[j]
    BY <2>2
  <2>4. PICK c, N, M : c = buf' /\ N = Who \ {u} /\ M = Who
    OBVIOUS
  <2>5. v \in N /\ v \in M /\ DistinctIds(buf.curs) /\ DistinctIds(c.curs)
        /\ \A j \in AllSlots : buf.curs[j].id = v => \E i \in AllSlots : c.curs[i] = buf.curs[j]
    BY <1>2, <1>7, <2>3, <2>4
  <2>6. Places(c, N)[v] = Places(buf, M)[v]
    BY <2>1, <2>5, PlaceKept
  <2> QED BY <2>4, <2>6
<1>8. DocCursors' = [j \in DOMAIN DocCursors \ {u} |-> DocCursors[j]]
  <2>1. Places(buf', Who \ {u}) = [j \in Who \ {u} |-> Places(buf', Who \ {u})[j]]
    BY DEF Places
  <2> QED BY <1>1, <1>7, <2>1
<1>9. u \in {Own} \cup Users /\ u \in DOMAIN DocCursors
  BY <1>1
<1> QED BY <1>6, <1>8, <1>9, LeaveIs

\* A worker that starts to serve, its own cursor put at the start, leaves.
LEMMA LoadedStep ==
  ASSUME DInv, Inv', Loaded
  PROVE  Document_!Next
<1>1. /\ DocText = Text(buf) /\ DocCursors = Places(buf, Who) /\ DOMAIN DocCursors = Who
      /\ DocText' = Text(buf') /\ DocCursors' = Places(buf', Who')
  BY Mapped, MappedNext DEF DInv
<1>2. Who = {Own} /\ Who' = {}
  BY DEF Loaded, DInv, Phased, Who
<1>3. DocText' = DocText
  <2>1. buf'.str = buf.str /\ buf'.last = buf.last
    <3>1. DOMAIN buf = Fields
      BY WhoFacts DEF Sound, GoodLines
    <3> QED BY <3>1 DEF Loaded, Fields
  <2> QED BY <1>1, <2>1 DEF Text
<1>4. DocCursors' = [j \in DOMAIN DocCursors \ {Own} |-> DocCursors[j]]
  BY <1>1, <1>2 DEF Places
<1>5. Own \in {Own} \cup Users /\ Own \in DOMAIN DocCursors
  BY <1>1, <1>2
<1> QED BY <1>3, <1>4, <1>5, LeaveIs

\* What opens a worker's document, or ends it, joins with the worker's cursor.
LEMMA JoinOwn ==
  ASSUME DInv, Inv', phase = "worker", phase' # "worker", members' = members,
         buf'.str = buf.str, buf'.last = buf.last, buf'.curs[Own] = buf.curs[Own],
         \A u \in members : \A j \in AllSlots :
           buf.curs[j].id = u => \E k \in AllSlots : buf'.curs[k] = buf.curs[j]
  PROVE  Document_!Next
<1>1. /\ DocText = Text(buf) /\ DocCursors = Places(buf, Who) /\ DOMAIN DocCursors = Who
      /\ DocText' = Text(buf') /\ DocCursors' = Places(buf', Who')
  BY Mapped, MappedNext DEF DInv
<1>2. Sound(buf') /\ Sound(buf) /\ DistinctIds(buf.curs) /\ DistinctIds(buf'.curs)
      /\ NULL \notin Who /\ HaveCursors(buf, Who)
  BY WhoFacts DEF Inv, DInv
<1>3. Who = members /\ Who' = members \cup {Own} /\ Own \notin members /\ Own # NULL
  <2>1. Own \notin members
    BY UserIds DEF DInv, Inv
  <2> QED BY <2>1 DEF Who, Own, NULL
<1>4. DocText' = DocText
  BY <1>1 DEF Text
<1>5. Places(buf', members \cup {Own})[Own] = [line |-> 1, pos |-> 0]
  <2>1. Own \in AllSlots /\ buf'.curs[Own].id = Own
    BY <1>2, OwnFacts
  <2>2. Places(buf', members \cup {Own})[Own] = Where(buf'.curs[Own])
    BY <1>2, <1>3, <2>1, PlaceIs
  <2>3. buf.curs[Own].line = 1 /\ buf.curs[Own].pos = 0
    BY DEF DInv, Phased, OwnAtStart
  <2> QED BY <2>2, <2>3 DEF Where
<1>6. ASSUME NEW v \in members
      PROVE  Places(buf', members \cup {Own})[v] = Places(buf, members)[v]
  <2>1. v # NULL /\ HasCursor(buf, v)
    BY <1>2, <1>3 DEF HaveCursors
  <2> QED BY <1>2, <2>1, PlaceKept
<1>7. DocCursors' = [j \in DOMAIN DocCursors \cup {Own} |->
                       IF j = Own THEN [line |-> 1, pos |-> 0] ELSE DocCursors[j]]
  <2>1. Places(buf', members \cup {Own})
          = [j \in members \cup {Own} |-> Places(buf', members \cup {Own})[j]]
    BY DEF Places
  <2> QED BY <1>1, <1>3, <1>5, <1>6, <2>1
<1>8. Own \in {Own} \cup Users /\ Own \notin DOMAIN DocCursors
  BY <1>1, <1>3
<1> QED BY <1>4, <1>7, <1>8, JoinIs

\* Opening a worker's document is joining it: the reader finds all members again.
LEMMA OpenStep ==
  ASSUME FewUsers, DInv, Inv', Open
  PROVE  Document_!Next
<1>1. Sound(buf) /\ IdsIn(buf, members) /\ DistinctIds(buf.curs) /\ members \subseteq Users
  BY DEF DInv, Inv
<1>2. PICK c : c = buffer_deserialize(buffer_serialize(buf))
  OBVIOUS
<1>3. /\ c.str = buf.str /\ c.last = buf.last /\ c.curs[Own] = buf.curs[Own]
      /\ \A j \in Slots : buf.curs[j].id # NULL /\ buf.curs[j].id < MAX_CURSOR_NUM =>
           \E k \in Slots : c.curs[k] = buf.curs[j]
  BY <1>1, <1>2, OpenSound
<1>4. buf' = c /\ phase = "worker" /\ phase' # "worker" /\ members' = members
  BY <1>2 DEF Open
<1>5. ASSUME NEW u \in members, NEW j \in AllSlots, buf.curs[j].id = u
      PROVE  \E k \in AllSlots : buf'.curs[k] = buf.curs[j]
  <2>1. u # NULL /\ u # Own /\ u < MAX_CURSOR_NUM
    BY <1>1, UserIds DEF FewUsers
  <2>2. j \in Slots
    BY <1>1, <1>5, <2>1, OwnFacts DEF AllSlots
  <2>3. PICK k \in Slots : c.curs[k] = buf.curs[j]
    BY <1>3, <1>5, <2>1, <2>2
  <2> QED BY <1>4, <2>3 DEF AllSlots
<1> QED BY <1>3, <1>4, <1>5, JoinOwn

\* Whatever ends the process ends the document as it is.
LEMMA CrashStep ==
  ASSUME DInv, Inv', phase' = "crashed", buf' = buf, members' = members
  PROVE  [Document_!Next]_<<DocText, DocCursors>>
<1>1. CASE phase = "worker"
  BY <1>1, JoinOwn
<1>2. CASE phase # "worker"
  BY <1>2 DEF DocText, DocCursors, CursorOf
<1> QED BY <1>1, <1>2

\* The blank buffer stands for an empty line and a cursor on it.
LEMMA InitDocument == Init => Document_!Init
<1> SUFFICES ASSUME Init PROVE Document_!Init
  OBVIOUS
<1>1. /\ Sound(buf) /\ DistinctIds(buf.curs) /\ buf.last = 1 /\ buf.str[1] = << >>
      /\ buf.curs[Own] = [id |-> Own, line |-> 1, pos |-> 0]
  BY BlankSound DEF Init
<1>2. DocText = Text(buf) /\ DocCursors = Places(buf, Who) /\ Who = {Own}
  BY InitInv, Mapped DEF Init, Who
<1>3. Text(buf) = << << >> >>
  <2>1. PICK r : r = << << >> >>
    OBVIOUS
  <2>2. r \in Seq(Seq(Chars)) /\ Len(r) = buf.last /\ r[1] = buf.str[1]
    BY <1>1, <2>1
  <2>3. \A l \in 1 .. buf.last : r[l] = buf.str[l]
    BY <1>1, <2>2
  <2>4. GoodLines(buf)
    BY <1>1 DEF Sound
  <2> QED BY <2>1, <2>2, <2>3, <2>4, TextIs
<1>4. Places(buf, {Own}) = [i \in {Own} |-> [line |-> 1, pos |-> 0]]
  <2>1. Own \in AllSlots /\ Own # NULL
    BY <1>1, OwnFacts DEF Own, NULL
  <2>2. Places(buf, {Own})[Own] = Where(buf.curs[Own])
    BY <1>1, <2>1, PlaceIs
  <2> QED BY <1>1, <2>2 DEF Places, Where
<1> QED BY <1>2, <1>3, <1>4 DEF Document_!Init, Document_!Start, Document_!At

\* Every step of a replica is a step of its document, or changes nothing of it.
LEMMA StepDocument ==
  ASSUME Refused = {}, FewUsers, DInv, Inv', [Next]_vars
  PROVE  [Document_!Next]_<<DocText, DocCursors>>
<1>1. Lossless /\ Inv /\ Phased /\ HaveCursors(buf, members) /\ members \subseteq Users
  BY DEF Lossless, DInv, Inv
<1>2. Own \in Who <=> phase # "worker"
  BY <1>1, UserIds DEF Who
<1>3. ASSUME phase' = phase, members' = members PROVE Who' = Who
  BY <1>3 DEF Who
<1>4. ASSUME buf' = buf, members' = members,
             phase' = phase \/ (phase # "worker" /\ phase' # "worker")
      PROVE  [Document_!Next]_<<DocText, DocCursors>>
  BY <1>4 DEF DocText, DocCursors, CursorOf
<1>5. ASSUME NEW u \in Users, AddCursor(u) PROVE [Document_!Next]_<<DocText, DocCursors>>
  <2>1. u \in Users \ Who /\ Who' = Who \cup {u}
    BY <1>5, UserIds DEF AddCursor, Who
  <2>2. Added(buf, buf', [id |-> u, line |-> 1, pos |-> 0])
    <3>1. FreeSlots(buf) # {}
      BY <1>1, <1>5, SlotLeft DEF AddCursor, Inv
    <3>2. PICK at : /\ at = IF phase = "worker" THEN buf.curs[Own]
                                                ELSE [id |-> Own, line |-> 1, pos |-> 0]
                    /\ Added(buf, buf', [id |-> u, line |-> at.line, pos |-> at.pos])
      BY <1>1, <1>5, <3>1, StepAdds
    <3>3. at.line = 1 /\ at.pos = 0
      BY <1>1, <3>2 DEF Phased, OwnAtStart
    <3> QED BY <3>2, <3>3
  <2> QED BY <2>1, <2>2, AddStep
<1>6. ASSUME NEW u \in Users, DeleteCursor(u) PROVE [Document_!Next]_<<DocText, DocCursors>>
  <2>1. u \in Who /\ Who' = Who \ {u} /\ HasCursor(buf, u) /\ buf' = bcursor_free(buf, u)
    BY <1>6, UserIds DEF DeleteCursor, Who
  <2> QED BY <2>1, FreeStep
<1>7. ASSUME NEW chr \in Chars, ReadChar(chr) \/ KeyChar(chr)
      PROVE  [Document_!Next]_<<DocText, DocCursors>>
  <2>1. Own \in Who /\ Who' = Who /\ buf' = bcursor_insert(buf, Own, chr)
    BY <1>2, <1>3, <1>7 DEF ReadChar, KeyChar
  <2> QED BY <1>1, <2>1, InsertStep
<1>8. CASE ReadNewline \/ KeyEnter
  <2>1. Own \in Who /\ Who' = Who /\ buf' = bcursor_insert_line(buf, Own)
        /\ buf.server_mode = FALSE
    BY <1>1, <1>2, <1>3, <1>8 DEF ReadNewline, KeyEnter, Phased
  <2> QED BY <1>1, <2>1, BreakStep
<1>9. CASE KeyBackspace
  <2>1. Own \in Who /\ Who' = Who /\ buf' = bcursor_del(buf, Own)
    BY <1>2, <1>3, <1>9 DEF KeyBackspace
  <2> QED BY <1>1, <2>1, DeleteStep
<1>10. CASE RewindLine
  <2>1. Own \in Who /\ Who' = Who /\ buf' = bcursor_move(buf, Own, "UP") /\ "UP" \in Dirs
    BY <1>2, <1>3, <1>10 DEF RewindLine, Dirs
  <2> QED BY <2>1, MoveStep
<1>11. ASSUME NEW dir \in Dirs, KeyArrow(dir) PROVE [Document_!Next]_<<DocText, DocCursors>>
  <2>1. Own \in Who /\ Who' = Who /\ buf' = bcursor_move(buf, Own, dir)
    BY <1>2, <1>3, <1>11 DEF KeyArrow
  <2> QED BY <2>1, MoveStep
<1>12. CASE Loaded
  <2>1. Document_!Next
    BY <1>12, LoadedStep
  <2> QED BY <2>1
<1>13. CASE Open
  BY <1>13, OpenStep
<1>14. CASE EndOfFile \/ KeyEscape
  BY <1>4, <1>14 DEF EndOfFile, KeyEscape
<1>15. CASE WildUi \/ DeleteWithoutBottom
  BY <1>15, CrashStep DEF WildUi, DeleteWithoutBottom, Crash
<1>16. ASSUME NEW u \in Users, NullCursor(u) \/ NullPayload(u)
       PROVE  [Document_!Next]_<<DocText, DocCursors>>
  BY <1>16, CrashStep DEF NullCursor, NullPayload, Crash
<1>17. ASSUME NEW u \in Users, InsertLine(u) PROVE [Document_!Next]_<<DocText, DocCursors>>
  <2>1. u \in Who /\ Who' = Who /\ buf' = bcursor_insert_line(buf, u)
    BY <1>3, <1>17 DEF InsertLine, Who
  <2>2. Own \in Who => buf.server_mode = FALSE
    BY <1>1, <1>2, <1>17 DEF InsertLine, Serving, Phased
  <2> QED BY <1>1, <2>1, <2>2, BreakStep
<1>18. ASSUME NEW u \in Users, Delete(u) PROVE [Document_!Next]_<<DocText, DocCursors>>
  <2>1. u \in Who /\ Who' = Who /\ buf' = bcursor_del(buf, u)
    BY <1>3, <1>18 DEF Delete, Who
  <2> QED BY <1>1, <2>1, DeleteStep
<1>19. ASSUME NEW u \in Users, NEW chr \in Chars, Insert(u, chr)
       PROVE  [Document_!Next]_<<DocText, DocCursors>>
  <2>1. u \in Who /\ Who' = Who /\ buf' = bcursor_insert(buf, u, chr)
    BY <1>3, <1>19 DEF Insert, Who
  <2> QED BY <1>1, <2>1, InsertStep
<1>20. ASSUME NEW u \in Users, NEW dir \in Dirs, MoveCursor(u, dir)
       PROVE  [Document_!Next]_<<DocText, DocCursors>>
  <2>1. u \in Who /\ Who' = Who /\ buf' = bcursor_move(buf, u, dir)
    BY <1>3, <1>20 DEF MoveCursor, Who
  <2> QED BY <2>1, MoveStep
<1>21. CASE UNCHANGED vars
  BY <1>4, <1>21 DEF vars
<1> QED BY <1>5, <1>6, <1>7, <1>8, <1>9, <1>10, <1>11, <1>12, <1>13, <1>14, <1>15, <1>16,
           <1>17, <1>18, <1>19, <1>20, <1>21 DEF Next

\* Whatever the users do, in whatever order their messages arrive, and wherever
\* lines and slots are in memory, an editor or worker shows its users the text
\* and the cursors that Document promises (every bcursor_ operation of buffer.c,
\* with buffer_from_file and buffer_deserialize), as long as every byte can be
\* inserted and all user ids are below MAX_CURSOR_NUM.
THEOREM ImplementsDocumentTheorem ==
  ASSUME Refused = {}, FewUsers PROVE Spec => ImplementsDocument
<1>1. Init => HaveCursors(buf, members)
  BY DEF Init, HaveCursors
<1>2. Inv /\ HaveCursors(buf, members) /\ [Next]_vars => HaveCursors(buf', members')
  BY StepHaveCursors
<1>3. Init => DInv
  BY <1>1, InitInv, InitPhased DEF DInv
<1>4. DInv /\ [Next]_vars => DInv'
  BY <1>2, StepInv, StepPhased DEF DInv
<1>5. DInv' => Inv'
  BY DEF DInv
<1>6. DInv /\ DInv' /\ [Next]_vars => [Document_!Next]_<<DocText, DocCursors>>
  BY <1>5, StepDocument
<1>7. Document_!docvars = <<DocText, DocCursors>>
  BY DEF Document_!docvars
<1> QED BY <1>3, <1>4, <1>6, <1>7, InitDocument, PTL
        DEF Spec, ImplementsDocument, Document_!Spec, Document_!docvars
=============================================================================
