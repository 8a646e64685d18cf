---------------------------- MODULE CollabProofs ----------------------------
(***************************************************************************)
(* What holds of a worker and its editors from the fork on, however many   *)
(* editors there are and in whatever order messages are sent, arrive       *)
(* together, are cut, or are lost with a connection that breaks.           *)
(***************************************************************************)
EXTENDS Collab, WindowProofs

-----------------------------------------------------------------------------
(***************************************************************************)
(* What messages do to a buffer.                                           *)
(***************************************************************************)
\* The payload of a message of type t that has one.
Fitting(t, x) ==
  /\ t = "INSERT" => x \in Chars
  /\ t = "MOVE_CURSOR" => x \in Dirs

\* What the buffer of a worker keeps.
Served(b) ==
  /\ Sound(b) /\ b.server_mode = TRUE /\ OwnAtStart(b)
  /\ height >= 3 => Viewed(b) /\ Rows(b) = height

\* The ids of a buffer are its ids.
LEMMA AnyIds == \A b : IdsIn(b, { b.curs[j].id : j \in AllSlots })
  BY DEF IdsIn

\* An operation keeps a document sound, and who has which slot.
LEMMA OperateSound ==
  ASSUME NEW b, Sound(b), NEW id \in Nat, NEW t \in Operations, NEW x, Fitting(t, x),
         t # "INSERT" => HasCursor(b, id)
  PROVE  Sound(Operate(b, id, t, x)) /\ SameIds(b, Operate(b, id, t, x))
<1>1. CASE t = "INSERT"
  <2>1. Operate(b, id, t, x) = bcursor_insert(b, id, x) /\ x \in Chars
    BY <1>1 DEF Operate, Fitting
  <2> QED BY <2>1, InsertSound
<1>2. CASE t = "INSERT_LINE"
  <2>1. Operate(b, id, t, x) = bcursor_insert_line(b, id) /\ HasCursor(b, id)
    BY <1>2 DEF Operate
  <2> QED BY <2>1, InsertLineSound
<1>3. CASE t = "DELETE"
  <2>1. Operate(b, id, t, x) = bcursor_del(b, id) /\ HasCursor(b, id)
    BY <1>3 DEF Operate
  <2> QED BY <2>1, DeleteSound
<1>4. CASE t = "MOVE_CURSOR"
  <2>1. Operate(b, id, t, x) = bcursor_move(b, id, x) /\ HasCursor(b, id)
    BY <1>4 DEF Operate
  <2> QED BY <2>1, MoveSound
<1> QED BY <1>1, <1>2, <1>3, <1>4 DEF Operations

\* An operation of a user keeps the buffer of a worker.
LEMMA OperateServed ==
  ASSUME NEW b, Served(b), NEW id \in Nat, id # Own, NEW t \in Operations, NEW x, Fitting(t, x),
         t # "INSERT" => HasCursor(b, id)
  PROVE  Served(Operate(b, id, t, x)) /\ SameIds(b, Operate(b, id, t, x))
<1> PICK c : c = Operate(b, id, t, x)
  OBVIOUS
<1>1. Sound(b) /\ b.server_mode = TRUE /\ OwnAtStart(b) /\ OwnLine(b) = 1
  BY DEF Served, OwnAtStart, OwnLine
<1>2. Sound(c) /\ SameIds(b, c)
  BY <1>1, OperateSound
<1>3. c.server_mode = TRUE /\ OwnAtStart(c) /\ (height >= 3 => Views(b, c))
  <2>0. height >= 3 => Viewed(b) /\ Rows(b) = height
    BY DEF Served
  <2>1. CASE t = "INSERT"
    <3>1. c = bcursor_insert(b, id, x) /\ x \in Chars
      BY <2>1 DEF Operate, Fitting
    <3> QED BY <1>1, <2>0, <3>1, StaysAtStart, InsertWindow
  <2>2. CASE t = "INSERT_LINE"
    <3>1. c = bcursor_insert_line(b, id) /\ HasCursor(b, id)
      BY <2>2 DEF Operate
    <3> QED BY <1>1, <2>0, <3>1, StaysAtStart, InsertLineWindow
  <2>3. CASE t = "DELETE"
    <3>1. c = bcursor_del(b, id) /\ HasCursor(b, id)
      BY <2>3 DEF Operate
    <3> QED BY <1>1, <2>0, <3>1, StaysAtStart, ServedDelete
  <2>4. CASE t = "MOVE_CURSOR"
    <3>1. c = bcursor_move(b, id, x) /\ HasCursor(b, id) /\ x \in Dirs
      BY <2>4 DEF Operate, Fitting
    <3> QED BY <1>1, <2>0, <3>1, StaysAtStart, MoveWindow
  <2> QED BY <2>1, <2>2, <2>3, <2>4 DEF Operations
<1> QED BY <1>2, <1>3 DEF Served, Views

\* c is b with a cursor of u more, if there was a slot for it.
Joins(b, c, u) ==
  \/ FreeSlots(b) = {} /\ c = b
  \/ FreeSlots(b) # {} /\ \E x : x.id = u /\ Added(b, c, x)

\* A user joins where the own cursor of the worker is.
LEMMA CopyOwnServed ==
  ASSUME NEW b, Served(b), NEW u \in Nat, u # Own
  PROVE  LET c == bcursor_copy_own(b, u) IN Served(c) /\ Joins(b, c, u)
<1> PICK c : c = bcursor_copy_own(b, u)
  OBVIOUS
<1> PICK p : p = b.curs[Own].pos
  OBVIOUS
<1>1. Sound(b) /\ b.server_mode = TRUE /\ OwnAtStart(b) /\ OwnLine(b) = 1 /\ p = 0
  BY DEF Served, OwnAtStart, OwnLine
<1>2. GoodLines(b) /\ b.last \in Nat /\ b.last >= 1 /\ DOMAIN b = Fields
  BY <1>1 DEF Sound, GoodLines
<1>3. 1 \in 1 .. b.last /\ p \in Nat /\ (Lossless => p <= Len(b.str[1]))
  <2>1. 1 \in 1 .. b.last
    BY <1>2
  <2>2. Len(b.str[1]) \in Nat
    BY <1>2, <2>1, LengthTypes
  <2> QED BY <1>1, <2>1, <2>2
<1>4. c = bcursor_new(b, u, b.lid[1], p)
  BY <1>1 DEF bcursor_copy_own
<1>5. LET d == bcursor_new(b, u, b.lid[1], p) IN
      /\ Sound(d)
      /\ \/ FreeSlots(b) = {} /\ d = b
         \/ FreeSlots(b) # {} /\ Added(b, d, [id |-> u, line |-> 1, pos |-> p])
  BY <1>1, <1>3, AnyIds, NewSound
<1>6. Sound(c) /\ Joins(b, c, u)
  <2>1. ASSUME NEW x, x = [id |-> u, line |-> 1, pos |-> p] PROVE x.id = u
    BY <2>1
  <2> QED BY <1>4, <1>5, <2>1 DEF Joins
<1>7. c.server_mode = TRUE /\ OwnAtStart(c)
  <2>1. CASE c = b
    BY <1>1, <2>1
  <2>2. CASE \E x : Added(b, c, x)
    <3>1. SameLines(b, c) /\ c.curs[Own] = b.curs[Own]
      BY <2>2, AllSlotsNat DEF Added
    <3> QED BY <1>1, <3>1 DEF SameLines, OwnAtStart
  <2> QED BY <1>6, <2>1, <2>2 DEF Joins
<1>8. height >= 3 => Views(b, c)
  BY <1>4, NewWindow DEF Served
<1> QED BY <1>6, <1>7, <1>8 DEF Served, Views

\* c is b without its first cursor of u.
Leaves(b, c, u) ==
  \A j \in AllSlots : c.curs[j] = IF j = bcursor_find(b, u) THEN NoCursor ELSE b.curs[j]

\* A user leaves.
LEMMA FreeServed ==
  ASSUME NEW b, Served(b), NEW u \in Nat, u # Own, HasCursor(b, u)
  PROVE  LET c == bcursor_free(b, u) IN Served(c) /\ Leaves(b, c, u)
<1> PICK c : c = bcursor_free(b, u)
  OBVIOUS
<1>1. Sound(b) /\ b.server_mode = TRUE /\ OwnAtStart(b)
  BY DEF Served
<1>2. Sound(c) /\ SameLines(b, c) /\ Leaves(b, c, u)
  BY <1>1, AnyIds, FreeSound DEF Leaves
<1>3. Own \in AllSlots /\ Own # bcursor_find(b, u)
  BY <1>1, AllSlotsNat, FoundSlot
<1>4. c.server_mode = TRUE /\ OwnAtStart(c)
  BY <1>1, <1>2, <1>3 DEF Leaves, SameLines, OwnAtStart
<1>5. height >= 3 => Views(b, c)
  BY FreeWindow DEF Served
<1> QED BY <1>2, <1>4, <1>5 DEF Served, Views

\* A peer joins an editor's copy at its start.
LEMMA NewPeerSound ==
  ASSUME NEW b, Sound(b), NEW u \in Nat, u # Own
  PROVE  LET c == bcursor_new(b, u, b.lid[b.first], 0) IN Sound(c) /\ Joins(b, c, u)
<1> PICK c : c = bcursor_new(b, u, b.lid[b.first], 0)
  OBVIOUS
<1>1. GoodLines(b) /\ b.last \in Nat /\ b.last >= 1 /\ b.first = 1
  BY DEF Sound, GoodLines
<1>2. 1 \in 1 .. b.last /\ 0 \in Nat /\ (Lossless => 0 <= Len(b.str[1]))
  <2>1. 1 \in 1 .. b.last
    BY <1>1
  <2>2. Len(b.str[1]) \in Nat
    BY <1>1, <2>1, LengthTypes
  <2> QED BY <2>1, <2>2
<1>3. LET d == bcursor_new(b, u, b.lid[1], 0) IN
      /\ Sound(d)
      /\ \/ FreeSlots(b) = {} /\ d = b
         \/ FreeSlots(b) # {} /\ Added(b, d, [id |-> u, line |-> 1, pos |-> 0])
  BY <1>2, AnyIds, NewSound
<1> QED BY <1>1, <1>3 DEF Joins

\* A buffer is not the lack of one.
LEMMA SomeBuffer == ASSUME NEW b, Sound(b) PROVE b # NoBuffer
<1>1. DOMAIN b = Fields /\ "lid" \in Fields
  BY DEF Sound, GoodLines, Fields
<1>2. DOMAIN << >> = {}
  OBVIOUS
<1> QED BY <1>1, <1>2 DEF NoBuffer

-----------------------------------------------------------------------------
(***************************************************************************)
(* Streams.                                                                *)
(***************************************************************************)
IsStream(s) == \E S : s \in Seq(S)

\* t is s with m at its end.
Longer(s, t, m) ==
  /\ IsStream(t) /\ Len(t) = Len(s) + 1 /\ t[Len(s) + 1] = m
  /\ \A i \in 1 .. Len(s) : t[i] = s[i]

\* t is what is left of s when some of its messages have arrived, of which the first
\* was taken; what the first of t is then may be lost.
Shorter(s, t) ==
  /\ IsStream(t)
  /\ \E d \in Nat \ {0} : /\ Len(t) = Len(s) - d
                          /\ \A i \in 1 .. Len(t) : t[i] = s[i + d] \/ t[i] = Garbage

LEMMA StreamFacts ==
  ASSUME NEW s, IsStream(s)
  PROVE  /\ Len(s) \in Nat /\ DOMAIN s = 1 .. Len(s) /\ ToSet(s) = { s[i] : i \in 1 .. Len(s) }
         /\ s # << >> => Len(s) >= 1 /\ 1 \in 1 .. Len(s) /\ Head(s) = s[1] /\ s[1] \in ToSet(s)
         /\ Len(s) = 0 => s = << >>
<1>1. PICK S : s \in Seq(S)
  BY DEF IsStream
<1>2. Len(s) \in Nat /\ DOMAIN s = 1 .. Len(s) /\ ToSet(s) = { s[i] : i \in 1 .. Len(s) }
  BY <1>1, LenProperties DEF ToSet
<1>3. s # << >> => Len(s) \in Nat \ {0}
  BY <1>1, EmptySeq
<1>4. s # << >> => Len(s) >= 1 /\ 1 \in 1 .. Len(s)
  BY <1>3
<1>5. Head(s) = s[1]
  BY <1>1
<1>6. Len(s) = 0 => s = << >>
  BY <1>3
<1> QED BY <1>2, <1>4, <1>5, <1>6

LEMMA EmptyStream == IsStream(<< >>) /\ Len(<< >>) = 0 /\ ToSet(<< >>) = {}
<1>1. << >> \in Seq({}) /\ Len(<< >>) = 0
  BY EmptySeq
<1>2. IsStream(<< >>)
  BY <1>1 DEF IsStream
<1> QED BY <1>1, <1>2, StreamFacts

LEMMA AppendLonger ==
  ASSUME NEW s, IsStream(s), NEW m
  PROVE  Longer(s, Append(s, m), m) /\ s \o <<m>> = Append(s, m) /\ s \o << >> = s
<1>1. PICK S : s \in Seq(S)
  BY DEF IsStream
<1> PICK T : T = S \cup {m}
  OBVIOUS
<1>2. s \in Seq(T) /\ m \in T /\ S \subseteq T
  BY <1>1, SeqMonotonic
<1> PICK t : t = Append(s, m)
  OBVIOUS
<1>3. /\ t \in Seq(T) /\ Len(t) = Len(s) + 1 /\ t[Len(s) + 1] = m
      /\ \A i \in 1 .. Len(s) : t[i] = s[i]
  BY <1>2, AppendProperties
<1>4. Longer(s, t, m)
  BY <1>3 DEF Longer, IsStream
<1> QED BY <1>2, <1>4, AppendIsConcat, ConcatEmptySeq

\* The messages of a stream that grew, or of which some were taken.
LEMMA LongerSet ==
  ASSUME NEW s, IsStream(s), NEW t, NEW m, Longer(s, t, m)
  PROVE  ToSet(t) = ToSet(s) \cup {m} /\ t # << >> /\ Len(t) = Len(s) + 1 /\ IsStream(t)
<1>1. Len(s) \in Nat /\ Len(t) \in Nat /\ IsStream(t)
      /\ ToSet(s) = { s[i] : i \in 1 .. Len(s) } /\ ToSet(t) = { t[i] : i \in 1 .. Len(t) }
  BY StreamFacts DEF Longer
<1>2. \A i \in 1 .. Len(t) : i \in 1 .. Len(s) \/ i = Len(s) + 1
  BY <1>1 DEF Longer
<1>3. Len(s) + 1 \in 1 .. Len(t) /\ 1 .. Len(s) \subseteq 1 .. Len(t) /\ Len(t) # 0
  BY <1>1 DEF Longer
<1>4. t[Len(s) + 1] = m /\ \A i \in 1 .. Len(s) : t[i] = s[i]
  BY DEF Longer
<1>5. ToSet(t) = ToSet(s) \cup {m}
  BY <1>1, <1>2, <1>3, <1>4
<1> QED BY <1>1, <1>3, <1>5, EmptyStream DEF Longer

LEMMA ShorterSet ==
  ASSUME NEW s, IsStream(s), NEW t, Shorter(s, t)
  PROVE  /\ IsStream(t) /\ Len(t) < Len(s) /\ Len(t) \in Nat
         /\ ToSet(t) \subseteq ToSet(s) \cup {Garbage}
<1>1. PICK d \in Nat \ {0} : /\ Len(t) = Len(s) - d
                             /\ \A i \in 1 .. Len(t) : t[i] = s[i + d] \/ t[i] = Garbage
  BY DEF Shorter
<1>2. Len(s) \in Nat /\ Len(t) \in Nat /\ IsStream(t)
      /\ ToSet(s) = { s[i] : i \in 1 .. Len(s) } /\ ToSet(t) = { t[i] : i \in 1 .. Len(t) }
  BY StreamFacts DEF Shorter
<1>3. \A i \in 1 .. Len(t) : i + d \in 1 .. Len(s)
  BY <1>1, <1>2
<1>4. ToSet(t) \subseteq ToSet(s) \cup {Garbage}
  BY <1>1, <1>2, <1>3
<1> QED BY <1>1, <1>2, <1>4

LEMMA RestShorter ==
  ASSUME NEW s, IsStream(s), s # << >>, NEW t \in Rests(s)
  PROVE  Shorter(s, t)
<1>1. PICK S : s \in Seq(S)
  BY DEF IsStream
<1>2. Len(s) \in Nat /\ Len(s) >= 1
  BY StreamFacts
<1> DEFINE rest(n) == SubSeq(s, n + 1, Len(s))
<1>3. ASSUME NEW n \in 1 .. Len(s)
      PROVE  /\ rest(n) \in Seq(S) /\ Len(rest(n)) = Len(s) - n
             /\ \A i \in 1 .. Len(s) - n : rest(n)[i] = s[i + n]
  <2>1. n + 1 \in Int /\ Len(s) \in Int /\ \A i \in n + 1 .. Len(s) : i \in 1 .. Len(s)
    BY <1>2
  <2>2. \A i \in n + 1 .. Len(s) : s[i] \in S
    BY <1>1, <2>1, ElementOfSeq
  <2>3. /\ rest(n) \in Seq(S)
        /\ Len(rest(n)) = IF n + 1 <= Len(s) THEN Len(s) - (n + 1) + 1 ELSE 0
        /\ \A i \in 1 .. Len(s) - (n + 1) + 1 : rest(n)[i] = s[(n + 1) + i - 1]
    BY <2>1, <2>2, SubSeqProperties
  <2>4. Len(s) - (n + 1) + 1 = Len(s) - n /\ (~(n + 1 <= Len(s)) => Len(s) - n = 0)
        /\ \A i \in 1 .. Len(s) - n : (n + 1) + i - 1 = i + n
    BY <1>2
  <2> HIDE DEF rest
  <2> QED BY <2>3, <2>4
<1> HIDE DEF rest
<1>4. Arrivals(s) \subseteq 1 .. Len(s)
  BY <1>2 DEF Arrivals
<1>5. \/ \E n \in Arrivals(s) : t = rest(n)
      \/ \E n \in Arrivals(s) \ {1} : t = << Garbage >> \o rest(n)
  BY DEF Rests, rest
<1>6. ASSUME NEW n \in Arrivals(s), t = rest(n) PROVE Shorter(s, t)
  <2>1. n \in 1 .. Len(s) /\ n \in Nat \ {0}
    BY <1>4
  <2>2. Len(t) = Len(s) - n /\ IsStream(t)
    BY <1>3, <1>6, <2>1 DEF IsStream
  <2>3. \A i \in 1 .. Len(t) : t[i] = s[i + n]
    BY <1>3, <1>6, <2>1, <2>2
  <2> QED BY <2>1, <2>2, <2>3 DEF Shorter
<1>7. ASSUME NEW n \in Arrivals(s) \ {1}, t = << Garbage >> \o rest(n) PROVE Shorter(s, t)
  <2>1. n \in 1 .. Len(s) /\ n - 1 \in Nat \ {0}
    BY <1>4
  <2> PICK T : T = S \cup {Garbage}
    OBVIOUS
  <2> PICK r : r = rest(n)
    OBVIOUS
  <2> PICK g : g = << Garbage >>
    OBVIOUS
  <2>2. r \in Seq(T) /\ Len(r) = Len(s) - n /\ \A i \in 1 .. Len(s) - n : r[i] = s[i + n]
    BY <1>3, <2>1, SeqMonotonic
  <2>3. g \in Seq(T) /\ Len(g) = 1 /\ g[1] = Garbage
    OBVIOUS
  <2>4. /\ t \in Seq(T) /\ Len(t) = Len(g) + Len(r)
        /\ \A i \in 1 .. Len(g) + Len(r) : t[i] = IF i <= Len(g) THEN g[i] ELSE r[i - Len(g)]
    BY <1>7, <2>2, <2>3, ConcatProperties
  <2>5. Len(t) = Len(s) - (n - 1) /\ IsStream(t)
    <3>1. Len(t) = 1 + (Len(s) - n)
      BY <2>2, <2>3, <2>4
    <3> QED BY <1>2, <2>1, <2>4, <3>1 DEF IsStream
  <2>6. ASSUME NEW i \in 1 .. Len(t) PROVE t[i] = s[i + (n - 1)] \/ t[i] = Garbage
    <3>1. CASE i = 1
      <4>1. t[i] = g[1]
        BY <2>2, <2>3, <2>4, <3>1
      <4> QED BY <2>3, <4>1
    <3>2. CASE i # 1
      <4>1. ~(i <= 1) /\ i - 1 \in 1 .. Len(s) - n /\ i \in 1 .. 1 + (Len(s) - n)
            /\ (i - 1) + n = i + (n - 1)
        BY <1>2, <2>1, <2>5, <3>2
      <4>2. t[i] = r[i - 1]
        BY <2>2, <2>3, <2>4, <4>1
      <4> QED BY <2>2, <4>1, <4>2
    <3> QED BY <3>1, <3>2
  <2> QED BY <2>1, <2>5, <2>6 DEF Shorter
<1> QED BY <1>5, <1>6, <1>7

-----------------------------------------------------------------------------
\* One stream for each editor.
Streams(q) == q = [e \in Editors |-> q[e]] /\ \A e \in Editors : IsStream(q[e])

\* Posting, taking and closing touch one stream.
LEMMA PostUp ==
  ASSUME Streams(up), NEW e \in Editors, NEW m, Post(e, m)
  PROVE  /\ Streams(up')
         /\ \A f \in Editors : f # e => up'[f] = up[f]
         /\ \/ conn[e] = "closed" /\ up'[e] = up[e]
            \/ Longer(up[e], up'[e], m)
<1>1. CASE conn[e] = "closed"
  BY <1>1 DEF Post
<1>2. CASE conn[e] # "closed"
  <2>1. up' = [up EXCEPT ![e] = Append(up[e], m)]
    BY <1>2 DEF Post
  <2>2. up'[e] = Append(up[e], m) /\ \A f \in Editors : f # e => up'[f] = up[f]
    BY <2>1 DEF Streams
  <2>3. Longer(up[e], up'[e], m)
    BY <2>2, AppendLonger DEF Streams
  <2>4. up' = [f \in Editors |-> up'[f]]
    BY <2>1 DEF Streams
  <2> QED BY <2>2, <2>3, <2>4 DEF Streams, Longer
<1> QED BY <1>1, <1>2

LEMMA TakeUp ==
  ASSUME Streams(up), NEW e \in Editors, up[e] # << >>, Taken(e)
  PROVE  /\ Streams(up')
         /\ \A f \in Editors : f # e => up'[f] = up[f]
         /\ Shorter(up[e], up'[e])
<1>1. PICK rest \in Rests(up[e]) : up' = [up EXCEPT ![e] = rest]
  BY DEF Taken
<1>2. up'[e] = rest /\ (\A f \in Editors : f # e => up'[f] = up[f])
      /\ up' = [f \in Editors |-> up'[f]]
  BY <1>1 DEF Streams
<1>3. Shorter(up[e], rest)
  BY RestShorter DEF Streams
<1> QED BY <1>2, <1>3 DEF Streams, Shorter

LEMMA CloseUp ==
  ASSUME Streams(up), NEW e \in Editors, Close(e)
  PROVE  /\ Streams(up')
         /\ \A f \in Editors : f # e => up'[f] = up[f]
         /\ up'[e] = << >>
<1>1. up'[e] = << >> /\ (\A f \in Editors : f # e => up'[f] = up[f])
      /\ up' = [f \in Editors |-> up'[f]]
  BY DEF Close, Streams
<1> QED BY <1>1, EmptyStream DEF Streams

LEMMA GetDown ==
  ASSUME Streams(down), NEW e \in Editors, NEW types, Gets(e, types)
  PROVE  /\ Streams(down')
         /\ \A f \in Editors : f # e => down'[f] = down[f]
         /\ Shorter(down[e], down'[e])
<1>1. PICK rest \in Rests(down[e]) : down' = [down EXCEPT ![e] = rest]
  BY DEF Gets
<1>2. down'[e] = rest /\ (\A f \in Editors : f # e => down'[f] = down[f])
      /\ down' = [f \in Editors |-> down'[f]]
  BY <1>1 DEF Streams
<1>3. Shorter(down[e], rest)
  BY RestShorter DEF Streams, Gets
<1> QED BY <1>2, <1>3 DEF Streams, Shorter

\* Sending appends to the streams of the processes that are there, unless it is the
\* end of the worker.
LEMMA SendDown ==
  ASSUME Streams(down), NEW out, Send(out),
         \A f \in Editors : out[f] = << >> \/ \E m : out[f] = <<m>>
  PROVE  /\ Streams(down') /\ reset' \subseteq reset \cup Editors
         /\ running' = running \/ running' = "sigpipe"
         /\ \A f \in Editors :
              \/ down'[f] = down[f]
              \/ ~Ended(f) /\ \E m : out[f] = <<m>> /\ Longer(down[f], down'[f], m)
         /\ running' # "sigpipe" => \A f \in Editors : \A m :
              ~Ended(f) /\ out[f] = <<m>> => Longer(down[f], down'[f], m)
<1>1. CASE running' = "sigpipe" /\ UNCHANGED <<down, reset>>
  BY <1>1
<1>2. CASE /\ down' = [f \in Editors |-> IF Ended(f) THEN down[f] ELSE down[f] \o out[f]]
           /\ \E refused \in SUBSET { f \in Editors : out[f] # << >> /\ Ended(f) } :
                reset' = reset \cup refused
           /\ UNCHANGED running
  <2>1. reset' \subseteq reset \cup Editors /\ down' = [f \in Editors |-> down'[f]]
    BY <1>2
  <2>2. ASSUME NEW f \in Editors
        PROVE  /\ \/ down'[f] = down[f]
                  \/ ~Ended(f) /\ \E m : out[f] = <<m>> /\ Longer(down[f], down'[f], m)
               /\ \A m : ~Ended(f) /\ out[f] = <<m>> => Longer(down[f], down'[f], m)
    <3>1. IsStream(down[f])
      BY DEF Streams
    <3>2. Ended(f) => down'[f] = down[f]
      BY <1>2
    <3>3. ~Ended(f) => down'[f] = down[f] \o out[f]
      BY <1>2
    <3> PICK s : s = down[f]
      OBVIOUS
    <3>4. ASSUME NEW m, ~Ended(f), out[f] = <<m>> PROVE Longer(down[f], down'[f], m)
      <4>1. IsStream(s) /\ down'[f] = s \o <<m>>
        BY <3>1, <3>3, <3>4
      <4>2. Longer(s, s \o <<m>>, m)
        BY <4>1, AppendLonger
      <4> QED BY <4>1, <4>2
    <3>5. ASSUME ~Ended(f), out[f] = << >> PROVE down'[f] = down[f]
      <4>1. IsStream(s) /\ down'[f] = s \o << >>
        BY <3>1, <3>3, <3>5
      <4> QED BY <4>1, AppendLonger
    <3> QED BY <3>2, <3>4, <3>5
  <2>3. \A f \in Editors : IsStream(down'[f])
    BY <2>2 DEF Streams, Longer
  <2> QED BY <1>2, <2>1, <2>2, <2>3 DEF Streams
<1> QED BY <1>1, <1>2 DEF Send

LEMMA NoMessage == \A x : << >> # <<x>>
<1> TAKE x
<1>1. Len(<< >>) = 0 /\ Len(<<x>>) = 1
  OBVIOUS
<1> QED BY <1>1

\* What is sent: an answer to e, and word of him to the others who are polled.
LEMMA Outgoing ==
  ASSUME NEW e \in Editors, NEW a, NEW w, NEW f \in Editors
  PROVE  /\ Reply(e, a)[f] = IF f = e THEN <<a>> ELSE << >>
         /\ send_msg_everyone(e, w)[f] = IF f \in Polled \ {e} THEN <<w>> ELSE << >>
         /\ Both(Reply(e, a), send_msg_everyone(e, w))[f] =
              IF f = e THEN <<a>> ELSE IF f \in Polled THEN <<w>> ELSE << >>
<1>1. /\ Reply(e, a)[f] = IF f = e THEN <<a>> ELSE << >>
      /\ send_msg_everyone(e, w)[f] = IF f \in Polled \ {e} THEN <<w>> ELSE << >>
  BY DEF Reply, send_msg_everyone
<1>2. Both(Reply(e, a), send_msg_everyone(e, w))[f] = Reply(e, a)[f] \o send_msg_everyone(e, w)[f]
  BY DEF Both
<1>3. \A x : << >> \o <<x>> = <<x>> /\ <<x>> \o << >> = <<x>>
  <2> TAKE x
  <2>1. <<x>> \in Seq({x})
    OBVIOUS
  <2> QED BY <2>1, ConcatEmptySeq
<1>4. << >> \o << >> = << >>
  BY EmptySeq, ConcatEmptySeq
<1> QED BY <1>1, <1>2, <1>3, <1>4

-----------------------------------------------------------------------------
(***************************************************************************)
(* Types: what the streams bring fits what takes it, and every buffer is   *)
(* sound.                                                                  *)
(***************************************************************************)
\* What the connection of e brings to the worker.
Brought(e, m) ==
  \/ m = Garbage \/ m.type = "LOGIN"
  \/ /\ m.type \in {"FILE_REQUEST", "QUIT"} \cup Operations
     /\ m.user_id = account[e] /\ Fitting(m.type, m.payload)

\* What the worker sends.
Sent(m) ==
  /\ m.type \in {"MSG_FAILED", "MSG_OK", "FILE_RESPONSE"} \cup CursorMessages \cup Operations
  /\ m.type = "FILE_RESPONSE" => Sound(m.payload) /\ m.payload = buffer_serialize(m.payload)
  /\ m.type \in CursorMessages \cup Operations =>
       (\E f \in Editors : m.user_id = account[f]) /\ Fitting(m.type, m.payload)

Plain ==
  /\ running \in {"yes", "sigpipe", "noCursor", "noBottom", "twoCursors"}
  /\ slots \in [1..MAX_CLIENTS -> Editors \cup {Free}]
  /\ conn \in [Editors -> Conns]
  /\ clients \subseteq { account[e] : e \in Editors }
  /\ editor \in [Editors -> {"idle", "waiting", "open"} \cup Ends]
  /\ reset \subseteq Editors
  /\ keys \in Seq(Editors) /\ Len(keys) <= MaxKeys

UpGood   == Streams(up) /\ \A e \in Editors : \A m \in ToSet(up[e]) : Brought(e, m)
DownGood == Streams(down) /\ \A e \in Editors : \A m \in ToSet(down[e]) : Sent(m)
CopyGood ==
  /\ copy = [e \in Editors |-> copy[e]]
  /\ \A e \in Editors : IF Open(e) THEN Sound(copy[e]) ELSE copy[e] = NoBuffer

Inv == Plain /\ Served(worker) /\ CopyGood /\ UpGood /\ DownGood

\* The behaviours that start when the worker is forked.
FromTheFork == Early = << >>

LEMMA UserIds ==
  \A e \in Editors : account[e] \in Nat /\ account[e] # Own /\ account[e] # NULL /\ account[e] # 0
  BY CollabAssumption DEF Own, NULL

LEMMA GarbageIs == Garbage.type = "MSG_FAILED" /\ Garbage.user_id = 0
  BY DEF Garbage, Msg

LEMMA MsgIs ==
  \A t, u, x : Msg(t, u, x).type = t /\ Msg(t, u, x).user_id = u /\ Msg(t, u, x).payload = x
  BY DEF Msg

\* Who has a worker's buffer when nobody came early.
LEMMA CameNobody ==
  ASSUME FromTheFork, NEW b PROVE Came(b, Early) = b
<1>1. Len(Early) = 0
  BY EmptySeq DEF FromTheFork
<1> DEFINE F(f) == f = [n \in 0 .. 0 |-> IF n = 0 THEN b
                                          ELSE bcursor_copy_own(f[n - 1], account[Early[n]])]
           f0 == [n \in 0 .. 0 |-> b]
<1>2. F(f0)
  OBVIOUS
<1> DEFINE g == CHOOSE f : F(f)
<1>3. F(g)
  BY <1>2
<1>4. Came(b, Early) = g[0]
  BY <1>1 DEF Came
<1> HIDE DEF g
<1> QED BY <1>3, <1>4

LEMMA NobodyEarly == ASSUME FromTheFork, NEW e PROVE ~IsEarly(e)
<1>1. Len(Early) = 0
  BY EmptySeq DEF FromTheFork
<1> QED BY <1>1 DEF IsEarly

LEMMA InitInv == FromTheFork /\ Init => Inv
<1> SUFFICES ASSUME FromTheFork, Init PROVE Inv
  OBVIOUS
<1>1. PICK file \in Files : worker = Came(buffer_from_file(file), Early)
  BY DEF Init
<1>2. Served(worker)
  <2>1. file \in Seq(Seq(Chars)) /\ file # << >>
    BY CollabAssumption
  <2>2. worker = buffer_from_file(file)
    BY <1>1, CameNobody
  <2> QED BY <2>1, <2>2, FileSound DEF Served
<1>3. /\ copy = [e \in Editors |-> NoBuffer] /\ conn = [e \in Editors |-> "none"]
      /\ editor = [e \in Editors |-> "idle"] /\ clients = {}
  BY NobodyEarly DEF Init
<1>4. slots = [i \in 1..MAX_CLIENTS |-> Free]
  <2>1. Len(Early) = 0 /\ MAX_CLIENTS \in Nat
    BY EmptySeq, CollabAssumption DEF FromTheFork
  <2> QED BY <2>1 DEF Init
<1>5. /\ up = [e \in Editors |-> << >>] /\ down = [e \in Editors |-> << >>]
      /\ reset = {} /\ keys = << >> /\ running = "yes"
  BY DEF Init
<1>6. Plain
  BY <1>3, <1>4, <1>5, CollabAssumption DEF Plain, Conns
<1>7. CopyGood
  BY <1>3 DEF CopyGood, Open
<1>8. UpGood /\ DownGood
  BY <1>5, EmptyStream DEF UpGood, DownGood, Streams
<1> QED BY <1>2, <1>6, <1>7, <1>8 DEF Inv

-----------------------------------------------------------------------------
LEMMA UpGoodTaken ==
  ASSUME UpGood, NEW e \in Editors, up[e] # << >>, Taken(e) PROVE UpGood'
<1>1. /\ Streams(up') /\ (\A f \in Editors : f # e => up'[f] = up[f])
      /\ ToSet(up'[e]) \subseteq ToSet(up[e]) \cup {Garbage}
  BY TakeUp, ShorterSet DEF UpGood, Streams
<1>2. ASSUME NEW f \in Editors, NEW m \in ToSet(up'[f]) PROVE Brought(f, m)
  BY <1>1, <1>2 DEF UpGood, Brought
<1> QED BY <1>1, <1>2 DEF UpGood

LEMMA UpGoodPosted ==
  ASSUME UpGood, NEW e \in Editors, NEW m, Post(e, m), Brought(e, m) PROVE UpGood'
<1>1. /\ Streams(up') /\ (\A f \in Editors : f # e => up'[f] = up[f])
      /\ (up'[e] = up[e] \/ ToSet(up'[e]) = ToSet(up[e]) \cup {m})
  BY PostUp, LongerSet DEF UpGood, Streams
<1>2. ASSUME NEW f \in Editors, NEW x \in ToSet(up'[f]) PROVE Brought(f, x)
  BY <1>1, <1>2 DEF UpGood
<1> QED BY <1>1, <1>2 DEF UpGood

LEMMA UpGoodClosed ==
  ASSUME UpGood, NEW e \in Editors, Close(e) PROVE UpGood'
<1>1. /\ Streams(up') /\ (\A f \in Editors : f # e => up'[f] = up[f]) /\ ToSet(up'[e]) = {}
  BY CloseUp, EmptyStream DEF UpGood
<1>2. ASSUME NEW f \in Editors, NEW x \in ToSet(up'[f]) PROVE Brought(f, x)
  BY <1>1, <1>2 DEF UpGood
<1> QED BY <1>1, <1>2 DEF UpGood

LEMMA DownGoodTaken ==
  ASSUME DownGood, NEW e \in Editors, NEW types, Gets(e, types) PROVE DownGood'
<1>1. /\ Streams(down') /\ (\A f \in Editors : f # e => down'[f] = down[f])
      /\ ToSet(down'[e]) \subseteq ToSet(down[e]) \cup {Garbage}
  BY GetDown, ShorterSet DEF DownGood, Streams
<1>2. Sent(Garbage)
  BY GarbageIs DEF Sent, CursorMessages, Operations
<1>3. ASSUME NEW f \in Editors, NEW m \in ToSet(down'[f]) PROVE Sent(m)
  BY <1>1, <1>2, <1>3 DEF DownGood
<1> QED BY <1>1, <1>3 DEF DownGood

LEMMA EveryoneSent ==
  ASSUME NEW e \in Editors, NEW w, Sent(w), NEW f \in Editors
  PROVE  LET out == send_msg_everyone(e, w) IN
         out[f] = << >> \/ \E x : out[f] = <<x>> /\ Sent(x)
<1>1. send_msg_everyone(e, w)[f] = IF f \in Polled \ {e} THEN <<w>> ELSE << >>
  BY Outgoing
<1> QED BY <1>1

LEMMA BothSent ==
  ASSUME NEW e \in Editors, NEW a, NEW w, Sent(a), Sent(w), NEW f \in Editors
  PROVE  LET out == Both(Reply(e, a), send_msg_everyone(e, w)) IN
         out[f] = << >> \/ \E x : out[f] = <<x>> /\ Sent(x)
<1>1. Both(Reply(e, a), send_msg_everyone(e, w))[f] =
        IF f = e THEN <<a>> ELSE IF f \in Polled THEN <<w>> ELSE << >>
  BY Outgoing
<1> QED BY <1>1

LEMMA DownGoodSent ==
  ASSUME DownGood, NEW out, Send(out),
         \A f \in Editors : out[f] = << >> \/ \E m : out[f] = <<m>> /\ Sent(m)
  PROVE  DownGood' /\ reset' \subseteq reset \cup Editors
         /\ (running' = running \/ running' = "sigpipe")
<1>1. /\ Streams(down') /\ reset' \subseteq reset \cup Editors
      /\ (running' = running \/ running' = "sigpipe")
      /\ \A f \in Editors :
           \/ down'[f] = down[f]
           \/ ~Ended(f) /\ \E m : out[f] = <<m>> /\ Longer(down[f], down'[f], m)
  BY SendDown DEF DownGood
<1>2. ASSUME NEW f \in Editors, NEW x \in ToSet(down'[f]) PROVE Sent(x)
  <2>1. CASE down'[f] = down[f]
    BY <1>2, <2>1 DEF DownGood
  <2>2. ASSUME NEW m, out[f] = <<m>>, Longer(down[f], down'[f], m) PROVE Sent(x)
    <3>1. ToSet(down'[f]) = ToSet(down[f]) \cup {m}
      BY <2>2, LongerSet DEF DownGood, Streams
    <3>2. PICK n : out[f] = <<n>> /\ Sent(n)
      <4>1. out[f] # << >>
        BY <2>2
      <4> QED BY <4>1
    <3>3. Sent(m)
      <4>1. <<m>>[1] = <<n>>[1]
        BY <2>2, <3>2
      <4> QED BY <3>2, <4>1
    <3> QED BY <1>2, <3>1, <3>3 DEF DownGood
  <2> QED BY <1>1, <2>1, <2>2
<1> QED BY <1>1, <1>2 DEF DownGood

\* Only the copy and the state of one editor change.
LEMMA CopyGoodChanged ==
  ASSUME CopyGood, NEW e \in Editors, copy' = [f \in Editors |-> copy'[f]],
         \A f \in Editors : f # e => copy'[f] = copy[f] /\ editor'[f] = editor[f],
         IF editor'[e] = "open" THEN Sound(copy'[e]) ELSE copy'[e] = NoBuffer
  PROVE  CopyGood'
  BY DEF CopyGood, Open

\* What goes wrong in an operation, and what does when nothing goes wrong.
LEMMA FaultIs ==
  ASSUME NEW b, NEW id, NEW t
  PROVE  /\ Fault(b, id, t) \in {"none", "noCursor", "twoCursors", "noBottom"}
         /\ Fault(b, id, t) = "none" /\ t \notin {"INSERT", "ADD_CURSOR"} => HasCursor(b, id)
         /\ Fault(b, id, t) = "noCursor" => t \notin {"INSERT", "ADD_CURSOR"} /\ ~HasCursor(b, id)
         /\ Fault(b, id, t) = "noBottom" =>
              t = "DELETE" /\ HasCursor(b, id) /\ ~Alive(bcursor_del(b, id))
<1>1. CASE t \notin {"INSERT", "ADD_CURSOR"} /\ ~HasCursor(b, id)
  <2>1. Fault(b, id, t) = "noCursor"
    BY <1>1 DEF Fault
  <2> QED BY <1>1, <2>1
<1>2. CASE HasCursor(b, id) /\ MovesAnother(b, id, t)
  <2>1. Fault(b, id, t) = "twoCursors"
    BY <1>2 DEF Fault
  <2> QED BY <1>2, <2>1
<1>3. CASE t = "DELETE" /\ HasCursor(b, id) /\ ~MovesAnother(b, id, t)
           /\ ~Alive(bcursor_del(b, id))
  <2>1. Fault(b, id, t) = "noBottom"
    BY <1>3 DEF Fault
  <2> QED BY <1>3, <2>1
<1>4. CASE ~(t \notin {"INSERT", "ADD_CURSOR"} /\ ~HasCursor(b, id))
           /\ ~(HasCursor(b, id) /\ MovesAnother(b, id, t))
           /\ ~(t = "DELETE" /\ HasCursor(b, id) /\ ~MovesAnother(b, id, t)
                /\ ~Alive(bcursor_del(b, id)))
  <2>1. Fault(b, id, t) = "none"
    BY <1>4 DEF Fault
  <2> QED BY <1>4, <2>1
<1> QED BY <1>1, <1>2, <1>3, <1>4

\* The first message of a connection, when it is of a user who is logged in.
LEMMA Brings1 ==
  ASSUME Inv, NEW e \in Editors, NEW types, "LOGIN" \notin types, Brings(e, types)
  PROVE  LET m == Head(up[e]) IN
         /\ m \in ToSet(up[e]) /\ m.type \in types /\ up[e] # << >> /\ conn[e] = "polled"
         /\ m.type \in {"FILE_REQUEST", "QUIT"} \cup Operations
         /\ m.user_id = account[e] /\ Fitting(m.type, m.payload)
<1> PICK m : m = Head(up[e])
  OBVIOUS
<1>1. up[e] # << >> /\ m.type \in types /\ m.user_id \in clients /\ conn[e] = "polled"
  BY DEF Brings
<1>2. m \in ToSet(up[e])
  BY <1>1, StreamFacts DEF Inv, UpGood, Streams
<1>3. Brought(e, m)
  BY <1>2 DEF Inv, UpGood
<1>4. m # Garbage
  BY <1>1, GarbageIs, UserIds DEF Inv, Plain
<1> QED BY <1>1, <1>2, <1>3, <1>4 DEF Brought

\* The first message to an editor.
LEMMA Gets1 ==
  ASSUME Inv, NEW e \in Editors, NEW types, Gets(e, types)
  PROVE  LET m == Head(down[e]) IN
         m \in ToSet(down[e]) /\ m.type \in types /\ Sent(m) /\ down[e] # << >> /\ Live(e)
<1>1. down[e] # << >> /\ Head(down[e]).type \in types /\ Live(e)
  BY DEF Gets
<1>2. Head(down[e]) \in ToSet(down[e])
  BY <1>1, StreamFacts DEF Inv, DownGood, Streams
<1> QED BY <1>1, <1>2 DEF Inv, DownGood

\* What an editor does with a message keeps its copy sound.
LEMMA FollowSound ==
  ASSUME NEW e \in Editors, NEW b, Sound(b), NEW m, Sent(m),
         m.type \in CursorMessages \cup Operations,
         m.type \notin {"INSERT", "ADD_CURSOR"} => HasCursor(b, m.user_id)
  PROVE  Sound(Follow(e, b, m))
<1>1. PICK f \in Editors : m.user_id = account[f]
  BY DEF Sent
<1>2. m.user_id \in Nat /\ m.user_id # Own /\ Fitting(m.type, m.payload)
  BY <1>1, UserIds DEF Sent
<1>3. CASE m.type = "DELETE_CURSOR"
  <2>1. Follow(e, b, m) = bcursor_free(b, m.user_id) /\ HasCursor(b, m.user_id)
    BY <1>3 DEF Follow
  <2> QED BY <1>2, <2>1, AnyIds, FreeSound
<1>4. CASE m.type = "ADD_CURSOR"
  <2>1. Follow(e, b, m) = b \/ Follow(e, b, m) = bcursor_new(b, m.user_id, b.lid[b.first], 0)
    BY <1>4 DEF Follow
  <2> QED BY <1>2, <2>1, NewPeerSound
<1>5. CASE m.type \in Operations
  <2>1. m.type # "DELETE_CURSOR" /\ m.type # "ADD_CURSOR"
    BY <1>5 DEF Operations
  <2>2. Follow(e, b, m) = Operate(b, m.user_id, m.type, m.payload)
    BY <2>1 DEF Follow
  <2> QED BY <1>2, <1>5, <2>1, <2>2, OperateSound
<1> QED BY <1>3, <1>4, <1>5 DEF CursorMessages

-----------------------------------------------------------------------------
\* What is left alone stays as it was.
LEMMA KeptInv ==
  ASSUME Inv
  PROVE  /\ up' = up => UpGood'
         /\ down' = down => DownGood'
         /\ copy' = copy /\ editor' = editor => CopyGood'
         /\ worker' = worker => Served(worker')
<1>1. up' = up => UpGood'
  BY DEF Inv, UpGood, Streams
<1>2. down' = down => DownGood'
  BY DEF Inv, DownGood, Streams
<1>3. copy' = copy /\ editor' = editor => CopyGood'
  BY DEF Inv, CopyGood, Open
<1>4. worker' = worker => Served(worker')
  BY DEF Inv
<1> QED BY <1>1, <1>2, <1>3, <1>4

LEMMA ClosePlain ==
  ASSUME Plain, NEW e \in Editors, Close(e)
  PROVE  conn' \in [Editors -> Conns] /\ slots' \in [1..MAX_CLIENTS -> Editors \cup {Free}]
  BY DEF Plain, Close, Conns

\* A step of the worker keeps the types.
LEMMA WorkerInv ==
  ASSUME Inv, NEW e \in Editors, WorkerStep(e) PROVE Inv'
<1> USE DEF Inv
<1>1. account[e] \in Nat /\ account[e] # Own
  BY UserIds
<1>2. CASE Accept(e)
  <2>1. Plain'
    BY <1>2 DEF Accept, Plain, Conns, net
  <2> QED BY <1>2, <2>1, KeptInv DEF Accept, net
<1>3. CASE HangUp(e) \/ NotLoggedIn(e)
  <2>1. Close(e) /\ UNCHANGED <<worker, running, clients, editor, copy, down, reset, keys>>
    BY <1>3 DEF HangUp, NotLoggedIn
  <2>2. Plain'
    BY <2>1, ClosePlain DEF Plain
  <2> QED BY <2>1, <2>2, KeptInv, UpGoodClosed
<1>4. CASE Login(e)
  <2>1. /\ up[e] # << >> /\ Taken(e) /\ Send(Reply(e, Msg("MSG_OK", account[e], NoBuffer)))
        /\ clients' = clients \cup {account[e]}
        /\ UNCHANGED <<worker, slots, conn, editor, copy, keys>>
    BY <1>4 DEF Login, Brings
  <2>2. DownGood' /\ reset' \subseteq reset \cup Editors
        /\ (running' = running \/ running' = "sigpipe")
    <3>1. Sent(Msg("MSG_OK", account[e], NoBuffer))
      BY MsgIs DEF Sent, CursorMessages, Operations
    <3>2. ASSUME NEW f \in Editors
          PROVE  LET out == Reply(e, Msg("MSG_OK", account[e], NoBuffer)) IN
                 out[f] = << >> \/ \E m : out[f] = <<m>> /\ Sent(m)
      <4>1. Reply(e, Msg("MSG_OK", account[e], NoBuffer))[f] =
              IF f = e THEN <<Msg("MSG_OK", account[e], NoBuffer)>> ELSE << >>
        BY Outgoing
      <4> QED BY <3>1, <4>1
    <3> QED BY <2>1, <3>2, DownGoodSent
  <2>3. Plain'
    BY <2>1, <2>2 DEF Plain
  <2> QED BY <2>1, <2>2, <2>3, KeptInv, UpGoodTaken
<1>5. CASE FileRequest(e)
  <2> PICK m : m = Head(up[e])
    OBVIOUS
  <2> PICK file, word : file = Msg("FILE_RESPONSE", m.user_id, buffer_serialize(worker))
                        /\ word = Msg("ADD_CURSOR", m.user_id, NoBuffer)
    OBVIOUS
  <2>1. /\ up[e] # << >> /\ Taken(e) /\ m.user_id = account[e]
        /\ worker' = bcursor_copy_own(worker, m.user_id)
        /\ Send(Both(Reply(e, file), send_msg_everyone(e, word)))
        /\ UNCHANGED <<slots, conn, clients, editor, copy, keys>>
    <3>1. Brings(e, {"FILE_REQUEST"})
      BY <1>5 DEF FileRequest
    <3>2. up[e] # << >> /\ m.user_id = account[e]
      BY <3>1, Brings1
    <3> QED BY <1>5, <3>2 DEF FileRequest
  <2>2. DownGood' /\ reset' \subseteq reset \cup Editors
        /\ (running' = running \/ running' = "sigpipe")
    <3>1. Sent(file)
      <4>1. Sound(worker) /\ DOMAIN worker = Fields
        BY DEF Served, Sound, GoodLines
      <4>2. PICK b : b = buffer_serialize(worker)
        OBVIOUS
      <4>3. Sound(b)
        BY <4>1, <4>2, SerializeSame, SoundSame
      <4>4. b = buffer_serialize(b)
        BY <4>1, <4>2 DEF buffer_serialize, Fields
      <4> QED BY <4>2, <4>3, <4>4, MsgIs DEF Sent, CursorMessages, Operations
    <3>2. Sent(word)
      BY <2>1, MsgIs DEF Sent, CursorMessages, Operations, Fitting
    <3>3. ASSUME NEW f \in Editors
          PROVE  LET out == Both(Reply(e, file), send_msg_everyone(e, word)) IN
                 out[f] = << >> \/ \E x : out[f] = <<x>> /\ Sent(x)
      BY <3>1, <3>2, BothSent
    <3> QED BY <2>1, <3>3, DownGoodSent
  <2>3. Plain'
    BY <2>1, <2>2 DEF Plain
  <2>4. Served(worker')
    BY <1>1, <2>1, CopyOwnServed
  <2> QED BY <2>1, <2>2, <2>3, <2>4, KeptInv, UpGoodTaken
<1>6. CASE Quit(e)
  <2> PICK u, word : u = Head(up[e]).user_id /\ word = Msg("DELETE_CURSOR", u, NoBuffer)
    OBVIOUS
  <2>1. /\ Close(e) /\ u = account[e] /\ HasCursor(worker, u)
        /\ worker' = bcursor_free(worker, u) /\ Send(send_msg_everyone(e, word))
        /\ UNCHANGED <<clients, editor, copy, keys>>
    <3>1. Brings(e, {"QUIT"})
      BY <1>6 DEF Quit
    <3>2. u = account[e]
      BY <3>1, Brings1
    <3> QED BY <1>6, <3>2 DEF Quit
  <2>2. DownGood' /\ reset' \subseteq reset \cup Editors
        /\ (running' = running \/ running' = "sigpipe")
    <3>1. Sent(word)
      BY <2>1, MsgIs DEF Sent, CursorMessages, Operations, Fitting
    <3>2. ASSUME NEW f \in Editors
          PROVE  LET out == send_msg_everyone(e, word) IN
                 out[f] = << >> \/ \E x : out[f] = <<x>> /\ Sent(x)
      BY <3>1, EveryoneSent
    <3> QED BY <2>1, <3>2, DownGoodSent
  <2>3. Plain'
    BY <2>1, <2>2, ClosePlain DEF Plain
  <2>4. Served(worker')
    BY <1>1, <2>1, FreeServed
  <2> QED BY <2>1, <2>2, <2>3, <2>4, KeptInv, UpGoodClosed
<1>7. CASE Edit(e)
  <2> PICK m : m = Head(up[e])
    OBVIOUS
  <2>1. /\ up[e] # << >> /\ Taken(e) /\ m.user_id = account[e] /\ m.type \in Operations
        /\ Fitting(m.type, m.payload) /\ Fault(worker, m.user_id, m.type) = "none"
        /\ worker' = Operate(worker, m.user_id, m.type, m.payload)
        /\ Send(send_msg_everyone(e, m))
        /\ UNCHANGED <<slots, conn, clients, editor, copy, keys>>
    <3>1. Brings(e, Operations)
      BY <1>7 DEF Edit
    <3>2. up[e] # << >> /\ m.user_id = account[e] /\ m.type \in Operations
          /\ Fitting(m.type, m.payload)
      BY <3>1, Brings1 DEF Operations
    <3> QED BY <1>7, <3>2 DEF Edit
  <2>2. DownGood' /\ reset' \subseteq reset \cup Editors
        /\ (running' = running \/ running' = "sigpipe")
    <3>1. Sent(m)
      BY <2>1 DEF Sent, CursorMessages, Operations
    <3>2. ASSUME NEW f \in Editors
          PROVE  LET out == send_msg_everyone(e, m) IN
                 out[f] = << >> \/ \E x : out[f] = <<x>> /\ Sent(x)
      BY <3>1, EveryoneSent
    <3> QED BY <2>1, <3>2, DownGoodSent
  <2>3. Plain'
    BY <2>1, <2>2 DEF Plain
  <2>4. Served(worker')
    <3>1. m.type # "INSERT" => HasCursor(worker, m.user_id)
      BY <2>1, FaultIs DEF Operations
    <3> QED BY <1>1, <2>1, <3>1, OperateServed
  <2> QED BY <2>1, <2>2, <2>3, <2>4, KeptInv, UpGoodTaken
<1>8. CASE WorkerFaults(e)
  <2>1. /\ running' \in {"none", "noCursor", "twoCursors", "noBottom"} /\ running' # "none"
        /\ UNCHANGED <<worker, slots, conn, clients, editor, copy, up, down, reset, keys>>
    BY <1>8, FaultIs DEF WorkerFaults, net
  <2>2. Plain'
    BY <2>1 DEF Plain
  <2> QED BY <2>1, <2>2, KeptInv
<1> QED BY <1>2, <1>3, <1>4, <1>5, <1>6, <1>7, <1>8 DEF WorkerStep

\* A step in which an editor takes a message does.
LEMMA GetsInv ==
  ASSUME Inv, NEW e \in Editors, EditorGets(e) PROVE Inv'
<1> USE DEF Inv
<1> PICK m : m = Head(down[e])
  OBVIOUS
<1>1. ASSUME NEW types, Gets(e, types)
      PROVE  /\ Live(e) /\ m.type \in types /\ Sent(m) /\ m \in ToSet(down[e])
             /\ DownGood' /\ Served(worker')
             /\ UNCHANGED <<running, slots, conn, clients, reset, keys>>
  BY <1>1, Gets1, DownGoodTaken, KeptInv DEF Gets
<1>2. ASSUME editor' \in [Editors -> {"idle", "waiting", "open"} \cup Ends],
             UNCHANGED <<running, slots, conn, clients, reset, keys>>
      PROVE  Plain'
  BY <1>2 DEF Plain
<1>3. editor \in [Editors -> {"idle", "waiting", "open"} \cup Ends]
  BY DEF Plain
<1>4. ASSUME NEW s, Becomes(e, s), s \in {"open"} \cup Ends
      PROVE  /\ editor' \in [Editors -> {"idle", "waiting", "open"} \cup Ends]
             /\ editor'[e] = s /\ \A f \in Editors : f # e => editor'[f] = editor[f]
  BY <1>3, <1>4 DEF Becomes
<1>5. ASSUME NEW c, copy' = [copy EXCEPT ![e] = c]
      PROVE  /\ copy' = [f \in Editors |-> copy'[f]] /\ copy'[e] = c
             /\ \A f \in Editors : f # e => copy'[f] = copy[f]
  BY <1>5 DEF CopyGood
<1>6. CASE GetOk(e)
  <2>1. Gets(e, {"MSG_OK"}) /\ Post(e, Msg("FILE_REQUEST", account[e], NoBuffer))
        /\ UNCHANGED <<editor, copy>>
    BY <1>6 DEF GetOk
  <2>2. Brought(e, Msg("FILE_REQUEST", account[e], NoBuffer))
    BY MsgIs DEF Brought, Fitting
  <2> QED BY <1>1, <1>2, <1>3, <2>1, <2>2, KeptInv, UpGoodPosted
<1>7. CASE GetFile(e)
  <2>1. Gets(e, {"FILE_RESPONSE"}) /\ Becomes(e, "open") /\ up' = up
        /\ copy' = [copy EXCEPT ![e] = buffer_deserialize(m.payload)]
    BY <1>7 DEF GetFile
  <2>2. Sound(buffer_deserialize(m.payload))
    <3>1. Sound(m.payload) /\ m.payload = buffer_serialize(m.payload)
      BY <1>1, <2>1 DEF Sent
    <3> QED BY <3>1, AnyIds, OpenSound
  <2>3. CopyGood'
    BY <1>4, <1>5, <2>1, <2>2, CopyGoodChanged
  <2> QED BY <1>1, <1>2, <1>4, <2>1, <2>3, KeptInv
<1>8. CASE GetEdit(e)
  <2>1. Open(e) /\ Gets(e, Operations \cup CursorMessages) /\ UNCHANGED <<editor, up>>
        /\ Fault(copy[e], m.user_id, m.type) = "none"
        /\ copy' = [copy EXCEPT ![e] = Follow(e, copy[e], m)]
    BY <1>8 DEF GetEdit
  <2>2. Sound(Follow(e, copy[e], m))
    <3>1. Sound(copy[e]) /\ Sent(m) /\ m.type \in CursorMessages \cup Operations
      BY <1>1, <2>1 DEF CopyGood
    <3>2. m.type \notin {"INSERT", "ADD_CURSOR"} => HasCursor(copy[e], m.user_id)
      BY <2>1, FaultIs
    <3> QED BY <3>1, <3>2, FollowSound
  <2>3. CopyGood'
    BY <1>5, <2>1, <2>2, CopyGoodChanged DEF Open
  <2> QED BY <1>1, <1>2, <1>3, <2>1, <2>3, KeptInv
<1>9. CASE GetGarbage(e)
  <2>1. Gets(e, {"MSG_FAILED"}) /\ UNCHANGED <<editor, copy, up>>
    BY <1>9 DEF GetGarbage
  <2> QED BY <1>1, <1>2, <1>3, <2>1, KeptInv
<1>10. CASE GetTooEarly(e)
  <2>1. editor[e] = "waiting" /\ Gets(e, Operations \cup CursorMessages) /\ UNCHANGED <<copy, up>>
        /\ (editor' = editor \/ Becomes(e, "noFile"))
    BY <1>10 DEF GetTooEarly
  <2>2. CASE editor' = editor
    BY <1>1, <1>2, <1>3, <2>1, <2>2, KeptInv
  <2>3. CASE Becomes(e, "noFile")
    <3>1. "noFile" \in Ends /\ copy[e] = NoBuffer
      BY <2>1 DEF Ends, CopyGood, Open
    <3>2. CopyGood'
      BY <1>4, <2>1, <2>3, <3>1, CopyGoodChanged DEF CopyGood
    <3> QED BY <1>1, <1>2, <1>4, <2>1, <2>3, <3>1, <3>2, KeptInv
  <2> QED BY <2>1, <2>2, <2>3
<1>11. CASE EditorFaults(e)
  <2> PICK fault : fault = Fault(copy[e], m.user_id, m.type)
    OBVIOUS
  <2>1. Open(e) /\ Gets(e, Operations \cup {"DELETE_CURSOR"}) /\ up' = up
        /\ fault # "none" /\ Becomes(e, fault) /\ copy' = [copy EXCEPT ![e] = NoBuffer]
    BY <1>11 DEF EditorFaults
  <2>2. fault \in Ends /\ fault # "open"
    BY <2>1, FaultIs DEF Ends
  <2>3. CopyGood'
    BY <1>4, <1>5, <2>1, <2>2, CopyGoodChanged
  <2> QED BY <1>1, <1>2, <1>4, <2>1, <2>2, <2>3, KeptInv
<1> QED BY <1>6, <1>7, <1>8, <1>9, <1>10, <1>11 DEF EditorGets

\* So does a step of a user.
LEMMA UserInv ==
  ASSUME Inv, NEW e \in Editors, UserStep(e) PROVE Inv'
<1> USE DEF Inv
<1>1. editor \in [Editors -> {"idle", "waiting", "open"} \cup Ends]
  BY DEF Plain
<1>2. ASSUME NEW s, Becomes(e, s), s \in {"waiting", "open"} \cup Ends
      PROVE  /\ editor' \in [Editors -> {"idle", "waiting", "open"} \cup Ends]
             /\ editor'[e] = s /\ \A f \in Editors : f # e => editor'[f] = editor[f]
  BY <1>1, <1>2 DEF Becomes
<1>3. ASSUME NEW c, copy' = [copy EXCEPT ![e] = c]
      PROVE  /\ copy' = [f \in Editors |-> copy'[f]] /\ copy'[e] = c
             /\ \A f \in Editors : f # e => copy'[f] = copy[f]
  BY <1>3 DEF CopyGood
\* A user whose editor has no buffer, before and after the step.
<1>4. ASSUME NEW s, Becomes(e, s), s \in {"waiting"} \cup Ends,
             copy' = [copy EXCEPT ![e] = NoBuffer]
      PROVE  CopyGood'
  BY <1>2, <1>3, <1>4, CopyGoodChanged DEF Ends
<1>5. ASSUME ~Open(e), copy' = copy PROVE copy' = [copy EXCEPT ![e] = NoBuffer]
  BY <1>5 DEF CopyGood
<1>6. CASE Start(e)
  <2>1. /\ editor[e] = "idle" /\ Becomes(e, "waiting") /\ conn' = [conn EXCEPT ![e] = "backlog"]
        /\ Post(e, Msg("LOGIN", -1, account[e]))
        /\ UNCHANGED <<worker, running, slots, clients, copy, down, reset, keys>>
    BY <1>6 DEF Start
  <2>2. Brought(e, Msg("LOGIN", -1, account[e]))
    BY MsgIs DEF Brought
  <2>3. Plain'
    BY <1>2, <2>1 DEF Plain, Conns
  <2>4. CopyGood'
    BY <1>4, <1>5, <2>1 DEF Open
  <2> QED BY <2>1, <2>2, <2>3, <2>4, KeptInv, UpGoodPosted
<1>7. ASSUME NEW key \in Keys, Press(e, key) PROVE Inv'
  <2> PICK fault : fault = Fault(copy[e], Own, key.type)
    OBVIOUS
  <2> PICK c : c = Operate(copy[e], Own, key.type, key.payload)
    OBVIOUS
  <2>1. /\ Open(e) /\ Len(keys) < MaxKeys /\ keys' = Append(keys, e)
        /\ Post(e, Msg(key.type, account[e], key.payload))
        /\ \/ fault = "none" /\ copy' = [copy EXCEPT ![e] = c] /\ editor' = editor
           \/ fault # "none" /\ copy' = [copy EXCEPT ![e] = NoBuffer] /\ Becomes(e, fault)
        /\ UNCHANGED <<worker, running, slots, conn, clients, down, reset>>
    BY <1>7 DEF Press
  <2>2. key.type \in Operations /\ Fitting(key.type, key.payload)
    BY CollabAssumption DEF Operations, Fitting
  <2>3. Brought(e, Msg(key.type, account[e], key.payload))
    BY <2>2, MsgIs DEF Brought
  <2>4. keys' \in Seq(Editors) /\ Len(keys') <= MaxKeys
    BY <2>1, CollabAssumption DEF Plain
  <2>5. CASE fault = "none" /\ copy' = [copy EXCEPT ![e] = c] /\ editor' = editor
    <3>1. Sound(copy[e]) /\ HasCursor(copy[e], Own) /\ Own \in Nat
      BY <2>1, OwnFound DEF CopyGood
    <3>2. Sound(c)
      BY <2>2, <3>1, OperateSound
    <3>3. CopyGood'
      BY <1>3, <2>1, <2>5, <3>2, CopyGoodChanged DEF Open
    <3>4. Plain'
      BY <2>1, <2>4, <2>5 DEF Plain
    <3> QED BY <2>1, <2>3, <3>3, <3>4, KeptInv, UpGoodPosted
  <2>6. CASE fault # "none" /\ copy' = [copy EXCEPT ![e] = NoBuffer] /\ Becomes(e, fault)
    <3>1. fault \in Ends
      BY <2>6, FaultIs DEF Ends
    <3>2. CopyGood'
      BY <1>4, <2>6, <3>1
    <3>3. Plain'
      BY <1>2, <2>1, <2>4, <2>6, <3>1 DEF Plain
    <3> QED BY <2>1, <2>3, <3>2, <3>3, KeptInv, UpGoodPosted
  <2> QED BY <2>1, <2>5, <2>6
<1>8. CASE PressTooEarly(e)
  <2>1. editor[e] = "waiting" /\ Becomes(e, "ownKey") /\ "ownKey" \in Ends
        /\ UNCHANGED <<worker, running, slots, conn, clients, copy, up, down, reset, keys>>
    BY <1>8 DEF PressTooEarly, net, Ends
  <2>2. Plain'
    BY <1>2, <2>1 DEF Plain
  <2>3. CopyGood'
    BY <1>4, <1>5, <2>1 DEF Open
  <2> QED BY <2>1, <2>2, <2>3, KeptInv
<1>9. CASE Escape(e)
  <2>1. /\ Post(e, Msg("QUIT", account[e], NoBuffer)) /\ copy' = [copy EXCEPT ![e] = NoBuffer]
        /\ Becomes(e, "quit") /\ "quit" \in Ends
        /\ UNCHANGED <<worker, running, slots, conn, clients, down, reset, keys>>
    BY <1>9 DEF Escape, Ends
  <2>2. Brought(e, Msg("QUIT", account[e], NoBuffer))
    BY MsgIs DEF Brought, Fitting
  <2>3. Plain'
    BY <1>2, <2>1 DEF Plain
  <2>4. CopyGood'
    BY <1>4, <2>1
  <2> QED BY <2>1, <2>2, <2>3, <2>4, KeptInv, UpGoodPosted
<1>10. CASE Disconnected(e)
  <2>1. /\ Becomes(e, "sigpipe") /\ "sigpipe" \in Ends /\ copy' = [copy EXCEPT ![e] = NoBuffer]
        /\ UNCHANGED <<worker, running, slots, conn, clients, up, down, reset, keys>>
    BY <1>10 DEF Disconnected, net, Ends
  <2>2. Plain'
    BY <1>2, <2>1 DEF Plain
  <2>3. CopyGood'
    BY <1>4, <2>1
  <2> QED BY <2>1, <2>2, <2>3, KeptInv
<1> QED BY <1>6, <1>7, <1>8, <1>9, <1>10 DEF UserStep

LEMMA StepInv == Inv /\ [Next]_vars => Inv'
<1> SUFFICES ASSUME Inv, [Next]_vars PROVE Inv'
  OBVIOUS
<1>1. CASE UNCHANGED vars
  <2>1. Plain'
    BY <1>1 DEF vars, Inv, Plain
  <2> QED BY <1>1, <2>1, KeptInv DEF vars, Inv
<1>2. CASE Next
  BY <1>2, WorkerInv, GetsInv, UserInv DEF Next
<1> QED BY <1>1, <1>2

\* Everything has its type, only users who logged in are in clients, and an editor
\* has a buffer exactly while it has the file: whatever arrives, is cut or is lost.
THEOREM TypeOKTheorem ==
  ASSUME FromTheFork PROVE Spec => []TypeOK
<1>1. Inv => TypeOK
  BY SomeBuffer DEF Inv, Plain, CopyGood, TypeOK
<1> QED BY <1>1, InitInv, StepInv, PTL DEF Spec

-----------------------------------------------------------------------------
(***************************************************************************)
(* How far an editor has come, told from its streams u and d, its state s  *)
(* and its connection c.  Until it has the file one message at a time goes *)
(* to and fro: LOGIN, MSG_OK, FILE_REQUEST, FILE_RESPONSE.                 *)
(***************************************************************************)
Starting == {"LOGIN", "FILE_REQUEST"}
Answers  == {"MSG_OK", "FILE_RESPONSE"}
Uses     == Operations \cup {"QUIT"}

Carries(s, types) == \E m \in ToSet(s) : m.type \in types

InTurn(u, d, s, c) ==
  /\ Carries(u, Starting) => Len(u) = 1 /\ s # "open"
  /\ Carries(d, Answers) => u = << >> /\ s # "open"
  /\ \A i, j \in 1 .. Len(d) : d[i].type \in Answers /\ d[j].type \in Answers => i = j
  /\ s = "idle" => u = << >> /\ d = << >> /\ c = "none"

\* The worker has no cursor for him yet.
Awaiting(u, d, s) == s = "idle" \/ Carries(u, Starting) \/ Carries(d, {"MSG_OK"})

\* He sends, or may still send, messages that need a cursor.
Using(u, d, s, c) ==
  c # "closed" /\ \/ s = "open" \/ Carries(u, Uses)
                  \/ s = "waiting" /\ Carries(d, {"FILE_RESPONSE"})

LEMMA CarriesMore ==
  ASSUME NEW s, IsStream(s), NEW t, NEW m, Longer(s, t, m), NEW types
  PROVE  Carries(t, types) <=> (Carries(s, types) \/ m.type \in types)
  BY LongerSet DEF Carries

LEMMA CarriesLess ==
  ASSUME NEW s, IsStream(s), NEW t, Shorter(s, t), NEW types, "MSG_FAILED" \notin types
  PROVE  Carries(t, types) => Carries(s, types)
  BY ShorterSet, GarbageIs DEF Carries

LEMMA CarriesNone == \A types : ~Carries(<< >>, types)
  BY EmptyStream DEF Carries

LEMMA CarriesHead ==
  ASSUME NEW s, IsStream(s), s # << >>, NEW types, Head(s).type \in types
  PROVE  Carries(s, types)
  BY StreamFacts DEF Carries

\* The worker takes a message.
LEMMA TurnTaken ==
  ASSUME NEW u, NEW d, NEW s, NEW c, IsStream(u), InTurn(u, d, s, c), NEW v, Shorter(u, v)
  PROVE  /\ InTurn(v, d, s, c)
         /\ Awaiting(v, d, s) => Awaiting(u, d, s)
         /\ Using(v, d, s, c) => Using(u, d, s, c)
         /\ Carries(u, Starting) => v = << >> /\ ~Carries(d, Answers) /\ s \notin {"open", "idle"}
<1>1. IsStream(v) /\ Len(v) < Len(u) /\ Len(v) \in Nat /\ Len(u) \in Nat
  BY ShorterSet, StreamFacts
<1>2. Carries(v, Starting) => Carries(u, Starting)
  BY CarriesLess DEF Starting
<1>3. Carries(v, Uses) => Carries(u, Uses)
  BY CarriesLess DEF Uses, Operations
<1>4. Len(u) = 1 => v = << >>
  <2>1. Len(u) = 1 => Len(v) = 0
    BY <1>1
  <2> QED BY <1>1, <2>1, StreamFacts
<1>5. u # << >>
  BY <1>1, EmptyStream
<1>6. ~Carries(v, Starting)
  BY <1>2, <1>4, CarriesNone DEF InTurn
<1> QED BY <1>2, <1>3, <1>4, <1>5, <1>6, CarriesNone DEF InTurn, Awaiting, Using

\* An editor that has the file posts a message.
LEMMA TurnPosted ==
  ASSUME NEW u, NEW d, NEW c, IsStream(u), InTurn(u, d, "open", c), c # "closed",
         NEW m, m.type \in Uses, NEW v, Longer(u, v, m), NEW s, s # "idle"
  PROVE  /\ InTurn(v, d, s, c)
         /\ Awaiting(v, d, s) => Awaiting(u, d, "open")
         /\ Using(v, d, s, c) => Using(u, d, "open", c)
<1>1. ~Carries(u, Starting) /\ ~Carries(d, Answers)
  BY DEF InTurn
<1>2. m.type \notin Starting
  BY DEF Uses, Operations, Starting
<1>3. ~Carries(v, Starting)
  BY <1>1, <1>2, CarriesMore
<1> QED BY <1>1, <1>3 DEF InTurn, Awaiting, Using

\* A message that is no answer reaches whoever is polled.
LEMMA TurnTold ==
  ASSUME NEW u, NEW d, NEW s, NEW c, IsStream(d), InTurn(u, d, s, c), s # "idle",
         NEW m, m.type \notin Answers, NEW t, Longer(d, t, m)
  PROVE  /\ InTurn(u, t, s, c)
         /\ Awaiting(u, t, s) => Awaiting(u, d, s)
         /\ Using(u, t, s, c) => Using(u, d, s, c)
<1>1. \A types : types \subseteq Answers => (Carries(t, types) => Carries(d, types))
  BY CarriesMore
<1>2. Carries(t, Answers) => Carries(d, Answers)
  BY <1>1
<1>3. {"MSG_OK"} \subseteq Answers /\ {"FILE_RESPONSE"} \subseteq Answers
  BY DEF Answers
<1>4. ASSUME NEW i \in 1 .. Len(t), t[i].type \in Answers
      PROVE  i \in 1 .. Len(d) /\ d[i].type \in Answers
  <2>1. Len(d) \in Nat /\ Len(t) = Len(d) + 1 /\ t[Len(d) + 1] = m
        /\ \A k \in 1 .. Len(d) : t[k] = d[k]
    BY StreamFacts DEF Longer
  <2>2. i # Len(d) + 1
    BY <1>4, <2>1
  <2>3. i \in 1 .. Len(d)
    BY <2>1, <2>2
  <2> QED BY <1>4, <2>1, <2>3
<1> QED BY <1>1, <1>2, <1>3, <1>4 DEF InTurn, Awaiting, Using

\* The answer to a first message.
LEMMA TurnAnswered ==
  ASSUME NEW d, NEW s, NEW c, IsStream(d), InTurn(<< >>, d, s, c), ~Carries(d, Answers),
         s \notin {"open", "idle"}, NEW m, m.type \in Answers, NEW t, Longer(d, t, m)
  PROVE  /\ InTurn(<< >>, t, s, c)
         /\ Awaiting(<< >>, t, s) => m.type = "MSG_OK"
         /\ Using(<< >>, t, s, c) => m.type = "FILE_RESPONSE"
<1>1. Carries(t, {"MSG_OK"}) => m.type = "MSG_OK"
  <2>1. ~Carries(d, {"MSG_OK"})
    BY DEF Carries, Answers
  <2> QED BY <2>1, CarriesMore
<1>2. Carries(t, {"FILE_RESPONSE"}) => m.type = "FILE_RESPONSE"
  <2>1. ~Carries(d, {"FILE_RESPONSE"})
    BY DEF Carries, Answers
  <2> QED BY <2>1, CarriesMore
<1>3. ASSUME NEW i \in 1 .. Len(t), t[i].type \in Answers PROVE i = Len(d) + 1
  <2>1. Len(d) \in Nat /\ Len(t) = Len(d) + 1 /\ ToSet(d) = { d[k] : k \in 1 .. Len(d) }
        /\ \A k \in 1 .. Len(d) : t[k] = d[k]
    BY StreamFacts DEF Longer
  <2>2. ASSUME i \in 1 .. Len(d) PROVE FALSE
    <3>1. d[i] \in ToSet(d) /\ d[i].type \in Answers
      BY <1>3, <2>1, <2>2
    <3> QED BY <3>1 DEF Carries
  <2> QED BY <2>1, <2>2
<1>4. InTurn(<< >>, t, s, c)
  <2>1. \A i, j \in 1 .. Len(t) : t[i].type \in Answers /\ t[j].type \in Answers => i = j
    BY <1>3
  <2> QED BY <2>1, CarriesNone DEF InTurn
<1> QED BY <1>1, <1>2, <1>4, CarriesNone DEF Awaiting, Using

\* An editor takes a message.
LEMMA TurnGot ==
  ASSUME NEW u, NEW d, NEW s, NEW c, IsStream(d), d # << >>, InTurn(u, d, s, c), NEW t, Shorter(d, t)
  PROVE  /\ InTurn(u, t, s, c)
         /\ Awaiting(u, t, s) => Awaiting(u, d, s)
         /\ Using(u, t, s, c) => Using(u, d, s, c)
         /\ Head(d).type \in Answers => ~Carries(t, Answers) /\ u = << >> /\ s # "open"
<1>1. PICK k \in Nat \ {0} : /\ Len(t) = Len(d) - k
                             /\ \A i \in 1 .. Len(t) : t[i] = d[i + k] \/ t[i] = Garbage
  BY DEF Shorter
<1>2. Len(d) \in Nat /\ Len(t) \in Nat /\ Head(d) = d[1] /\ 1 \in 1 .. Len(d)
      /\ ToSet(t) = { t[i] : i \in 1 .. Len(t) }
  BY StreamFacts, ShorterSet
<1>3. "MSG_FAILED" \notin Answers /\ "MSG_FAILED" \notin {"MSG_OK"} /\ "MSG_FAILED" \notin {"FILE_RESPONSE"}
  BY DEF Answers
<1>4. \A i \in 1 .. Len(t) : i + k \in 1 .. Len(d) /\ i + k # 1
  BY <1>1, <1>2
<1>5. \A i \in 1 .. Len(t) : t[i].type \in Answers => t[i] = d[i + k]
  BY <1>1, <1>3, GarbageIs
<1>6. /\ Carries(t, Answers) => Carries(d, Answers)
      /\ Carries(t, {"MSG_OK"}) => Carries(d, {"MSG_OK"})
      /\ Carries(t, {"FILE_RESPONSE"}) => Carries(d, {"FILE_RESPONSE"})
  BY <1>3, CarriesLess
<1>7. ASSUME NEW i \in 1 .. Len(t), NEW j \in 1 .. Len(t), t[i].type \in Answers, t[j].type \in Answers
      PROVE  i = j
  <2>1. i + k = j + k
    BY <1>4, <1>5, <1>7 DEF InTurn
  <2> QED BY <1>1, <2>1
<1>8. InTurn(u, t, s, c)
  <2>1. s # "idle"
    BY DEF InTurn
  <2> QED BY <1>6, <1>7, <2>1 DEF InTurn
<1>9. ASSUME Head(d).type \in Answers PROVE ~Carries(t, Answers) /\ u = << >> /\ s # "open"
  <2>1. ASSUME NEW i \in 1 .. Len(t), t[i].type \in Answers PROVE FALSE
    BY <1>2, <1>4, <1>5, <1>9, <2>1 DEF InTurn
  <2>2. ~Carries(t, Answers)
    BY <1>2, <2>1 DEF Carries
  <2>3. Carries(d, Answers)
    BY <1>9, CarriesHead
  <2> QED BY <2>2, <2>3 DEF InTurn
<1> QED BY <1>6, <1>8, <1>9 DEF Awaiting, Using

-----------------------------------------------------------------------------
(***************************************************************************)
(* Whose cursors the worker has.  Of the editors of one user the cursors   *)
(* cannot be told apart, but there are enough of them: the cursors in use  *)
(* can be dealt out, each to an editor of its user that awaits none, so    *)
(* that whoever needs one has one.                                         *)
(***************************************************************************)
Used(b) == { k \in Slots : b.curs[k].id # NULL }

\* of deals out the cursors of b: none to anybody of P, one to everybody of O.
Dealt(b, P, O, of) ==
  /\ of \in [Used(b) -> Editors]
  /\ \A j, k \in Used(b) : of[j] = of[k] => j = k
  /\ \A k \in Used(b) : b.curs[k].id = account[of[k]] /\ of[k] \notin P
  /\ \A e \in O : \E k \in Used(b) : of[k] = e

\* There are slots for the cursors of all editors.
FewEditors == IsFiniteSet(Editors) /\ Cardinality(Editors) <= MAX_CURSOR_NUM

LEMMA DealtSame ==
  ASSUME NEW b, NEW P, NEW O, NEW of, Dealt(b, P, O, of), NEW c, SameIds(b, c),
         NEW Q \in SUBSET P, NEW N \in SUBSET O
  PROVE  Dealt(c, Q, N, of)
<1>1. \A k \in Slots : c.curs[k].id = b.curs[k].id
  BY DEF SameIds, AllSlots
<1>2. Used(c) = Used(b)
  BY <1>1 DEF Used
<1> QED BY <1>1, <1>2 DEF Dealt, Used

\* Where nobody has a cursor.
LEMMA DealtNobody ==
  ASSUME NEW b, Sound(b), IdsIn(b, {}), NEW P
  PROVE  Dealt(b, P, {}, << >>)
<1>1. \A k \in Slots : b.curs[k].id # Own /\ b.curs[k].id \in {Own, NULL}
  BY DEF Sound, GoodCursors, IdsOfSlots, IdsIn, AllSlots
<1>2. Used(b) = {}
  BY <1>1 DEF Used
<1>3. << >> \in [{} -> Editors]
  OBVIOUS
<1> QED BY <1>2, <1>3 DEF Dealt

\* A slot is in use unless it is free.
LEMMA FreeOrUsed ==
  ASSUME NEW b, Sound(b), NEW k \in Slots
  PROVE  (k \in FreeSlots(b) <=> k \notin Used(b)) /\ NoCursor.id = NULL
<1>1. b.curs[k] = NoCursor \/ GoodCursor(b, b.curs[k])
  BY DEF Sound, GoodCursors, AllSlots
<1>2. GoodCursor(b, b.curs[k]) => b.curs[k].id # NULL
  BY DEF GoodCursor, Cursor, NULL
<1>3. NoCursor.id = NULL
  BY DEF NoCursor
<1> QED BY <1>1, <1>2, <1>3 DEF FreeSlots, Used

\* While an editor awaits his cursor a slot is free.
LEMMA SlotForHim ==
  ASSUME FewEditors, NEW b, Sound(b), NEW P, NEW O, NEW of, Dealt(b, P, O, of),
         NEW e \in Editors, e \in P
  PROVE  FreeSlots(b) # {}
<1> SUFFICES ASSUME FreeSlots(b) = {} PROVE FALSE
  OBVIOUS
<1> DEFINE T == Editors \ {e}
<1>1. Used(b) = Slots
  BY FreeOrUsed DEF Used
<1>2. of \in [Slots -> T] /\ \A j, k \in Slots : of[j] = of[k] => j = k
  <2>1. \A k \in Slots : of[k] \in T
    BY <1>1 DEF Dealt
  <2> QED BY <1>1, <2>1 DEF Dealt
<1>3. IsFiniteSet(Slots) /\ Cardinality(Slots) = MAX_CURSOR_NUM
  <2>1. MAX_CURSOR_NUM \in Nat
    BY ConstantsAssumption
  <2> QED BY <2>1, FS_Interval DEF Slots
<1>4. IsFiniteSet(T) /\ Cardinality(T) < Cardinality(Slots)
  <2>1. IsFiniteSet(T) /\ Cardinality(T) = Cardinality(Editors) - 1
    BY FS_RemoveElement DEF FewEditors
  <2>2. Cardinality(Editors) \in Nat /\ MAX_CURSOR_NUM \in Nat
    BY FS_CardinalityType, ConstantsAssumption DEF FewEditors
  <2> HIDE DEF T
  <2> QED BY <1>3, <2>1, <2>2 DEF FewEditors
<1>5. \E j, k \in Slots : j # k /\ of[j] = of[k]
  <2> HIDE DEF T
  <2> QED BY <1>2, <1>3, <1>4, FS_PigeonHole
<1> QED BY <1>2, <1>5

\* An editor that awaited a cursor has joined.
LEMMA DealtMore ==
  ASSUME FewEditors, NEW b, Sound(b), NEW P, NEW O, NEW of, Dealt(b, P, O, of),
         NEW e \in Editors, e \in P, NEW c, Joins(b, c, account[e]),
         NEW Q \in SUBSET (P \ {e}), NEW N \in SUBSET (O \cup {e})
  PROVE  \E g : Dealt(c, Q, N, g)
<1>1. FreeSlots(b) # {}
  BY SlotForHim
<1>2. PICK x : x.id = account[e] /\ Added(b, c, x)
  BY <1>1 DEF Joins
<1>3. PICK k \in Slots : /\ b.curs[k] = NoCursor /\ c.curs[k] = x
                         /\ \A j \in AllSlots : j # k => c.curs[j] = b.curs[j]
  BY <1>2 DEF Added
<1>4. k \notin Used(b) /\ Used(c) = Used(b) \cup {k}
  <2>1. k \notin Used(b)
    BY <1>3 DEF Used, NoCursor
  <2>2. x.id # NULL
    BY <1>2, UserIds
  <2>3. \A j \in Slots : j # k => c.curs[j].id = b.curs[j].id
    BY <1>3 DEF AllSlots
  <2> QED BY <1>3, <2>1, <2>2, <2>3 DEF Used
<1> DEFINE g == [j \in Used(c) |-> IF j = k THEN e ELSE of[j]]
<1>5. /\ g \in [Used(c) -> Editors] /\ g[k] = e
      /\ \A j \in Used(b) : j \in Used(c) /\ j # k /\ g[j] = of[j]
  BY <1>4 DEF Dealt
<1> HIDE DEF g
<1>6. \A j \in Used(b) : c.curs[j].id = b.curs[j].id
  BY <1>3, <1>4 DEF Used, AllSlots
<1>7. \A i, j \in Used(c) : g[i] = g[j] => i = j
  BY <1>4, <1>5 DEF Dealt
<1>8. \A j \in Used(c) : c.curs[j].id = account[g[j]] /\ g[j] \notin Q
  <2>1. c.curs[k].id = account[g[k]] /\ g[k] \notin Q
    BY <1>2, <1>3, <1>5
  <2>2. \A j \in Used(b) : c.curs[j].id = account[g[j]] /\ g[j] \notin Q
    BY <1>5, <1>6 DEF Dealt
  <2> QED BY <1>4, <2>1, <2>2
<1>9. \A f \in N : \E j \in Used(c) : g[j] = f
  <2>1. \A f \in O : \E j \in Used(b) : of[j] = f
    BY DEF Dealt
  <2>2. k \in Used(c)
    BY <1>4
  <2> QED BY <1>5, <2>1, <2>2
<1>10. Dealt(c, Q, N, g)
  BY <1>5, <1>7, <1>8, <1>9 DEF Dealt
<1> QED BY <1>10

\* An editor that had a cursor has left; if the cursor that is freed was dealt to
\* another editor of his user, that one gets his.
LEMMA DealtLess ==
  ASSUME NEW b, Sound(b), NEW P, NEW O, NEW of, Dealt(b, P, O, of),
         NEW e \in O, e \in Editors, NEW c, HasCursor(b, account[e]), Leaves(b, c, account[e]),
         NEW Q \in SUBSET P, NEW N \in SUBSET (O \ {e})
  PROVE  \E g : Dealt(c, Q, N, g)
<1>1. account[e] \in Nat /\ account[e] # Own
  BY UserIds
<1>2. PICK k : k = bcursor_find(b, account[e])
  OBVIOUS
<1>3. k \in Slots /\ b.curs[k].id = account[e] /\ b.curs[k].id # NULL
  BY <1>1, <1>2, FoundSlot DEF AllSlots
<1>4. PICK i \in Used(b) : of[i] = e
  BY DEF Dealt
<1>5. /\ k \in Used(b) /\ Used(c) = Used(b) \ {k}
      /\ \A j \in Used(c) : c.curs[j].id = b.curs[j].id
  <2>1. \A j \in Slots : c.curs[j] = IF j = k THEN NoCursor ELSE b.curs[j]
    BY <1>2 DEF Leaves, AllSlots
  <2> QED BY <1>3, <2>1 DEF Used, NoCursor
<1> DEFINE g == [j \in Used(c) |-> IF j = i THEN of[k] ELSE of[j]]
<1>6. /\ g \in [Used(c) -> Editors]
      /\ \A j \in Used(c) : j \in Used(b) /\ j # k /\ g[j] = IF j = i THEN of[k] ELSE of[j]
  BY <1>4, <1>5 DEF Dealt
<1> HIDE DEF g
<1>7. \A j, l \in Used(c) : g[j] = g[l] => j = l
  BY <1>4, <1>5, <1>6 DEF Dealt
<1>8. \A j \in Used(c) : c.curs[j].id = account[g[j]] /\ g[j] \notin Q
  <2> TAKE j \in Used(c)
  <2>1. CASE j = i
    <3>1. c.curs[j].id = account[e] /\ account[of[k]] = account[e] /\ of[k] \notin P
      BY <1>3, <1>4, <1>5, <1>6, <2>1 DEF Dealt
    <3> QED BY <1>6, <2>1, <3>1
  <2>2. CASE j # i
    BY <1>5, <1>6, <2>2 DEF Dealt
  <2> QED BY <2>1, <2>2
<1>9. \A f \in N : \E j \in Used(c) : g[j] = f
  <2> TAKE f \in N
  <2>1. PICK j \in Used(b) : of[j] = f
    BY DEF Dealt
  <2>2. f # e /\ j # i
    BY <1>4, <2>1
  <2>3. CASE j = k
    <3>1. i \in Used(c) /\ g[i] = f
      BY <1>4, <1>5, <1>6, <2>1, <2>2, <2>3
    <3> QED BY <3>1
  <2>4. CASE j # k
    <3>1. j \in Used(c) /\ g[j] = f
      BY <1>5, <1>6, <2>1, <2>2, <2>4
    <3> QED BY <3>1
  <2> QED BY <2>3, <2>4
<1>10. Dealt(c, Q, N, g)
  BY <1>6, <1>7, <1>8, <1>9 DEF Dealt
<1> QED BY <1>10

\* Whoever is owed a cursor has one of his user.
LEMMA DealtHas ==
  ASSUME NEW b, NEW P, NEW O, NEW of, Dealt(b, P, O, of), NEW e \in O
  PROVE  HasCursor(b, account[e])
<1>1. PICK k \in Used(b) : of[k] = e
  BY DEF Dealt
<1>2. k \in AllSlots /\ b.curs[k].id = account[e]
  BY <1>1 DEF Dealt, Used, AllSlots
<1> QED BY <1>2, FindSpec DEF HasCursor

-----------------------------------------------------------------------------
(***************************************************************************)
(* The invariant about turns, and how a step moves one editor on.          *)
(***************************************************************************)
Turn(e) == InTurn(up[e], down[e], editor[e], conn[e])
Turns   == \A e \in Editors : Turn(e)
Awaited == { e \in Editors : Awaiting(up[e], down[e], editor[e]) }
Owners  == { e \in Editors : Using(up[e], down[e], editor[e], conn[e]) }

\* The worker polls the connections that it has as polled.
Places == \A e \in Editors : e \in Polled <=> conn[e] = "polled"

Match  == \E of : Dealt(worker, Awaited, Owners, of)

Onward(e) ==
  /\ Turn(e)'
  /\ e \in Awaited' => e \in Awaited
  /\ e \in Owners' => e \in Owners

\* Onward, told from what the step leaves in his streams, state and connection.
LEMMA OnwardIs ==
  ASSUME NEW e \in Editors, NEW u, NEW d, NEW s, NEW c,
         u = up'[e], d = down'[e], s = editor'[e], c = conn'[e],
         InTurn(u, d, s, c),
         Awaiting(u, d, s) => Awaiting(up[e], down[e], editor[e]),
         Using(u, d, s, c) => Using(up[e], down[e], editor[e], conn[e])
  PROVE  Onward(e)
<1>1. Turn(e)'
  BY DEF Turn
<1>2. e \in Awaited' => e \in Awaited
  BY DEF Awaited
<1>3. e \in Owners' => e \in Owners
  BY DEF Owners
<1> QED BY <1>1, <1>2, <1>3 DEF Onward

LEMMA Untouched ==
  ASSUME NEW e \in Editors, Turn(e), up'[e] = up[e], down'[e] = down[e],
         editor'[e] = editor[e], conn'[e] = conn[e]
  PROVE  Onward(e)
  BY OnwardIs DEF Turn

\* The others, when the worker has handled a message of e.
LEMMA OthersOnward ==
  ASSUME Streams(down), Turns, Places, NEW e \in Editors, NEW out, Send(out),
         out[e] = << >> \/ (\E m : out[e] = <<m>>),
         NEW w, w.type \notin Answers,
         \A f \in Editors : f # e => out[f] = << >> \/ (f \in Polled /\ out[f] = <<w>>),
         \A f \in Editors : f # e => up'[f] = up[f] /\ conn'[f] = conn[f],
         editor' = editor
  PROVE  /\ \A f \in Editors : f # e => Onward(f)
         /\ \/ down'[e] = down[e]
            \/ \E m : out[e] = <<m>> /\ Longer(down[e], down'[e], m)
<1>1. \A f \in Editors : out[f] = << >> \/ (\E m : out[f] = <<m>>)
  OBVIOUS
<1>2. \A f \in Editors : \/ down'[f] = down[f]
                         \/ \E m : out[f] = <<m>> /\ Longer(down[f], down'[f], m)
  BY <1>1, SendDown
<1>3. ASSUME NEW f \in Editors, f # e PROVE Onward(f)
  <2>1. CASE down'[f] = down[f]
    BY <1>3, <2>1, Untouched DEF Turns
  <2>2. ASSUME NEW m, out[f] = <<m>>, Longer(down[f], down'[f], m) PROVE Onward(f)
    <3>1. f \in Polled /\ m = w
      <4>1. out[f] # << >>
        BY <2>2
      <4>2. f \in Polled /\ out[f] = <<w>>
        BY <1>3, <4>1
      <4>3. <<m>>[1] = <<w>>[1]
        BY <2>2, <4>2
      <4> QED BY <4>2, <4>3
    <3> PICK u, d, s, c : u = up[f] /\ d = down[f] /\ s = editor[f] /\ c = conn[f]
      OBVIOUS
    <3> PICK t : t = down'[f]
      OBVIOUS
    <3>2. IsStream(d) /\ InTurn(u, d, s, c) /\ Longer(d, t, m) /\ m.type \notin Answers
      BY <2>2, <3>1 DEF Streams, Turns, Turn
    <3>3. c = "polled" /\ s # "idle"
      BY <3>1, <3>2 DEF Places, InTurn
    <3>4. /\ InTurn(u, t, s, c)
          /\ Awaiting(u, t, s) => Awaiting(u, d, s)
          /\ Using(u, t, s, c) => Using(u, d, s, c)
      BY <3>2, <3>3, TurnTold
    <3>5. u = up'[f] /\ s = editor'[f] /\ c = conn'[f]
      BY <1>3
    <3> QED BY <3>4, <3>5, OnwardIs
  <2> QED BY <1>2, <2>1, <2>2
<1> QED BY <1>2, <1>3

\* The end of a connection.
LEMMA TurnClosed ==
  ASSUME NEW u, NEW d, NEW s, NEW c, InTurn(u, d, s, c), c # "none"
  PROVE  /\ InTurn(<< >>, d, s, "closed")
         /\ Awaiting(<< >>, d, s) => Awaiting(u, d, s)
         /\ ~Using(<< >>, d, s, "closed")
<1>1. ~Carries(<< >>, Starting)
  BY CarriesNone
<1> QED BY <1>1 DEF InTurn, Awaiting, Using

LEMMA ClosedOnward ==
  ASSUME Streams(up), Turns, NEW e \in Editors, Close(e), conn = [f \in Editors |-> conn[f]],
         conn[e] = "polled", editor' = editor, down'[e] = down[e]
  PROVE  /\ Onward(e) /\ e \notin Owners'
         /\ \A f \in Editors : f # e => up'[f] = up[f] /\ conn'[f] = conn[f]
<1>1. up'[e] = << >> /\ \A f \in Editors : f # e => up'[f] = up[f]
  BY CloseUp
<1>2. conn'[e] = "closed" /\ \A f \in Editors : f # e => conn'[f] = conn[f]
  BY DEF Close
<1> PICK u, d, s, c : u = up[e] /\ d = down[e] /\ s = editor[e] /\ c = conn[e]
  OBVIOUS
<1>3. InTurn(u, d, s, c) /\ c # "none"
  BY DEF Turns, Turn
<1>4. /\ InTurn(<< >>, d, s, "closed")
      /\ Awaiting(<< >>, d, s) => Awaiting(u, d, s)
      /\ ~Using(<< >>, d, s, "closed")
  BY <1>3, TurnClosed
<1>5. d = down'[e] /\ s = editor'[e]
  OBVIOUS
<1>6. Onward(e)
  BY <1>1, <1>2, <1>4, <1>5, OnwardIs
<1>7. e \notin Owners'
  BY <1>1, <1>2, <1>4, <1>5 DEF Owners
<1> QED BY <1>1, <1>2, <1>6, <1>7

LEMMA ClosePlaces ==
  ASSUME Places, conn = [f \in Editors |-> conn[f]], NEW e \in Editors, Close(e)
  PROVE  Places'
<1>1. \A f \in Editors : conn'[f] = IF f = e THEN "closed" ELSE conn[f]
  BY DEF Close
<1>2. \A i \in 1..MAX_CLIENTS : slots'[i] = IF slots[i] = e THEN Free ELSE slots[i]
  BY DEF Close
<1>3. \A f \in Editors : f \in Polled' <=> (f # e /\ f \in Polled)
  BY <1>2, CollabAssumption DEF Polled
<1> QED BY <1>1, <1>3 DEF Places

LEMMA SamePlaces ==
  ASSUME Places, slots' = slots, conn' = conn PROVE Places'
  BY DEF Places, Polled

\* Everybody has moved on, and the worker has the cursors it had.
LEMMA MatchKept ==
  ASSUME Match, \A e \in Editors : Onward(e), (worker' = worker /\ Sound(worker)) \/ SameIds(worker, worker')
  PROVE  Match'
<1>1. PICK of : Dealt(worker, Awaited, Owners, of)
  BY DEF Match
<1>2. Awaited' \subseteq Awaited /\ Owners' \subseteq Owners
  BY DEF Onward, Awaited, Owners
<1>3. SameIds(worker, worker')
  BY DEF SameIds, Sound, GoodCursors, IdsOfSlots
<1> PICK b, P, O : b = worker /\ P = Awaited /\ O = Owners
  OBVIOUS
<1> PICK c, Q, N : c = worker' /\ Q = Awaited' /\ N = Owners'
  OBVIOUS
<1>4. Dealt(c, Q, N, of)
  BY <1>1, <1>2, <1>3, DealtSame
<1> QED BY <1>4 DEF Match

-----------------------------------------------------------------------------
(***************************************************************************)
(* Steps keep the turns, the places and the deal.                          *)
(***************************************************************************)
InStep == Turns /\ Places /\ Match

\* A step keeps this, and nobody awaits a cursor again.
Progress == InStep' /\ Awaited' \subseteq Awaited

LEMMA AllOnward ==
  ASSUME \A e \in Editors : Onward(e) PROVE Turns' /\ Awaited' \subseteq Awaited
  BY DEF Onward, Turns, Awaited

LEMMA AcceptInStep ==
  ASSUME Inv, InStep, NEW e \in Editors, Accept(e) PROVE Progress
<1>1. /\ conn[e] = "backlog" /\ conn = [f \in Editors |-> conn[f]]
      /\ UNCHANGED <<worker, editor, up, down>>
  BY DEF Accept, Inv, Plain, net
<1>2. ASSUME NEW f \in Editors, f # e PROVE conn'[f] = conn[f]
  BY <1>1, <1>2 DEF Accept
<1>3. conn'[e] \in {"ignored", "polled"}
  BY <1>1 DEF Accept
<1>4. Onward(e)
  <2> PICK u, d, s, c : u = up[e] /\ d = down[e] /\ s = editor[e] /\ c = conn[e]
    OBVIOUS
  <2> PICK k : k = conn'[e]
    OBVIOUS
  <2>1. InTurn(u, d, s, c) /\ c # "none" /\ c # "closed"
    BY <1>1 DEF InStep, Turns, Turn
  <2>2. InTurn(u, d, s, k) /\ (Using(u, d, s, k) => Using(u, d, s, c))
    BY <2>1 DEF InTurn, Using
  <2>3. u = up'[e] /\ d = down'[e] /\ s = editor'[e]
    BY <1>1
  <2> QED BY <2>2, <2>3, OnwardIs
<1>5. \A f \in Editors : Onward(f)
  BY <1>1, <1>2, <1>4, Untouched DEF InStep, Turns
<1>6. Places'
  <2>1. CASE FreeSlot = {}
    <3>1. slots' = slots /\ conn'[e] = "ignored"
      BY <1>1, <2>1 DEF Accept
    <3>2. Polled' = Polled
      BY <3>1 DEF Polled
    <3> QED BY <1>1, <1>2, <3>1, <3>2 DEF InStep, Places
  <2>2. CASE FreeSlot # {}
    <3> PICK k : k = CHOOSE i \in FreeSlot : \A j \in FreeSlot : i <= j
      OBVIOUS
    <3>1. slots' = [slots EXCEPT ![k] = e] /\ conn'[e] = "polled"
      BY <1>1, <2>2 DEF Accept
    <3>2. k \in FreeSlot
      <4>1. FreeSlot \subseteq Nat
        BY DEF FreeSlot
      <4>2. \E i \in FreeSlot : \A j \in FreeSlot : i <= j
        BY <2>2, <4>1, Least
      <4> QED BY <4>2
    <3>3. k \in 1..MAX_CLIENTS /\ slots[k] = Free
      BY <3>2 DEF FreeSlot
    <3>4. \A i \in 1..MAX_CLIENTS : slots'[i] = IF i = k THEN e ELSE slots[i]
      BY <3>1 DEF Inv, Plain
    <3>5. \A f \in Editors : f \in Polled' <=> (f = e \/ f \in Polled)
      BY <3>3, <3>4, CollabAssumption DEF Polled
    <3> QED BY <1>2, <3>1, <3>5 DEF InStep, Places
  <2> QED BY <2>1, <2>2
<1>7. Match'
  BY <1>1, <1>5, MatchKept DEF Inv, Served, InStep
<1> QED BY <1>5, <1>6, <1>7, AllOnward DEF Progress, InStep

\* A connection is closed and no cursor is freed.
LEMMA CloseInStep ==
  ASSUME Inv, InStep, NEW e \in Editors, conn[e] = "polled", Close(e),
         UNCHANGED <<worker, editor, down>>
  PROVE  Progress
<1>1. Streams(up) /\ conn = [f \in Editors |-> conn[f]]
  BY DEF Inv, Plain, UpGood
<1>2. Onward(e) /\ \A f \in Editors : f # e => up'[f] = up[f] /\ conn'[f] = conn[f]
  BY <1>1, ClosedOnward DEF InStep
<1>3. \A f \in Editors : Onward(f)
  BY <1>2, Untouched DEF InStep, Turns
<1>4. Places'
  BY <1>1, ClosePlaces DEF InStep
<1>5. Match'
  BY <1>3, MatchKept DEF Inv, Served, InStep
<1> QED BY <1>3, <1>4, <1>5, AllOnward DEF Progress, InStep

\* The worker takes a message of e and answers it, or cannot.
LEMMA AnsweredOnward ==
  ASSUME Inv, InStep, NEW e \in Editors, up[e] # << >>, Taken(e), Head(up[e]).type \in Starting,
         NEW m, m.type \in Answers,
         down'[e] = down[e] \/ Longer(down[e], down'[e], m),
         editor' = editor, conn' = conn
  PROVE  /\ e \in Awaited /\ Turn(e)'
         /\ e \in Awaited' => m.type = "MSG_OK"
         /\ e \in Owners' => e \in Owners \/ m.type = "FILE_RESPONSE"
<1> PICK u, d, s, c : u = up[e] /\ d = down[e] /\ s = editor[e] /\ c = conn[e]
  OBVIOUS
<1> PICK v, t : v = up'[e] /\ t = down'[e]
  OBVIOUS
<1>1. IsStream(u) /\ IsStream(d) /\ InTurn(u, d, s, c) /\ Shorter(u, v)
  BY TakeUp DEF Inv, UpGood, DownGood, Streams, InStep, Turns, Turn
<1>2. Carries(u, Starting)
  BY <1>1, CarriesHead
<1>3. /\ InTurn(v, d, s, c) /\ v = << >> /\ ~Carries(d, Answers) /\ s \notin {"open", "idle"}
      /\ Using(v, d, s, c) => Using(u, d, s, c)
  BY <1>1, <1>2, TurnTaken
<1>4. Awaiting(u, d, s)
  BY <1>2 DEF Awaiting
<1>5. CASE t = d
  <2>1. ~Awaiting(v, t, s)
    BY <1>3, <1>5, CarriesNone DEF Awaiting, Carries, Answers
  <2>2. s = editor'[e] /\ c = conn'[e]
    OBVIOUS
  <2> QED BY <1>3, <1>4, <1>5, <2>1, <2>2 DEF Awaited, Owners, Turn
<1>6. CASE Longer(d, t, m)
  <2>1. /\ InTurn(v, t, s, c)
        /\ Awaiting(v, t, s) => m.type = "MSG_OK"
        /\ Using(v, t, s, c) => m.type = "FILE_RESPONSE"
    BY <1>1, <1>3, <1>6, TurnAnswered
  <2>2. s = editor'[e] /\ c = conn'[e]
    OBVIOUS
  <2> QED BY <1>4, <2>1, <2>2 DEF Awaited, Owners, Turn
<1> QED BY <1>5, <1>6

LEMMA LoginInStep ==
  ASSUME Inv, InStep, NEW e \in Editors, Login(e) PROVE Progress
<1> PICK m : m = Msg("MSG_OK", account[e], NoBuffer)
  OBVIOUS
<1> PICK out : out = Reply(e, m)
  OBVIOUS
<1>1. /\ up[e] # << >> /\ Taken(e) /\ Head(up[e]).type = "LOGIN" /\ Send(out)
      /\ UNCHANGED <<worker, slots, conn, editor>>
  BY DEF Login, Brings
<1>2. \A f \in Editors : out[f] = IF f = e THEN <<m>> ELSE << >>
  BY Outgoing
<1>3. Streams(up) /\ Streams(down)
  BY DEF Inv, UpGood, DownGood
<1>4. \A f \in Editors : f # e => up'[f] = up[f]
  BY <1>1, <1>3, TakeUp
<1>5. Garbage.type \notin Answers
  BY GarbageIs DEF Answers
<1>6. /\ \A f \in Editors : f # e => Onward(f)
      /\ \/ down'[e] = down[e]
         \/ \E x : out[e] = <<x>> /\ Longer(down[e], down'[e], x)
  BY <1>1, <1>2, <1>3, <1>4, <1>5, OthersOnward DEF InStep
<1>7. down'[e] = down[e] \/ Longer(down[e], down'[e], m)
  <2>1. ASSUME NEW x, out[e] = <<x>> PROVE x = m
    <3>1. <<x>>[1] = <<m>>[1]
      BY <1>2, <2>1
    <3> QED BY <3>1
  <2> QED BY <1>6, <2>1
<1>8. m.type = "MSG_OK"
  BY MsgIs
<1>9. Onward(e)
  <2>1. Head(up[e]).type \in Starting /\ m.type \in Answers
    BY <1>1, <1>8 DEF Starting, Answers
  <2>2. e \in Awaited /\ Turn(e)' /\ (e \in Owners' => e \in Owners \/ m.type = "FILE_RESPONSE")
    BY <1>1, <1>7, <2>1, AnsweredOnward
  <2> QED BY <1>8, <2>2 DEF Onward
<1>10. \A f \in Editors : Onward(f)
  BY <1>6, <1>9
<1>11. Match'
  BY <1>1, <1>10, MatchKept DEF Inv, Served, InStep
<1>12. Places'
  BY <1>1, SamePlaces DEF InStep
<1> QED BY <1>10, <1>11, <1>12, AllOnward DEF Progress, InStep

\* The worker makes the cursor of e and sends him the file.
LEMMA FileRequestInStep ==
  ASSUME FewEditors, Inv, InStep, NEW e \in Editors, FileRequest(e)
  PROVE  Progress /\ e \notin Awaited'
<1> PICK u : u = account[e]
  OBVIOUS
<1> PICK m, w : /\ m = Msg("FILE_RESPONSE", u, buffer_serialize(worker))
                /\ w = Msg("ADD_CURSOR", u, NoBuffer)
  OBVIOUS
<1> PICK out : out = Both(Reply(e, m), send_msg_everyone(e, w))
  OBVIOUS
<1>1. /\ up[e] # << >> /\ Taken(e) /\ Head(up[e]).type = "FILE_REQUEST" /\ Send(out)
      /\ worker' = bcursor_copy_own(worker, u)
      /\ UNCHANGED <<slots, conn, editor>>
  <2>1. Brings(e, {"FILE_REQUEST"})
    BY DEF FileRequest
  <2>2. Head(up[e]).user_id = u /\ up[e] # << >> /\ Head(up[e]).type = "FILE_REQUEST"
    BY <2>1, Brings1
  <2> QED BY <2>2 DEF FileRequest
<1>2. \A f \in Editors : out[f] = IF f = e THEN <<m>> ELSE IF f \in Polled THEN <<w>> ELSE << >>
  BY Outgoing
<1>3. Streams(up) /\ Streams(down) /\ Served(worker)
  BY DEF Inv, UpGood, DownGood
<1>4. \A f \in Editors : f # e => up'[f] = up[f]
  BY <1>1, <1>3, TakeUp
<1>5. w.type \notin Answers /\ m.type = "FILE_RESPONSE"
  BY MsgIs DEF Answers
<1>6. /\ \A f \in Editors : f # e => Onward(f)
      /\ \/ down'[e] = down[e]
         \/ \E x : out[e] = <<x>> /\ Longer(down[e], down'[e], x)
  BY <1>1, <1>2, <1>3, <1>4, <1>5, OthersOnward DEF InStep
<1>7. down'[e] = down[e] \/ Longer(down[e], down'[e], m)
  <2>1. ASSUME NEW x, out[e] = <<x>> PROVE x = m
    <3>1. <<x>>[1] = <<m>>[1]
      BY <1>2, <2>1
    <3> QED BY <3>1
  <2> QED BY <1>6, <2>1
<1>8. e \in Awaited /\ Turn(e)' /\ e \notin Awaited'
  <2>1. Head(up[e]).type \in Starting /\ m.type \in Answers
    BY <1>1, <1>5 DEF Starting, Answers
  <2>2. e \in Awaited /\ Turn(e)' /\ (e \in Awaited' => m.type = "MSG_OK")
    BY <1>1, <1>7, <2>1, AnsweredOnward
  <2> QED BY <1>5, <2>2
<1>9. Turns'
  BY <1>6, <1>8 DEF Onward, Turns
<1>10. Match'
  <2>1. PICK of : Dealt(worker, Awaited, Owners, of)
    BY DEF InStep, Match
  <2>2. Awaited' \subseteq Awaited \ {e} /\ Owners' \subseteq Owners \cup {e}
    BY <1>6, <1>8 DEF Onward, Awaited, Owners
  <2>3. Joins(worker, worker', u)
    BY <1>1, <1>3, UserIds, CopyOwnServed
  <2> PICK b, P, O : b = worker /\ P = Awaited /\ O = Owners
    OBVIOUS
  <2> PICK c, Q, N : c = worker' /\ Q = Awaited' /\ N = Owners'
    OBVIOUS
  <2>4. \E g : Dealt(c, Q, N, g)
    BY <1>3, <1>8, <2>1, <2>2, <2>3, DealtMore DEF Served
  <2> QED BY <2>4 DEF Match
<1>11. Places'
  BY <1>1, SamePlaces DEF InStep
<1>12. Awaited' \subseteq Awaited
  BY <1>6, <1>8 DEF Onward, Awaited
<1> QED BY <1>8, <1>9, <1>10, <1>11, <1>12 DEF Progress, InStep

\* The worker takes a message of e that needs his cursor.
LEMMA UserOwns ==
  ASSUME Inv, InStep, NEW e \in Editors, up[e] # << >>, Head(up[e]).type \in Uses, conn[e] = "polled"
  PROVE  e \in Owners /\ HasCursor(worker, account[e])
<1>1. Carries(up[e], Uses)
  BY CarriesHead DEF Inv, UpGood, Streams
<1>2. e \in Owners
  BY <1>1 DEF Owners, Using
<1>3. PICK of : Dealt(worker, Awaited, Owners, of)
  BY DEF InStep, Match
<1> QED BY <1>2, <1>3, DealtHas

LEMMA QuitInStep ==
  ASSUME Inv, InStep, NEW e \in Editors, Quit(e) PROVE Progress
<1> PICK u : u = account[e]
  OBVIOUS
<1> PICK w : w = Msg("DELETE_CURSOR", u, NoBuffer)
  OBVIOUS
<1> PICK out : out = send_msg_everyone(e, w)
  OBVIOUS
<1>1. /\ up[e] # << >> /\ Close(e) /\ Head(up[e]).type = "QUIT" /\ Send(out) /\ conn[e] = "polled"
      /\ HasCursor(worker, u) /\ worker' = bcursor_free(worker, u)
      /\ UNCHANGED <<editor>>
  <2>1. Brings(e, {"QUIT"})
    BY DEF Quit
  <2>2. Head(up[e]).user_id = u /\ up[e] # << >> /\ Head(up[e]).type = "QUIT" /\ conn[e] = "polled"
    BY <2>1, Brings1
  <2> QED BY <2>2 DEF Quit
<1>2. \A f \in Editors : out[f] = IF f \in Polled \ {e} THEN <<w>> ELSE << >>
  BY Outgoing
<1>3. /\ Streams(up) /\ Streams(down) /\ Served(worker) /\ conn = [f \in Editors |-> conn[f]]
  BY DEF Inv, UpGood, DownGood, Plain
<1>4. \A f \in Editors : f # e => up'[f] = up[f] /\ conn'[f] = conn[f]
  BY <1>1, <1>3, CloseUp DEF Close
<1>5. w.type \notin Answers
  BY MsgIs DEF Answers
<1>6. /\ \A f \in Editors : f # e => Onward(f)
      /\ \/ down'[e] = down[e]
         \/ \E x : out[e] = <<x>> /\ Longer(down[e], down'[e], x)
  BY <1>1, <1>2, <1>3, <1>4, <1>5, OthersOnward DEF InStep
<1>7. down'[e] = down[e]
  <2>1. out[e] = << >>
    BY <1>2
  <2>2. \A x : out[e] # <<x>>
    BY <2>1, NoMessage
  <2> QED BY <1>6, <2>2
<1>8. Onward(e) /\ e \notin Owners'
  BY <1>1, <1>3, <1>7, ClosedOnward DEF InStep
<1>9. Places'
  BY <1>1, <1>3, ClosePlaces DEF InStep
<1>10. Match'
  <2>1. PICK of : Dealt(worker, Awaited, Owners, of)
    BY DEF InStep, Match
  <2>2. Awaited' \subseteq Awaited /\ Owners' \subseteq Owners \ {e}
    BY <1>6, <1>8 DEF Onward, Awaited, Owners
  <2>3. Leaves(worker, worker', u)
    BY <1>1, <1>3, UserIds, FreeServed
  <2>4. e \in Owners
    BY <1>1, UserOwns DEF Uses
  <2> PICK b, P, O : b = worker /\ P = Awaited /\ O = Owners
    OBVIOUS
  <2> PICK c, Q, N : c = worker' /\ Q = Awaited' /\ N = Owners'
    OBVIOUS
  <2>5. /\ Sound(b) /\ Dealt(b, P, O, of) /\ HasCursor(b, account[e]) /\ Leaves(b, c, account[e])
        /\ e \in O /\ Q \in SUBSET P /\ N \in SUBSET (O \ {e})
    BY <1>1, <1>3, <2>1, <2>2, <2>3, <2>4 DEF Served
  <2>6. \E g : Dealt(c, Q, N, g)
    BY <2>5, DealtLess
  <2> QED BY <2>6 DEF Match
<1> QED BY <1>6, <1>8, <1>9, <1>10, AllOnward DEF Progress, InStep

LEMMA EditInStep ==
  ASSUME Inv, InStep, NEW e \in Editors, Edit(e) PROVE Progress
<1> PICK m : m = Head(up[e])
  OBVIOUS
<1> PICK out : out = send_msg_everyone(e, m)
  OBVIOUS
<1>1. /\ up[e] # << >> /\ Taken(e) /\ m.type \in Operations /\ m.user_id = account[e]
      /\ Fitting(m.type, m.payload) /\ Fault(worker, m.user_id, m.type) = "none"
      /\ worker' = Operate(worker, m.user_id, m.type, m.payload) /\ Send(out)
      /\ UNCHANGED <<slots, conn, editor>>
  <2>1. Brings(e, Operations)
    BY DEF Edit
  <2>2. up[e] # << >> /\ m.type \in Operations /\ m.user_id = account[e]
        /\ Fitting(m.type, m.payload)
    BY <2>1, Brings1 DEF Operations
  <2> QED BY <2>2 DEF Edit
<1>2. \A f \in Editors : out[f] = IF f \in Polled \ {e} THEN <<m>> ELSE << >>
  BY Outgoing
<1>3. Streams(up) /\ Streams(down) /\ Served(worker)
  BY DEF Inv, UpGood, DownGood
<1>4. (\A f \in Editors : f # e => up'[f] = up[f]) /\ Shorter(up[e], up'[e])
  BY <1>1, <1>3, TakeUp
<1>5. m.type \notin Answers
  BY <1>1 DEF Answers, Operations
<1>6. /\ \A f \in Editors : f # e => Onward(f)
      /\ \/ down'[e] = down[e]
         \/ \E x : out[e] = <<x>> /\ Longer(down[e], down'[e], x)
  BY <1>1, <1>2, <1>3, <1>4, <1>5, OthersOnward DEF InStep
<1>7. down'[e] = down[e]
  <2>1. out[e] = << >>
    BY <1>2
  <2>2. \A x : out[e] # <<x>>
    BY <2>1, NoMessage
  <2> QED BY <1>6, <2>2
<1>8. Onward(e)
  <2> PICK u, d, s, c : u = up[e] /\ d = down[e] /\ s = editor[e] /\ c = conn[e]
    OBVIOUS
  <2> PICK v : v = up'[e]
    OBVIOUS
  <2>1. IsStream(u) /\ InTurn(u, d, s, c) /\ Shorter(u, v)
    BY <1>3, <1>4 DEF Streams, InStep, Turns, Turn
  <2>2. /\ InTurn(v, d, s, c)
        /\ Awaiting(v, d, s) => Awaiting(u, d, s)
        /\ Using(v, d, s, c) => Using(u, d, s, c)
    BY <2>1, TurnTaken
  <2>3. d = down'[e] /\ s = editor'[e] /\ c = conn'[e]
    BY <1>1, <1>7
  <2> QED BY <2>2, <2>3, OnwardIs
<1>9. SameIds(worker, worker')
  <2>1. m.type # "INSERT" => HasCursor(worker, m.user_id)
    BY <1>1, FaultIs DEF Operations
  <2>2. m.user_id \in Nat /\ m.user_id # Own
    BY <1>1, UserIds
  <2> QED BY <1>1, <1>3, <2>1, <2>2, OperateServed
<1>10. \A f \in Editors : Onward(f)
  BY <1>6, <1>8
<1>11. Match'
  BY <1>9, <1>10, MatchKept DEF InStep
<1>12. Places'
  BY <1>1, SamePlaces DEF InStep
<1> QED BY <1>10, <1>11, <1>12, AllOnward DEF Progress, InStep

\* No message that the worker takes makes it fault.
LEMMA FaultsOnTwo ==
  ASSUME Inv, InStep, height >= 3, NEW e \in Editors, WorkerFaults(e)
  PROVE  running' = "twoCursors"
<1> PICK m : m = Head(up[e])
  OBVIOUS
<1>1. /\ up[e] # << >> /\ m.type \in Uses /\ m.user_id = account[e] /\ conn[e] = "polled"
      /\ running' = Fault(worker, m.user_id, m.type) /\ running' # "none"
  <2>1. Brings(e, Operations \cup {"QUIT"})
    BY DEF WorkerFaults
  <2>2. up[e] # << >> /\ m.type \in Operations \cup {"QUIT"} /\ m.user_id = account[e]
        /\ conn[e] = "polled"
    BY <2>1, Brings1 DEF Operations
  <2> QED BY <2>2 DEF WorkerFaults, Uses
<1>2. HasCursor(worker, account[e])
  BY <1>1, UserOwns
<1>3. running' \in {"none", "noCursor", "twoCursors", "noBottom"} /\ running' # "noCursor"
  BY <1>1, <1>2, FaultIs
<1>4. running' # "noBottom"
  <2>1. SUFFICES ASSUME ~Alive(bcursor_del(worker, account[e])) PROVE FALSE
    BY <1>1, FaultIs
  <2>2. Sound(worker) /\ Viewed(worker) /\ Rows(worker) = height /\ OwnLine(worker) = 1
    BY DEF Inv, Served, OwnAtStart, OwnLine
  <2>3. Views(worker, bcursor_del(worker, account[e]))
    BY <1>2, <2>2, UserIds, ServedDelete
  <2> QED BY <2>1, <2>3 DEF Views, Viewed, Window, Alive, NumLines
<1> QED BY <1>1, <1>3, <1>4

LEMMA WorkerInStep ==
  ASSUME FewEditors, Inv, InStep, NEW e \in Editors, WorkerStep(e)
  PROVE  Progress /\ (height >= 3 => running' \in {running, "sigpipe", "twoCursors"})
<1>1. CASE Accept(e)
  BY <1>1, AcceptInStep DEF Accept
<1>2. CASE HangUp(e) \/ NotLoggedIn(e)
  BY <1>2, CloseInStep DEF HangUp, NotLoggedIn
<1>3. CASE Login(e)
  BY <1>3, LoginInStep DEF Login, Send
<1>4. CASE FileRequest(e)
  BY <1>4, FileRequestInStep DEF FileRequest, Send
<1>5. CASE Quit(e)
  BY <1>5, QuitInStep DEF Quit, Send
<1>6. CASE Edit(e)
  BY <1>6, EditInStep DEF Edit, Send
<1>7. CASE WorkerFaults(e)
  <2>1. UNCHANGED <<worker, slots, conn, editor, up, down>>
    BY <1>7 DEF WorkerFaults, net
  <2>2. \A f \in Editors : Onward(f)
    BY <2>1, Untouched DEF InStep, Turns
  <2>3. Match' /\ Places'
    BY <2>1, <2>2, MatchKept, SamePlaces DEF Inv, Served, InStep
  <2> QED BY <1>7, <2>2, <2>3, FaultsOnTwo, AllOnward DEF Progress, InStep
<1> QED BY <1>1, <1>2, <1>3, <1>4, <1>5, <1>6, <1>7 DEF WorkerStep

\* A step of one editor and its user.
LEMMA OneOnward ==
  ASSUME Inv, InStep, NEW e \in Editors, Onward(e), worker' = worker, Places',
         \A f \in Editors : f # e => /\ up'[f] = up[f] /\ down'[f] = down[f]
                                     /\ editor'[f] = editor[f] /\ conn'[f] = conn[f]
  PROVE  Progress
<1>1. \A f \in Editors : Onward(f)
  BY Untouched DEF InStep, Turns
<1>2. Match'
  BY <1>1, MatchKept DEF Inv, Served, InStep
<1> QED BY <1>1, <1>2, AllOnward DEF Progress, InStep

LEMMA GetsInStep ==
  ASSUME Inv, InStep, NEW e \in Editors, EditorGets(e)
  PROVE  Progress /\ running' = running
<1> PICK u, d, s, c : u = up[e] /\ d = down[e] /\ s = editor[e] /\ c = conn[e]
  OBVIOUS
<1> PICK v, t : v = up'[e] /\ t = down'[e]
  OBVIOUS
<1> PICK m : m = Head(d)
  OBVIOUS
<1>1. PICK types : Gets(e, types)
  BY DEF EditorGets, GetOk, GetFile, GetEdit, GetGarbage, GetTooEarly, EditorFaults
<1>2. /\ IsStream(u) /\ IsStream(d) /\ d # << >> /\ s \in {"waiting", "open"}
      /\ InTurn(u, d, s, c) /\ Shorter(d, t)
      /\ \A f \in Editors : f # e => down'[f] = down[f]
  BY <1>1, GetDown DEF Inv, UpGood, DownGood, Streams, InStep, Turns, Turn, Gets, Live
<1>3. UNCHANGED <<worker, running, slots, conn>>
  BY <1>1 DEF Gets
<1>4. Places'
  BY <1>3, SamePlaces DEF InStep
<1>5. /\ InTurn(u, t, s, c)
      /\ Awaiting(u, t, s) => Awaiting(u, d, s)
      /\ Using(u, t, s, c) => Using(u, d, s, c)
      /\ Head(d).type \in Answers => ~Carries(t, Answers) /\ u = << >> /\ s # "open"
  BY <1>2, TurnGot
<1>6. CASE GetOk(e)
  <2>1. m.type = "MSG_OK" /\ Post(e, Msg("FILE_REQUEST", account[e], NoBuffer)) /\ editor' = editor
    BY <1>6 DEF GetOk, Gets
  <2>2. ~Carries(t, Answers) /\ u = << >> /\ s = "waiting"
    BY <1>2, <1>5, <2>1 DEF Answers
  <2>3. Awaiting(u, d, s)
    <3>1. Carries(d, {"MSG_OK"})
      BY <1>2, <2>1, CarriesHead
    <3> QED BY <3>1 DEF Awaiting
  <2> PICK q : q = Msg("FILE_REQUEST", account[e], NoBuffer)
    OBVIOUS
  <2>4. /\ \A f \in Editors : f # e => up'[f] = up[f]
        /\ v = u \/ Longer(u, v, q)
    BY <2>1, PostUp DEF Inv, UpGood
  <2>5. InTurn(v, t, s, c) /\ ~Carries(v, Uses)
    <3>1. CASE v = u
      BY <1>5, <2>2, <3>1, CarriesNone
    <3>2. CASE Longer(u, v, q)
      <4>1. Len(v) = 1 /\ Len(u) = 0
        <5>1. Len(v) = Len(u) + 1 /\ Len(u) = 0
          BY <2>2, <3>2, EmptyStream DEF Longer
        <5> QED BY <5>1
      <4>2. ~Carries(v, Uses)
        <5>1. q.type \notin Uses /\ ~Carries(u, Uses)
          BY <2>2, MsgIs, CarriesNone DEF Uses, Operations
        <5> QED BY <1>2, <3>2, <5>1, CarriesMore
      <4> QED BY <1>5, <2>2, <4>1, <4>2 DEF InTurn
    <3> QED BY <2>4, <3>1, <3>2
  <2>6. ~Using(v, t, s, c)
    <3>1. ~Carries(t, {"FILE_RESPONSE"})
      BY <2>2 DEF Carries, Answers
    <3> QED BY <2>2, <2>5, <3>1 DEF Using
  <2>7. s = editor'[e] /\ c = conn'[e]
    BY <1>3, <2>1
  <2>8. Onward(e)
    BY <2>3, <2>5, <2>6, <2>7, OnwardIs
  <2> QED BY <1>2, <1>3, <1>4, <2>1, <2>4, <2>8, OneOnward
<1>7. CASE GetFile(e)
  <2>1. m.type = "FILE_RESPONSE" /\ Becomes(e, "open") /\ up' = up
    BY <1>7 DEF GetFile, Gets
  <2>2. ~Carries(t, Answers) /\ u = << >> /\ s = "waiting"
    BY <1>2, <1>5, <2>1 DEF Answers
  <2>3. editor'[e] = "open" /\ \A f \in Editors : f # e => editor'[f] = editor[f]
    BY <2>1 DEF Becomes, Inv, Plain
  <2>4. InTurn(u, t, "open", c)
    BY <1>5, <2>2, CarriesNone DEF InTurn
  <2>5. ~Awaiting(u, t, "open")
    BY <2>2, CarriesNone DEF Awaiting, Carries, Answers
  <2>6. Using(u, t, "open", c) => Using(u, d, s, c)
    <3>1. Carries(d, {"FILE_RESPONSE"})
      BY <1>2, <2>1, CarriesHead
    <3> QED BY <2>2, <3>1 DEF Using
  <2>7. u = up'[e] /\ c = conn'[e]
    BY <1>3, <2>1
  <2>8. Onward(e)
    BY <2>3, <2>4, <2>5, <2>6, <2>7, OnwardIs
  <2> QED BY <1>2, <1>3, <1>4, <2>1, <2>3, <2>8, OneOnward
<1>8. ASSUME NEW z, Becomes(e, z), z # "idle", z # "open", up' = up PROVE Progress /\ running' = running
  <2>1. editor'[e] = z /\ \A f \in Editors : f # e => editor'[f] = editor[f]
    BY <1>8 DEF Becomes, Inv, Plain
  <2>2. InTurn(u, t, z, c)
    BY <1>5, <1>8 DEF InTurn
  <2>3. Awaiting(u, t, z) => Awaiting(u, t, s)
    BY <1>8 DEF Awaiting
  <2>4. z # "waiting" => (Using(u, t, z, c) => Using(u, t, s, c))
    BY <1>8 DEF Using
  <2>5. z = "waiting" => (Using(u, t, z, c) => Using(u, t, s, c))
    BY <1>2 DEF Using
  <2>6. u = up'[e] /\ c = conn'[e]
    BY <1>3, <1>8
  <2>7. Onward(e)
    BY <1>5, <2>1, <2>2, <2>3, <2>4, <2>5, <2>6, OnwardIs
  <2> QED BY <1>2, <1>3, <1>4, <1>8, <2>1, <2>7, OneOnward
<1>9. ASSUME editor' = editor, up' = up PROVE Progress /\ running' = running
  <2>1. s = editor'[e] /\ u = up'[e] /\ c = conn'[e]
    BY <1>3, <1>9
  <2>2. Onward(e)
    BY <1>5, <2>1, OnwardIs
  <2> QED BY <1>2, <1>3, <1>4, <1>9, <2>2, OneOnward
<1>10. CASE GetEdit(e) \/ GetGarbage(e)
  BY <1>9, <1>10 DEF GetEdit, GetGarbage
<1>11. CASE GetTooEarly(e)
  BY <1>8, <1>9, <1>11 DEF GetTooEarly
<1>12. CASE EditorFaults(e)
  <2> PICK fault : fault = Fault(copy[e], m.user_id, m.type)
    OBVIOUS
  <2>1. Becomes(e, fault) /\ fault # "none" /\ up' = up
    BY <1>12 DEF EditorFaults
  <2>2. fault # "idle" /\ fault # "open"
    BY FaultIs
  <2> QED BY <1>8, <2>1, <2>2
<1> QED BY <1>6, <1>7, <1>10, <1>11, <1>12 DEF EditorGets

LEMMA UserInStep ==
  ASSUME Inv, InStep, NEW e \in Editors, UserStep(e)
  PROVE  Progress /\ running' = running
<1> PICK u, d, s, c : u = up[e] /\ d = down[e] /\ s = editor[e] /\ c = conn[e]
  OBVIOUS
<1> PICK v, z : v = up'[e] /\ z = editor'[e]
  OBVIOUS
<1>1. /\ UNCHANGED <<worker, running, slots, down>>
      /\ \A f \in Editors : f # e => conn'[f] = conn[f]
  BY DEF UserStep, Start, PressTooEarly, Escape, Disconnected, Press, Inv, Plain, net
<1>2. IsStream(u) /\ IsStream(d) /\ InTurn(u, d, s, c)
  BY DEF Inv, UpGood, DownGood, Streams, InStep, Turns, Turn
<1>3. ASSUME NEW x, Becomes(e, x) PROVE z = x /\ \A f \in Editors : f # e => editor'[f] = editor[f]
  BY <1>3 DEF Becomes, Inv, Plain
<1>4. CASE Start(e)
  <2>1. s = "idle" /\ Becomes(e, "waiting") /\ conn' = [conn EXCEPT ![e] = "backlog"]
    BY <1>4 DEF Start
  <2> PICK q : q = Msg("LOGIN", -1, account[e])
    OBVIOUS
  <2>2. /\ \A f \in Editors : f # e => up'[f] = up[f]
        /\ conn[e] = "closed" \/ Longer(u, v, q)
    BY <1>4, PostUp DEF Inv, UpGood, Start
  <2>3. u = << >> /\ d = << >> /\ c = "none"
    BY <1>2, <2>1 DEF InTurn
  <2>4. Longer(u, v, q) /\ Len(v) = 1
    <3>1. Longer(u, v, q)
      BY <2>2, <2>3
    <3>2. Len(v) = Len(u) + 1 /\ Len(u) = 0
      BY <2>3, <3>1, EmptyStream DEF Longer
    <3> QED BY <3>1, <3>2
  <2>5. ~Carries(v, Uses)
    <3>1. q.type \notin Uses /\ ~Carries(u, Uses)
      BY <2>3, MsgIs, CarriesNone DEF Uses, Operations
    <3> QED BY <1>2, <2>4, <3>1, CarriesMore
  <2>6. InTurn(v, d, "waiting", "backlog")
    <3>1. Len(d) = 0 /\ ~Carries(d, Answers)
      BY <2>3, EmptyStream, CarriesNone
    <3>2. \A i, j \in 1 .. Len(d) : d[i].type \in Answers /\ d[j].type \in Answers => i = j
      BY <3>1
    <3> QED BY <2>4, <3>1, <3>2 DEF InTurn
  <2>7. Awaiting(u, d, s) /\ ~Using(v, d, "waiting", "backlog")
    BY <2>1, <2>3, <2>5, CarriesNone DEF Awaiting, Using
  <2>8. conn'[e] = "backlog" /\ z = "waiting"
    BY <1>3, <2>1 DEF Inv, Plain
  <2>9. Onward(e)
    BY <1>1, <2>6, <2>7, <2>8, OnwardIs
  <2>10. Places'
    <3>1. Polled' = Polled /\ e \notin Polled
      BY <1>1, <2>3 DEF Polled, InStep, Places
    <3>2. \A f \in Editors : f \in Polled' <=> conn'[f] = "polled"
      BY <1>1, <2>8, <3>1 DEF InStep, Places
    <3> QED BY <3>2 DEF Places
  <2> QED BY <1>1, <1>3, <2>1, <2>2, <2>9, <2>10, OneOnward
\* The user of an open editor has sent something, and the editor may have ended.
<1>5. ASSUME NEW q, Post(e, q), q.type \in Uses, s = "open", z # "idle", conn' = conn,
             \A f \in Editors : f # e => editor'[f] = editor[f]
      PROVE  Progress
  <2>1. /\ \A f \in Editors : f # e => up'[f] = up[f]
        /\ (c = "closed" /\ v = u) \/ Longer(u, v, q)
    BY <1>5, PostUp DEF Inv, UpGood
  <2>2. CASE c = "closed" /\ v = u
    <3>1. InTurn(v, d, z, c) /\ (Awaiting(v, d, z) => Awaiting(u, d, s)) /\ ~Using(v, d, z, c)
      BY <1>2, <1>5, <2>2 DEF InTurn, Awaiting, Using
    <3>2. Onward(e)
      BY <1>1, <1>5, <3>1, OnwardIs
    <3> QED BY <1>1, <1>5, <2>1, <3>2, OneOnward, SamePlaces DEF InStep
  <2>3. CASE c # "closed" /\ Longer(u, v, q)
    <3>1. /\ InTurn(v, d, z, c)
          /\ Awaiting(v, d, z) => Awaiting(u, d, "open")
          /\ Using(v, d, z, c) => Using(u, d, "open", c)
      BY <1>2, <1>5, <2>3, TurnPosted
    <3>2. Onward(e)
      BY <1>1, <1>5, <3>1, OnwardIs
    <3> QED BY <1>1, <1>5, <2>1, <3>2, OneOnward, SamePlaces DEF InStep
  <2>4. CASE c = "closed" /\ Longer(u, v, q)
    <3>1. v = u
      BY <1>5, <2>4 DEF Post
    <3> QED BY <2>2, <2>4, <3>1
  <2> QED BY <2>1, <2>2, <2>3, <2>4
\* The editor has ended and sent nothing.
<1>6. ASSUME NEW x, Becomes(e, x), x \notin {"idle", "waiting", "open"}, s # "idle",
             up' = up, conn' = conn
      PROVE  Progress
  <2>1. /\ InTurn(u, d, x, c)
        /\ Awaiting(u, d, x) => Awaiting(u, d, s)
        /\ Using(u, d, x, c) => Using(u, d, s, c)
    BY <1>2, <1>6 DEF InTurn, Awaiting, Using
  <2>2. Onward(e)
    BY <1>1, <1>3, <1>6, <2>1, OnwardIs
  <2> QED BY <1>1, <1>3, <1>6, <2>2, OneOnward, SamePlaces DEF InStep
<1>7. CASE PressTooEarly(e)
  <2>1. s = "waiting" /\ Becomes(e, "ownKey") /\ up' = up /\ conn' = conn
    BY <1>7 DEF PressTooEarly, net
  <2> QED BY <1>1, <1>6, <2>1
<1>8. CASE Disconnected(e)
  <2>1. s \in {"waiting", "open"} /\ Becomes(e, "sigpipe") /\ up' = up /\ conn' = conn
    BY <1>8 DEF Disconnected, net, Live
  <2> QED BY <1>1, <1>6, <2>1
<1>9. CASE Escape(e)
  <2>1. s = "open" /\ Becomes(e, "quit") /\ Post(e, Msg("QUIT", account[e], NoBuffer)) /\ conn' = conn
    BY <1>9 DEF Escape, Open
  <2>2. Msg("QUIT", account[e], NoBuffer).type \in Uses
    BY MsgIs DEF Uses
  <2> QED BY <1>1, <1>3, <1>5, <2>1, <2>2
<1>10. ASSUME NEW key \in Keys, Press(e, key) PROVE Progress
  <2> PICK fault : fault = Fault(copy[e], Own, key.type)
    OBVIOUS
  <2>1. /\ s = "open" /\ Post(e, Msg(key.type, account[e], key.payload)) /\ conn' = conn
        /\ editor' = editor \/ Becomes(e, fault)
    BY <1>10 DEF Press, Open
  <2>2. Msg(key.type, account[e], key.payload).type \in Uses
    BY CollabAssumption, MsgIs DEF Uses, Operations
  <2>3. fault # "idle"
    BY FaultIs
  <2>4. z # "idle" /\ \A f \in Editors : f # e => editor'[f] = editor[f]
    <3>1. CASE editor' = editor
      BY <2>1, <3>1
    <3>2. CASE Becomes(e, fault)
      BY <1>3, <2>3, <3>2
    <3> QED BY <2>1, <3>1, <3>2
  <2> QED BY <1>5, <2>1, <2>2, <2>4
<1> QED BY <1>1, <1>4, <1>7, <1>8, <1>9, <1>10 DEF UserStep

LEMMA StepProgress ==
  ASSUME FewEditors, Inv, InStep, [Next]_vars
  PROVE  Progress /\ (height >= 3 => running' \in {running, "sigpipe", "twoCursors"})
<1>1. CASE UNCHANGED vars
  <2>1. UNCHANGED <<worker, running, slots, conn, editor, up, down>>
    BY <1>1 DEF vars
  <2>2. \A f \in Editors : Onward(f)
    BY <2>1, Untouched DEF InStep, Turns
  <2>3. Match' /\ Places'
    BY <2>1, <2>2, MatchKept, SamePlaces DEF Inv, Served, InStep
  <2> QED BY <2>1, <2>2, <2>3, AllOnward DEF Progress, InStep
<1>2. ASSUME NEW e \in Editors, WorkerStep(e) \/ EditorGets(e) \/ UserStep(e)
      PROVE  Progress /\ (height >= 3 => running' \in {running, "sigpipe", "twoCursors"})
  BY <1>2, WorkerInStep, GetsInStep, UserInStep
<1> QED BY <1>1, <1>2 DEF Next

LEMMA InitInStep == FromTheFork /\ Init => InStep
<1> SUFFICES ASSUME FromTheFork, Init PROVE InStep
  OBVIOUS
<1>1. /\ conn = [e \in Editors |-> "none"] /\ editor = [e \in Editors |-> "idle"]
      /\ up = [e \in Editors |-> << >>] /\ down = [e \in Editors |-> << >>]
  BY NobodyEarly DEF Init
<1>2. Len(<< >>) = 0 /\ \A types : ~Carries(<< >>, types)
  BY EmptyStream, CarriesNone
<1>3. InTurn(<< >>, << >>, "idle", "none") /\ ~Using(<< >>, << >>, "idle", "none")
  <2>1. \A i, j \in 1 .. Len(<< >>) :
          << >>[i].type \in Answers /\ << >>[j].type \in Answers => i = j
    BY <1>2
  <2> QED BY <1>2, <2>1 DEF InTurn, Using
<1>4. Turns
  BY <1>1, <1>3 DEF Turns, Turn
<1>5. Places
  <2>1. Len(Early) = 0 /\ MAX_CLIENTS \in Nat
    BY EmptySeq, CollabAssumption DEF FromTheFork
  <2>2. slots = [i \in 1..MAX_CLIENTS |-> Free]
    BY <2>1 DEF Init
  <2> QED BY <1>1, <2>2, CollabAssumption DEF Places, Polled
<1>6. Match
  <2>1. Owners = {}
    BY <1>1, <1>3 DEF Owners
  <2>2. PICK file \in Files : worker = Came(buffer_from_file(file), Early)
    BY DEF Init
  <2>3. file \in Seq(Seq(Chars)) /\ file # << >>
    BY CollabAssumption
  <2>4. worker = buffer_from_file(file)
    BY <2>2, CameNobody
  <2>5. Sound(worker) /\ IdsIn(worker, {})
    BY <2>3, <2>4, FileSound
  <2>6. Dealt(worker, Awaited, {}, << >>)
    BY <2>5, DealtNobody
  <2> QED BY <2>1, <2>6 DEF Match
<1> QED BY <1>4, <1>5, <1>6 DEF InStep

\* A user's operations reach the worker after the cursor they are for was made and
\* before it is freed, whatever arrives together, is cut or breaks, also when the
\* user comes back; and the worker's window keeps its bottom.
THEOREM WorkerFindsCursorsTheorem ==
  ASSUME FromTheFork, FewEditors, height >= 3 PROVE Spec => []WorkerFindsCursors
<1> DEFINE All == Inv /\ InStep /\ WorkerFindsCursors
<1>1. Init => All
  BY InitInv, InitInStep DEF Init, WorkerFindsCursors
<1>2. All /\ [Next]_vars => All'
  <2> SUFFICES ASSUME All, [Next]_vars PROVE All'
    OBVIOUS
  <2>1. Inv'
    BY StepInv
  <2>2. Progress /\ running' \in {running, "sigpipe", "twoCursors"}
    BY StepProgress
  <2> QED BY <2>1, <2>2 DEF Progress, WorkerFindsCursors
<1>3. All => WorkerFindsCursors
  OBVIOUS
<1> QED BY <1>1, <1>2, <1>3, PTL DEF Spec

-----------------------------------------------------------------------------
(***************************************************************************)
(* What is sent to an editor about another user u, from the buffer b that  *)
(* it is sent or has: in the stream s, after its message q, u is added     *)
(* before his messages, unless b has him, and nothing follows his end.     *)
(***************************************************************************)
Has(b, u) == \E k \in Slots : b.curs[k].id = u

Needs(m, u) == m.type \in Operations \cup {"DELETE_CURSOR"} /\ m.user_id = u
Adds(m, u)  == m.type = "ADD_CURSOR" /\ m.user_id = u
Frees(m, u) == m.type = "DELETE_CURSOR" /\ m.user_id = u

Follows(b, s, q, u) ==
  /\ \A i \in q + 1 .. Len(s) : Needs(s[i], u) =>
       /\ Has(b, u) \/ \E j \in q + 1 .. i - 1 : Adds(s[j], u)
       /\ \A j \in q + 1 .. i - 1 : ~Frees(s[j], u)
  /\ \A i \in q + 1 .. Len(s) : Adds(s[i], u) =>
       ~Has(b, u) /\ \A j \in q + 1 .. Len(s) : Adds(s[j], u) => j = i

\* He has been added, or will be; and will not be removed.
Expects(b, s, q, u) == Has(b, u) \/ \E i \in q + 1 .. Len(s) : Adds(s[i], u)
Keeps(b, s, q, u) ==
  Expects(b, s, q, u) /\ \A i \in q + 1 .. Len(s) : ~Frees(s[i], u)

\* t is s without its first message.
RestOf(s, t) ==
  /\ IsStream(t) /\ Len(s) \in Nat /\ Len(s) >= 1 /\ Len(t) = Len(s) - 1
  /\ \A i \in 1 .. Len(t) : t[i] = s[i + 1]

LEMMA MessageKinds ==
  \A m, u : /\ Adds(m, u) => ~Needs(m, u) /\ ~Frees(m, u)
            /\ Frees(m, u) => Needs(m, u)
  BY DEF Adds, Needs, Frees, Operations

\* Who is never expected is never removed.
LEMMA NotFreed ==
  ASSUME NEW b, NEW s, IsStream(s), NEW q \in 0 .. Len(s), NEW u, Follows(b, s, q, u),
         ~Expects(b, s, q, u)
  PROVE  \A i \in q + 1 .. Len(s) : ~Frees(s[i], u)
<1>1. Len(s) \in Nat
  BY StreamFacts
<1> SUFFICES ASSUME NEW i \in q + 1 .. Len(s), Frees(s[i], u) PROVE FALSE
  OBVIOUS
<1>2. Has(b, u) \/ \E j \in q + 1 .. i - 1 : Adds(s[j], u)
  BY MessageKinds DEF Follows
<1>3. \A j \in q + 1 .. i - 1 : j \in q + 1 .. Len(s)
  BY <1>1
<1> QED BY <1>2, <1>3 DEF Expects

LEMMA FollowsMore ==
  ASSUME NEW b, NEW s, IsStream(s), NEW q \in 0 .. Len(s), NEW u, Follows(b, s, q, u),
         NEW m, NEW t, Longer(s, t, m),
         Needs(m, u) => Keeps(b, s, q, u), Adds(m, u) => ~Expects(b, s, q, u)
  PROVE  /\ Follows(b, t, q, u)
         /\ Expects(b, t, q, u) => Expects(b, s, q, u) \/ Adds(m, u)
         /\ (Keeps(b, s, q, u) \/ Adds(m, u)) /\ ~Frees(m, u) => Keeps(b, t, q, u)
<1> PICK N : N = Len(s)
  OBVIOUS
<1>1. N \in Nat /\ q \in 0 .. N /\ Len(t) = N + 1 /\ t[N + 1] = m /\ \A i \in 1 .. N : t[i] = s[i]
  BY StreamFacts DEF Longer
<1>2. /\ \A i \in q + 1 .. N : i \in q + 1 .. N + 1 /\ t[i] = s[i] /\ i # N + 1
      /\ \A i \in q + 1 .. N + 1 : i \in q + 1 .. N \/ i = N + 1
      /\ N + 1 \in q + 1 .. N + 1 /\ q + 1 .. (N + 1) - 1 = q + 1 .. N
  <2>1. \A i \in q + 1 .. N : i \in 1 .. N /\ i \in q + 1 .. N + 1 /\ i # N + 1
    BY <1>1
  <2>2. (\A i \in q + 1 .. N + 1 : i \in q + 1 .. N \/ i = N + 1) /\ N + 1 \in q + 1 .. N + 1
    BY <1>1
  <2>3. (N + 1) - 1 = N
    BY <1>1
  <2> QED BY <1>1, <2>1, <2>2, <2>3
<1>3. \A i \in q + 1 .. N : \A j \in q + 1 .. i - 1 : j \in q + 1 .. N
  BY <1>1
<1>4. Expects(b, t, q, u) <=> (Expects(b, s, q, u) \/ Adds(m, u))
  BY <1>1, <1>2 DEF Expects
<1>5. (\A i \in q + 1 .. N : ~Frees(s[i], u)) /\ ~Frees(m, u) =>
        \A i \in q + 1 .. N + 1 : ~Frees(t[i], u)
  BY <1>1, <1>2
<1>6. (Keeps(b, s, q, u) \/ Adds(m, u)) /\ ~Frees(m, u) => Keeps(b, t, q, u)
  BY <1>1, <1>4, <1>5, NotFreed DEF Keeps
<1>7. ASSUME NEW i \in q + 1 .. N + 1, Needs(t[i], u)
      PROVE  /\ Has(b, u) \/ \E j \in q + 1 .. i - 1 : Adds(t[j], u)
             /\ \A j \in q + 1 .. i - 1 : ~Frees(t[j], u)
  <2>1. CASE i \in q + 1 .. N
    BY <1>2, <1>3, <1>7, <2>1 DEF Follows
  <2>2. CASE i = N + 1
    <3>1. Keeps(b, s, q, u)
      BY <1>1, <1>7, <2>2
    <3>2. q + 1 .. i - 1 = q + 1 .. N
      BY <1>2, <2>2
    <3> QED BY <1>2, <3>1, <3>2 DEF Keeps, Expects
  <2> QED BY <1>2, <2>1, <2>2
<1>8. ASSUME NEW i \in q + 1 .. N + 1, Adds(t[i], u)
      PROVE  ~Has(b, u) /\ \A j \in q + 1 .. N + 1 : Adds(t[j], u) => j = i
  <2>1. CASE i \in q + 1 .. N
    <3>1. Adds(s[i], u) /\ Expects(b, s, q, u)
      BY <1>2, <1>8, <2>1 DEF Expects
    <3>2. ~Adds(m, u)
      BY <3>1
    <3> QED BY <1>1, <1>2, <2>1, <3>1, <3>2 DEF Follows
  <2>2. CASE i = N + 1
    <3>1. ~Expects(b, s, q, u)
      BY <1>1, <1>8, <2>2
    <3> QED BY <1>2, <2>2, <3>1 DEF Expects
  <2> QED BY <1>2, <2>1, <2>2
<1>9. Follows(b, t, q, u)
  BY <1>1, <1>7, <1>8 DEF Follows
<1> QED BY <1>4, <1>6, <1>9

\* A message before the buffer was sent is taken; c has who b has.
LEMMA FollowsLater ==
  ASSUME NEW b, NEW s, NEW t, RestOf(s, t), NEW q \in 1 .. Len(s), NEW u, Follows(b, s, q, u),
         NEW c, Has(c, u) <=> Has(b, u)
  PROVE  /\ Follows(c, t, q - 1, u)
         /\ Expects(c, t, q - 1, u) => Expects(b, s, q, u)
         /\ Keeps(b, s, q, u) => Keeps(c, t, q - 1, u)
<1> PICK N : N = Len(s)
  OBVIOUS
<1> PICK r : r = q - 1
  OBVIOUS
<1>1. N \in Nat /\ N >= 1 /\ Len(t) = N - 1 /\ q \in 1 .. N /\ r \in Nat /\ r + 1 = q
  BY DEF RestOf
<1>2. /\ \A i \in r + 1 .. N - 1 : i + 1 \in q + 1 .. N /\ t[i] = s[i + 1]
      /\ \A i \in q + 1 .. N : i - 1 \in r + 1 .. N - 1 /\ s[i] = t[i - 1]
  <2>1. \A i \in r + 1 .. N - 1 : i + 1 \in q + 1 .. N /\ i \in 1 .. N - 1
    BY <1>1
  <2>2. \A i \in q + 1 .. N : i - 1 \in r + 1 .. N - 1 /\ i - 1 \in 1 .. N - 1 /\ (i - 1) + 1 = i
    BY <1>1
  <2>3. \A i \in 1 .. N - 1 : t[i] = s[i + 1]
    BY <1>1 DEF RestOf
  <2> QED BY <2>1, <2>2, <2>3
<1>3. \A i \in r + 1 .. N - 1 :
        /\ \A j \in r + 1 .. i - 1 : j + 1 \in q + 1 .. (i + 1) - 1 /\ t[j] = s[j + 1]
        /\ \A j \in q + 1 .. (i + 1) - 1 : j - 1 \in r + 1 .. i - 1 /\ s[j] = t[j - 1]
  <2>1. \A i \in r + 1 .. N - 1 :
        /\ \A j \in r + 1 .. i - 1 : j + 1 \in q + 1 .. (i + 1) - 1 /\ j \in r + 1 .. N - 1
        /\ \A j \in q + 1 .. (i + 1) - 1 : j - 1 \in r + 1 .. i - 1 /\ j \in q + 1 .. N
    BY <1>1
  <2> QED BY <1>2, <2>1
<1>4. Expects(c, t, r, u) <=> Expects(b, s, q, u)
  BY <1>1, <1>2 DEF Expects
<1>5. Keeps(b, s, q, u) => Keeps(c, t, r, u)
  BY <1>1, <1>2, <1>4 DEF Keeps
<1>6. ASSUME NEW i \in r + 1 .. N - 1, Needs(t[i], u)
      PROVE  /\ Has(c, u) \/ \E j \in r + 1 .. i - 1 : Adds(t[j], u)
             /\ \A j \in r + 1 .. i - 1 : ~Frees(t[j], u)
  <2>1. i + 1 \in q + 1 .. N /\ Needs(s[i + 1], u)
    BY <1>2, <1>6
  <2>2. /\ Has(b, u) \/ \E j \in q + 1 .. (i + 1) - 1 : Adds(s[j], u)
        /\ \A j \in q + 1 .. (i + 1) - 1 : ~Frees(s[j], u)
    BY <2>1 DEF Follows
  <2> QED BY <1>3, <2>2
<1>7. ASSUME NEW i \in r + 1 .. N - 1, Adds(t[i], u)
      PROVE  ~Has(c, u) /\ \A j \in r + 1 .. N - 1 : Adds(t[j], u) => j = i
  <2>1. i + 1 \in q + 1 .. N /\ Adds(s[i + 1], u)
    BY <1>2, <1>7
  <2>2. ~Has(b, u) /\ \A j \in q + 1 .. N : Adds(s[j], u) => j = i + 1
    BY <2>1 DEF Follows
  <2>3. ASSUME NEW j \in r + 1 .. N - 1, Adds(t[j], u) PROVE j = i
    <3>1. j + 1 = i + 1
      BY <1>2, <2>2, <2>3
    <3> QED BY <1>1, <3>1
  <2> QED BY <2>2, <2>3
<1>8. Follows(c, t, r, u)
  BY <1>1, <1>6, <1>7 DEF Follows
<1> QED BY <1>4, <1>5, <1>8

\* The first message after the buffer is taken, and c is what it makes of b.
LEMMA FollowsTaken ==
  ASSUME NEW b, NEW s, NEW t, RestOf(s, t), NEW u, Follows(b, s, 0, u),
         NEW c, Has(c, u) <=> ((Has(b, u) \/ Adds(s[1], u)) /\ ~Frees(s[1], u))
  PROVE  /\ Follows(c, t, 0, u)
         /\ Expects(c, t, 0, u) => Expects(b, s, 0, u)
         /\ Keeps(b, s, 0, u) => Keeps(c, t, 0, u)
<1> PICK N : N = Len(s)
  OBVIOUS
<1>1. N \in Nat /\ N >= 1 /\ Len(t) = N - 1 /\ 1 \in 1 .. N
  BY DEF RestOf
<1>0. \A x \in Int : 0 + 1 .. x = 1 .. x
  OBVIOUS
<1>2. /\ \A i \in 1 .. N - 1 : i + 1 \in 1 .. N /\ t[i] = s[i + 1] /\ i + 1 # 1
      /\ \A i \in 1 .. N : i = 1 \/ (i - 1 \in 1 .. N - 1 /\ s[i] = t[i - 1])
  <2>1. \A i \in 1 .. N : i = 1 \/ (i - 1 \in 1 .. N - 1 /\ (i - 1) + 1 = i)
    BY <1>1
  <2>2. \A i \in 1 .. N - 1 : i + 1 \in 1 .. N /\ i + 1 # 1
    BY <1>1
  <2>3. \A i \in 1 .. N - 1 : t[i] = s[i + 1]
    BY <1>1 DEF RestOf
  <2> QED BY <2>1, <2>2, <2>3
<1>3. \A i \in 1 .. N - 1 :
        /\ 1 \in 1 .. (i + 1) - 1
        /\ \A j \in 1 .. i - 1 : j + 1 \in 1 .. (i + 1) - 1 /\ t[j] = s[j + 1]
        /\ \A j \in 1 .. (i + 1) - 1 : j = 1 \/ (j - 1 \in 1 .. i - 1 /\ s[j] = t[j - 1])
  <2>1. \A i \in 1 .. N - 1 :
        /\ 1 \in 1 .. (i + 1) - 1
        /\ \A j \in 1 .. i - 1 : j + 1 \in 1 .. (i + 1) - 1 /\ j \in 1 .. N - 1
        /\ \A j \in 1 .. (i + 1) - 1 : (j = 1 \/ j - 1 \in 1 .. i - 1) /\ j \in 1 .. N
    BY <1>1
  <2> QED BY <1>2, <2>1
<1>4. /\ \A i \in 1 .. N : Needs(s[i], u) =>
           /\ Has(b, u) \/ \E j \in 1 .. i - 1 : Adds(s[j], u)
           /\ \A j \in 1 .. i - 1 : ~Frees(s[j], u)
      /\ \A i \in 1 .. N : Adds(s[i], u) =>
           ~Has(b, u) /\ \A j \in 1 .. N : Adds(s[j], u) => j = i
  <2>1. \A i \in 1 .. N : i - 1 \in Int
    BY <1>1
  <2> QED BY <1>0, <1>1, <2>1 DEF Follows
<1>5. ASSUME Frees(s[1], u) PROVE Has(b, u)
  <2>1. 1 .. 1 - 1 = {}
    OBVIOUS
  <2> QED BY <1>1, <1>4, <1>5, <2>1, MessageKinds
<1>6. Expects(b, s, 0, u) <=> (Has(b, u) \/ \E i \in 1 .. N : Adds(s[i], u))
  BY <1>0, <1>1 DEF Expects
<1>7. Expects(c, t, 0, u) <=> (Has(c, u) \/ \E i \in 1 .. N - 1 : Adds(t[i], u))
  <2>1. N - 1 \in Int
    BY <1>1
  <2> QED BY <1>0, <1>1, <2>1 DEF Expects
<1>8. Expects(c, t, 0, u) => Expects(b, s, 0, u)
  BY <1>1, <1>2, <1>6, <1>7
<1>9. ASSUME Keeps(b, s, 0, u) PROVE Keeps(c, t, 0, u)
  <2>1. \A i \in 1 .. N : ~Frees(s[i], u)
    BY <1>0, <1>1, <1>9 DEF Keeps
  <2>2. Expects(c, t, 0, u)
    <3>1. CASE Has(b, u) \/ Adds(s[1], u)
      BY <1>1, <1>7, <2>1, <3>1
    <3>2. CASE ~(Has(b, u) \/ Adds(s[1], u))
      <4>1. PICK i \in 1 .. N : Adds(s[i], u)
        BY <1>6, <1>9, <3>2 DEF Keeps
      <4>2. i # 1
        BY <3>2, <4>1
      <4> QED BY <1>2, <1>7, <4>1, <4>2
    <3> QED BY <3>1, <3>2
  <2>3. \A i \in 0 + 1 .. Len(t) : ~Frees(t[i], u)
    <3>1. \A i \in 1 .. N - 1 : ~Frees(t[i], u)
      BY <1>2, <2>1
    <3>2. N - 1 \in Int
      BY <1>1
    <3> QED BY <1>0, <1>1, <3>1, <3>2
  <2> QED BY <2>2, <2>3 DEF Keeps
<1>10. ASSUME NEW i \in 1 .. N - 1, Needs(t[i], u)
       PROVE  /\ Has(c, u) \/ \E j \in 1 .. i - 1 : Adds(t[j], u)
              /\ \A j \in 1 .. i - 1 : ~Frees(t[j], u)
  <2>1. i + 1 \in 1 .. N /\ Needs(s[i + 1], u)
    BY <1>2, <1>10
  <2>2. /\ Has(b, u) \/ \E j \in 1 .. (i + 1) - 1 : Adds(s[j], u)
        /\ \A j \in 1 .. (i + 1) - 1 : ~Frees(s[j], u)
    BY <1>4, <2>1
  <2>3. ~Frees(s[1], u)
    BY <1>3, <2>2
  <2>4. \A j \in 1 .. i - 1 : ~Frees(t[j], u)
    BY <1>3, <2>2
  <2>5. CASE Has(b, u) \/ Adds(s[1], u)
    BY <2>3, <2>4, <2>5
  <2>6. CASE ~(Has(b, u) \/ Adds(s[1], u))
    <3>1. PICK j \in 1 .. (i + 1) - 1 : Adds(s[j], u)
      BY <2>2, <2>6
    <3>2. j # 1
      BY <2>6, <3>1
    <3> QED BY <1>3, <2>4, <3>1, <3>2
  <2> QED BY <2>5, <2>6
<1>11. ASSUME NEW i \in 1 .. N - 1, Adds(t[i], u)
       PROVE  ~Has(c, u) /\ \A j \in 1 .. N - 1 : Adds(t[j], u) => j = i
  <2>1. i + 1 \in 1 .. N /\ i + 1 # 1 /\ Adds(s[i + 1], u)
    BY <1>2, <1>11
  <2>2. ~Has(b, u) /\ \A j \in 1 .. N : Adds(s[j], u) => j = i + 1
    BY <1>4, <2>1
  <2>3. ~Adds(s[1], u)
    BY <1>1, <2>1, <2>2
  <2>4. ASSUME NEW j \in 1 .. N - 1, Adds(t[j], u) PROVE j = i
    <3>1. j + 1 = i + 1
      BY <1>2, <2>2, <2>4
    <3> QED BY <1>1, <3>1
  <2> QED BY <2>2, <2>3, <2>4
<1>12. Follows(c, t, 0, u)
  <2>1. N - 1 \in Int /\ \A i \in 1 .. N - 1 : i - 1 \in Int
    BY <1>1
  <2> QED BY <1>0, <1>1, <1>10, <1>11, <2>1 DEF Follows
<1> QED BY <1>8, <1>9, <1>12

\* The first message finds its cursor.
LEMMA FirstFinds ==
  ASSUME NEW b, NEW s, NEW t, RestOf(s, t), NEW u, Follows(b, s, 0, u), Needs(s[1], u)
  PROVE  Has(b, u)
<1>1. 1 \in 0 + 1 .. Len(s) /\ 0 + 1 .. 1 - 1 = {}
  BY DEF RestOf
<1> QED BY <1>1 DEF Follows

-----------------------------------------------------------------------------
(***************************************************************************)
(* Where every user runs one editor, and the ids of the users are those    *)
(* that a copy can hold: who has a cursor in a buffer.                     *)
(***************************************************************************)
OwnAccounts ==
  /\ \A e, f \in Editors : account[e] = account[f] => e = f
  /\ \A e \in Editors : account[e] < MAX_CURSOR_NUM

Users == { account[e] : e \in Editors }

\* The copy of an editor has at most one cursor of each user.
Copied(b) == Sound(b) /\ DistinctIds(b.curs) /\ IdsIn(b, Users)

LEMMA UserRange ==
  ASSUME OwnAccounts, NEW u \in Users
  PROVE  u \in Nat /\ u # Own /\ u # NULL /\ u \in 1 .. MAX_CURSOR_NUM - 1
<1>1. PICK e \in Editors : u = account[e]
  BY DEF Users
<1>2. u \in Nat /\ u # Own /\ u # NULL /\ u # 0 /\ u < MAX_CURSOR_NUM /\ MAX_CURSOR_NUM \in Nat
  BY <1>1, UserIds, ConstantsAssumption DEF OwnAccounts
<1> QED BY <1>2

LEMMA OwnAccountsFew == ASSUME OwnAccounts PROVE FewEditors
<1> DEFINE T == 1 .. MAX_CURSOR_NUM - 1
<1>1. account \in [Editors -> T] /\ \A e, f \in Editors : account[e] = account[f] => e = f
  <2>1. \A e \in Editors : account[e] \in T
    BY UserRange DEF Users
  <2>2. account = [e \in Editors |-> account[e]]
    BY CollabAssumption
  <2> HIDE DEF T
  <2> QED BY <2>1, <2>2 DEF OwnAccounts
<1>2. IsFiniteSet(T) /\ Cardinality(T) <= MAX_CURSOR_NUM /\ Cardinality(T) \in Nat
  <2>1. MAX_CURSOR_NUM \in Nat
    BY ConstantsAssumption
  <2>2. IsFiniteSet(T) /\ Cardinality(T) = IF 1 > MAX_CURSOR_NUM - 1 THEN 0
                                             ELSE (MAX_CURSOR_NUM - 1) - 1 + 1
    BY <2>1, FS_Interval
  <2> HIDE DEF T
  <2> QED BY <2>1, <2>2, FS_CardinalityType
<1> HIDE DEF T
<1>3. account \in Injection(Editors, T)
  BY <1>1 DEF Injection, IsInjective
<1>4. IsFiniteSet(Editors) /\ Cardinality(Editors) <= Cardinality(T)
  BY <1>2, <1>3, FS_Injection
<1>5. Cardinality(Editors) \in Nat /\ MAX_CURSOR_NUM \in Nat
  BY <1>4, FS_CardinalityType, ConstantsAssumption
<1> QED BY <1>2, <1>4, <1>5 DEF FewEditors

LEMMA HasIs ==
  ASSUME NEW b, Sound(b), NEW u \in Nat, u # Own
  PROVE  Has(b, u) <=> HasCursor(b, u)
<1>1. Has(b, u) => HasCursor(b, u)
  <2> SUFFICES ASSUME NEW k \in Slots, b.curs[k].id = u PROVE HasCursor(b, u)
    BY DEF Has
  <2>1. k \in AllSlots
    BY DEF AllSlots
  <2> QED BY <2>1, FindSpec DEF HasCursor
<1>2. HasCursor(b, u) => Has(b, u)
  <2> SUFFICES ASSUME HasCursor(b, u) PROVE Has(b, u)
    OBVIOUS
  <2> PICK k : k = bcursor_find(b, u)
    OBVIOUS
  <2>1. k \in AllSlots /\ b.curs[k].id = u /\ k # Own
    BY FoundSlot
  <2> QED BY <2>1 DEF Has, AllSlots
<1> QED BY <1>1, <1>2

LEMMA HasSame ==
  ASSUME NEW b, NEW c, SameIds(b, c), NEW u PROVE Has(c, u) <=> Has(b, u)
<1>1. \A k \in Slots : c.curs[k].id = b.curs[k].id
  BY DEF SameIds, AllSlots
<1> QED BY <1>1 DEF Has

LEMMA HasJoined ==
  ASSUME NEW b, NEW c, NEW v, Joins(b, c, v), NEW u, u # NULL
  PROVE  /\ Has(c, u) => Has(b, u) \/ u = v
         /\ Has(b, u) => Has(c, u)
         /\ FreeSlots(b) # {} => Has(c, v)
<1>1. CASE c = b /\ FreeSlots(b) = {}
  BY <1>1
<1>2. ASSUME NEW x, x.id = v, Added(b, c, x)
      PROVE  (Has(c, u) => Has(b, u) \/ u = v) /\ (Has(b, u) => Has(c, u)) /\ Has(c, v)
  <2>1. PICK k \in Slots : /\ b.curs[k] = NoCursor /\ c.curs[k] = x
                           /\ \A j \in AllSlots : j # k => c.curs[j] = b.curs[j]
    BY <1>2 DEF Added
  <2>2. \A j \in Slots : j # k => c.curs[j] = b.curs[j]
    BY <2>1 DEF AllSlots
  <2>3. b.curs[k].id = NULL
    BY <2>1 DEF NoCursor
  <2> QED BY <1>2, <2>1, <2>2, <2>3 DEF Has
<1> QED BY <1>1, <1>2 DEF Joins

\* Where a user has one cursor he has none when he has left.
LEMMA HasLeft ==
  ASSUME NEW b, Sound(b), NEW v \in Nat, v # Own, HasCursor(b, v),
         NEW c, Leaves(b, c, v),
         \A j, k \in Slots : b.curs[j].id = v /\ b.curs[k].id = v => j = k,
         NEW u, u # NULL
  PROVE  Has(c, u) <=> (Has(b, u) /\ u # v)
<1> PICK k : k = bcursor_find(b, v)
  OBVIOUS
<1>1. k \in Slots /\ b.curs[k].id = v
  BY FoundSlot DEF AllSlots
<1>2. \A j \in Slots : c.curs[j] = IF j = k THEN NoCursor ELSE b.curs[j]
  BY DEF Leaves, AllSlots
<1>3. NoCursor.id = NULL
  BY DEF NoCursor
<1> QED BY <1>1, <1>2, <1>3 DEF Has

\* A copy has who the buffer it was made from has.
LEMMA HasDeserialized ==
  ASSUME OwnAccounts, NEW b, Sound(b), IdsIn(b, Users)
  PROVE  LET c == buffer_deserialize(b) IN
         Copied(c) /\ \A u \in Users : Has(c, u) <=> Has(b, u)
<1> PICK c : c = buffer_deserialize(b)
  OBVIOUS
<1> PICK M : M = { b.curs[j].id : j \in AllSlots }
  OBVIOUS
<1>1. IdsIn(b, M)
  BY AnyIds
<1>2. Copied(c)
  BY DeserializeSound DEF Copied
<1>3. ASSUME NEW u \in Users, Has(b, u) PROVE Has(c, u)
  <2>1. PICK j \in Slots : b.curs[j].id = u
    BY <1>3 DEF Has
  <2>2. b.curs[j].id # NULL /\ b.curs[j].id < MAX_CURSOR_NUM
    <3>1. u # NULL /\ u \in 1 .. MAX_CURSOR_NUM - 1 /\ MAX_CURSOR_NUM \in Nat
      BY UserRange, ConstantsAssumption
    <3> QED BY <2>1, <3>1
  <2>3. \E k \in Slots : c.curs[k].id = b.curs[j].id
    BY <1>1, <2>2, DeserializeSound
  <2> QED BY <2>1, <2>3 DEF Has
<1>4. ASSUME NEW u \in Users, Has(c, u) PROVE Has(b, u)
  <2>1. PICK k \in Slots : c.curs[k].id = u
    BY <1>4 DEF Has
  <2>2. IdsIn(c, M)
    BY <1>1, DeserializeSound
  <2>3. u \in M
    BY <2>1, <2>2, UserRange DEF IdsIn, AllSlots
  <2>4. PICK j \in AllSlots : b.curs[j].id = u
    BY <2>3
  <2>5. j # Own
    BY <2>4, UserRange DEF Sound, GoodCursors, IdsOfSlots
  <2> QED BY <2>4, <2>5 DEF Has, AllSlots
<1> QED BY <1>2, <1>3, <1>4

\* A copy without the cursor of a user has a slot for it.
LEMMA RoomForHim ==
  ASSUME OwnAccounts, NEW b, Copied(b), NEW u \in Users, ~Has(b, u)
  PROVE  FreeSlots(b) # {}
<1> SUFFICES ASSUME FreeSlots(b) = {} PROVE FALSE
  OBVIOUS
<1> DEFINE T == 1 .. MAX_CURSOR_NUM - 1
           f == [k \in Slots |-> b.curs[k].id]
<1>1. \A k \in Slots : b.curs[k].id \in T
  <2> TAKE k \in Slots
  <2>1. b.curs[k].id # NULL /\ b.curs[k].id # Own
    BY FreeOrUsed DEF Used, Copied, Sound, GoodCursors, IdsOfSlots
  <2>2. b.curs[k].id \in Users
    BY <2>1 DEF Copied, IdsIn, AllSlots
  <2> HIDE DEF T
  <2> QED BY <2>2, UserRange DEF T
<1>2. f \in [Slots -> T]
  <2> HIDE DEF T
  <2> QED BY <1>1
<1>3. MAX_CURSOR_NUM \in Nat /\ MAX_CURSOR_NUM - 1 \in Nat
  <2>1. u \in 1 .. MAX_CURSOR_NUM - 1
    BY UserRange
  <2>2. MAX_CURSOR_NUM \in Nat
    BY ConstantsAssumption
  <2> QED BY <2>1, <2>2
<1>4. /\ IsFiniteSet(Slots) /\ Cardinality(Slots) = MAX_CURSOR_NUM
      /\ IsFiniteSet(T) /\ Cardinality(T) = MAX_CURSOR_NUM - 1
  <2>1. /\ IsFiniteSet(1 .. MAX_CURSOR_NUM)
        /\ Cardinality(1 .. MAX_CURSOR_NUM) = IF 1 > MAX_CURSOR_NUM THEN 0 ELSE MAX_CURSOR_NUM - 1 + 1
    BY <1>3, FS_Interval
  <2> PICK N : N = MAX_CURSOR_NUM - 1
    OBVIOUS
  <2>2. /\ IsFiniteSet(1 .. N) /\ Cardinality(1 .. N) = IF 1 > N THEN 0 ELSE N - 1 + 1
    BY <1>3, FS_Interval
  <2>3. (IF 1 > N THEN 0 ELSE N - 1 + 1) = N
    BY <1>3
  <2>4. (IF 1 > MAX_CURSOR_NUM THEN 0 ELSE MAX_CURSOR_NUM - 1 + 1) = MAX_CURSOR_NUM
    BY <1>3
  <2> QED BY <2>1, <2>2, <2>3, <2>4 DEF Slots
<1>5. Cardinality(T) < Cardinality(Slots)
  <2> HIDE DEF T
  <2> QED BY <1>3, <1>4
<1>6. \E j, k \in Slots : j # k /\ f[j] = f[k]
  <2> HIDE DEF T, f
  <2> QED BY <1>2, <1>4, <1>5, FS_PigeonHole
<1>7. PICK j, k \in Slots : j # k /\ b.curs[j].id = b.curs[k].id
  BY <1>6
<1>8. b.curs[j].id = NULL
  BY <1>7 DEF Copied, DistinctIds, AllSlots
<1>9. b.curs[j].id # NULL
  BY FreeOrUsed DEF Used, Copied
<1> QED BY <1>8, <1>9

\* What a message makes of a copy.
LEMMA FollowCopied ==
  ASSUME OwnAccounts, NEW e \in Editors, NEW b, Copied(b), NEW m, Sent(m),
         m.type \in CursorMessages \cup Operations,
         NEW p \in Editors \ {e}, m.user_id = account[p],
         m.type \notin {"INSERT", "ADD_CURSOR"} => HasCursor(b, m.user_id),
         m.type = "ADD_CURSOR" => ~Has(b, m.user_id)
  PROVE  LET c == Follow(e, b, m) IN
         /\ Copied(c)
         /\ \A u \in Users : Has(c, u) <=> ((Has(b, u) \/ Adds(m, u)) /\ ~Frees(m, u))
<1> PICK c, v : c = Follow(e, b, m) /\ v = m.user_id
  OBVIOUS
<1>1. Sound(c)
  BY FollowSound DEF Copied
<1>2. v \in Users /\ v \in Nat /\ v # Own /\ v # NULL /\ v # account[e]
  BY UserIds DEF Users, OwnAccounts
<1>3. CASE m.type = "DELETE_CURSOR"
  <2>1. c = bcursor_free(b, v) /\ HasCursor(b, v)
    BY <1>3 DEF Follow
  <2>2. IdsIn(c, Users) /\ DistinctIds(c.curs) /\ Leaves(b, c, v)
    <3>1. Sound(b) /\ IdsIn(b, Users) /\ DistinctIds(b.curs)
      BY DEF Copied
    <3>2. Leaves(b, bcursor_free(b, v), v) /\ IdsIn(bcursor_free(b, v), Users)
      BY <1>2, <2>1, <3>1, FreeSound DEF Leaves
    <3>3. Leaves(b, c, v) /\ IdsIn(c, Users)
      BY <2>1, <3>2
    <3>4. DistinctIds(c.curs)
      BY <3>1, <3>3 DEF Leaves, DistinctIds, NoCursor
    <3> QED BY <3>3, <3>4
  <2>3. \A j, k \in Slots : b.curs[j].id = v /\ b.curs[k].id = v => j = k
    BY <1>2 DEF Copied, DistinctIds, AllSlots
  <2>4. ASSUME NEW u \in Users PROVE Has(c, u) <=> (Has(b, u) /\ u # v)
    <3>1. u # NULL
      BY UserRange
    <3> QED BY <1>2, <2>1, <2>2, <2>3, <3>1, HasLeft DEF Copied
  <2> QED BY <1>1, <1>3, <2>2, <2>4 DEF Copied, Adds, Frees
<1>4. CASE m.type = "ADD_CURSOR"
  <2>1. c = bcursor_new(b, v, b.lid[b.first], 0)
    BY <1>2, <1>4 DEF Follow
  <2>2. Joins(b, c, v)
    BY <1>2, <2>1, NewPeerSound DEF Copied
  <2>3. FreeSlots(b) # {} /\ ~Has(b, v)
    BY <1>2, <1>4, RoomForHim
  <2>4. \A u \in Users : Has(c, u) <=> (Has(b, u) \/ u = v)
    <3> TAKE u \in Users
    <3>1. u # NULL
      BY UserRange
    <3> QED BY <2>2, <2>3, <3>1, HasJoined
  <2>5. IdsIn(c, Users) /\ DistinctIds(c.curs)
    <3>1. PICK x : x.id = v /\ Added(b, c, x)
      BY <2>2, <2>3 DEF Joins
    <3>2. PICK k \in Slots : /\ c.curs[k] = x
                             /\ \A j \in AllSlots : j # k => c.curs[j] = b.curs[j]
      BY <3>1 DEF Added
    <3>3. \A j \in AllSlots : b.curs[j].id # v
      <4>1. b.curs[Own].id # v
        BY <1>2 DEF Copied, Sound, GoodCursors, IdsOfSlots
      <4> QED BY <2>3, <4>1 DEF Has, AllSlots
    <3>4. IdsIn(c, Users)
      BY <1>2, <3>1, <3>2 DEF Copied, IdsIn
    <3>5. DistinctIds(c.curs)
      BY <3>1, <3>2, <3>3 DEF Copied, DistinctIds
    <3> QED BY <3>4, <3>5
  <2> QED BY <1>1, <1>4, <2>4, <2>5 DEF Copied, Adds, Frees
<1>5. CASE m.type \in Operations
  <2>1. m.type # "DELETE_CURSOR" /\ m.type # "ADD_CURSOR"
    BY <1>5 DEF Operations
  <2>2. c = Operate(b, v, m.type, m.payload)
    BY <2>1 DEF Follow
  <2>3. SameIds(b, c)
    <3>1. Fitting(m.type, m.payload) /\ (m.type # "INSERT" => HasCursor(b, v))
      BY <1>5, <2>1 DEF Sent
    <3> QED BY <1>2, <1>5, <2>2, <3>1, OperateSound DEF Copied
  <2>4. \A u : Has(c, u) <=> Has(b, u)
    BY <2>3, HasSame
  <2>5. IdsIn(c, Users) /\ DistinctIds(c.curs)
    BY <2>3 DEF Copied, SameIds, IdsIn, DistinctIds
  <2> QED BY <1>1, <2>1, <2>4, <2>5 DEF Copied, Adds, Frees
<1> QED BY <1>3, <1>4, <1>5 DEF CursorMessages

-----------------------------------------------------------------------------
(***************************************************************************)
(* What an editor has been told of the others: d is its stream, s its      *)
(* state, c its copy and k its connection; w is the worker's buffer, and   *)
(* those of A await their cursors.  It starts from the copy, or from the   *)
(* buffer that is on its way: message q of the stream, or none (0).        *)
(***************************************************************************)
HasBase(d, s, q) ==
  \/ q = 0 /\ s = "open"
  \/ q \in 1 .. Len(d) /\ s = "waiting" /\ d[q].type = "FILE_RESPONSE"

Base(d, c, q) == IF q = 0 THEN c ELSE d[q].payload

\* What follows the buffer b about p.
Following(p, b, d, q, k, w, A) ==
  /\ Follows(b, d, q, account[p])
  /\ Expects(b, d, q, account[p]) => p \notin A
  /\ k = "polled" /\ Has(w, account[p]) => Keeps(b, d, q, account[p])

FollowingAll(e, d, s, c, k, w, A) ==
  \A q \in 0 .. Len(d) : HasBase(d, s, q) =>
    \A p \in Editors \ {e} : Following(p, Base(d, c, q), d, q, k, w, A)

\* Every message is about another user, every buffer is of users.
OfOthers(e, d) ==
  \A m \in ToSet(d) :
    /\ m.type \in Operations \cup CursorMessages => \E p \in Editors \ {e} : m.user_id = account[p]
    /\ m.type = "FILE_RESPONSE" => IdsIn(m.payload, Users)

Told(e, d, s, c, k, w, A) ==
  /\ FollowingAll(e, d, s, c, k, w, A) /\ OfOthers(e, d)
  /\ s = "open" => Copied(c)
  /\ k = "backlog" => d = << >> /\ s # "open"

\* Without a buffer nothing is followed.
LEMMA ToldNothing ==
  ASSUME NEW e, NEW d, OfOthers(e, d), NEW s, s # "open", NEW k, k = "backlog" => d = << >>,
         NEW c, NEW w, NEW A, s = "waiting" => \A q \in 1 .. Len(d) : d[q].type # "FILE_RESPONSE"
  PROVE  Told(e, d, s, c, k, w, A)
<1>1. \A q \in 0 .. Len(d) : ~HasBase(d, s, q)
  BY DEF HasBase
<1> QED BY <1>1 DEF Told, FollowingAll

\* Nothing new on the stream, though the connection may have another state.
LEMMA ToldSame ==
  ASSUME NEW e, NEW d, NEW s, NEW c, NEW k, NEW w, NEW A, Told(e, d, s, c, k, w, A),
         NEW B \in SUBSET A, NEW v, NEW l, l = "backlog" => k = "backlog",
         l = "polled" => k = "backlog" \/ (k = "polled" /\ \A u \in Users : Has(v, u) => Has(w, u))
  PROVE  Told(e, d, s, c, l, v, B)
<1>1. ASSUME NEW q \in 0 .. Len(d), HasBase(d, s, q), NEW p \in Editors \ {e}
      PROVE  Following(p, Base(d, c, q), d, q, l, v, B)
  <2>1. k # "backlog"
    <3>1. Len(<< >>) = 0
      BY EmptyStream
    <3> QED BY <1>1, <3>1 DEF HasBase, Told
  <2>2. Following(p, Base(d, c, q), d, q, k, w, A)
    BY <1>1 DEF Told, FollowingAll
  <2>3. account[p] \in Users
    BY DEF Users
  <2> QED BY <2>1, <2>2, <2>3 DEF Following
<1> QED BY <1>1 DEF Told, FollowingAll

\* Word of p is added to the stream.
Word(m, p, w, v, A, B) ==
  /\ m.type \in Operations \cup CursorMessages /\ m.user_id = account[p]
  /\ Adds(m, account[p]) => p \in A /\ p \notin B
  /\ Needs(m, account[p]) => Has(w, account[p])
  /\ Frees(m, account[p]) => ~Has(v, account[p])
  /\ \A u \in Users : Has(v, u) => Has(w, u) \/ Adds(m, u)

LEMMA OthersMore ==
  ASSUME NEW e, NEW d, IsStream(d), OfOthers(e, d), NEW m, NEW t, Longer(d, t, m),
         m.type \in Operations \cup CursorMessages => \E p \in Editors \ {e} : m.user_id = account[p],
         m.type = "FILE_RESPONSE" => IdsIn(m.payload, Users)
  PROVE  OfOthers(e, t)
<1>1. ToSet(t) = ToSet(d) \cup {m}
  BY LongerSet
<1> QED BY <1>1 DEF OfOthers

LEMMA ToldMore ==
  ASSUME OwnAccounts, NEW e \in Editors,
         NEW d, IsStream(d), NEW s, NEW c, NEW w, NEW A, Told(e, d, s, c, "polled", w, A),
         NEW p \in Editors \ {e}, NEW m, NEW v, NEW B \in SUBSET A, Word(m, p, w, v, A, B),
         NEW t, Longer(d, t, m)
  PROVE  Told(e, t, s, c, "polled", v, B)
<1> PICK N : N = Len(d)
  OBVIOUS
<1>1. N \in Nat /\ Len(t) = N + 1 /\ t[N + 1] = m /\ \A i \in 1 .. N : t[i] = d[i]
  BY StreamFacts DEF Longer
<1>2. m.type # "FILE_RESPONSE"
  BY DEF Word, Operations, CursorMessages
<1>3. ASSUME NEW q \in 0 .. Len(t), HasBase(t, s, q)
      PROVE  q \in 0 .. N /\ HasBase(d, s, q) /\ Base(t, c, q) = Base(d, c, q)
  <2>1. q # N + 1
    BY <1>1, <1>2, <1>3 DEF HasBase
  <2>2. q \in 0 .. N /\ (q # 0 => q \in 1 .. N)
    BY <1>1, <2>1
  <2> QED BY <1>1, <1>3, <2>2 DEF HasBase, Base
<1>4. ASSUME NEW q \in 0 .. N, HasBase(d, s, q), NEW f \in Editors \ {e}
      PROVE  Following(f, Base(d, c, q), t, q, "polled", v, B)
  <2> PICK b, u : b = Base(d, c, q) /\ u = account[f]
    OBVIOUS
  <2>1. /\ Follows(b, d, q, u) /\ (Expects(b, d, q, u) => f \notin A)
        /\ Has(w, u) => Keeps(b, d, q, u)
    BY <1>4 DEF Told, FollowingAll, Following
  <2>2. (Adds(m, u) \/ Needs(m, u) \/ Frees(m, u)) => f = p
    BY DEF Adds, Needs, Frees, Word, OwnAccounts
  <2>3. (Needs(m, u) => Keeps(b, d, q, u)) /\ (Adds(m, u) => ~Expects(b, d, q, u))
    BY <2>1, <2>2 DEF Word
  <2>4. q \in 0 .. Len(d)
    OBVIOUS
  <2>5. /\ Follows(b, t, q, u)
        /\ Expects(b, t, q, u) => Expects(b, d, q, u) \/ Adds(m, u)
        /\ (Keeps(b, d, q, u) \/ Adds(m, u)) /\ ~Frees(m, u) => Keeps(b, t, q, u)
    BY <2>1, <2>3, <2>4, FollowsMore
  <2>6. Expects(b, t, q, u) => f \notin B
    BY <2>1, <2>2, <2>5 DEF Word
  <2>7. Has(v, u) => Keeps(b, t, q, u)
    <3>1. Has(v, u) => (Has(w, u) \/ Adds(m, u))
      BY DEF Word, Users
    <3>2. Frees(m, u) => ~Has(v, u)
      BY <2>2 DEF Word
    <3> QED BY <2>1, <2>5, <3>1, <3>2
  <2> QED BY <2>5, <2>6, <2>7 DEF Following
<1>5. FollowingAll(e, t, s, c, "polled", v, B)
  BY <1>3, <1>4 DEF FollowingAll
<1>6. OfOthers(e, t)
  <2>1. OfOthers(e, d)
    BY DEF Told
  <2>2. \E f \in Editors \ {e} : m.user_id = account[f]
    BY DEF Word
  <2> QED BY <1>2, <2>1, <2>2, OthersMore
<1> QED BY <1>5, <1>6 DEF Told

\* The answer to a first message; with the file come all who have a cursor.
LEMMA ToldAnswer ==
  ASSUME NEW e \in Editors, NEW d, IsStream(d), OfOthers(e, d), ~Carries(d, Answers),
         NEW s, s # "open", NEW m, m.type \in Answers, NEW t, Longer(d, t, m), NEW c, NEW v, NEW B,
         m.type = "FILE_RESPONSE" =>
           /\ IdsIn(m.payload, Users)
           /\ \A p \in Editors \ {e} : Has(m.payload, account[p]) => p \notin B
           /\ \A p \in Editors \ {e} : Has(v, account[p]) => Has(m.payload, account[p])
  PROVE  Told(e, t, s, c, "polled", v, B)
<1> PICK N : N = Len(d)
  OBVIOUS
<1>1. N \in Nat /\ Len(t) = N + 1 /\ t[N + 1] = m /\ (\A i \in 1 .. N : t[i] = d[i])
      /\ \A i \in 1 .. N : d[i] \in ToSet(d)
  BY StreamFacts DEF Longer
<1>2. m.type \notin Operations \cup CursorMessages
  BY DEF Answers, Operations, CursorMessages
<1>3. OfOthers(e, t)
  BY <1>2, OthersMore
<1>4. ASSUME NEW q \in 0 .. Len(t), HasBase(t, s, q)
      PROVE  q = N + 1 /\ Base(t, c, q) = m.payload /\ m.type = "FILE_RESPONSE"
  <2>1. q \in 1 .. N + 1 /\ t[q].type = "FILE_RESPONSE"
    BY <1>1, <1>4 DEF HasBase
  <2>2. q \notin 1 .. N
    <3> SUFFICES ASSUME q \in 1 .. N PROVE FALSE
      OBVIOUS
    <3>1. d[q] \in ToSet(d) /\ d[q].type \in Answers
      BY <1>1, <2>1 DEF Answers
    <3> QED BY <3>1 DEF Carries
  <2>3. q = N + 1 /\ q # 0
    BY <1>1, <2>1, <2>2
  <2> QED BY <1>1, <2>1, <2>3 DEF Base
<1>5. ASSUME NEW p \in Editors \ {e}, m.type = "FILE_RESPONSE"
      PROVE  Following(p, m.payload, t, N + 1, "polled", v, B)
  <2> PICK b, u : b = m.payload /\ u = account[p]
    OBVIOUS
  <2>1. (N + 1) + 1 .. Len(t) = {}
    BY <1>1
  <2>2. /\ Follows(b, t, N + 1, u)
        /\ Expects(b, t, N + 1, u) <=> Has(b, u)
        /\ Keeps(b, t, N + 1, u) <=> Has(b, u)
    BY <2>1 DEF Follows, Expects, Keeps
  <2> QED BY <1>5, <2>2 DEF Following
<1>6. FollowingAll(e, t, s, c, "polled", v, B)
  BY <1>4, <1>5 DEF FollowingAll
<1> QED BY <1>3, <1>6 DEF Told

-----------------------------------------------------------------------------
\* A message is taken.
LEMMA OthersLess ==
  ASSUME NEW e, NEW d, IsStream(d), OfOthers(e, d), NEW t, RestOf(d, t)
  PROVE  OfOthers(e, t) /\ d # << >>
<1>1. ToSet(t) \subseteq ToSet(d)
  <2>1. /\ ToSet(d) = { d[i] : i \in 1 .. Len(d) } /\ ToSet(t) = { t[i] : i \in 1 .. Len(t) }
        /\ Len(d) \in Nat /\ Len(t) = Len(d) - 1 /\ \A i \in 1 .. Len(t) : t[i] = d[i + 1]
    BY StreamFacts DEF RestOf
  <2>2. \A i \in 1 .. Len(t) : i + 1 \in 1 .. Len(d)
    BY <2>1
  <2> QED BY <2>1, <2>2
<1>2. d # << >>
  BY EmptyStream DEF RestOf
<1> QED BY <1>1, <1>2 DEF OfOthers

\* The message was taken before the file is, or was the file.
LEMMA ToldBefore ==
  ASSUME OwnAccounts, NEW e \in Editors,
         NEW d, IsStream(d), NEW c, NEW k, NEW w, NEW A, Told(e, d, "waiting", c, k, w, A),
         NEW t, RestOf(d, t), NEW s, NEW x,
         \/ s = "waiting" /\ d[1].type # "FILE_RESPONSE"
         \/ /\ s = "open" /\ d[1].type = "FILE_RESPONSE" /\ Copied(x)
            /\ \A u \in Users : Has(x, u) <=> Has(d[1].payload, u)
  PROVE  Told(e, t, s, x, k, w, A)
<1> PICK N : N = Len(d)
  OBVIOUS
<1>1. N \in Nat /\ N >= 1 /\ Len(t) = N - 1 /\ 1 \in 1 .. N /\ \A i \in 1 .. N - 1 : t[i] = d[i + 1]
  BY DEF RestOf
<1>2. ASSUME NEW r \in 0 .. Len(t), HasBase(t, s, r)
      PROVE  /\ r + 1 \in 1 .. N /\ d[r + 1].type = "FILE_RESPONSE" /\ (r + 1) - 1 = r
             /\ \A u \in Users : Has(Base(t, x, r), u) <=> Has(d[r + 1].payload, u)
  <2>1. r + 1 \in 1 .. N /\ (r + 1) - 1 = r /\ (r # 0 => r \in 1 .. N - 1)
    BY <1>1
  <2>2. CASE s = "open"
    <3>1. r = 0 /\ r + 1 = 1
      BY <1>2, <2>2 DEF HasBase
    <3> QED BY <2>1, <2>2, <3>1 DEF Base
  <2>3. CASE s = "waiting"
    <3>1. r \in 1 .. N - 1 /\ t[r].type = "FILE_RESPONSE" /\ r # 0
      BY <1>1, <1>2, <2>3 DEF HasBase
    <3> QED BY <1>1, <2>1, <3>1 DEF Base
  <2> QED BY <2>1, <2>2, <2>3
<1>3. ASSUME NEW r \in 0 .. Len(t), HasBase(t, s, r), NEW p \in Editors \ {e}
      PROVE  Following(p, Base(t, x, r), t, r, k, w, A)
  <2> PICK q : q = r + 1
    OBVIOUS
  <2> PICK b, y, u : b = d[q].payload /\ y = Base(t, x, r) /\ u = account[p]
    OBVIOUS
  <2>1. q \in 1 .. Len(d) /\ d[q].type = "FILE_RESPONSE" /\ q - 1 = r /\ (Has(y, u) <=> Has(b, u))
    BY <1>2, <1>3 DEF Users
  <2>2. q \in 0 .. Len(d) /\ q # 0
    BY <2>1
  <2>3. Following(p, b, d, q, k, w, A)
    <3>1. HasBase(d, "waiting", q) /\ Base(d, c, q) = b
      BY <2>1, <2>2 DEF HasBase, Base
    <3> QED BY <2>2, <3>1 DEF Told, FollowingAll
  <2>4. /\ Follows(y, t, q - 1, u)
        /\ Expects(y, t, q - 1, u) => Expects(b, d, q, u)
        /\ Keeps(b, d, q, u) => Keeps(y, t, q - 1, u)
    BY <2>1, <2>3, FollowsLater DEF Following
  <2> QED BY <2>1, <2>3, <2>4 DEF Following
<1>4. OfOthers(e, t) /\ k # "backlog"
  BY OthersLess DEF Told
<1> QED BY <1>3, <1>4 DEF Told, FollowingAll

\* The message was taken by an editor that has the file.
LEMMA ToldTaken ==
  ASSUME OwnAccounts, NEW e \in Editors,
         NEW d, IsStream(d), NEW c, NEW k, NEW w, NEW A, Told(e, d, "open", c, k, w, A),
         NEW t, RestOf(d, t), NEW x, Copied(x),
         \A u \in Users : Has(x, u) <=> ((Has(c, u) \/ Adds(d[1], u)) /\ ~Frees(d[1], u))
  PROVE  Told(e, t, "open", x, k, w, A)
<1>1. 0 \in 0 .. Len(d) /\ 0 \in 0 .. Len(t)
  BY StreamFacts DEF RestOf
<1>2. ASSUME NEW p \in Editors \ {e} PROVE Following(p, x, t, 0, k, w, A)
  <2> PICK u : u = account[p]
    OBVIOUS
  <2>1. Following(p, c, d, 0, k, w, A)
    <3>1. HasBase(d, "open", 0) /\ Base(d, c, 0) = c
      BY DEF HasBase, Base
    <3> QED BY <1>1, <3>1 DEF Told, FollowingAll
  <2>2. Has(x, u) <=> ((Has(c, u) \/ Adds(d[1], u)) /\ ~Frees(d[1], u))
    BY DEF Users
  <2>3. /\ Follows(x, t, 0, u)
        /\ Expects(x, t, 0, u) => Expects(c, d, 0, u)
        /\ Keeps(c, d, 0, u) => Keeps(x, t, 0, u)
    BY <2>1, <2>2, FollowsTaken DEF Following
  <2> QED BY <2>1, <2>3 DEF Following
<1>3. OfOthers(e, t) /\ k # "backlog"
  BY OthersLess DEF Told
<1>4. ASSUME NEW r \in 0 .. Len(t), HasBase(t, "open", r) PROVE r = 0 /\ Base(t, x, r) = x
  BY <1>4 DEF HasBase, Base
<1> QED BY <1>2, <1>3, <1>4 DEF Told, FollowingAll

\* An own key changes no cursor's id.
LEMMA ToldPressed ==
  ASSUME NEW e \in Editors, NEW d, NEW c, NEW k, NEW w, NEW A, Told(e, d, "open", c, k, w, A),
         NEW x, SameIds(c, x), Sound(x)
  PROVE  Told(e, d, "open", x, k, w, A)
<1>1. Copied(x)
  BY DEF Told, Copied, SameIds, DistinctIds, IdsIn
<1>2. \A u : Has(x, u) <=> Has(c, u)
  BY HasSame
<1>3. ASSUME NEW r \in 0 .. Len(d), HasBase(d, "open", r), NEW p \in Editors \ {e}
      PROVE  Following(p, Base(d, x, r), d, r, k, w, A)
  <2>1. r = 0 /\ Base(d, x, r) = x /\ Base(d, c, r) = c
    BY <1>3 DEF HasBase, Base
  <2>2. Following(p, c, d, 0, k, w, A)
    BY <1>3, <2>1 DEF Told, FollowingAll
  <2> QED BY <1>2, <2>1, <2>2 DEF Following, Follows, Expects, Keeps
<1> QED BY <1>1, <1>3 DEF Told, FollowingAll

-----------------------------------------------------------------------------
(***************************************************************************)
(* Steps keep what the editors have been told.                             *)
(***************************************************************************)
AllTold ==
  \A e \in Editors : Told(e, down[e], editor[e], copy[e], conn[e], worker, Awaited)

\* A user who has a cursor at the worker has one, and is not awaited.
LEMMA WorkerHas ==
  ASSUME OwnAccounts, Sound(worker), Match
  PROVE  /\ IdsIn(worker, Users)
         /\ \A u \in Users : \A j, k \in Slots :
              worker.curs[j].id = u /\ worker.curs[k].id = u => j = k
         /\ \A p \in Editors : Has(worker, account[p]) => p \notin Awaited
<1>1. PICK of : Dealt(worker, Awaited, Owners, of)
  BY DEF Match
<1>2. \A k \in Used(worker) : /\ of[k] \in Editors /\ worker.curs[k].id = account[of[k]]
                              /\ of[k] \notin Awaited
  BY <1>1 DEF Dealt
<1>3. \A k \in Slots : worker.curs[k].id \in Users \cup {NULL}
  BY <1>2 DEF Used, Users
<1>4. worker.curs[Own].id = Own
  BY DEF Sound, GoodCursors, IdsOfSlots
<1>5. IdsIn(worker, Users)
  BY <1>3, <1>4 DEF IdsIn, AllSlots
<1>6. ASSUME NEW p \in Editors, NEW k \in Slots, worker.curs[k].id = account[p]
      PROVE  k \in Used(worker) /\ of[k] = p
  <2>1. k \in Used(worker)
    BY <1>6, UserIds DEF Used
  <2> QED BY <1>2, <1>6, <2>1 DEF OwnAccounts
<1>7. \A p \in Editors : Has(worker, account[p]) => p \notin Awaited
  BY <1>2, <1>6 DEF Has
<1>8. ASSUME NEW u \in Users, NEW j \in Slots, NEW k \in Slots,
             worker.curs[j].id = u, worker.curs[k].id = u
      PROVE  j = k
  <2>1. PICK p \in Editors : u = account[p]
    BY DEF Users
  <2>2. j \in Used(worker) /\ k \in Used(worker) /\ of[j] = p /\ of[k] = p
    BY <1>6, <1>8, <2>1
  <2> QED BY <1>1, <2>2 DEF Dealt
<1> QED BY <1>5, <1>7, <1>8

\* An editor to whom nothing happens.
LEMMA UntouchedTold ==
  ASSUME AllTold, NEW f \in Editors, Awaited' \subseteq Awaited,
         down'[f] = down[f], editor'[f] = editor[f], copy'[f] = copy[f], conn'[f] = conn[f],
         conn[f] = "polled" => \A u \in Users : Has(worker', u) => Has(worker, u)
  PROVE  Told(f, down'[f], editor'[f], copy'[f], conn'[f], worker', Awaited')
<1> PICK d, s, c, k, w, A : /\ d = down[f] /\ s = editor[f] /\ c = copy[f] /\ k = conn[f]
                            /\ w = worker /\ A = Awaited
  OBVIOUS
<1> PICK v, B : v = worker' /\ B = Awaited'
  OBVIOUS
<1>1. Told(f, d, s, c, k, w, A)
  BY DEF AllTold
<1>2. Told(f, d, s, c, k, v, B)
  BY <1>1, ToldSame
<1> QED BY <1>2

\* One whose editor has ended.
LEMMA EndedTold ==
  ASSUME AllTold, NEW f \in Editors, NEW d, OfOthers(f, d), down[f] = << >> => d = << >>,
         NEW s, s \notin {"open", "waiting"}, NEW k, k = "backlog" => conn[f] = "backlog", NEW c, NEW v, NEW B
  PROVE  Told(f, d, s, c, k, v, B)
<1>1. k = "backlog" => d = << >>
  BY DEF AllTold, Told
<1> QED BY <1>1, ToldNothing

\* Word of e is sent to the others.
LEMMA WordTold ==
  ASSUME OwnAccounts, Streams(down), Places, AllTold, NEW e \in Editors,
         NEW out, Send(out), running' # "sigpipe", out[e] = << >> \/ (\E m : out[e] = <<m>>),
         NEW x, \A f \in Editors : f # e => out[f] = IF f \in Polled THEN <<x>> ELSE << >>,
         \A f \in Editors : f # e => conn'[f] = conn[f],
         editor' = editor, copy' = copy, Awaited' \subseteq Awaited,
         Word(x, e, worker, worker', Awaited, Awaited'),
         NEW f \in Editors \ {e}
  PROVE  Told(f, down'[f], editor'[f], copy'[f], conn'[f], worker', Awaited')
<1>1. \A g \in Editors : out[g] = << >> \/ (\E m : out[g] = <<m>>)
  OBVIOUS
<1>2. /\ down'[f] = down[f] \/ (~Ended(f) /\ \E m : out[f] = <<m>>)
      /\ ~Ended(f) /\ out[f] = <<x>> => Longer(down[f], down'[f], x)
  BY <1>1, SendDown
<1> PICK d, s, c, w, A : /\ d = down[f] /\ s = editor[f] /\ c = copy[f]
                         /\ w = worker /\ A = Awaited
  OBVIOUS
<1> PICK t, v, B : t = down'[f] /\ v = worker' /\ B = Awaited'
  OBVIOUS
<1>3. IsStream(d) /\ Told(f, d, s, c, conn[f], w, A)
  BY DEF AllTold, Streams
<1>4. CASE f \in Polled /\ ~Ended(f)
  <2>1. conn[f] = "polled" /\ conn'[f] = "polled" /\ Longer(d, t, x)
    BY <1>2, <1>4 DEF Places
  <2>2. e \in Editors \ {f} /\ B \in SUBSET A /\ Word(x, e, w, v, A, B)
    OBVIOUS
  <2>3. Told(f, t, s, c, "polled", v, B)
    BY <1>3, <2>1, <2>2, ToldMore
  <2> QED BY <2>1, <2>3
<1>5. CASE Ended(f)
  <2>1. t = d /\ s \notin {"open", "waiting"} /\ OfOthers(f, d) /\ conn'[f] = conn[f]
    BY <1>2, <1>3, <1>5 DEF Ended, Ends, Told
  <2>2. Told(f, t, s, c, conn[f], v, B)
    BY <2>1, EndedTold
  <2> QED BY <2>1, <2>2
<1>6. CASE f \notin Polled
  <2>1. conn[f] # "polled" /\ out[f] = << >>
    BY <1>6 DEF Places
  <2>2. down'[f] = down[f]
    BY <1>2, <2>1, NoMessage
  <2> QED BY <2>1, <2>2, UntouchedTold
<1> QED BY <1>4, <1>5, <1>6

\* e is answered.
LEMMA AnswerTold ==
  ASSUME Inv, InStep, AllTold, NEW e \in Editors, conn[e] = "polled",
         up[e] # << >>, Taken(e), Head(up[e]).type \in Starting,
         NEW m, m.type \in Answers, down'[e] = down[e] \/ Longer(down[e], down'[e], m),
         ~Ended(e) => Longer(down[e], down'[e], m),
         editor' = editor, conn' = conn, copy' = copy,
         m.type = "FILE_RESPONSE" =>
           /\ IdsIn(m.payload, Users)
           /\ \A p \in Editors \ {e} : Has(m.payload, account[p]) => p \notin Awaited'
           /\ \A p \in Editors \ {e} : Has(worker', account[p]) => Has(m.payload, account[p])
  PROVE  Told(e, down'[e], editor'[e], copy'[e], conn'[e], worker', Awaited')
<1> PICK u, d, s, c : u = up[e] /\ d = down[e] /\ s = editor[e] /\ c = copy[e]
  OBVIOUS
<1> PICK t, v, B : t = down'[e] /\ v = worker' /\ B = Awaited'
  OBVIOUS
<1>1. /\ IsStream(u) /\ IsStream(d) /\ InTurn(u, d, s, conn[e]) /\ Shorter(u, up'[e])
      /\ OfOthers(e, d)
  BY TakeUp DEF Inv, UpGood, DownGood, Streams, InStep, Turns, Turn, AllTold, Told
<1>2. ~Carries(d, Answers) /\ s \notin {"open", "idle"}
  <2>1. Carries(u, Starting)
    BY <1>1, CarriesHead
  <2> QED BY <1>1, <2>1, TurnTaken
<1>3. CASE Longer(d, t, m)
  <2>1. m.type = "FILE_RESPONSE" =>
           /\ IdsIn(m.payload, Users)
           /\ \A p \in Editors \ {e} : Has(m.payload, account[p]) => p \notin B
           /\ \A p \in Editors \ {e} : Has(v, account[p]) => Has(m.payload, account[p])
    OBVIOUS
  <2>2. Told(e, t, s, c, "polled", v, B)
    BY <1>1, <1>2, <1>3, <2>1, ToldAnswer
  <2> QED BY <2>2
<1>4. CASE t = d /\ Ended(e)
  <2>1. s \notin {"open", "waiting"}
    BY <1>4 DEF Ended, Ends
  <2>2. Told(e, t, s, c, "polled", v, B)
    BY <1>1, <1>4, <2>1, EndedTold
  <2> QED BY <2>2
<1> QED BY <1>3, <1>4

-----------------------------------------------------------------------------
LEMMA ClosedTold ==
  ASSUME Inv, AllTold, NEW e \in Editors, Close(e), Awaited' \subseteq Awaited,
         worker' = worker, editor' = editor, copy' = copy, down' = down
  PROVE  AllTold'
<1>1. conn'[e] = "closed" /\ \A f \in Editors : f # e => conn'[f] = conn[f]
  BY DEF Close, Inv, Plain
<1>2. ASSUME NEW f \in Editors, f # e
      PROVE  Told(f, down'[f], editor'[f], copy'[f], conn'[f], worker', Awaited')
  BY <1>1, <1>2, UntouchedTold
<1>3. Told(e, down'[e], editor'[e], copy'[e], conn'[e], worker', Awaited')
  <2> PICK d, s, c, k, w, A : /\ d = down[e] /\ s = editor[e] /\ c = copy[e] /\ k = conn[e]
                              /\ w = worker /\ A = Awaited
    OBVIOUS
  <2> PICK B : B = Awaited'
    OBVIOUS
  <2>1. Told(e, d, s, c, k, w, A)
    BY DEF AllTold
  <2>2. Told(e, d, s, c, "closed", w, B)
    BY <2>1, ToldSame
  <2> QED BY <1>1, <2>2
<1> QED BY <1>2, <1>3 DEF AllTold

LEMMA AcceptTold ==
  ASSUME Inv, AllTold, NEW e \in Editors, Accept(e), Awaited' \subseteq Awaited PROVE AllTold'
<1>1. /\ conn[e] = "backlog" /\ conn'[e] \in {"ignored", "polled"}
      /\ \A f \in Editors : f # e => conn'[f] = conn[f]
      /\ UNCHANGED <<worker, editor, copy, down>>
  <2>1. conn[e] = "backlog" /\ conn = [f \in Editors |-> conn[f]] /\ UNCHANGED <<worker, editor, copy, down>>
    BY DEF Accept, Inv, Plain, net
  <2>2. conn' = [conn EXCEPT ![e] = "ignored"] \/ conn' = [conn EXCEPT ![e] = "polled"]
    BY DEF Accept
  <2> QED BY <2>1, <2>2
<1>2. ASSUME NEW f \in Editors, f # e
      PROVE  Told(f, down'[f], editor'[f], copy'[f], conn'[f], worker', Awaited')
  BY <1>1, <1>2, UntouchedTold
<1>3. Told(e, down'[e], editor'[e], copy'[e], conn'[e], worker', Awaited')
  <2> PICK d, s, c, w, A : d = down[e] /\ s = editor[e] /\ c = copy[e] /\ w = worker /\ A = Awaited
    OBVIOUS
  <2> PICK B, l : B = Awaited' /\ l = conn'[e]
    OBVIOUS
  <2>1. Told(e, d, s, c, "backlog", w, A)
    BY <1>1 DEF AllTold
  <2>2. Told(e, d, s, c, l, w, B)
    BY <1>1, <2>1, ToldSame
  <2> QED BY <1>1, <2>2
<1> QED BY <1>2, <1>3 DEF AllTold

LEMMA LoginTold ==
  ASSUME Inv, InStep, AllTold, NEW e \in Editors, Login(e), Awaited' \subseteq Awaited,
         running' # "sigpipe"
  PROVE  AllTold'
<1> PICK m : m = Msg("MSG_OK", account[e], NoBuffer)
  OBVIOUS
<1> PICK out : out = Reply(e, m)
  OBVIOUS
<1>1. /\ up[e] # << >> /\ Taken(e) /\ Head(up[e]).type = "LOGIN" /\ Send(out) /\ conn[e] = "polled"
      /\ UNCHANGED <<worker, conn, editor, copy>>
  BY DEF Login, Brings
<1>2. \A f \in Editors : out[f] = IF f = e THEN <<m>> ELSE << >>
  BY Outgoing
<1>3. \A f \in Editors : out[f] = << >> \/ \E x : out[f] = <<x>>
  BY <1>2
<1>4. /\ \A f \in Editors : down'[f] = down[f] \/ (~Ended(f) /\ \E x : out[f] = <<x>>)
      /\ \A f \in Editors : \A x : ~Ended(f) /\ out[f] = <<x>> => Longer(down[f], down'[f], x)
  BY <1>1, <1>3, SendDown DEF Inv, DownGood
<1>5. ASSUME NEW f \in Editors, f # e
      PROVE  Told(f, down'[f], editor'[f], copy'[f], conn'[f], worker', Awaited')
  <2>1. down'[f] = down[f]
    BY <1>2, <1>4, <1>5, NoMessage
  <2> QED BY <1>1, <2>1, UntouchedTold
<1>6. Told(e, down'[e], editor'[e], copy'[e], conn'[e], worker', Awaited')
  <2>1. (~Ended(e) => Longer(down[e], down'[e], m)) /\ (down'[e] = down[e] \/ Longer(down[e], down'[e], m))
    BY <1>2, <1>4
  <2>2. m.type \in Answers /\ m.type # "FILE_RESPONSE" /\ Head(up[e]).type \in Starting
    BY <1>1, MsgIs DEF Answers, Starting
  <2> QED BY <1>1, <2>1, <2>2, AnswerTold
<1> QED BY <1>5, <1>6 DEF AllTold

LEMMA FileRequestTold ==
  ASSUME OwnAccounts, Inv, InStep, AllTold, NEW e \in Editors, FileRequest(e),
         Awaited' \subseteq Awaited \ {e}, running' # "sigpipe"
  PROVE  AllTold'
<1> PICK u : u = account[e]
  OBVIOUS
<1> PICK m, w : /\ m = Msg("FILE_RESPONSE", u, buffer_serialize(worker))
                /\ w = Msg("ADD_CURSOR", u, NoBuffer)
  OBVIOUS
<1> PICK out : out = Both(Reply(e, m), send_msg_everyone(e, w))
  OBVIOUS
<1>1. /\ up[e] # << >> /\ Taken(e) /\ Head(up[e]).type = "FILE_REQUEST" /\ Send(out) /\ conn[e] = "polled"
      /\ worker' = bcursor_copy_own(worker, u)
      /\ UNCHANGED <<conn, editor, copy>>
  <2>1. Brings(e, {"FILE_REQUEST"})
    BY DEF FileRequest
  <2>2. Head(up[e]).user_id = u /\ up[e] # << >> /\ Head(up[e]).type = "FILE_REQUEST" /\ conn[e] = "polled"
    BY <2>1, Brings1
  <2> QED BY <2>2 DEF FileRequest
<1>2. \A f \in Editors : out[f] = IF f = e THEN <<m>> ELSE IF f \in Polled THEN <<w>> ELSE << >>
  BY Outgoing
<1>3. \A f \in Editors : out[f] = << >> \/ \E x : out[f] = <<x>>
  BY <1>2
<1>4. Streams(up) /\ Streams(down) /\ Served(worker) /\ Sound(worker) /\ Places /\ Match
  BY DEF Inv, UpGood, DownGood, Served, InStep
<1>5. \A p \in Editors : Has(worker', account[p]) => Has(worker, account[p]) \/ p = e
  <2>1. Joins(worker, worker', u)
    BY <1>1, <1>4, UserIds, CopyOwnServed
  <2> PICK b, c : b = worker /\ c = worker'
    OBVIOUS
  <2>2. \A p \in Editors : Has(c, account[p]) => Has(b, account[p]) \/ account[p] = u
    BY <2>1, UserIds, HasJoined
  <2> QED BY <2>2 DEF OwnAccounts
<1>6. m.type = "FILE_RESPONSE" /\ m.payload = buffer_serialize(worker) /\ w.type = "ADD_CURSOR" /\ w.user_id = u
  BY MsgIs
<1>7. e \in Awaited
  <2>1. Head(up[e]).type \in Starting
    BY <1>1 DEF Starting
  <2>2. Carries(up[e], Starting)
    BY <1>1, <1>4, <2>1, CarriesHead DEF Streams
  <2> QED BY <2>2 DEF Awaited, Awaiting
<1>8. Word(w, e, worker, worker', Awaited, Awaited')
  <2>1. ~Needs(w, u) /\ ~Frees(w, u) /\ Adds(w, u)
    BY <1>6 DEF Needs, Frees, Adds, Operations
  <2>2. \A x \in Users : Has(worker', x) => Has(worker, x) \/ Adds(w, x)
    BY <1>5, <2>1 DEF Users
  <2> QED BY <1>6, <1>7, <2>1, <2>2 DEF Word, CursorMessages
<1>9. ASSUME NEW f \in Editors, f # e
      PROVE  Told(f, down'[f], editor'[f], copy'[f], conn'[f], worker', Awaited')
  BY <1>1, <1>2, <1>3, <1>4, <1>8, <1>9, WordTold
<1>10. Told(e, down'[e], editor'[e], copy'[e], conn'[e], worker', Awaited')
  <2>1. /\ \A f \in Editors : down'[f] = down[f] \/ (~Ended(f) /\ \E x : out[f] = <<x>> /\ Longer(down[f], down'[f], x))
        /\ \A f \in Editors : \A x : ~Ended(f) /\ out[f] = <<x>> => Longer(down[f], down'[f], x)
    BY <1>1, <1>3, <1>4, SendDown
  <2>2. (~Ended(e) => Longer(down[e], down'[e], m)) /\ (down'[e] = down[e] \/ Longer(down[e], down'[e], m))
    BY <1>2, <2>1
  <2>3. m.type \in Answers /\ Head(up[e]).type \in Starting
    BY <1>1, <1>6 DEF Answers, Starting
  <2>4. IdsIn(m.payload, Users) /\ \A x : Has(m.payload, x) <=> Has(worker, x)
    <3>1. m.payload.curs = worker.curs
      BY <1>4, <1>6, SerializeSame DEF Same, Sound, GoodLines
    <3>2. IdsIn(worker, Users)
      BY <1>4, WorkerHas
    <3> QED BY <3>1, <3>2 DEF IdsIn, Has
  <2>5. /\ \A p \in Editors \ {e} : Has(m.payload, account[p]) => p \notin Awaited'
        /\ \A p \in Editors \ {e} : Has(worker', account[p]) => Has(m.payload, account[p])
    BY <1>4, <1>5, <2>4, WorkerHas
  <2> QED BY <1>1, <2>2, <2>3, <2>4, <2>5, AnswerTold
<1> QED BY <1>9, <1>10 DEF AllTold

LEMMA QuitTold ==
  ASSUME OwnAccounts, Inv, InStep, AllTold, NEW e \in Editors, Quit(e),
         Awaited' \subseteq Awaited, running' # "sigpipe"
  PROVE  AllTold'
<1> PICK u : u = account[e]
  OBVIOUS
<1> PICK w : w = Msg("DELETE_CURSOR", u, NoBuffer)
  OBVIOUS
<1> PICK out : out = send_msg_everyone(e, w)
  OBVIOUS
<1>1. /\ up[e] # << >> /\ Close(e) /\ Send(out) /\ conn[e] = "polled"
      /\ HasCursor(worker, u) /\ worker' = bcursor_free(worker, u)
      /\ UNCHANGED <<editor, copy>>
  <2>1. Brings(e, {"QUIT"})
    BY DEF Quit
  <2>2. Head(up[e]).user_id = u /\ up[e] # << >> /\ conn[e] = "polled"
    BY <2>1, Brings1
  <2> QED BY <2>2 DEF Quit
<1>2. \A f \in Editors : out[f] = IF f \in Polled \ {e} THEN <<w>> ELSE << >>
  BY Outgoing
<1>3. Streams(down) /\ Served(worker) /\ Sound(worker) /\ Places /\ Match
  BY DEF Inv, DownGood, Served, InStep
<1>4. conn'[e] = "closed" /\ \A f \in Editors : f # e => conn'[f] = conn[f]
  BY <1>1 DEF Close, Inv, Plain
<1>5. \A x \in Users : Has(worker', x) <=> (Has(worker, x) /\ x # u)
  <2>1. Leaves(worker, worker', u)
    BY <1>1, <1>3, UserIds, FreeServed
  <2>2. \A j, k \in Slots : worker.curs[j].id = u /\ worker.curs[k].id = u => j = k
    BY <1>3, WorkerHas DEF Users
  <2> PICK b, c : b = worker /\ c = worker'
    OBVIOUS
  <2>3. \A x \in Users : x # NULL
    BY UserIds DEF Users
  <2> QED BY <1>1, <1>3, <2>1, <2>2, <2>3, UserIds, HasLeft
<1>6. Word(w, e, worker, worker', Awaited, Awaited')
  <2>1. w.type = "DELETE_CURSOR" /\ w.user_id = u
    BY MsgIs
  <2>2. ~Adds(w, u)
    BY <2>1 DEF Adds
  <2>3. Has(worker, u) /\ ~Has(worker', u)
    BY <1>1, <1>3, <1>5, UserIds, HasIs DEF Users
  <2>4. \A x \in Users : Has(worker', x) => Has(worker, x) \/ Adds(w, x)
    BY <1>5
  <2> QED BY <2>1, <2>2, <2>3, <2>4 DEF Word, CursorMessages
<1>7. ASSUME NEW f \in Editors, f # e
      PROVE  Told(f, down'[f], editor'[f], copy'[f], conn'[f], worker', Awaited')
  <2>1. out[e] = << >> /\ \A g \in Editors : g # e => out[g] = IF g \in Polled THEN <<w>> ELSE << >>
    BY <1>2
  <2> QED BY <1>1, <1>3, <1>4, <1>6, <1>7, <2>1, WordTold
<1>8. Told(e, down'[e], editor'[e], copy'[e], conn'[e], worker', Awaited')
  <2>1. out[e] = << >> /\ \A f \in Editors : out[f] = << >> \/ \E m : out[f] = <<m>>
    BY <1>2
  <2>2. \A f \in Editors : down'[f] = down[f] \/ \E m : out[f] = <<m>>
    BY <1>1, <1>3, <2>1, SendDown
  <2>3. down'[e] = down[e]
    BY <2>1, <2>2, NoMessage
  <2> PICK d, s, c, k, b, A : /\ d = down[e] /\ s = editor[e] /\ c = copy[e] /\ k = conn[e]
                              /\ b = worker /\ A = Awaited
    OBVIOUS
  <2> PICK v, B : v = worker' /\ B = Awaited'
    OBVIOUS
  <2>4. Told(e, d, s, c, k, b, A)
    BY DEF AllTold
  <2>5. Told(e, d, s, c, "closed", v, B)
    BY <2>4, ToldSame
  <2> QED BY <1>1, <1>4, <2>3, <2>5
<1> QED BY <1>7, <1>8 DEF AllTold

LEMMA EditTold ==
  ASSUME OwnAccounts, Inv, InStep, AllTold, NEW e \in Editors, Edit(e),
         Awaited' \subseteq Awaited, running' # "sigpipe"
  PROVE  AllTold'
<1> PICK m : m = Head(up[e])
  OBVIOUS
<1> PICK u : u = account[e]
  OBVIOUS
<1> PICK out : out = send_msg_everyone(e, m)
  OBVIOUS
<1>1. /\ up[e] # << >> /\ m.type \in Operations /\ m.user_id = u /\ Fitting(m.type, m.payload)
      /\ conn[e] = "polled" /\ Send(out) /\ worker' = Operate(worker, u, m.type, m.payload)
      /\ UNCHANGED <<conn, editor, copy>>
  <2>1. Brings(e, Operations)
    BY DEF Edit
  <2>2. /\ up[e] # << >> /\ m.type \in Operations /\ m.user_id = account[e] /\ conn[e] = "polled"
        /\ Fitting(m.type, m.payload)
    BY <2>1, Brings1 DEF Operations
  <2> QED BY <2>2 DEF Edit
<1>2. \A f \in Editors : out[f] = IF f \in Polled \ {e} THEN <<m>> ELSE << >>
  BY Outgoing
<1>3. Streams(down) /\ Served(worker) /\ Sound(worker) /\ Places /\ Match
  BY DEF Inv, DownGood, Served, InStep
<1>4. HasCursor(worker, u)
  BY <1>1, UserOwns DEF Uses
<1>5. \A x : Has(worker', x) <=> Has(worker, x)
  <2>1. SameIds(worker, Operate(worker, u, m.type, m.payload))
    BY <1>1, <1>3, <1>4, UserIds, OperateServed
  <2> QED BY <1>1, <2>1, HasSame
<1>6. Word(m, e, worker, worker', Awaited, Awaited')
  <2>1. ~Adds(m, u) /\ ~Frees(m, u)
    BY <1>1 DEF Adds, Frees, Operations
  <2>2. Has(worker, u)
    BY <1>3, <1>4, UserIds, HasIs
  <2> QED BY <1>1, <1>5, <2>1, <2>2 DEF Word
<1>7. out[e] = << >> /\ \A g \in Editors : g # e => out[g] = IF g \in Polled THEN <<m>> ELSE << >>
  BY <1>2
<1>8. ASSUME NEW f \in Editors, f # e
      PROVE  Told(f, down'[f], editor'[f], copy'[f], conn'[f], worker', Awaited')
  BY <1>1, <1>3, <1>6, <1>7, <1>8, WordTold
<1>9. Told(e, down'[e], editor'[e], copy'[e], conn'[e], worker', Awaited')
  <2>1. \A f \in Editors : out[f] = << >> \/ \E x : out[f] = <<x>>
    BY <1>2
  <2>2. \A f \in Editors : down'[f] = down[f] \/ \E x : out[f] = <<x>>
    BY <1>1, <1>3, <2>1, SendDown
  <2>3. down'[e] = down[e]
    BY <1>7, <2>2, NoMessage
  <2> QED BY <1>1, <1>5, <2>3, UntouchedTold
<1> QED BY <1>8, <1>9 DEF AllTold

\* A step of the worker.
LEMMA WorkerTold ==
  ASSUME OwnAccounts, Inv, InStep, AllTold, NEW e \in Editors, WorkerStep(e), running' = "yes"
  PROVE  AllTold' /\ editor' = editor
<1>1. Awaited' \subseteq Awaited
  BY OwnAccountsFew, WorkerInStep DEF Progress
<1>2. CASE Accept(e)
  BY <1>1, <1>2, AcceptTold DEF Accept
<1>3. CASE HangUp(e) \/ NotLoggedIn(e)
  BY <1>1, <1>3, ClosedTold DEF HangUp, NotLoggedIn
<1>4. CASE Login(e)
  BY <1>1, <1>4, LoginTold DEF Login
<1>5. CASE FileRequest(e)
  <2>1. e \notin Awaited'
    BY <1>5, OwnAccountsFew, FileRequestInStep
  <2> QED BY <1>1, <1>5, <2>1, FileRequestTold DEF FileRequest
<1>6. CASE Quit(e)
  BY <1>1, <1>6, QuitTold DEF Quit
<1>7. CASE Edit(e)
  BY <1>1, <1>7, EditTold DEF Edit
<1>8. CASE WorkerFaults(e)
  <2>1. FALSE
    <3>1. running' = Fault(worker, Head(up[e]).user_id, Head(up[e]).type)
      BY <1>8 DEF WorkerFaults
    <3>2. running' \in {"none", "noCursor", "twoCursors", "noBottom"}
      BY <3>1, FaultIs
    <3> QED BY <3>2
  <2> QED BY <2>1
<1> QED BY <1>2, <1>3, <1>4, <1>5, <1>6, <1>7, <1>8 DEF WorkerStep

-----------------------------------------------------------------------------
LEMMA RestIs ==
  ASSUME NEW s, IsStream(s), s # << >> PROVE RestOf(s, SubSeq(s, 2, Len(s)))
<1>1. PICK S : s \in Seq(S)
  BY DEF IsStream
<1> PICK t : t = SubSeq(s, 2, Len(s))
  OBVIOUS
<1>2. Len(s) \in Nat /\ Len(s) >= 1
  BY StreamFacts
<1>3. /\ t \in Seq(S) /\ Len(t) = IF 2 <= Len(s) THEN Len(s) - 2 + 1 ELSE 0
      /\ \A i \in 1 .. Len(s) - 2 + 1 : t[i] = s[2 + i - 1]
  <2>1. \A i \in 2 .. Len(s) : i \in 1 .. Len(s)
    BY <1>2
  <2>2. 2 \in Int /\ Len(s) \in Int /\ \A i \in 2 .. Len(s) : s[i] \in S
    BY <1>1, <1>2, <2>1, ElementOfSeq
  <2> QED BY <2>2, SubSeqProperties
<1>4. \A n \in Nat : n >= 1 => /\ n - 2 + 1 = n - 1 /\ (IF 2 <= n THEN n - 2 + 1 ELSE 0) = n - 1
                               /\ \A i \in 1 .. n - 1 : 2 + i - 1 = i + 1
  OBVIOUS
<1>5. Len(t) = Len(s) - 1 /\ \A i \in 1 .. Len(t) : t[i] = s[i + 1]
  BY <1>2, <1>3, <1>4
<1> QED BY <1>2, <1>3, <1>5 DEF RestOf, IsStream

\* Where messages arrive one by one, one is taken.
LEMMA GetRest ==
  ASSUME Relays = "one", Streams(down), NEW e \in Editors, NEW types, Gets(e, types)
  PROVE  RestOf(down[e], down'[e]) /\ \A f \in Editors : f # e => down'[f] = down[f]
<1> PICK s : s = down[e]
  OBVIOUS
<1>1. s # << >> /\ IsStream(s)
  BY DEF Gets, Streams
<1>2. Rests(s) = { SubSeq(s, 1 + 1, Len(s)) }
  BY DEF Rests, Arrivals
<1>3. 1 + 1 = 2
  OBVIOUS
<1>4. down' = [down EXCEPT ![e] = SubSeq(s, 2, Len(s))]
  BY <1>2, <1>3 DEF Gets
<1>5. down'[e] = SubSeq(s, 2, Len(s)) /\ \A f \in Editors : f # e => down'[f] = down[f]
  BY <1>4 DEF Streams
<1> QED BY <1>1, <1>5, RestIs

\* The first message to an editor that has the file.
LEMMA FirstTold ==
  ASSUME OwnAccounts, NEW e \in Editors, NEW d, IsStream(d), NEW c, NEW k, NEW w, NEW A,
         Told(e, d, "open", c, k, w, A), NEW t, RestOf(d, t),
         d[1].type \in Operations \cup CursorMessages
  PROVE  \E p \in Editors \ {e} :
           /\ d[1].user_id = account[p]
           /\ d[1].type # "ADD_CURSOR" => HasCursor(c, account[p])
           /\ d[1].type = "ADD_CURSOR" => ~Has(c, account[p])
<1>1. 0 \in 0 .. Len(d) /\ 1 \in 0 + 1 .. Len(d) /\ d[1] \in ToSet(d)
  BY StreamFacts DEF RestOf
<1>2. PICK p \in Editors \ {e} : d[1].user_id = account[p]
  BY <1>1 DEF Told, OfOthers
<1>3. Follows(c, d, 0, account[p])
  <2>1. HasBase(d, "open", 0) /\ Base(d, c, 0) = c
    BY DEF HasBase, Base
  <2> QED BY <1>1, <2>1 DEF Told, FollowingAll, Following
<1>4. ASSUME d[1].type # "ADD_CURSOR" PROVE HasCursor(c, account[p])
  <2>1. Needs(d[1], account[p])
    BY <1>2, <1>4 DEF Needs, CursorMessages
  <2>2. Has(c, account[p])
    BY <1>3, <2>1, FirstFinds
  <2> QED BY <2>2, UserIds, HasIs DEF Told, Copied
<1>5. ASSUME d[1].type = "ADD_CURSOR" PROVE ~Has(c, account[p])
  <2>1. Adds(d[1], account[p])
    BY <1>2, <1>5 DEF Adds
  <2> QED BY <1>1, <1>3, <2>1 DEF Follows
<1> QED BY <1>2, <1>4, <1>5

\* One editor has moved on.
LEMMA OneTold ==
  ASSUME Inv, AllTold, NEW e \in Editors, Awaited' \subseteq Awaited, worker' = worker,
         \A f \in Editors : f # e => /\ down'[f] = down[f] /\ editor'[f] = editor[f]
                                     /\ copy'[f] = copy[f] /\ conn'[f] = conn[f],
         Told(e, down'[e], editor'[e], copy'[e], conn'[e], worker, Awaited),
         editor'[e] # "noCursor", EditorsFindCursors
  PROVE  AllTold' /\ EditorsFindCursors'
<1>1. ASSUME NEW f \in Editors, f # e
      PROVE  Told(f, down'[f], editor'[f], copy'[f], conn'[f], worker', Awaited')
  BY <1>1, UntouchedTold
<1>2. Told(e, down'[e], editor'[e], copy'[e], conn'[e], worker', Awaited')
  <2> PICK d, s, c, k, w, A : /\ d = down'[e] /\ s = editor'[e] /\ c = copy'[e] /\ k = conn'[e]
                              /\ w = worker /\ A = Awaited
    OBVIOUS
  <2> PICK B : B = Awaited'
    OBVIOUS
  <2>1. Told(e, d, s, c, k, w, A)
    OBVIOUS
  <2>2. B \in SUBSET A /\ (k = "polled" => k = "backlog" \/ (k = "polled" /\ \A u \in Users : Has(w, u) => Has(w, u)))
    OBVIOUS
  <2>3. Told(e, d, s, c, k, w, B)
    BY <2>1, <2>2, ToldSame
  <2> QED BY <2>3
<1>3. EditorsFindCursors'
  BY DEF EditorsFindCursors
<1> QED BY <1>1, <1>2, <1>3 DEF AllTold

\* A step of an editor.
LEMMA GetsTold ==
  ASSUME Relays = "one", OwnAccounts, Inv, InStep, AllTold, EditorsFindCursors,
         NEW e \in Editors, EditorGets(e)
  PROVE  AllTold' /\ EditorsFindCursors'
<1> PICK d, s, c, k, w, A : /\ d = down[e] /\ s = editor[e] /\ c = copy[e] /\ k = conn[e]
                            /\ w = worker /\ A = Awaited
  OBVIOUS
<1> PICK t : t = down'[e]
  OBVIOUS
<1> PICK m : m = Head(d)
  OBVIOUS
<1>1. PICK types : Gets(e, types)
  BY DEF EditorGets, GetOk, GetFile, GetEdit, GetGarbage, GetTooEarly, EditorFaults
<1>2. /\ UNCHANGED <<worker, conn>> /\ RestOf(d, t) /\ (\A f \in Editors : f # e => down'[f] = down[f])
      /\ IsStream(d) /\ d # << >> /\ s \in {"waiting", "open"} /\ InTurn(up[e], d, s, k)
  BY <1>1, GetRest DEF Inv, DownGood, Streams, Gets, Live, InStep, Turns, Turn
<1>3. m = d[1] /\ m \in ToSet(d) /\ Sent(m)
  BY <1>2, StreamFacts DEF Inv, DownGood
<1>4. Told(e, d, s, c, k, w, A) /\ OfOthers(e, d) /\ OfOthers(e, t)
  <2>1. Told(e, d, s, c, k, w, A) /\ OfOthers(e, d)
    BY DEF AllTold, Told
  <2> QED BY <1>2, <2>1, OthersLess
<1>5. Awaited' \subseteq Awaited
  BY GetsInStep DEF Progress
<1>6. m.type \in Answers => s = "waiting"
  <2>1. m.type \in Answers => Carries(d, Answers)
    BY <1>2, CarriesHead
  <2> QED BY <1>2, <2>1 DEF InTurn
<1>7. s = editor[e] /\ (\A f \in Editors : f # e => copy'[f] = copy[f] /\ editor'[f] = editor[f])
  BY DEF EditorGets, GetOk, GetFile, GetEdit, GetGarbage, GetTooEarly, EditorFaults, Becomes,
         Inv, Plain, CopyGood
<1>8. ASSUME Told(e, t, editor'[e], copy'[e], k, w, A), editor'[e] # "noCursor"
      PROVE  AllTold' /\ EditorsFindCursors'
  BY <1>2, <1>5, <1>7, <1>8, OneTold
<1>9. \A x : Becomes(e, x) => editor'[e] = x
  BY DEF Becomes, Inv, Plain
\* The message was no buffer and is not followed.
<1>10. ASSUME m.type \notin {"FILE_RESPONSE", "ADD_CURSOR", "DELETE_CURSOR"} \/ s = "waiting",
              m.type # "FILE_RESPONSE", editor' = editor, copy' = copy
       PROVE  AllTold' /\ EditorsFindCursors'
  <2>1. CASE s = "waiting"
    <3>1. Told(e, t, "waiting", c, k, w, A)
      BY <1>2, <1>3, <1>4, <1>10, <2>1, ToldBefore
    <3> QED BY <1>8, <1>10, <2>1, <3>1
  <2>2. CASE s = "open"
    <3>1. Copied(c)
      BY <1>4, <2>2 DEF Told
    <3>2. m.type # "ADD_CURSOR" /\ m.type # "DELETE_CURSOR"
      BY <1>10, <2>2
    <3>3. \A u \in Users : Has(c, u) <=> ((Has(c, u) \/ Adds(d[1], u)) /\ ~Frees(d[1], u))
      BY <1>3, <3>2 DEF Adds, Frees
    <3>4. Told(e, t, "open", c, k, w, A)
      BY <1>2, <1>4, <2>2, <3>1, <3>3, ToldTaken
    <3> QED BY <1>8, <1>10, <2>2, <3>4
  <2> QED BY <1>2, <2>1, <2>2
\* The editor has ended.
<1>11. ASSUME NEW x, Becomes(e, x), x \notin {"open", "waiting", "noCursor"}
       PROVE  AllTold' /\ EditorsFindCursors'
  <2>1. k # "backlog"
    BY <1>2, <1>4 DEF Told
  <2>2. editor'[e] = x
    BY <1>9, <1>11
  <2>3. Told(e, t, x, copy'[e], k, w, A)
    BY <1>4, <1>11, <2>1, ToldNothing
  <2> QED BY <1>8, <1>11, <2>2, <2>3
<1>12. CASE GetOk(e)
  <2>1. m.type = "MSG_OK" /\ editor' = editor /\ copy' = copy
    BY <1>12 DEF GetOk, Gets
  <2> QED BY <1>10, <2>1
<1>13. CASE GetFile(e)
  <2>1. m.type = "FILE_RESPONSE" /\ editor'[e] = "open" /\ copy' = [copy EXCEPT ![e] = buffer_deserialize(m.payload)]
    BY <1>9, <1>13 DEF GetFile, Gets
  <2> PICK x : x = buffer_deserialize(m.payload)
    OBVIOUS
  <2>2. copy'[e] = x
    BY <2>1 DEF Inv, CopyGood
  <2>3. Sound(m.payload) /\ IdsIn(m.payload, Users)
    BY <1>3, <1>4, <2>1 DEF Sent, OfOthers
  <2>4. Copied(x) /\ \A u \in Users : Has(x, u) <=> Has(m.payload, u)
    BY <2>3, HasDeserialized
  <2>5. s = "waiting"
    BY <1>6, <2>1 DEF Answers
  <2>6. Told(e, t, "open", x, k, w, A)
    BY <1>2, <1>3, <1>4, <2>1, <2>4, <2>5, ToldBefore
  <2> QED BY <1>8, <2>1, <2>2, <2>6
<1>14. CASE GetEdit(e)
  <2>1. /\ s = "open" /\ m.type \in Operations \cup CursorMessages /\ editor' = editor
        /\ Fault(c, m.user_id, m.type) = "none" /\ copy' = [copy EXCEPT ![e] = Follow(e, c, m)]
    BY <1>14 DEF GetEdit, Gets, Open
  <2> PICK x : x = Follow(e, c, m)
    OBVIOUS
  <2>2. copy'[e] = x /\ Copied(c)
    BY <1>4, <2>1 DEF Inv, CopyGood, Told
  <2>3. PICK p \in Editors \ {e} :
          /\ m.user_id = account[p]
          /\ m.type # "ADD_CURSOR" => HasCursor(c, account[p])
          /\ m.type = "ADD_CURSOR" => ~Has(c, account[p])
    BY <1>2, <1>3, <1>4, <2>1, FirstTold
  <2>4. Copied(x) /\ \A u \in Users : Has(x, u) <=> ((Has(c, u) \/ Adds(m, u)) /\ ~Frees(m, u))
    BY <1>3, <2>1, <2>2, <2>3, FollowCopied
  <2>5. Told(e, t, "open", x, k, w, A)
    BY <1>2, <1>3, <1>4, <2>1, <2>4, ToldTaken
  <2> QED BY <1>8, <2>1, <2>2, <2>5
<1>15. CASE GetGarbage(e)
  <2>1. m.type = "MSG_FAILED" /\ editor' = editor /\ copy' = copy
    BY <1>15 DEF GetGarbage, Gets
  <2> QED BY <1>10, <2>1
<1>16. CASE GetTooEarly(e)
  <2>1. /\ s = "waiting" /\ m.type \in Operations \cup CursorMessages /\ copy' = copy
        /\ editor' = editor \/ Becomes(e, "noFile")
    BY <1>16 DEF GetTooEarly, Gets
  <2>2. m.type # "FILE_RESPONSE"
    BY <2>1 DEF Operations, CursorMessages
  <2> QED BY <1>10, <1>11, <2>1, <2>2
<1>17. CASE EditorFaults(e)
  <2> PICK fault : fault = Fault(c, m.user_id, m.type)
    OBVIOUS
  <2>1. /\ s = "open" /\ m.type \in Operations \cup {"DELETE_CURSOR"} /\ Becomes(e, fault) /\ fault # "none"
    BY <1>17 DEF EditorFaults, Gets, Open
  <2>2. m.type \in Operations \cup CursorMessages /\ m.type # "ADD_CURSOR"
    BY <2>1 DEF Operations, CursorMessages
  <2>3. HasCursor(c, m.user_id)
    BY <1>2, <1>3, <1>4, <2>1, <2>2, FirstTold
  <2>4. fault \in {"twoCursors", "noBottom"}
    BY <2>1, <2>3, FaultIs
  <2> QED BY <1>11, <2>1, <2>4
<1> QED BY <1>12, <1>13, <1>14, <1>15, <1>16, <1>17 DEF EditorGets

\* A step of a user.
LEMMA UserTold ==
  ASSUME Inv, InStep, AllTold, EditorsFindCursors, NEW e \in Editors, UserStep(e)
  PROVE  AllTold' /\ EditorsFindCursors'
<1> PICK d, s, c, k, w, A : /\ d = down[e] /\ s = editor[e] /\ c = copy[e] /\ k = conn[e]
                            /\ w = worker /\ A = Awaited
  OBVIOUS
<1>1. /\ UNCHANGED <<worker, down>>
      /\ \A f \in Editors : f # e =>
           conn'[f] = conn[f] /\ copy'[f] = copy[f] /\ editor'[f] = editor[f]
  BY DEF UserStep, Start, PressTooEarly, Escape, Disconnected, Press, Becomes, Inv, Plain,
         CopyGood, net
<1>2. Told(e, d, s, c, k, w, A) /\ OfOthers(e, d) /\ (k = "backlog" => d = << >> /\ s # "open")
  BY DEF AllTold, Told
<1>3. Awaited' \subseteq Awaited
  BY UserInStep DEF Progress
<1>4. ASSUME Told(e, d, editor'[e], copy'[e], conn'[e], w, A), editor'[e] # "noCursor"
      PROVE  AllTold' /\ EditorsFindCursors'
  BY <1>1, <1>3, <1>4, OneTold
<1>5. \A x : Becomes(e, x) => editor'[e] = x
  BY DEF Becomes, Inv, Plain
\* The editor has ended.
<1>6. ASSUME NEW x, Becomes(e, x), x \notin {"open", "waiting", "noCursor"}, conn' = conn
      PROVE  AllTold' /\ EditorsFindCursors'
  <2>1. editor'[e] = x /\ conn'[e] = k
    BY <1>5, <1>6
  <2>2. Told(e, d, x, copy'[e], k, w, A)
    BY <1>2, <1>6, ToldNothing
  <2> QED BY <1>4, <1>6, <2>1, <2>2
<1>7. CASE Start(e)
  <2>1. s = "idle" /\ editor'[e] = "waiting"
    BY <1>5, <1>7 DEF Start
  <2>2. d = << >>
    BY <2>1 DEF InStep, Turns, Turn, InTurn
  <2>3. \A q \in 1 .. Len(d) : d[q].type # "FILE_RESPONSE"
    BY <2>2, EmptyStream
  <2> PICK l : l = conn'[e]
    OBVIOUS
  <2>4. Told(e, d, "waiting", copy'[e], l, w, A)
    BY <1>2, <2>2, <2>3, ToldNothing
  <2> QED BY <1>4, <2>1, <2>4
<1>8. CASE PressTooEarly(e)
  BY <1>6, <1>8 DEF PressTooEarly
<1>9. CASE Escape(e)
  BY <1>6, <1>9 DEF Escape
<1>10. CASE Disconnected(e)
  BY <1>6, <1>10 DEF Disconnected
<1>11. ASSUME NEW key \in Keys, Press(e, key) PROVE AllTold' /\ EditorsFindCursors'
  <2> PICK fault, x : /\ fault = Fault(c, Own, key.type)
                      /\ x = Operate(c, Own, key.type, key.payload)
    OBVIOUS
  <2>1. /\ s = "open" /\ conn' = conn
        /\ \/ fault = "none" /\ copy' = [copy EXCEPT ![e] = x] /\ editor' = editor
           \/ fault # "none" /\ Becomes(e, fault)
    BY <1>11 DEF Press, Open
  <2>2. Sound(c) /\ HasCursor(c, Own) /\ Own \in Nat
    <3>1. Sound(c)
      BY <1>2, <2>1 DEF Told, Copied
    <3> QED BY <3>1, OwnFound
  <2>3. CASE fault = "none" /\ copy' = [copy EXCEPT ![e] = x] /\ editor' = editor
    <3>1. key.type \in Operations /\ Fitting(key.type, key.payload)
      BY CollabAssumption DEF Operations, Fitting
    <3>2. Sound(x) /\ SameIds(c, x)
      BY <2>2, <3>1, OperateSound
    <3>3. Told(e, d, "open", x, k, w, A)
      BY <1>2, <2>1, <3>2, ToldPressed
    <3>4. copy'[e] = x /\ editor'[e] = "open" /\ conn'[e] = k
      BY <2>1, <2>3 DEF Inv, CopyGood
    <3> QED BY <1>4, <3>3, <3>4
  <2>4. CASE fault # "none" /\ Becomes(e, fault)
    <3>1. fault \in {"twoCursors", "noBottom"}
      BY <2>2, <2>4, FaultIs
    <3> QED BY <1>6, <2>1, <2>4, <3>1
  <2> QED BY <2>1, <2>3, <2>4
<1> QED BY <1>7, <1>8, <1>9, <1>10, <1>11 DEF UserStep

\* Nothing happens when the worker is no more.
LEMMA StepTold ==
  ASSUME Relays = "one", OwnAccounts, Inv, InStep, EditorsFindCursors, running = "yes" => AllTold,
         [Next]_vars
  PROVE  EditorsFindCursors' /\ (running' = "yes" => AllTold')
<1>1. CASE UNCHANGED vars
  <2>1. UNCHANGED <<worker, running, conn, editor, copy, up, down>>
    BY <1>1 DEF vars, net
  <2>2. Awaited' = Awaited
    BY <2>1 DEF Awaited
  <2> QED BY <2>1, <2>2 DEF EditorsFindCursors, AllTold
<1>2. ASSUME NEW e \in Editors, WorkerStep(e) \/ EditorGets(e) \/ UserStep(e)
      PROVE  EditorsFindCursors' /\ (running' = "yes" => AllTold')
  <2>1. running = "yes" /\ AllTold
    BY <1>2 DEF WorkerStep, Accept, HangUp, NotLoggedIn, Login, FileRequest, Quit, Edit, WorkerFaults,
                Brings, EditorGets, GetOk, GetFile, GetEdit, GetGarbage, GetTooEarly, EditorFaults,
                Gets, UserStep, Start, PressTooEarly, Escape, Disconnected, Press
  <2>2. CASE WorkerStep(e)
    <3>1. editor' = editor
      BY <2>2 DEF WorkerStep, Accept, HangUp, NotLoggedIn, Login, FileRequest, Quit, Edit, WorkerFaults
    <3> QED BY <2>1, <2>2, <3>1, WorkerTold DEF EditorsFindCursors
  <2>3. CASE EditorGets(e) \/ UserStep(e)
    BY <2>1, <2>3, GetsTold, UserTold
  <2> QED BY <1>2, <2>2, <2>3
<1> QED BY <1>1, <1>2 DEF Next

LEMMA InitTold == FromTheFork /\ Init => AllTold /\ EditorsFindCursors
<1> SUFFICES ASSUME FromTheFork, Init PROVE AllTold /\ EditorsFindCursors
  OBVIOUS
<1>1. editor = [e \in Editors |-> "idle"] /\ down = [e \in Editors |-> << >>]
  BY NobodyEarly DEF Init
<1>2. \A e : OfOthers(e, << >>)
  BY EmptyStream DEF OfOthers
<1>3. ASSUME NEW e \in Editors
      PROVE  Told(e, down[e], editor[e], copy[e], conn[e], worker, Awaited)
  <2> PICK c, k, w, A : c = copy[e] /\ k = conn[e] /\ w = worker /\ A = Awaited
    OBVIOUS
  <2>1. Told(e, << >>, "idle", c, k, w, A)
    BY <1>2, ToldNothing
  <2> QED BY <1>1, <2>1
<1> QED BY <1>1, <1>3 DEF AllTold, EditorsFindCursors

\* Where every user runs one editor and messages arrive one by one, the others'
\* operations reach an editor that has the file after the cursors they are for,
\* whoever comes, goes or breaks.
THEOREM EditorsFindCursorsTheorem ==
  ASSUME FromTheFork, Relays = "one", OwnAccounts PROVE Spec => []EditorsFindCursors
<1> DEFINE All == Inv /\ InStep /\ EditorsFindCursors /\ (running = "yes" => AllTold)
<1>1. Init => All
  BY InitInv, InitInStep, InitTold
<1>2. All /\ [Next]_vars => All'
  <2> SUFFICES ASSUME All, [Next]_vars PROVE All'
    OBVIOUS
  <2>1. Inv' /\ InStep'
    BY OwnAccountsFew, StepInv, StepProgress DEF Progress
  <2>2. EditorsFindCursors' /\ (running' = "yes" => AllTold')
    BY StepTold
  <2> QED BY <2>1, <2>2
<1>3. All => EditorsFindCursors
  OBVIOUS
<1> QED BY <1>1, <1>2, <1>3, PTL DEF Spec

-----------------------------------------------------------------------------
(***************************************************************************)
(* A copy that mirrors the worker's buffer: it has the same text, and the  *)
(* same users' cursors at the same places, that of its own user a as its   *)
(* own cursor.  Whatever is done to both of them keeps it a mirror.        *)
(***************************************************************************)
SameText(w, b) == w.str = b.str /\ w.last = b.last

\* The id that user u has in the copy of user a.
IdAt(a, u) == IF u = a THEN Own ELSE u

\* Slot j of w and slot k of b hold the cursor of one user.
Paired(w, b, a, j, k) ==
  /\ j \in Slots /\ k \in AllSlots
  /\ w.curs[j].id # NULL /\ b.curs[k].id = IdAt(a, w.curs[j].id)

Level(x, y) == x.line = y.line /\ x.pos = y.pos

SameUsers(w, b, a) == ~Has(b, a) /\ \A u \in Users : Has(w, u) <=> (u = a \/ Has(b, u))

Mirrors(w, b, a) ==
  /\ Copied(w) /\ Copied(b) /\ b.server_mode = FALSE
  /\ SameText(w, b) /\ SameUsers(w, b, a)
  /\ \A j, k : Paired(w, b, a, j, k) => Level(w.curs[j], b.curs[k])

\* Two chains of as many lines with the same lines are the same text.
LEMMA TextEqual ==
  ASSUME NEW w, Sound(w), NEW b, Sound(b), w.last = b.last,
         \A l \in 1 .. Len(w.str) : w.str[l] = b.str[l]
  PROVE  SameText(w, b)
<1>1. GoodLines(w) /\ GoodLines(b)
  BY DEF Sound
<1>2. w.str \in Seq(Seq(Chars)) /\ b.str \in Seq(Seq(Chars)) /\ Len(w.str) = Len(b.str)
  BY <1>1 DEF GoodLines
<1>3. w.str = b.str
  BY <1>2, SeqEqual
<1> QED BY <1>3 DEF SameText

\* What a slot with a user holds.
LEMMA SlotFacts ==
  ASSUME NEW b, Copied(b), NEW j \in AllSlots, b.curs[j].id # NULL
  PROVE  /\ b.curs[j] \in Cursor /\ b.curs[j].line \in 1 .. b.last
         /\ b.curs[j].line \in 1 .. Len(b.str)
         /\ b.curs[j].line \in Nat /\ b.curs[j].pos \in Nat
         /\ (j \in Slots => b.curs[j].id # Own /\ b.curs[j].id \in Users)
<1>1. GoodLines(b) /\ GoodCursors(b) /\ IdsIn(b, Users)
  BY DEF Copied, Sound
<1>2. b.curs[j] # NoCursor
  BY NoCursorId
<1>3. GoodCursor(b, b.curs[j])
  BY <1>1, <1>2 DEF GoodCursors
<1>4. b.curs[j] \in Cursor /\ b.curs[j].line \in 1 .. b.last
  BY <1>3 DEF GoodCursor, Fits
<1>5. b.curs[j].line \in 1 .. Len(b.str)
  BY <1>1, <1>4, LengthTypes
<1>6. b.curs[j].line \in Nat /\ b.curs[j].pos \in Nat
  BY <1>4 DEF Cursor
<1>7. j \in Slots => b.curs[j].id # Own /\ b.curs[j].id \in Users
  BY <1>1 DEF GoodCursors, IdsOfSlots, IdsIn
<1> QED BY <1>4, <1>5, <1>6, <1>7

\* Of two pairs both or neither of the slots are the same.
LEMMA PairedOnce ==
  ASSUME NEW w, Copied(w), NEW b, Copied(b), NEW a, a # NULL,
         NEW i, NEW m, Paired(w, b, a, i, m), NEW j, NEW k, Paired(w, b, a, j, k)
  PROVE  /\ j = i <=> k = m
         /\ b.curs[k].id # NULL /\ w.curs[j].id # NULL /\ j \in AllSlots /\ k \in AllSlots
<1>1. Own # NULL /\ j \in AllSlots /\ i \in AllSlots /\ k \in AllSlots /\ m \in AllSlots
  BY DEF Own, NULL, Paired, AllSlots
<1>2. /\ w.curs[j].id # NULL /\ w.curs[i].id # NULL
      /\ w.curs[j].id # Own /\ w.curs[i].id # Own
      /\ b.curs[k].id = IdAt(a, w.curs[j].id) /\ b.curs[m].id = IdAt(a, w.curs[i].id)
  BY <1>1, SlotFacts DEF Paired
<1>3. b.curs[k].id # NULL
  BY <1>1, <1>2 DEF IdAt
<1>4. j = i => k = m
  BY <1>1, <1>2, <1>3 DEF Copied, DistinctIds
<1>5. k = m => j = i
  <2>1. k = m => w.curs[j].id = w.curs[i].id
    BY <1>2 DEF IdAt
  <2> QED BY <1>1, <1>2, <2>1 DEF Copied, DistinctIds
<1> QED BY <1>1, <1>2, <1>3, <1>4, <1>5

\* An operation on both that keeps the ids keeps a mirror if it leaves the texts the
\* same and the pairs level.
LEMMA MirrorKept ==
  ASSUME NEW w, NEW b, NEW a, Mirrors(w, b, a), NEW v, NEW c, Sound(v), Sound(c),
         SameIds(w, v), SameIds(b, c), c.server_mode = FALSE, SameText(v, c),
         \A j, k : Paired(w, b, a, j, k) => Level(v.curs[j], c.curs[k])
  PROVE  Mirrors(v, c, a)
<1>1. Copied(v) /\ Copied(c)
  BY DEF Mirrors, Copied, SameIds, DistinctIds, IdsIn
<1>2. SameUsers(v, c, a)
  <2>1. \A u : (Has(v, u) <=> Has(w, u)) /\ (Has(c, u) <=> Has(b, u))
    BY HasSame
  <2> QED BY <2>1 DEF Mirrors, SameUsers
<1>3. \A j, k : Paired(v, c, a, j, k) => Paired(w, b, a, j, k)
  BY DEF Paired, SameIds, AllSlots
<1> QED BY <1>1, <1>2, <1>3 DEF Mirrors


\* The pairs of w and b are level in v and c.
Levels(w, b, a, v, c) == \A j, k : Paired(w, b, a, j, k) => Level(v.curs[j], c.curs[k])

\* What a pair is, where another one acts: j and k are level cursors of texts that
\* are the same, and they are both the ones that act or neither is.
PairIs(w, b, i, m, j, k) ==
  /\ j \in AllSlots \ {Own} /\ k \in AllSlots
  /\ (j = i <=> k = m)
  /\ w.curs[j].id # NULL /\ b.curs[k].id # NULL
  /\ w.curs[j].line = b.curs[k].line /\ w.curs[j].pos = b.curs[k].pos
  /\ w.curs[j].line \in 1 .. Len(w.str) /\ w.curs[j].line \in Nat /\ w.curs[j].pos \in Nat
  /\ w.str = b.str /\ w.last = b.last

LEMMA PairFacts ==
  ASSUME NEW w, NEW b, NEW a, a # NULL, Mirrors(w, b, a),
         NEW i, NEW m, Paired(w, b, a, i, m), NEW j, NEW k, Paired(w, b, a, j, k)
  PROVE  PairIs(w, b, i, m, j, k)
<1>1. Copied(w) /\ Copied(b) /\ w.str = b.str /\ w.last = b.last
      /\ w.curs[j].line = b.curs[k].line /\ w.curs[j].pos = b.curs[k].pos
  BY DEF Mirrors, SameText, Level
<1>2. (j = i <=> k = m) /\ w.curs[j].id # NULL /\ b.curs[k].id # NULL
      /\ j \in AllSlots /\ k \in AllSlots
  BY <1>1, PairedOnce
<1>3. j # Own
  BY AllSlotsNat DEF Paired
<1>4. w.curs[j].line \in 1 .. Len(w.str) /\ w.curs[j].line \in Nat /\ w.curs[j].pos \in Nat
  BY <1>1, <1>2, SlotFacts
<1> QED BY <1>1, <1>2, <1>3, <1>4 DEF PairIs

\* A character typed by the two of a pair.
LEMMA TypedLevels ==
  ASSUME NEW w, NEW b, NEW a, a # NULL, Mirrors(w, b, a),
         NEW i, NEW m, Paired(w, b, a, i, m), NEW v, Sound(v), NEW c, Sound(c), NEW chr,
         Typed(w, v, i, chr), Typed(b, c, m, chr)
  PROVE  SameText(v, c) /\ Levels(w, b, a, v, c)
<1> PICK x, y : x = w.curs[i] /\ y = b.curs[m]
  OBVIOUS
<1>1. w.str = b.str /\ w.last = b.last /\ x.line = y.line /\ x.pos = y.pos
  BY PairFacts DEF PairIs
<1>2. SameText(v, c)
  BY <1>1 DEF Typed, SameText
<1>3. ASSUME NEW j, NEW k, Paired(w, b, a, j, k) PROVE Level(v.curs[j], c.curs[k])
  <2> PICK p, q : p = w.curs[j] /\ q = b.curs[k]
    OBVIOUS
  <2>1. /\ j \in AllSlots /\ k \in AllSlots /\ (j = i <=> k = m) /\ p.id # NULL /\ q.id # NULL
        /\ p.line = q.line /\ p.pos = q.pos
    BY <1>3, PairFacts DEF PairIs
  <2>2. v.curs[j] = IF j = i \/ (p.id # NULL /\ p.line = x.line /\ x.pos + 1 < p.pos)
                      THEN MovedTo(p, p.line, p.pos + 1) ELSE p
    BY <2>1 DEF Typed
  <2>3. c.curs[k] = IF k = m \/ (q.id # NULL /\ q.line = y.line /\ y.pos + 1 < q.pos)
                      THEN MovedTo(q, q.line, q.pos + 1) ELSE q
    BY <2>1 DEF Typed
  <2>4. (j = i \/ (p.id # NULL /\ p.line = x.line /\ x.pos + 1 < p.pos))
        <=> (k = m \/ (q.id # NULL /\ q.line = y.line /\ y.pos + 1 < q.pos))
    BY <1>1, <2>1
  <2> QED BY <2>1, <2>2, <2>3, <2>4 DEF Level, MovedTo
<1> QED BY <1>2, <1>3 DEF Levels

\* A character erased by the two of a pair.
LEMMA ErasedLevels ==
  ASSUME NEW w, NEW b, NEW a, a # NULL, Mirrors(w, b, a),
         NEW i, NEW m, Paired(w, b, a, i, m), NEW v, Sound(v), NEW c, Sound(c),
         Erased(w, v, i), Erased(b, c, m)
  PROVE  SameText(v, c) /\ Levels(w, b, a, v, c)
<1> PICK x, y : x = w.curs[i] /\ y = b.curs[m]
  OBVIOUS
<1>1. w.str = b.str /\ w.last = b.last /\ x.line = y.line /\ x.pos = y.pos
  BY PairFacts DEF PairIs
<1>2. SameText(v, c)
  BY <1>1 DEF Erased, SameText
<1>3. ASSUME NEW j, NEW k, Paired(w, b, a, j, k) PROVE Level(v.curs[j], c.curs[k])
  <2> PICK p, q : p = w.curs[j] /\ q = b.curs[k]
    OBVIOUS
  <2>1. /\ j \in AllSlots /\ k \in AllSlots /\ (j = i <=> k = m) /\ p.id # NULL /\ q.id # NULL
        /\ p.line = q.line /\ p.pos = q.pos
    BY <1>3, PairFacts DEF PairIs
  <2>2. v.curs[j] = IF j = i \/ (p.id # NULL /\ p.line = x.line /\ x.pos - 1 < p.pos)
                      THEN MovedTo(p, p.line, p.pos + (-1)) ELSE p
    BY <2>1 DEF Erased
  <2>3. c.curs[k] = IF k = m \/ (q.id # NULL /\ q.line = y.line /\ y.pos - 1 < q.pos)
                      THEN MovedTo(q, q.line, q.pos + (-1)) ELSE q
    BY <2>1 DEF Erased
  <2>4. (j = i \/ (p.id # NULL /\ p.line = x.line /\ x.pos - 1 < p.pos))
        <=> (k = m \/ (q.id # NULL /\ q.line = y.line /\ y.pos - 1 < q.pos))
    BY <1>1, <2>1
  <2> QED BY <2>1, <2>2, <2>3, <2>4 DEF Level, MovedTo
<1> QED BY <1>2, <1>3 DEF Levels

\* A line broken at its start by the two of a pair.
LEMMA BrokenAboveLevels ==
  ASSUME NEW w, NEW b, NEW a, a # NULL, Mirrors(w, b, a),
         NEW i, NEW m, Paired(w, b, a, i, m), NEW v, Sound(v), NEW c, Sound(c),
         BrokenAbove(w, v, i), BrokenAbove(b, c, m)
  PROVE  SameText(v, c) /\ Levels(w, b, a, v, c)
<1> PICK l, N : l = w.curs[i].line /\ N = Len(w.str)
  OBVIOUS
<1>1. w.str = b.str /\ w.last = b.last /\ b.curs[m].line = l
  BY PairFacts DEF PairIs
<1>2. /\ v.last = w.last + 1 /\ c.last = w.last + 1
      /\ \A n \in 1 .. N + 1 :
           v.str[n] = IF n < l THEN w.str[n] ELSE IF n = l THEN << >> ELSE w.str[n - 1]
      /\ \A n \in 1 .. N + 1 :
           c.str[n] = IF n < l THEN w.str[n] ELSE IF n = l THEN << >> ELSE w.str[n - 1]
  BY <1>1 DEF BrokenAbove
<1>3. Len(v.str) = N + 1
  BY ConstantsAssumption, <1>2 DEF Mirrors, Copied, Sound, GoodLines
<1>4. SameText(v, c)
  BY <1>2, <1>3, TextEqual
<1>5. ASSUME NEW j, NEW k, Paired(w, b, a, j, k) PROVE Level(v.curs[j], c.curs[k])
  <2> PICK p, q : p = w.curs[j] /\ q = b.curs[k]
    OBVIOUS
  <2>1. j \in AllSlots \ {Own} /\ k \in AllSlots /\ p.line = q.line /\ p.pos = q.pos
    BY <1>5, PairFacts DEF PairIs
  <2>2. v.curs[j] = Shifted(p, l)
    BY <2>1 DEF BrokenAbove
  <2>3. c.curs[k] = Shifted(q, l)
    <3>1. b.server_mode = FALSE
      BY DEF Mirrors
    <3>2. CASE k = Own
      BY <1>1, <3>1, <3>2 DEF BrokenAbove
    <3>3. CASE k # Own
      BY <1>1, <2>1, <3>3 DEF BrokenAbove
    <3> QED BY <3>2, <3>3
  <2> QED BY <2>1, <2>2, <2>3 DEF Level, Shifted, MovedTo
<1> QED BY <1>4, <1>5 DEF Levels

\* A line is the one that is broken, the new one, or one that was before or behind.
LEMMA LineCases ==
  ASSUME NEW N \in Nat, NEW l \in 1 .. N, NEW n \in 1 .. N + 1
  PROVE  n = l \/ n = l + 1 \/ (n < l /\ n \in 1 .. N)
         \/ (n - 1 \in 1 .. N /\ n - 1 > l /\ (n - 1) + 1 = n)
  OBVIOUS

\* A line is the one that another was joined to, or one that was before or behind.
LEMMA JoinedCases ==
  ASSUME NEW N \in Nat, NEW h \in 1 .. N, NEW n \in 1 .. N - 1
  PROVE  n = h - 1 \/ (n < h - 1 /\ n \in 1 .. N)
         \/ (n + 1 \in 1 .. N /\ n + 1 > h /\ (n + 1) - 1 = n)
  OBVIOUS

\* A line broken further right by the two of a pair.
LEMMA BrokenBelowLevels ==
  ASSUME NEW w, NEW b, NEW a, a # NULL, Mirrors(w, b, a),
         NEW i, NEW m, Paired(w, b, a, i, m), NEW v, Sound(v), NEW c, Sound(c),
         BrokenBelow(w, v, i), BrokenBelow(b, c, m)
  PROVE  SameText(v, c) /\ Levels(w, b, a, v, c)
<1> PICK x, y : x = w.curs[i] /\ y = b.curs[m]
  OBVIOUS
<1> PICK l, s, N : l = x.line /\ s = w.str[l] /\ N = Len(w.str)
  OBVIOUS
<1>0. PICK f, q : /\ f = SubSeq(s, 1, Min2(x.pos, Len(s)))
                  /\ q = SubSeq(s, Min2(x.pos, Len(s)) + 1, Len(s))
  OBVIOUS
<1>1. w.str = b.str /\ w.last = b.last /\ y.line = l /\ y.pos = x.pos
      /\ l \in 1 .. N /\ l \in Nat
  BY PairFacts DEF PairIs
<1>2. IsSplit(w, v, l, f, q)
  BY <1>0 DEF BrokenBelow
<1>3. IsSplit(b, c, l, f, q)
  BY <1>0, <1>1 DEF BrokenBelow
<1>4. SameText(v, c)
  <2>0. /\ v.last = c.last /\ v.str[l] = c.str[l] /\ v.str[l + 1] = c.str[l + 1]
        /\ Len(v.str) = N + 1
    BY <1>1, <1>2, <1>3 DEF IsSplit
  <2>1. /\ \A n \in 1 .. N : n < l => v.str[n] = w.str[n] /\ c.str[n] = w.str[n]
        /\ \A n \in 1 .. N : n > l => v.str[n + 1] = w.str[n] /\ c.str[n + 1] = w.str[n]
    BY <1>1, <1>2, <1>3 DEF IsSplit
  <2>2. N \in Nat
    BY LengthTypes DEF Mirrors, Copied, Sound
  <2>3. ASSUME NEW n \in 1 .. N + 1 PROVE v.str[n] = c.str[n]
    <3>1. n = l \/ n = l + 1 \/ (n < l /\ n \in 1 .. N)
          \/ (n - 1 \in 1 .. N /\ n - 1 > l /\ (n - 1) + 1 = n)
      BY <1>1, <2>2, LineCases
    <3>2. CASE n - 1 \in 1 .. N /\ n - 1 > l /\ (n - 1) + 1 = n
      BY <2>1, <3>2
    <3>3. CASE n < l /\ n \in 1 .. N
      BY <2>1, <3>3
    <3> QED BY <2>0, <3>1, <3>2, <3>3
  <2> QED BY <2>0, <2>3, TextEqual
<1>5. ASSUME NEW j, NEW k, Paired(w, b, a, j, k) PROVE Level(v.curs[j], c.curs[k])
  <2> PICK p, r : p = w.curs[j] /\ r = b.curs[k]
    OBVIOUS
  <2>1. /\ j \in AllSlots /\ k \in AllSlots /\ (j = i <=> k = m) /\ p.id # NULL /\ r.id # NULL
        /\ p.line = r.line /\ p.pos = r.pos
    BY <1>5, PairFacts DEF PairIs
  <2>2. v.curs[j] =
           IF j = i THEN MovedTo(p, l + 1, 0)
           ELSE IF x.pos # Len(s) /\ p.id # NULL /\ p.line = l /\ x.pos < p.pos
             THEN MovedTo(p, l + 1, Min2(p.pos - x.pos, Len(q)))
           ELSE Shifted(p, l + 1)
    BY <1>0, <2>1 DEF BrokenBelow
  <2>3. c.curs[k] =
           IF k = m THEN MovedTo(r, l + 1, 0)
           ELSE IF x.pos # Len(s) /\ r.id # NULL /\ r.line = l /\ x.pos < r.pos
             THEN MovedTo(r, l + 1, Min2(r.pos - x.pos, Len(q)))
           ELSE Shifted(r, l + 1)
    BY <1>0, <1>1, <2>1 DEF BrokenBelow
  <2>4. CASE j = i
    BY <2>1, <2>2, <2>3, <2>4 DEF Level, MovedTo
  <2>5. CASE j # i /\ x.pos # Len(s) /\ p.line = l /\ x.pos < p.pos
    BY <2>1, <2>2, <2>3, <2>5 DEF Level, MovedTo
  <2>6. CASE j # i /\ ~(x.pos # Len(s) /\ p.line = l /\ x.pos < p.pos)
    BY <2>1, <2>2, <2>3, <2>6 DEF Level, Shifted, MovedTo
  <2> QED BY <2>4, <2>5, <2>6
<1> QED BY <1>4, <1>5 DEF Levels

\* A line joined to the one above by the two of a pair.
LEMMA JoinedLevels ==
  ASSUME NEW w, NEW b, NEW a, a # NULL, Mirrors(w, b, a),
         NEW i, NEW m, Paired(w, b, a, i, m), NEW v, Sound(v), NEW c, Sound(c),
         w.curs[i].line # 1, Joined(w, v, i), Joined(b, c, m)
  PROVE  SameText(v, c) /\ Levels(w, b, a, v, c)
<1> PICK h, N : h = w.curs[i].line /\ N = Len(w.str)
  OBVIOUS
<1> PICK l : l = h - 1
  OBVIOUS
<1>0. PICK s : s = w.str[l] \o w.str[h]
  OBVIOUS
<1>1. w.str = b.str /\ w.last = b.last /\ b.curs[m].line = h /\ h \in 1 .. N /\ h \in Nat
  BY PairFacts DEF PairIs
<1>2. /\ v.last = w.last - 1 /\ c.last = w.last - 1 /\ v.str[l] = s /\ c.str[l] = s
      /\ \A n \in 1 .. N : n < l => v.str[n] = w.str[n] /\ c.str[n] = w.str[n]
      /\ \A n \in 1 .. N : n > h => v.str[n - 1] = w.str[n] /\ c.str[n - 1] = w.str[n]
  <2>1. /\ v.last = w.last - 1 /\ v.str[l] = w.str[l] \o w.str[h]
        /\ \A n \in 1 .. N : n < l => v.str[n] = w.str[n]
        /\ \A n \in 1 .. N : n > h => v.str[n - 1] = w.str[n]
    BY DEF Joined
  <2>2. /\ c.last = b.last - 1 /\ c.str[l] = b.str[l] \o b.str[h]
        /\ \A n \in 1 .. Len(b.str) : n < l => c.str[n] = b.str[n]
        /\ \A n \in 1 .. Len(b.str) : n > h => c.str[n - 1] = b.str[n]
    <3>1. b.curs[m].line = h
      BY <1>1
    <3> QED BY <3>1 DEF Joined
  <2>3. w.str = b.str /\ w.last = b.last
    BY <1>1
  <2> QED BY <1>0, <2>1, <2>2, <2>3
<1>3. SameText(v, c)
  <2>1. GoodLines(w) /\ GoodLines(v)
    BY DEF Mirrors, Copied, Sound
  <2>2. N \in Nat /\ w.last \in Nat /\ height \in Nat /\ N = w.last + height - 1
        /\ Len(v.str) = v.last + height - 1
    BY <2>1, LengthTypes DEF GoodLines
  <2>0. v.last = w.last - 1
    BY <1>2
  <2>3. Len(v.str) = N - 1
    BY <2>0, <2>2
  <2>4. ASSUME NEW n \in 1 .. N - 1 PROVE v.str[n] = c.str[n]
    <3>0. n = h - 1 \/ (n < h - 1 /\ n \in 1 .. N)
          \/ (n + 1 \in 1 .. N /\ n + 1 > h /\ (n + 1) - 1 = n)
      <4>1. N \in Nat /\ h \in 1 .. N
        BY <1>1, <2>2
      <4> QED BY <4>1, JoinedCases
    <3>1. n = l \/ (n < l /\ n \in 1 .. N) \/ (n + 1 \in 1 .. N /\ n + 1 > h /\ (n + 1) - 1 = n)
      BY <3>0
    <3>2. CASE n + 1 \in 1 .. N /\ n + 1 > h /\ (n + 1) - 1 = n
      BY <1>2, <3>2
    <3>3. CASE n < l /\ n \in 1 .. N
      BY <1>2, <3>3
    <3>4. v.str[l] = c.str[l]
      BY <1>2
    <3> QED BY <3>1, <3>2, <3>3, <3>4
  <2>5. v.last = c.last
    BY <1>2
  <2> QED BY <2>3, <2>4, <2>5, TextEqual
<1>4. ASSUME NEW j, NEW k, Paired(w, b, a, j, k) PROVE Level(v.curs[j], c.curs[k])
  <2> PICK p, r : p = w.curs[j] /\ r = b.curs[k]
    OBVIOUS
  <2>1. /\ j \in AllSlots /\ k \in AllSlots /\ (j = i <=> k = m) /\ p.id # NULL /\ r.id # NULL
        /\ p.line = r.line /\ p.pos = r.pos
    BY <1>4, PairFacts DEF PairIs
  <2>2. v.curs[j] = IF j = i THEN MovedTo(p, l, Len(w.str[l]))
                    ELSE IF p.id # NULL /\ p.line = h
                      THEN MovedTo(p, l, Min2(p.pos, Len(s)) + Len(w.str[l]))
                    ELSE MovedTo(p, Unshift(p.line, h), p.pos)
    BY <1>0, <2>1 DEF Joined
  <2>a. s = b.str[l] \o b.str[h] /\ Len(b.str[l]) = Len(w.str[l])
    BY <1>0, <1>1
  <2>b. c.curs[k] = IF k = m THEN MovedTo(r, l, Len(b.str[l]))
                    ELSE IF r.id # NULL /\ r.line = h
                      THEN MovedTo(r, l, Min2(r.pos, Len(s)) + Len(b.str[l]))
                    ELSE MovedTo(r, Unshift(r.line, h), r.pos)
    <3>1. b.curs[m].line = h /\ b.curs[m].line - 1 = l
      BY <1>1
    <3>2. c.curs[k] = IF k = m THEN MovedTo(r, b.curs[m].line - 1, Len(b.str[b.curs[m].line - 1]))
                      ELSE IF r.id # NULL /\ r.line = b.curs[m].line
                        THEN MovedTo(r, b.curs[m].line - 1,
                                     Min2(r.pos, Len(b.str[b.curs[m].line - 1] \o b.str[b.curs[m].line]))
                                       + Len(b.str[b.curs[m].line - 1]))
                      ELSE MovedTo(r, Unshift(r.line, b.curs[m].line), r.pos)
      BY <2>1 DEF Joined
    <3>3. s = b.str[l] \o b.str[h]
      BY <2>a
    <3> QED BY <3>1, <3>2, <3>3
  <2>3. c.curs[k] = IF k = m THEN MovedTo(r, l, Len(w.str[l]))
                    ELSE IF r.id # NULL /\ r.line = h
                      THEN MovedTo(r, l, Min2(r.pos, Len(s)) + Len(w.str[l]))
                    ELSE MovedTo(r, Unshift(r.line, h), r.pos)
    BY <2>a, <2>b
  <2>4. CASE j = i
    BY <2>1, <2>2, <2>3, <2>4 DEF Level, MovedTo
  <2>5. CASE j # i /\ p.line = h
    BY <2>1, <2>2, <2>3, <2>5 DEF Level, MovedTo
  <2>6. CASE j # i /\ p.line # h
    BY <2>1, <2>2, <2>3, <2>6 DEF Level, MovedTo
  <2> QED BY <2>4, <2>5, <2>6
<1> QED BY <1>3, <1>4 DEF Levels

\* Two cursors at one place of one text move alike.
LEMMA MovesAlike ==
  ASSUME NEW w, NEW b, GoodLines(w), GoodLines(b), SameText(w, b),
         NEW x, NEW y, Level(x, y), NEW dir
  PROVE  Level(cursor_move(w, x, dir), cursor_move(b, y, dir))
<1>1. w.str = b.str /\ w.last = b.last /\ w.first = b.first /\ Len(w.lid) = Len(b.lid)
  BY DEF SameText, GoodLines
<1>2. (CanUp(w, x) <=> CanUp(b, y)) /\ (CanDown(w, x) <=> CanDown(b, y))
  BY <1>1 DEF Level, CanUp, CanDown, HasPrev, HasNext, NumLines
<1>3. \A l : LineLen(w, l) = LineLen(b, l)
  BY <1>1 DEF LineLen
<1>4. x.line = y.line /\ x.pos = y.pos
  BY DEF Level
<1>5. /\ cursor_move(w, x, dir).line = cursor_move(b, y, dir).line
      /\ cursor_move(w, x, dir).pos = cursor_move(b, y, dir).pos
  BY <1>2, <1>3, <1>4 DEF cursor_move, MovedTo
<1> QED BY <1>5 DEF Level

\* The two of a pair are moved.
LEMMA MovedLevels ==
  ASSUME NEW w, NEW b, NEW a, a # NULL, Mirrors(w, b, a),
         NEW i, NEW m, Paired(w, b, a, i, m), NEW v, NEW c, NEW dir,
         SameLines(w, v), v.curs = [w.curs EXCEPT ![i] = cursor_move(w, w.curs[i], dir)],
         SameLines(b, c), c.curs = [b.curs EXCEPT ![m] = cursor_move(b, b.curs[m], dir)]
  PROVE  SameText(v, c) /\ Levels(w, b, a, v, c)
<1> PICK x, y : x = cursor_move(w, w.curs[i], dir) /\ y = cursor_move(b, b.curs[m], dir)
  OBVIOUS
<1>1. SameText(v, c) /\ GoodLines(w) /\ GoodLines(b) /\ SameText(w, b)
      /\ DOMAIN w.curs = AllSlots /\ DOMAIN b.curs = AllSlots
  BY DEF Mirrors, Copied, Sound, SameLines, SameText, GoodCursors, IdsOfSlots
<1>2. Level(w.curs[i], b.curs[m])
  BY DEF Mirrors
<1>3. Level(x, y)
  BY <1>1, <1>2, MovesAlike
<1>4. ASSUME NEW j, NEW k, Paired(w, b, a, j, k) PROVE Level(v.curs[j], c.curs[k])
  <2>1. j \in AllSlots /\ k \in AllSlots /\ (j = i <=> k = m)
    BY <1>4, PairFacts DEF PairIs
  <2>2. v.curs[j] = IF j = i THEN x ELSE w.curs[j]
    BY <1>1, <2>1
  <2>3. c.curs[k] = IF k = m THEN y ELSE b.curs[k]
    BY <1>1, <2>1
  <2>4. Level(w.curs[j], b.curs[k])
    BY <1>4 DEF Mirrors
  <2> QED BY <1>3, <2>1, <2>2, <2>3, <2>4
<1> QED BY <1>1, <1>4 DEF Levels

\* The cursors of another user in both.
LEMMA PairOf ==
  ASSUME OwnAccounts, NEW a \in Users, NEW w, NEW b, Mirrors(w, b, a),
         NEW u \in Users, u # a, Has(w, u)
  PROVE  /\ HasCursor(w, u) /\ HasCursor(b, u) /\ u \in Nat /\ u # Own /\ a # NULL
         /\ Paired(w, b, a, bcursor_find(w, u), bcursor_find(b, u))
<1>1. u \in Nat /\ u # Own /\ u # NULL /\ a # NULL
  BY UserRange
<1>2. Sound(w) /\ Sound(b) /\ Has(b, u)
  BY DEF Mirrors, Copied, SameUsers
<1>3. HasCursor(w, u) /\ HasCursor(b, u)
  BY <1>1, <1>2, HasIs
<1> PICK j, k : j = bcursor_find(w, u) /\ k = bcursor_find(b, u)
  OBVIOUS
<1>4. j \in AllSlots /\ w.curs[j].id = u /\ j # Own
  BY <1>1, <1>2, <1>3, FoundSlot
<1>5. k \in AllSlots /\ b.curs[k].id = u
  BY <1>1, <1>2, <1>3, FoundSlot
<1>6. Paired(w, b, a, j, k)
  BY <1>1, <1>4, <1>5 DEF Paired, IdAt, AllSlots
<1> QED BY <1>1, <1>3, <1>6

\* What another user does to both keeps a mirror.
LEMMA MirrorOperate ==
  ASSUME OwnAccounts, NEW a \in Users, NEW w, NEW b, Mirrors(w, b, a),
         NEW u \in Users, u # a, Has(w, u), NEW t \in Operations, NEW x, Fitting(t, x)
  PROVE  Mirrors(Operate(w, u, t, x), Operate(b, u, t, x), a)
<1> PICK v, c : v = Operate(w, u, t, x) /\ c = Operate(b, u, t, x)
  OBVIOUS
<1> PICK i, m : i = bcursor_find(w, u) /\ m = bcursor_find(b, u)
  OBVIOUS
<1>1. /\ HasCursor(w, u) /\ HasCursor(b, u) /\ u \in Nat /\ u # Own /\ a # NULL
      /\ Paired(w, b, a, i, m)
  BY PairOf
<1>2. Sound(w) /\ Sound(b) /\ b.server_mode = FALSE /\ w.str = b.str /\ w.last = b.last
  BY DEF Mirrors, Copied, SameText
<1>3. Sound(v) /\ SameIds(w, v) /\ Sound(c) /\ SameIds(b, c)
  BY <1>1, <1>2, OperateSound
<1>4. w.curs[i].line = b.curs[m].line /\ w.curs[i].pos = b.curs[m].pos
  BY <1>1, PairFacts DEF PairIs
<1>5. c.server_mode = FALSE /\ SameText(v, c) /\ Levels(w, b, a, v, c)
  <2>1. CASE t = "INSERT"
    <3>1. v = bcursor_insert(w, u, x) /\ c = bcursor_insert(b, u, x) /\ x \in Chars
      BY <2>1 DEF Operate, Fitting
    <3>2. c.server_mode = FALSE
      BY <1>1, <1>2, <3>1, KeepsMode
    <3>3. i # NULL /\ m # NULL
      BY <1>1 DEF HasCursor
    <3>4. \/ LineLen(w, w.curs[i].line) >= width - 1 /\ Same(w, v)
          \/ ~(LineLen(w, w.curs[i].line) >= width - 1) /\ Typed(w, v, i, x)
      BY <1>1, <1>2, <3>1, <3>3, InsertSound
    <3>5. \/ LineLen(b, b.curs[m].line) >= width - 1 /\ Same(b, c)
          \/ ~(LineLen(b, b.curs[m].line) >= width - 1) /\ Typed(b, c, m, x)
      BY <1>1, <1>2, <3>1, <3>3, InsertSound
    <3>6. LineLen(w, w.curs[i].line) = LineLen(b, b.curs[m].line)
      BY <1>2, <1>4 DEF LineLen
    <3>7. CASE Same(w, v) /\ Same(b, c)
      BY <3>2, <3>7 DEF Same, SameLines, Mirrors, SameText, Levels
    <3>8. CASE Typed(w, v, i, x) /\ Typed(b, c, m, x)
      BY <1>1, <1>3, <3>2, <3>8, TypedLevels
    <3> QED BY <3>4, <3>5, <3>6, <3>7, <3>8
  <2>2. CASE t = "INSERT_LINE"
    <3>1. v = bcursor_insert_line(w, u) /\ c = bcursor_insert_line(b, u)
      BY <2>2 DEF Operate
    <3>2. c.server_mode = FALSE
      BY <1>1, <1>2, <3>1, KeepsMode
    <3>3. IF w.curs[i].pos = 0 THEN BrokenAbove(w, v, i) ELSE BrokenBelow(w, v, i)
      BY <1>1, <1>2, <3>1, InsertLineSound
    <3>4. IF b.curs[m].pos = 0 THEN BrokenAbove(b, c, m) ELSE BrokenBelow(b, c, m)
      BY <1>1, <1>2, <3>1, InsertLineSound
    <3>5. CASE BrokenAbove(w, v, i) /\ BrokenAbove(b, c, m)
      BY <1>1, <1>3, <3>2, <3>5, BrokenAboveLevels
    <3>6. CASE BrokenBelow(w, v, i) /\ BrokenBelow(b, c, m)
      BY <1>1, <1>3, <3>2, <3>6, BrokenBelowLevels
    <3> QED BY <1>4, <3>3, <3>4, <3>5, <3>6
  <2>3. CASE t = "DELETE"
    <3>1. v = bcursor_del(w, u) /\ c = bcursor_del(b, u)
      BY <2>3 DEF Operate
    <3>2. c.server_mode = FALSE
      BY <1>1, <1>2, <3>1, KeepsMode
    <3>3. \/ w.curs[i].pos = 0 /\ w.curs[i].line = 1 /\ v = w
          \/ w.curs[i].pos > 0 /\ Erased(w, v, i)
          \/ w.curs[i].pos = 0 /\ w.curs[i].line # 1 /\ Joined(w, v, i)
      BY <1>1, <1>2, <3>1, DeleteSound
    <3>4. \/ b.curs[m].pos = 0 /\ b.curs[m].line = 1 /\ c = b
          \/ b.curs[m].pos > 0 /\ Erased(b, c, m)
          \/ b.curs[m].pos = 0 /\ b.curs[m].line # 1 /\ Joined(b, c, m)
      BY <1>1, <1>2, <3>1, DeleteSound
    <3>5. CASE v = w /\ c = b
      BY <3>2, <3>5 DEF Mirrors, Levels
    <3>6. CASE Erased(w, v, i) /\ Erased(b, c, m)
      BY <1>1, <1>3, <3>2, <3>6, ErasedLevels
    <3>7. CASE w.curs[i].line # 1 /\ Joined(w, v, i) /\ Joined(b, c, m)
      BY <1>1, <1>3, <3>2, <3>7, JoinedLevels
    <3>8. ~(0 > 0)
      OBVIOUS
    <3> QED BY <1>4, <3>3, <3>4, <3>5, <3>6, <3>7, <3>8
  <2>4. CASE t = "MOVE_CURSOR"
    <3>1. v = bcursor_move(w, u, x) /\ c = bcursor_move(b, u, x) /\ x \in Dirs
      BY <2>4 DEF Operate, Fitting
    <3>2. c.server_mode = FALSE
      BY <1>1, <1>2, <3>1, KeepsMode
    <3>3. /\ i \in AllSlots /\ w.curs[i].id = u /\ w.curs[i].pos \in Int /\ Foremost(w.curs, i)
          /\ DOMAIN w = Fields /\ IdsOfSlots(w.curs)
      BY <1>1, <1>2, FoundSlot DEF Sound, GoodLines, GoodCursors
    <3>4. /\ m \in AllSlots /\ b.curs[m].id = u /\ b.curs[m].pos \in Int /\ Foremost(b.curs, m)
          /\ DOMAIN b = Fields /\ IdsOfSlots(b.curs)
      BY <1>1, <1>2, FoundSlot DEF Sound, GoodLines, GoodCursors
    <3>5. SameLines(w, v) /\ v.curs = [w.curs EXCEPT ![i] = cursor_move(w, w.curs[i], x)]
      BY <3>1, <3>3, MoveOneExact
    <3>6. SameLines(b, c) /\ c.curs = [b.curs EXCEPT ![m] = cursor_move(b, b.curs[m], x)]
      BY <3>1, <3>4, MoveOneExact
    <3> QED BY <1>1, <3>2, <3>5, <3>6, MovedLevels
  <2> QED BY <2>1, <2>2, <2>3, <2>4 DEF Operations
<1>6. Mirrors(v, c, a)
  BY <1>3, <1>5, MirrorKept DEF Levels
<1> QED BY <1>6

\* The cursor of a newcomer starts at the first line.
Newcomer(u) == [id |-> u, line |-> 1, pos |-> 0]

LEMMA NewcomerAdded ==
  ASSUME OwnAccounts, NEW b, Copied(b), NEW u \in Users, ~Has(b, u)
  PROVE  LET c == bcursor_new(b, u, b.lid[1], 0) IN
         Copied(c) /\ Added(b, c, Newcomer(u)) /\ Joins(b, c, u) /\ FreeSlots(b) # {}
<1> PICK c : c = bcursor_new(b, u, b.lid[1], 0)
  OBVIOUS
<1>1. u \in Nat /\ u # Own /\ u # NULL
  BY UserRange
<1>2. Sound(b) /\ IdsIn(b, Users) /\ DistinctIds(b.curs) /\ GoodLines(b) /\ FreeSlots(b) # {}
  BY RoomForHim DEF Copied, Sound
<1>3. 1 \in 1 .. b.last /\ 0 \in Nat /\ (Lossless => 0 <= Len(b.str[1]))
  <2>1. 1 \in 1 .. b.last
    BY <1>2, LengthTypes
  <2>2. Len(b.str[1]) \in Nat
    BY <1>2, <2>1, LengthTypes
  <2> QED BY <2>1, <2>2
<1>4. \A j \in AllSlots : b.curs[j].id # u
  <2>1. b.curs[Own].id # u
    BY <1>1, <1>2 DEF Sound, GoodCursors, IdsOfSlots
  <2> QED BY <2>1 DEF Has, AllSlots
<1>5. LET d == bcursor_new(b, u, b.lid[1], 0) IN
      /\ Sound(d) /\ IdsIn(d, Users \cup {u})
      /\ DistinctIds(b.curs) /\ (\A j \in AllSlots : b.curs[j].id # u) => DistinctIds(d.curs)
      /\ \/ FreeSlots(b) = {} /\ d = b
         \/ FreeSlots(b) # {} /\ Added(b, d, [id |-> u, line |-> 1, pos |-> 0])
  BY <1>1, <1>2, <1>3, NewSound
<1>6. Added(b, c, Newcomer(u)) /\ DistinctIds(c.curs) /\ Sound(c) /\ IdsIn(c, Users \cup {u})
  BY <1>2, <1>4, <1>5 DEF Newcomer
<1>7. Users \cup {u} = Users
  OBVIOUS
<1>8. Joins(b, c, u)
  <2>1. Newcomer(u).id = u
    BY DEF Newcomer
  <2> QED BY <1>2, <1>6, <2>1 DEF Joins
<1> QED BY <1>2, <1>6, <1>7, <1>8 DEF Copied

\* What the worker gives a user who has no cursor.
LEMMA WorkerAdds ==
  ASSUME OwnAccounts, NEW b, Copied(b), Served(b), NEW u \in Users, ~Has(b, u)
  PROVE  LET c == bcursor_copy_own(b, u) IN
         Copied(c) /\ Added(b, c, Newcomer(u)) /\ Joins(b, c, u) /\ FreeSlots(b) # {}
<1>1. bcursor_copy_own(b, u) = bcursor_new(b, u, b.lid[1], 0)
  BY DEF Served, OwnAtStart, OwnLine, bcursor_copy_own
<1> QED BY <1>1, NewcomerAdded

\* A newcomer to both.
LEMMA MirrorAdded ==
  ASSUME OwnAccounts, NEW a \in Users, NEW w, NEW b, Mirrors(w, b, a), Served(w),
         NEW u \in Users, ~Has(w, u)
  PROVE  Mirrors(bcursor_copy_own(w, u), bcursor_new(b, u, b.lid[b.first], 0), a)
<1> PICK v, c : v = bcursor_copy_own(w, u) /\ c = bcursor_new(b, u, b.lid[b.first], 0)
  OBVIOUS
<1>1. Copied(w) /\ Copied(b) /\ b.server_mode = FALSE /\ SameText(w, b) /\ SameUsers(w, b, a)
      /\ u # a /\ ~Has(b, u) /\ b.first = 1
  BY DEF Mirrors, SameUsers, Copied, Sound, GoodLines
<1>2. Copied(v) /\ Added(w, v, Newcomer(u)) /\ Joins(w, v, u) /\ FreeSlots(w) # {}
  BY <1>1, WorkerAdds
<1>3. Copied(c) /\ Added(b, c, Newcomer(u)) /\ Joins(b, c, u) /\ FreeSlots(b) # {}
  BY <1>1, NewcomerAdded
<1>4. SameText(v, c) /\ c.server_mode = FALSE
  BY <1>1, <1>2, <1>3 DEF Added, SameLines, SameText
<1>5. SameUsers(v, c, a)
  <2>1. a # NULL
    BY UserRange
  <2>2. ASSUME NEW x \in Users PROVE (Has(v, x) <=> (Has(w, x) \/ x = u))
                                     /\ (Has(c, x) <=> (Has(b, x) \/ x = u))
    <3>1. x # NULL
      BY UserRange
    <3> QED BY <1>2, <1>3, <3>1, HasJoined
  <2> QED BY <1>1, <2>2 DEF SameUsers
<1>6. ASSUME NEW j, NEW k, Paired(v, c, a, j, k) PROVE Level(v.curs[j], c.curs[k])
  <2>1. PICK i \in Slots : /\ v.curs[i] = Newcomer(u)
                           /\ \A n \in AllSlots : n # i => v.curs[n] = w.curs[n]
    BY <1>2 DEF Added
  <2>2. PICK m \in Slots : /\ c.curs[m] = Newcomer(u)
                           /\ \A n \in AllSlots : n # m => c.curs[n] = b.curs[n]
    BY <1>3 DEF Added
  <2>3. /\ j \in Slots /\ j \in AllSlots /\ k \in AllSlots
        /\ v.curs[j].id # NULL /\ c.curs[k].id = IdAt(a, v.curs[j].id)
    BY <1>6 DEF Paired, AllSlots
  <2>4. u # Own /\ Newcomer(u).id = u
    BY UserRange DEF Newcomer
  <2>5. CASE j = i
    <3>1. c.curs[k].id = u
      BY <1>1, <2>1, <2>3, <2>4, <2>5 DEF IdAt
    <3>2. k = m
      <4>1. m \in AllSlots
        BY DEF AllSlots
      <4> QED BY <1>3, <2>2, <2>3, <2>4, <3>1, <4>1, UserRange DEF Copied, DistinctIds
    <3> QED BY <2>1, <2>2, <2>5, <3>2 DEF Level
  <2>6. CASE j # i
    <3>1. v.curs[j] = w.curs[j]
      BY <2>1, <2>3, <2>6
    <3>2. w.curs[j].id # u
      BY <2>3 DEF Has
    <3>3. k # m
      BY <2>2, <2>3, <2>4, <3>1, <3>2 DEF IdAt
    <3>4. c.curs[k] = b.curs[k]
      BY <2>2, <2>3, <3>3
    <3>5. Paired(w, b, a, j, k)
      BY <2>3, <3>1, <3>4 DEF Paired
    <3> QED BY <3>1, <3>4, <3>5 DEF Mirrors
  <2> QED BY <2>5, <2>6
<1> QED BY <1>2, <1>3, <1>4, <1>5, <1>6 DEF Mirrors

\* The cursor of a user is freed, where he has one.
LEMMA FreedCopied ==
  ASSUME NEW b, Copied(b), NEW u \in Nat, u # Own, u # NULL, HasCursor(b, u)
  PROVE  LET c == bcursor_free(b, u) IN
         /\ Copied(c) /\ SameLines(b, c)
         /\ \A j \in AllSlots : c.curs[j] = IF j = bcursor_find(b, u) THEN NoCursor ELSE b.curs[j]
         /\ \A x : x # NULL => (Has(c, x) <=> (Has(b, x) /\ x # u))
<1> PICK c : c = bcursor_free(b, u)
  OBVIOUS
<1>1. Sound(b) /\ IdsIn(b, Users) /\ DistinctIds(b.curs)
  BY DEF Copied
<1>2. /\ Sound(c) /\ IdsIn(c, Users) /\ SameLines(b, c) /\ DistinctIds(c.curs)
      /\ \A j \in AllSlots : c.curs[j] = IF j = bcursor_find(b, u) THEN NoCursor ELSE b.curs[j]
  BY <1>1, FreeSound
<1>3. Leaves(b, c, u)
  BY <1>2 DEF Leaves
<1>4. \A j, k \in Slots : b.curs[j].id = u /\ b.curs[k].id = u => j = k
  BY <1>1 DEF DistinctIds, AllSlots
<1>5. \A x : x # NULL => (Has(c, x) <=> (Has(b, x) /\ x # u))
  BY <1>1, <1>3, <1>4, HasLeft
<1> QED BY <1>2, <1>5 DEF Copied

\* Another user leaves both.
LEMMA MirrorFreed ==
  ASSUME OwnAccounts, NEW a \in Users, NEW w, NEW b, Mirrors(w, b, a),
         NEW u \in Users, u # a, Has(w, u)
  PROVE  Mirrors(bcursor_free(w, u), bcursor_free(b, u), a)
<1> PICK v, c : v = bcursor_free(w, u) /\ c = bcursor_free(b, u)
  OBVIOUS
<1> PICK i, m : i = bcursor_find(w, u) /\ m = bcursor_find(b, u)
  OBVIOUS
<1>1. HasCursor(w, u) /\ HasCursor(b, u) /\ u \in Nat /\ u # Own /\ u # NULL /\ a # NULL
  BY PairOf, UserRange
<1>2. Copied(w) /\ Copied(b) /\ b.server_mode = FALSE /\ SameText(w, b) /\ SameUsers(w, b, a)
  BY DEF Mirrors
<1>3. /\ Copied(v) /\ SameLines(w, v)
      /\ \A j \in AllSlots : v.curs[j] = IF j = i THEN NoCursor ELSE w.curs[j]
      /\ \A x : x # NULL => (Has(v, x) <=> (Has(w, x) /\ x # u))
  BY <1>1, <1>2, FreedCopied
<1>4. /\ Copied(c) /\ SameLines(b, c)
      /\ \A j \in AllSlots : c.curs[j] = IF j = m THEN NoCursor ELSE b.curs[j]
      /\ \A x : x # NULL => (Has(c, x) <=> (Has(b, x) /\ x # u))
  BY <1>1, <1>2, FreedCopied
<1>5. SameText(v, c) /\ c.server_mode = FALSE
  BY <1>2, <1>3, <1>4 DEF SameLines, SameText
<1>6. SameUsers(v, c, a)
  <2>1. \A x \in Users : x # NULL
    BY UserRange
  <2> QED BY <1>1, <1>2, <1>3, <1>4, <2>1 DEF SameUsers
<1>7. ASSUME NEW j, NEW k, Paired(v, c, a, j, k) PROVE Level(v.curs[j], c.curs[k])
  <2>1. /\ j \in Slots /\ j \in AllSlots /\ k \in AllSlots
        /\ v.curs[j].id # NULL /\ c.curs[k].id = IdAt(a, v.curs[j].id)
    BY <1>7 DEF Paired, AllSlots
  <2>2. c.curs[k].id # NULL
    BY <2>1, AllSlotsNat DEF IdAt, NULL
  <2>3. v.curs[j] = w.curs[j]
    BY <1>3, <2>1, NoCursorId
  <2>4. c.curs[k] = b.curs[k]
    BY <1>4, <2>1, <2>2, NoCursorId
  <2>5. Paired(w, b, a, j, k)
    BY <2>1, <2>3, <2>4 DEF Paired
  <2> QED BY <2>3, <2>4, <2>5 DEF Mirrors
<1> QED BY <1>3, <1>4, <1>5, <1>6, <1>7 DEF Mirrors

\* The copy that a user builds from what he is sent before he gets his cursor.
LEMMA MirrorLoaded ==
  ASSUME OwnAccounts, NEW a \in Users, NEW w, Copied(w), Served(w), ~Has(w, a)
  PROVE  Mirrors(bcursor_copy_own(w, a), buffer_deserialize(buffer_serialize(w)), a)
<1> PICK y : y = buffer_serialize(w)
  OBVIOUS
<1> PICK v, c : v = bcursor_copy_own(w, a) /\ c = buffer_deserialize(y)
  OBVIOUS
<1>1. Copied(v) /\ Added(w, v, Newcomer(a)) /\ Joins(w, v, a) /\ FreeSlots(w) # {}
  BY WorkerAdds
<1>2. Sound(w) /\ IdsIn(w, Users) /\ DistinctIds(w.curs) /\ DOMAIN w = Fields
  BY DEF Copied, Sound, GoodLines
<1>3. SameLines(w, y) /\ y.curs = w.curs
  BY <1>2, SerializeSame DEF Same
<1>4. Sound(y) /\ IdsIn(y, Users) /\ DistinctIds(y.curs)
  <2>1. Sound(y)
    BY <1>2, <1>3, SoundSame DEF Same
  <2> QED BY <1>2, <1>3, <2>1 DEF IdsIn
<1>5. /\ c.str = y.str /\ c.last = y.last /\ c.server_mode = FALSE
      /\ c.curs[Own] = y.curs[Own]
      /\ \A j \in Slots : y.curs[j].id # NULL /\ y.curs[j].id < MAX_CURSOR_NUM =>
           \E k \in Slots : c.curs[k] = y.curs[j]
  BY <1>4, DeserializeSound
<1>6. Copied(c) /\ \A u \in Users : Has(c, u) <=> Has(y, u)
  BY <1>4, HasDeserialized
<1>7. a # NULL /\ a # Own /\ Newcomer(a).id = a
  BY UserRange DEF Newcomer
<1>8. SameText(v, c)
  BY <1>1, <1>3, <1>5 DEF Added, SameLines, SameText
<1>9. SameUsers(v, c, a)
  <2>1. \A u : Has(y, u) <=> Has(w, u)
    BY <1>3 DEF Has
  <2>2. ASSUME NEW u \in Users PROVE Has(v, u) <=> (Has(w, u) \/ u = a)
    <3>1. u # NULL
      BY UserRange
    <3> QED BY <1>1, <3>1, HasJoined
  <2> QED BY <1>6, <2>1, <2>2 DEF SameUsers
<1>10. ASSUME NEW j, NEW k, Paired(v, c, a, j, k) PROVE Level(v.curs[j], c.curs[k])
  <2>1. PICK i \in Slots : /\ v.curs[i] = Newcomer(a)
                           /\ \A n \in AllSlots : n # i => v.curs[n] = w.curs[n]
    BY <1>1 DEF Added
  <2>2. /\ j \in Slots /\ j \in AllSlots /\ k \in AllSlots
        /\ v.curs[j].id # NULL /\ c.curs[k].id = IdAt(a, v.curs[j].id)
    BY <1>10 DEF Paired, AllSlots
  <2>3. CASE j = i
    <3>1. c.curs[k].id = Own
      BY <1>7, <2>1, <2>2, <2>3 DEF IdAt
    <3>2. k = Own
      BY <1>6, <2>2, <3>1 DEF Copied, Sound, GoodCursors, IdsOfSlots, AllSlots
    <3>3. c.curs[k].line = 1 /\ c.curs[k].pos = 0
      BY <1>3, <1>5, <3>2 DEF Served, OwnAtStart
    <3> QED BY <2>1, <2>3, <3>3 DEF Level, Newcomer
  <2>4. CASE j # i
    <3>1. v.curs[j] = w.curs[j]
      BY <2>1, <2>2, <2>4
    <3>2. w.curs[j].id # a /\ w.curs[j].id # NULL /\ w.curs[j].id # Own
      BY <1>2, <2>2, <3>1 DEF Has, Sound, GoodCursors, IdsOfSlots
    <3>3. w.curs[j].id \in Users
      BY <1>2, <2>2, <3>2 DEF IdsIn
    <3>4. w.curs[j].id < MAX_CURSOR_NUM
      BY <3>3, UserRange, ConstantsAssumption
    <3>5. PICK n \in Slots : c.curs[n] = w.curs[j]
      BY <1>3, <1>5, <2>2, <3>2, <3>4
    <3>6. c.curs[k].id = w.curs[j].id
      BY <2>2, <3>1, <3>2 DEF IdAt
    <3>7. n = k
      <4>1. n \in AllSlots /\ c.curs[n].id = c.curs[k].id /\ c.curs[n].id # NULL
        BY <3>2, <3>5, <3>6 DEF AllSlots
      <4> QED BY <1>6, <2>2, <4>1 DEF Copied, DistinctIds
    <3> QED BY <3>1, <3>5, <3>7 DEF Level
  <2> QED BY <2>3, <2>4
<1> QED BY <1>1, <1>5, <1>6, <1>8, <1>9, <1>10 DEF Mirrors

-----------------------------------------------------------------------------
(***************************************************************************)
(* What an editor will see when all of the stream s has arrived that       *)
(* follows its message q, starting from buffer b: a mirror of w.           *)
(***************************************************************************)
IsTrace(e, h, b, s, q) ==
  /\ h[q] = b
  /\ \A n \in q + 1 .. Len(s) : /\ s[n].type \in Operations \cup CursorMessages
                                /\ h[n] = Follow(e, h[n - 1], s[n])

Reaches(e, b, s, q, w) ==
  \E h : IsTrace(e, h, b, s, q) /\ Mirrors(w, h[Len(s)], account[e])

\* What w becomes it becomes too when the message m has been followed.
LEMMA ReachesMore ==
  ASSUME NEW e, NEW b, NEW s, IsStream(s), NEW q \in 0 .. Len(s), NEW w, Reaches(e, b, s, q, w),
         NEW m, m.type \in Operations \cup CursorMessages, NEW t, Longer(s, t, m), NEW v,
         \A c : Mirrors(w, c, account[e]) => Mirrors(v, Follow(e, c, m), account[e])
  PROVE  Reaches(e, b, t, q, v)
<1>1. PICK h : IsTrace(e, h, b, s, q) /\ Mirrors(w, h[Len(s)], account[e])
  BY DEF Reaches
<1> PICK N : N = Len(s)
  OBVIOUS
<1> PICK x : x = Follow(e, h[N], m)
  OBVIOUS
<1> DEFINE g == [n \in q .. N + 1 |-> IF n = N + 1 THEN x ELSE h[n]]
<1>2. N \in Nat /\ q \in 0 .. N /\ Len(t) = N + 1 /\ t[N + 1] = m /\ \A i \in 1 .. N : t[i] = s[i]
  BY StreamFacts DEF Longer
<1>3. /\ q \in q .. N + 1 /\ q # N + 1 /\ N + 1 \in q .. N + 1 /\ (N + 1) - 1 = N
      /\ N \in q .. N + 1 /\ N # N + 1
      /\ \A n \in q + 1 .. N + 1 : n = N + 1 \/ (n \in q + 1 .. N /\ n \in 1 .. N /\ n \in q .. N + 1
                                                 /\ n # N + 1 /\ n - 1 \in q .. N + 1 /\ n - 1 # N + 1)
  BY <1>2
<1>4. \A n \in q .. N + 1 : g[n] = IF n = N + 1 THEN x ELSE h[n]
  OBVIOUS
<1> HIDE DEF g
<1>5. g[q] = b /\ g[N + 1] = x /\ g[N] = h[N]
  BY <1>1, <1>3, <1>4 DEF IsTrace
<1>6. ASSUME NEW n \in q + 1 .. N + 1
      PROVE  t[n].type \in Operations \cup CursorMessages /\ g[n] = Follow(e, g[n - 1], t[n])
  <2>1. CASE n = N + 1
    BY <1>2, <1>3, <1>5, <2>1
  <2>2. CASE n \in q + 1 .. N /\ n \in 1 .. N /\ n \in q .. N + 1 /\ n # N + 1
             /\ n - 1 \in q .. N + 1 /\ n - 1 # N + 1
    <3>1. g[n] = h[n] /\ g[n - 1] = h[n - 1] /\ t[n] = s[n]
      BY <1>2, <1>4, <2>2
    <3>2. s[n].type \in Operations \cup CursorMessages /\ h[n] = Follow(e, h[n - 1], s[n])
      BY <1>1, <2>2 DEF IsTrace
    <3> QED BY <3>1, <3>2
  <2> QED BY <1>3, <2>1, <2>2
<1>7. IsTrace(e, g, b, t, q)
  BY <1>2, <1>5, <1>6 DEF IsTrace
<1>8. Mirrors(v, g[Len(t)], account[e])
  BY <1>1, <1>2, <1>5
<1> QED BY <1>7, <1>8 DEF Reaches

\* The buffer has just been sent.
LEMMA ReachesNew ==
  ASSUME NEW e, NEW b, NEW t, NEW q \in Nat, Len(t) = q, NEW w, Mirrors(w, b, account[e])
  PROVE  Reaches(e, b, t, q, w)
<1> PICK h : h = [n \in {q} |-> b]
  OBVIOUS
<1>1. h[q] = b /\ q + 1 .. Len(t) = {}
  OBVIOUS
<1>2. IsTrace(e, h, b, t, q) /\ Mirrors(w, h[Len(t)], account[e])
  BY <1>1 DEF IsTrace
<1> QED BY <1>2 DEF Reaches

\* A message before the buffer, or the buffer itself, has been taken.
LEMMA ReachesLater ==
  ASSUME NEW e, NEW b, NEW s, NEW t, RestOf(s, t), NEW q \in 1 .. Len(s), NEW w,
         Reaches(e, b, s, q, w)
  PROVE  Reaches(e, b, t, q - 1, w)
<1>1. PICK h : IsTrace(e, h, b, s, q) /\ Mirrors(w, h[Len(s)], account[e])
  BY DEF Reaches
<1> PICK N, r : N = Len(s) /\ r = q - 1
  OBVIOUS
<1> DEFINE g == [n \in r .. N - 1 |-> h[n + 1]]
<1>2. N \in Nat /\ q \in 1 .. N /\ Len(t) = N - 1 /\ \A i \in 1 .. N - 1 : t[i] = s[i + 1]
  BY DEF RestOf
<1>3. /\ r \in r .. N - 1 /\ N - 1 \in r .. N - 1 /\ r + 1 = q /\ (N - 1) + 1 = N
      /\ \A n \in r + 1 .. N - 1 : /\ n \in 1 .. N - 1 /\ n \in r .. N - 1 /\ n - 1 \in r .. N - 1
                                   /\ n + 1 \in q + 1 .. N /\ (n - 1) + 1 = (n + 1) - 1
  BY <1>2
<1>4. \A n \in r .. N - 1 : g[n] = h[n + 1]
  OBVIOUS
<1> HIDE DEF g
<1>5. g[r] = b /\ g[N - 1] = h[N]
  <2>1. g[r] = h[r + 1] /\ g[N - 1] = h[(N - 1) + 1]
    BY <1>3, <1>4
  <2> QED BY <1>1, <1>3, <2>1 DEF IsTrace
<1>6. ASSUME NEW n \in r + 1 .. N - 1
      PROVE  t[n].type \in Operations \cup CursorMessages /\ g[n] = Follow(e, g[n - 1], t[n])
  <2>1. g[n] = h[n + 1] /\ g[n - 1] = h[(n - 1) + 1] /\ t[n] = s[n + 1] /\ n + 1 \in q + 1 .. N
        /\ (n - 1) + 1 = (n + 1) - 1
    BY <1>2, <1>3, <1>4
  <2>2. g[n - 1] = h[(n + 1) - 1]
    BY <2>1
  <2>3. /\ s[n + 1].type \in Operations \cup CursorMessages
        /\ h[n + 1] = Follow(e, h[(n + 1) - 1], s[n + 1])
    BY <1>1, <2>1 DEF IsTrace
  <2> QED BY <2>1, <2>2, <2>3
<1>7. IsTrace(e, g, b, t, r)
  BY <1>2, <1>5, <1>6 DEF IsTrace
<1> QED BY <1>1, <1>2, <1>5, <1>7 DEF Reaches

\* The first message after the buffer has been followed.
LEMMA ReachesTaken ==
  ASSUME NEW e, NEW b, NEW s, NEW t, RestOf(s, t), NEW w, Reaches(e, b, s, 0, w)
  PROVE  /\ s[1].type \in Operations \cup CursorMessages
         /\ Reaches(e, Follow(e, b, s[1]), t, 0, w)
<1>1. PICK h : IsTrace(e, h, b, s, 0) /\ Mirrors(w, h[Len(s)], account[e])
  BY DEF Reaches
<1>2. 1 \in 0 + 1 .. Len(s) /\ 1 - 1 = 0 /\ 1 \in 1 .. Len(s) /\ Len(s) \in Nat
  BY DEF RestOf
<1>3. s[1].type \in Operations \cup CursorMessages /\ h[1] = Follow(e, b, s[1])
  <2>1. s[1].type \in Operations \cup CursorMessages /\ h[1] = Follow(e, h[1 - 1], s[1]) /\ h[0] = b
    BY <1>1, <1>2 DEF IsTrace
  <2> QED BY <1>2, <2>1
<1>4. IsTrace(e, h, h[1], s, 1)
  <2>1. \A n \in 1 + 1 .. Len(s) : n \in 0 + 1 .. Len(s)
    BY <1>2
  <2> QED BY <1>1, <2>1 DEF IsTrace
<1>5. Reaches(e, h[1], s, 1, w)
  BY <1>1, <1>4 DEF Reaches
<1>6. Reaches(e, h[1], t, 0, w)
  BY <1>2, <1>5, ReachesLater
<1> QED BY <1>3, <1>6

-----------------------------------------------------------------------------
(***************************************************************************)
(* What an editor shows: u and d are its streams, s its state, c its copy  *)
(* and k its connection.  With all that is on its way, what it has, or the *)
(* buffer that comes, is a mirror of the worker's buffer w, as long as its *)
(* user only watches.                                                      *)
(***************************************************************************)
Loaded(d, c, q) == IF q = 0 THEN c ELSE buffer_deserialize(d[q].payload)

Shows(e, u, d, s, c, k, w) ==
  \A q \in 0 .. Len(d) : HasBase(d, s, q) =>
    k = "polled" /\ u = << >> /\ Reaches(e, Loaded(d, c, q), d, q, w)

\* An editor without the file, and to which it is not on its way, shows nothing.
LEMMA ShowsNothing ==
  ASSUME NEW e, NEW u, NEW d, NEW s, NEW c, NEW k, NEW w, s # "open",
         s = "waiting" => \A q \in 1 .. Len(d) : d[q].type # "FILE_RESPONSE"
  PROVE  Shows(e, u, d, s, c, k, w)
<1>1. \A q \in 0 .. Len(d) : ~HasBase(d, s, q)
  BY DEF HasBase
<1> QED BY <1>1 DEF Shows

\* The worker's buffer has changed, and the message that changes the copy alike is
\* on its way.
LEMMA ShowsMore ==
  ASSUME NEW e, NEW u, NEW d, IsStream(d), NEW s, NEW c, NEW k, NEW w, Shows(e, u, d, s, c, k, w),
         NEW m, m.type \in Operations \cup CursorMessages, NEW t, Longer(d, t, m), NEW v,
         \A x : Mirrors(w, x, account[e]) => Mirrors(v, Follow(e, x, m), account[e])
  PROVE  Shows(e, u, t, s, c, k, v)
<1> PICK N : N = Len(d)
  OBVIOUS
<1>1. N \in Nat /\ Len(t) = N + 1 /\ t[N + 1] = m /\ \A i \in 1 .. N : t[i] = d[i]
  BY StreamFacts DEF Longer
<1>2. m.type # "FILE_RESPONSE"
  BY DEF Operations, CursorMessages
<1>3. ASSUME NEW q \in 0 .. Len(t), HasBase(t, s, q)
      PROVE  q \in 0 .. Len(d) /\ HasBase(d, s, q) /\ Loaded(t, c, q) = Loaded(d, c, q)
  <2>1. q # N + 1
    BY <1>1, <1>2, <1>3 DEF HasBase
  <2>2. q \in 0 .. N /\ (q # 0 => q \in 1 .. N)
    BY <1>1, <2>1
  <2> QED BY <1>1, <1>3, <2>2 DEF HasBase, Loaded
<1>4. ASSUME NEW q \in 0 .. Len(t), HasBase(t, s, q)
      PROVE  k = "polled" /\ u = << >> /\ Reaches(e, Loaded(t, c, q), t, q, v)
  <2>1. q \in 0 .. Len(d) /\ HasBase(d, s, q) /\ Loaded(t, c, q) = Loaded(d, c, q)
    BY <1>3, <1>4
  <2>2. k = "polled" /\ u = << >> /\ Reaches(e, Loaded(d, c, q), d, q, w)
    BY <2>1 DEF Shows
  <2> PICK b : b = Loaded(d, c, q)
    OBVIOUS
  <2>3. Reaches(e, b, t, q, v)
    BY <2>1, <2>2, ReachesMore
  <2> QED BY <2>1, <2>2, <2>3
<1> QED BY <1>4 DEF Shows

\* The answer to a first message.
LEMMA ShowsAnswer ==
  ASSUME NEW e, NEW u, u # << >>, NEW d, IsStream(d), NEW s, s # "open", NEW c, NEW k, NEW w,
         Shows(e, u, d, s, c, k, w), NEW m, NEW t, Longer(d, t, m), NEW r, NEW v,
         m.type = "FILE_RESPONSE" =>
           r = << >> /\ Mirrors(v, buffer_deserialize(m.payload), account[e])
  PROVE  Shows(e, r, t, s, c, "polled", v)
<1> PICK N : N = Len(d)
  OBVIOUS
<1>1. N \in Nat /\ Len(t) = N + 1 /\ t[N + 1] = m /\ \A i \in 1 .. N : t[i] = d[i]
  BY StreamFacts DEF Longer
<1>2. ASSUME NEW q \in 0 .. Len(t), HasBase(t, s, q)
      PROVE  q = N + 1 /\ m.type = "FILE_RESPONSE" /\ Loaded(t, c, q) = buffer_deserialize(m.payload)
  <2>1. q \in 1 .. N + 1 /\ t[q].type = "FILE_RESPONSE" /\ s = "waiting"
    BY <1>1, <1>2 DEF HasBase
  <2>2. q \notin 1 .. N
    <3> SUFFICES ASSUME q \in 1 .. N PROVE FALSE
      OBVIOUS
    <3>1. q \in 0 .. Len(d) /\ HasBase(d, s, q)
      BY <1>1, <2>1 DEF HasBase
    <3> QED BY <3>1 DEF Shows
  <2>3. q = N + 1 /\ q # 0
    BY <1>1, <2>1, <2>2
  <2> QED BY <1>1, <2>1, <2>3 DEF Loaded
<1>3. ASSUME m.type = "FILE_RESPONSE"
      PROVE  r = << >> /\ Reaches(e, buffer_deserialize(m.payload), t, N + 1, v)
  <2> PICK b : b = buffer_deserialize(m.payload)
    OBVIOUS
  <2>1. N + 1 \in Nat /\ Len(t) = N + 1 /\ Mirrors(v, b, account[e])
    BY <1>1, <1>3
  <2>2. Reaches(e, b, t, N + 1, v)
    BY <2>1, ReachesNew
  <2> QED BY <1>3, <2>2
<1> QED BY <1>2, <1>3 DEF Shows

\* A message was taken before the file is.
LEMMA ShowsBefore ==
  ASSUME NEW e, NEW u, NEW d, NEW c, NEW k, NEW w, Shows(e, u, d, "waiting", c, k, w),
         NEW t, RestOf(d, t), NEW x
  PROVE  Shows(e, u, t, "waiting", x, k, w)
<1> PICK N : N = Len(d)
  OBVIOUS
<1>1. N \in Nat /\ N >= 1 /\ Len(t) = N - 1 /\ \A i \in 1 .. N - 1 : t[i] = d[i + 1]
  BY DEF RestOf
<1>2. ASSUME NEW r \in 0 .. Len(t), HasBase(t, "waiting", r)
      PROVE  k = "polled" /\ u = << >> /\ Reaches(e, Loaded(t, x, r), t, r, w)
  <2> PICK q : q = r + 1
    OBVIOUS
  <2>1. r \in 1 .. N - 1 /\ t[r].type = "FILE_RESPONSE"
    BY <1>1, <1>2 DEF HasBase
  <2>2. q \in 1 .. Len(d) /\ q \in 0 .. Len(d) /\ q # 0 /\ r # 0 /\ q - 1 = r /\ t[r] = d[q]
    BY <1>1, <2>1
  <2>3. HasBase(d, "waiting", q) /\ Loaded(d, c, q) = Loaded(t, x, r)
    BY <2>1, <2>2 DEF HasBase, Loaded
  <2>4. k = "polled" /\ u = << >> /\ Reaches(e, Loaded(t, x, r), d, q, w)
    BY <2>2, <2>3 DEF Shows
  <2> PICK b : b = Loaded(t, x, r)
    OBVIOUS
  <2>5. Reaches(e, b, t, q - 1, w)
    BY <2>2, <2>4, ReachesLater
  <2> QED BY <2>2, <2>4, <2>5
<1> QED BY <1>2 DEF Shows

\* The file was taken.
LEMMA ShowsFile ==
  ASSUME NEW e, NEW u, NEW d, NEW c, NEW k, NEW w, Shows(e, u, d, "waiting", c, k, w),
         NEW t, RestOf(d, t), d[1].type = "FILE_RESPONSE"
  PROVE  Shows(e, u, t, "open", buffer_deserialize(d[1].payload), k, w)
<1> PICK x : x = buffer_deserialize(d[1].payload)
  OBVIOUS
<1>1. 1 \in 1 .. Len(d) /\ 1 \in 0 .. Len(d) /\ 1 - 1 = 0 /\ 1 # 0
  BY DEF RestOf
<1>2. HasBase(d, "waiting", 1) /\ Loaded(d, c, 1) = x
  BY <1>1 DEF HasBase, Loaded
<1>3. k = "polled" /\ u = << >> /\ Reaches(e, x, d, 1, w)
  BY <1>1, <1>2 DEF Shows
<1>4. Reaches(e, x, t, 0, w)
  BY <1>1, <1>3, ReachesLater
<1>5. \A r \in 0 .. Len(t) : HasBase(t, "open", r) => r = 0 /\ Loaded(t, x, r) = x
  BY DEF HasBase, Loaded
<1> QED BY <1>3, <1>4, <1>5 DEF Shows

\* A message was followed.
LEMMA ShowsTaken ==
  ASSUME NEW e, NEW u, NEW d, NEW c, NEW k, NEW w, Shows(e, u, d, "open", c, k, w),
         NEW t, RestOf(d, t)
  PROVE  /\ d[1].type \in Operations \cup CursorMessages
         /\ Shows(e, u, t, "open", Follow(e, c, d[1]), k, w)
<1> PICK x : x = Follow(e, c, d[1])
  OBVIOUS
<1>1. 0 \in 0 .. Len(d)
  BY DEF RestOf
<1>2. HasBase(d, "open", 0) /\ Loaded(d, c, 0) = c
  BY DEF HasBase, Loaded
<1>3. k = "polled" /\ u = << >> /\ Reaches(e, c, d, 0, w)
  BY <1>1, <1>2 DEF Shows
<1>4. d[1].type \in Operations \cup CursorMessages /\ Reaches(e, x, t, 0, w)
  BY <1>3, ReachesTaken
<1>5. \A r \in 0 .. Len(t) : HasBase(t, "open", r) => r = 0 /\ Loaded(t, x, r) = x
  BY DEF HasBase, Loaded
<1> QED BY <1>3, <1>4, <1>5 DEF Shows

-----------------------------------------------------------------------------
(***************************************************************************)
(* Steps keep what the editors show.                                       *)
(***************************************************************************)
AllShow ==
  /\ \A e \in reset : Ended(e)
  /\ \A e \in Editors \ Typists : Shows(e, up[e], down[e], editor[e], copy[e], conn[e], worker)

\* The worker's buffer has at most one cursor of each user, and none of those who await
\* theirs.
LEMMA WorkerCopied ==
  ASSUME OwnAccounts, Sound(worker), Match
  PROVE  Copied(worker) /\ \A p \in Editors : Has(worker, account[p]) => p \notin Awaited
<1>1. /\ IdsIn(worker, Users)
      /\ \A u \in Users : \A j, k \in Slots :
           worker.curs[j].id = u /\ worker.curs[k].id = u => j = k
      /\ \A p \in Editors : Has(worker, account[p]) => p \notin Awaited
  BY WorkerHas
<1>2. \A j \in Slots : worker.curs[j].id # NULL => worker.curs[j].id \in Users
  BY <1>1 DEF IdsIn, AllSlots, Sound, GoodCursors, IdsOfSlots
<1>3. worker.curs[Own].id = Own /\ \A j \in Slots : worker.curs[j].id # Own
  BY DEF Sound, GoodCursors, IdsOfSlots
<1>4. ASSUME NEW j \in AllSlots, NEW k \in AllSlots, worker.curs[j].id = worker.curs[k].id
      PROVE  j = k \/ worker.curs[j].id = NULL
  <2>1. CASE j = Own \/ k = Own
    BY <1>3, <1>4, <2>1 DEF AllSlots
  <2>2. CASE j \in Slots /\ k \in Slots
    BY <1>1, <1>2, <1>4, <2>2
  <2> QED BY <2>1, <2>2 DEF AllSlots
<1> QED BY <1>1, <1>4 DEF Copied, DistinctIds

\* Only who has ended refuses.
LEMMA SendRefused ==
  ASSUME NEW out, Send(out), running' # "sigpipe", \A e \in reset : Ended(e), editor' = editor
  PROVE  \A e \in reset' : Ended(e)'
<1> DEFINE lost == { f \in Editors : out[f] # << >> /\ Ended(f) }
<1>1. PICK refused \in SUBSET lost : reset' = reset \cup refused
  BY DEF Send
<1> QED BY <1>1 DEF Ended

\* Word of e is sent to the others.
LEMMA WordShown ==
  ASSUME Streams(down), Places, AllShow, NEW e \in Editors,
         NEW out, Send(out), running' # "sigpipe", out[e] = << >> \/ (\E m : out[e] = <<m>>),
         NEW x, \A f \in Editors : f # e => out[f] = IF f \in Polled THEN <<x>> ELSE << >>,
         \A f \in Editors : f # e => up'[f] = up[f] /\ conn'[f] = conn[f],
         editor' = editor, copy' = copy, x.type \in Operations \cup CursorMessages,
         NEW f \in Editors \ Typists, f # e,
         \A c : Mirrors(worker, c, account[f]) => Mirrors(worker', Follow(f, c, x), account[f])
  PROVE  Shows(f, up'[f], down'[f], editor'[f], copy'[f], conn'[f], worker')
<1>1. \A g \in Editors : out[g] = << >> \/ (\E m : out[g] = <<m>>)
  OBVIOUS
<1>2. ~Ended(f) /\ out[f] = <<x>> => Longer(down[f], down'[f], x)
  BY <1>1, SendDown
<1> PICK u, d, s, c, k, w : /\ u = up[f] /\ d = down[f] /\ s = editor[f] /\ c = copy[f]
                            /\ k = conn[f] /\ w = worker
  OBVIOUS
<1> PICK t, v : t = down'[f] /\ v = worker'
  OBVIOUS
<1>3. IsStream(d) /\ Shows(f, u, d, s, c, k, w)
  BY DEF AllShow, Streams
<1>4. /\ \A g \in Editors : down'[g] = down[g] \/ (~Ended(g) /\ \E m : out[g] = <<m>>)
      /\ (\A g : out[g] = << >> => \A m : out[g] # <<m>>)
  BY <1>1, SendDown, NoMessage
<1>5. CASE f \in Polled /\ ~Ended(f)
  <2>1. Longer(d, t, x)
    BY <1>2, <1>5
  <2>2. \A y : Mirrors(w, y, account[f]) => Mirrors(v, Follow(f, y, x), account[f])
    OBVIOUS
  <2>3. Shows(f, u, t, s, c, k, v)
    BY <1>3, <2>1, <2>2, ShowsMore
  <2> QED BY <2>3
<1>6. CASE Ended(f)
  <2>1. s # "open" /\ s # "waiting"
    BY <1>6 DEF Ended, Ends
  <2>2. Shows(f, u, t, s, c, k, v)
    BY <2>1, ShowsNothing
  <2> QED BY <2>2
<1>7. CASE f \notin Polled
  <2>1. k # "polled" /\ out[f] = << >>
    BY <1>7 DEF Places
  <2>2. t = d
    BY <1>4, <2>1
  <2>3. Shows(f, u, t, s, c, k, v)
    BY <1>3, <2>1, <2>2 DEF Shows
  <2> QED BY <2>3
<1> QED BY <1>5, <1>6, <1>7

\* An editor to which nothing happens, while the worker's buffer stays.
LEMMA UntouchedShows ==
  ASSUME AllShow, NEW f \in Editors \ Typists, worker' = worker, up'[f] = up[f],
         down'[f] = down[f], editor'[f] = editor[f], copy'[f] = copy[f], conn'[f] = conn[f]
  PROVE  Shows(f, up'[f], down'[f], editor'[f], copy'[f], conn'[f], worker')
<1> PICK u, d, s, c, k, w : /\ u = up[f] /\ d = down[f] /\ s = editor[f] /\ c = copy[f]
                            /\ k = conn[f] /\ w = worker
  OBVIOUS
<1>1. Shows(f, u, d, s, c, k, w)
  BY DEF AllShow
<1> QED BY <1>1

\* A connection ends, or has not been accepted: what it was sent is no buffer.
LEMMA ClosedShows ==
  ASSUME Inv, AllShow, NEW e \in Editors, Accept(e) \/ HangUp(e) \/ NotLoggedIn(e)
  PROVE  AllShow'
<1>1. /\ UNCHANGED <<worker, editor, copy, down, reset>>
      /\ \A f \in Editors : f # e => up'[f] = up[f] /\ conn'[f] = conn[f]
  BY CloseUp DEF Accept, HangUp, NotLoggedIn, Close, Inv, Plain, UpGood, net
<1>2. \A f \in reset' : Ended(f)'
  BY <1>1 DEF AllShow, Ended
<1>3. ASSUME NEW f \in Editors \ Typists, f # e
      PROVE  Shows(f, up'[f], down'[f], editor'[f], copy'[f], conn'[f], worker')
  BY <1>1, <1>3, UntouchedShows
<1>4. ASSUME e \notin Typists
      PROVE  Shows(e, up'[e], down'[e], editor'[e], copy'[e], conn'[e], worker')
  <2> PICK u, d, s, c, k, w : /\ u = up[e] /\ d = down[e] /\ s = editor[e] /\ c = copy[e]
                              /\ k = conn[e] /\ w = worker
    OBVIOUS
  <2> PICK x, l : x = up'[e] /\ l = conn'[e]
    OBVIOUS
  <2>1. Shows(e, u, d, s, c, k, w)
    BY <1>4 DEF AllShow
  <2>2. k # "polled" \/ u # << >> \/ Ended(e)
    BY DEF Accept, HangUp, NotLoggedIn, AllShow
  <2>3. \A q \in 0 .. Len(d) : ~HasBase(d, s, q)
    <3>1. CASE k # "polled" \/ u # << >>
      BY <2>1, <3>1 DEF Shows
    <3>2. CASE Ended(e)
      BY <3>2 DEF Ended, Ends, HasBase
    <3> QED BY <2>2, <3>1, <3>2
  <2>4. Shows(e, x, d, s, c, l, w)
    BY <2>3 DEF Shows
  <2> QED BY <1>1, <2>4
<1> QED BY <1>2, <1>3, <1>4 DEF AllShow

\* e is answered.
LEMMA AnswerShown ==
  ASSUME Inv, InStep, AllShow, NEW e \in Editors \ Typists, conn[e] = "polled",
         up[e] # << >>, Taken(e), Head(up[e]).type \in Starting,
         NEW m, ~Ended(e) => Longer(down[e], down'[e], m),
         editor' = editor, conn' = conn, copy' = copy,
         m.type = "FILE_RESPONSE" => Mirrors(worker', buffer_deserialize(m.payload), account[e])
  PROVE  Shows(e, up'[e], down'[e], editor'[e], copy'[e], conn'[e], worker')
<1> PICK u, d, s, c, w : u = up[e] /\ d = down[e] /\ s = editor[e] /\ c = copy[e] /\ w = worker
  OBVIOUS
<1> PICK r, t, v : r = up'[e] /\ t = down'[e] /\ v = worker'
  OBVIOUS
<1>1. IsStream(u) /\ IsStream(d) /\ InTurn(u, d, s, "polled") /\ Shorter(u, r) /\ u # << >>
  BY TakeUp DEF Inv, UpGood, DownGood, Streams, InStep, Turns, Turn
<1>2. r = << >> /\ s # "open"
  <2>1. Carries(u, Starting)
    BY <1>1, CarriesHead
  <2> QED BY <1>1, <2>1, TurnTaken
<1>3. Shows(e, u, d, s, c, "polled", w)
  BY DEF AllShow
<1>4. CASE ~Ended(e)
  <2>1. Longer(d, t, m)
    BY <1>4
  <2>2. m.type = "FILE_RESPONSE" => r = << >> /\ Mirrors(v, buffer_deserialize(m.payload), account[e])
    BY <1>2
  <2>3. Shows(e, r, t, s, c, "polled", v)
    BY <1>1, <1>2, <1>3, <2>1, <2>2, ShowsAnswer
  <2> QED BY <2>3
<1>5. CASE Ended(e)
  <2>1. s # "waiting"
    BY <1>5 DEF Ended, Ends
  <2>2. Shows(e, r, t, s, c, "polled", v)
    BY <1>2, <2>1, ShowsNothing
  <2> QED BY <2>2
<1> QED BY <1>4, <1>5

LEMMA LoginShown ==
  ASSUME Inv, InStep, AllShow, NEW e \in Editors, Login(e), running' # "sigpipe"
  PROVE  AllShow'
<1> PICK m : m = Msg("MSG_OK", account[e], NoBuffer)
  OBVIOUS
<1> PICK out : out = Reply(e, m)
  OBVIOUS
<1>1. /\ up[e] # << >> /\ Taken(e) /\ Head(up[e]).type = "LOGIN" /\ Send(out) /\ conn[e] = "polled"
      /\ UNCHANGED <<worker, conn, editor, copy>>
  BY DEF Login, Brings
<1>2. \A f \in Editors : out[f] = IF f = e THEN <<m>> ELSE << >>
  BY Outgoing
<1>3. \A f \in Editors : out[f] = << >> \/ \E x : out[f] = <<x>>
  BY <1>2
<1>4. /\ \A f \in Editors : down'[f] = down[f] \/ (~Ended(f) /\ \E x : out[f] = <<x>>)
      /\ \A f \in Editors : \A x : ~Ended(f) /\ out[f] = <<x>> => Longer(down[f], down'[f], x)
  BY <1>1, <1>3, SendDown DEF Inv, DownGood
<1>5. \A f \in Editors : f # e => up'[f] = up[f]
  BY <1>1, TakeUp DEF Inv, UpGood
<1>6. ASSUME NEW f \in Editors \ Typists, f # e
      PROVE  Shows(f, up'[f], down'[f], editor'[f], copy'[f], conn'[f], worker')
  <2>1. down'[f] = down[f]
    BY <1>2, <1>4, <1>6, NoMessage
  <2> QED BY <1>1, <1>5, <1>6, <2>1, UntouchedShows
<1>7. ASSUME e \notin Typists
      PROVE  Shows(e, up'[e], down'[e], editor'[e], copy'[e], conn'[e], worker')
  <2>1. ~Ended(e) => Longer(down[e], down'[e], m)
    BY <1>2, <1>4
  <2>2. m.type # "FILE_RESPONSE" /\ Head(up[e]).type \in Starting
    BY <1>1, MsgIs DEF Starting
  <2> QED BY <1>1, <1>7, <2>1, <2>2, AnswerShown
<1>8. \A f \in reset' : Ended(f)'
  BY <1>1, SendRefused DEF AllShow
<1> QED BY <1>6, <1>7, <1>8 DEF AllShow

LEMMA FileRequestShown ==
  ASSUME OwnAccounts, Inv, InStep, AllShow, NEW e \in Editors, FileRequest(e), running' # "sigpipe"
  PROVE  AllShow'
<1> PICK u : u = account[e]
  OBVIOUS
<1> PICK m, x : /\ m = Msg("FILE_RESPONSE", u, buffer_serialize(worker))
                /\ x = Msg("ADD_CURSOR", u, NoBuffer)
  OBVIOUS
<1> PICK out : out = Both(Reply(e, m), send_msg_everyone(e, x))
  OBVIOUS
<1>1. /\ up[e] # << >> /\ Taken(e) /\ Head(up[e]).type = "FILE_REQUEST" /\ Send(out) /\ conn[e] = "polled"
      /\ worker' = bcursor_copy_own(worker, u)
      /\ UNCHANGED <<conn, editor, copy>>
  <2>1. Brings(e, {"FILE_REQUEST"})
    BY DEF FileRequest
  <2>2. Head(up[e]).user_id = u /\ up[e] # << >> /\ Head(up[e]).type = "FILE_REQUEST" /\ conn[e] = "polled"
    BY <2>1, Brings1
  <2> QED BY <2>2 DEF FileRequest
<1>2. \A f \in Editors : out[f] = IF f = e THEN <<m>> ELSE IF f \in Polled THEN <<x>> ELSE << >>
  BY Outgoing
<1>3. \A f \in Editors : out[f] = << >> \/ \E y : out[f] = <<y>>
  BY <1>2
<1>4. Streams(up) /\ Streams(down) /\ Served(worker) /\ Sound(worker) /\ Places /\ Match
  BY DEF Inv, UpGood, DownGood, Served, InStep
<1>5. m.type = "FILE_RESPONSE" /\ m.payload = buffer_serialize(worker) /\ x.type = "ADD_CURSOR" /\ x.user_id = u
  BY MsgIs
<1>6. Copied(worker) /\ ~Has(worker, u)
  <2>1. Head(up[e]).type \in Starting
    BY <1>1 DEF Starting
  <2>2. Carries(up[e], Starting)
    BY <1>1, <1>4, <2>1, CarriesHead DEF Streams
  <2>3. e \in Awaited
    BY <2>2 DEF Awaited, Awaiting
  <2> QED BY <1>4, <2>3, WorkerCopied
<1>7. u \in Users /\ \A f \in Editors : account[f] \in Users /\ (f # e => account[f] # u)
  BY DEF Users, OwnAccounts
<1>8. \A f \in Editors : f # e => up'[f] = up[f]
  BY <1>1, <1>4, TakeUp
<1>9. ASSUME NEW f \in Editors \ Typists, f # e
      PROVE  Shows(f, up'[f], down'[f], editor'[f], copy'[f], conn'[f], worker')
  <2>1. ASSUME NEW c, Mirrors(worker, c, account[f])
        PROVE  Mirrors(worker', Follow(f, c, x), account[f])
    <3> PICK a : a = account[f]
      OBVIOUS
    <3> PICK w, v : w = worker /\ v = worker'
      OBVIOUS
    <3>1. Follow(f, c, x) = bcursor_new(c, u, c.lid[c.first], 0)
      BY <1>5, <1>7, <1>9 DEF Follow
    <3>2. a \in Users /\ Mirrors(w, c, a) /\ Served(w) /\ ~Has(w, u) /\ v = bcursor_copy_own(w, u)
      BY <1>1, <1>4, <1>6, <1>7, <2>1
    <3>3. Mirrors(v, bcursor_new(c, u, c.lid[c.first], 0), a)
      BY <1>7, <3>2, MirrorAdded
    <3> QED BY <3>1, <3>3
  <2>2. x.type \in Operations \cup CursorMessages
    BY <1>5 DEF CursorMessages
  <2>3. out[e] = <<m>> /\ \A g \in Editors : g # e => out[g] = IF g \in Polled THEN <<x>> ELSE << >>
    BY <1>2
  <2> QED BY <1>1, <1>4, <1>8, <1>9, <2>1, <2>2, <2>3, WordShown
<1>10. ASSUME e \notin Typists
       PROVE  Shows(e, up'[e], down'[e], editor'[e], copy'[e], conn'[e], worker')
  <2>1. \A f \in Editors : \A y : ~Ended(f) /\ out[f] = <<y>> => Longer(down[f], down'[f], y)
    BY <1>1, <1>3, <1>4, SendDown
  <2>2. ~Ended(e) => Longer(down[e], down'[e], m)
    BY <1>2, <2>1
  <2>3. Mirrors(worker', buffer_deserialize(m.payload), u)
    <3>1. Mirrors(bcursor_copy_own(worker, u), buffer_deserialize(buffer_serialize(worker)), u)
      BY <1>4, <1>6, <1>7, MirrorLoaded
    <3> QED BY <1>1, <1>5, <3>1
  <2>4. Head(up[e]).type \in Starting
    BY <1>1 DEF Starting
  <2> QED BY <1>1, <1>10, <2>2, <2>3, <2>4, AnswerShown
<1>11. \A f \in reset' : Ended(f)'
  BY <1>1, SendRefused DEF AllShow
<1> QED BY <1>9, <1>10, <1>11 DEF AllShow

LEMMA QuitShown ==
  ASSUME OwnAccounts, Inv, InStep, AllShow, NEW e \in Editors, Quit(e), running' # "sigpipe"
  PROVE  AllShow'
<1> PICK u : u = account[e]
  OBVIOUS
<1> PICK x : x = Msg("DELETE_CURSOR", u, NoBuffer)
  OBVIOUS
<1> PICK out : out = send_msg_everyone(e, x)
  OBVIOUS
<1>1. /\ up[e] # << >> /\ Close(e) /\ Send(out) /\ conn[e] = "polled"
      /\ HasCursor(worker, u) /\ worker' = bcursor_free(worker, u)
      /\ UNCHANGED <<editor, copy>>
  <2>1. Brings(e, {"QUIT"})
    BY DEF Quit
  <2>2. Head(up[e]).user_id = u /\ up[e] # << >> /\ conn[e] = "polled"
    BY <2>1, Brings1
  <2> QED BY <2>2 DEF Quit
<1>2. \A f \in Editors : out[f] = IF f \in Polled \ {e} THEN <<x>> ELSE << >>
  BY Outgoing
<1>3. Streams(down) /\ Streams(up) /\ Sound(worker) /\ Places
  BY DEF Inv, DownGood, UpGood, Served, InStep
<1>4. \A f \in Editors : f # e => conn'[f] = conn[f] /\ up'[f] = up[f]
  BY <1>1, <1>3, CloseUp DEF Close, Inv, Plain
<1>5. x.type = "DELETE_CURSOR" /\ x.user_id = u
  BY MsgIs
<1>6. u \in Users /\ \A f \in Editors : account[f] \in Users /\ (f # e => account[f] # u)
  BY DEF Users, OwnAccounts
<1>7. Has(worker, u)
  BY <1>1, <1>3, UserIds, HasIs
<1>8. ASSUME NEW f \in Editors \ Typists, f # e
      PROVE  Shows(f, up'[f], down'[f], editor'[f], copy'[f], conn'[f], worker')
  <2>1. ASSUME NEW c, Mirrors(worker, c, account[f])
        PROVE  Mirrors(worker', Follow(f, c, x), account[f])
    <3> PICK a : a = account[f]
      OBVIOUS
    <3> PICK w, v : w = worker /\ v = worker'
      OBVIOUS
    <3>1. Follow(f, c, x) = bcursor_free(c, u)
      BY <1>5 DEF Follow
    <3>2. a \in Users /\ u # a /\ Mirrors(w, c, a) /\ Has(w, u) /\ v = bcursor_free(w, u)
      BY <1>1, <1>6, <1>7, <1>8, <2>1
    <3>3. Mirrors(v, bcursor_free(c, u), a)
      BY <1>6, <3>2, MirrorFreed
    <3> QED BY <3>1, <3>3
  <2>2. x.type \in Operations \cup CursorMessages
    BY <1>5 DEF CursorMessages
  <2>3. out[e] = << >> /\ \A g \in Editors : g # e => out[g] = IF g \in Polled THEN <<x>> ELSE << >>
    BY <1>2
  <2> QED BY <1>1, <1>3, <1>4, <1>8, <2>1, <2>2, <2>3, WordShown
\* Whoever quits has no file.
<1>9. ASSUME e \notin Typists
      PROVE  Shows(e, up'[e], down'[e], editor'[e], copy'[e], conn'[e], worker')
  <2>1. \A f \in Editors : out[f] = << >> \/ \E y : out[f] = <<y>>
    BY <1>2
  <2>2. \A f \in Editors : down'[f] = down[f] \/ \E y : out[f] = <<y>>
    BY <1>1, <1>3, <2>1, SendDown
  <2>3. down'[e] = down[e]
    BY <1>2, <2>2, NoMessage
  <2> PICK d, s, c, r, l, v : /\ d = down[e] /\ s = editor[e] /\ c = copy[e] /\ r = up'[e]
                              /\ l = conn'[e] /\ v = worker'
    OBVIOUS
  <2>4. \A q \in 0 .. Len(d) : ~HasBase(d, s, q)
    BY <1>1, <1>9 DEF AllShow, Shows
  <2>5. Shows(e, r, d, s, c, l, v)
    BY <2>4 DEF Shows
  <2> QED BY <1>1, <2>3, <2>5
<1>10. \A f \in reset' : Ended(f)'
  BY <1>1, SendRefused DEF AllShow
<1> QED BY <1>8, <1>9, <1>10 DEF AllShow

LEMMA EditShown ==
  ASSUME OwnAccounts, Inv, InStep, AllShow, NEW e \in Editors, Edit(e), running' # "sigpipe"
  PROVE  AllShow'
<1> PICK x : x = Head(up[e])
  OBVIOUS
<1> PICK u : u = account[e]
  OBVIOUS
<1> PICK out : out = send_msg_everyone(e, x)
  OBVIOUS
<1>1. /\ up[e] # << >> /\ Taken(e) /\ x.type \in Operations /\ x.user_id = u /\ Fitting(x.type, x.payload)
      /\ conn[e] = "polled" /\ Send(out) /\ worker' = Operate(worker, u, x.type, x.payload)
      /\ UNCHANGED <<conn, editor, copy>>
  <2>1. Brings(e, Operations)
    BY DEF Edit
  <2>2. /\ up[e] # << >> /\ x.type \in Operations /\ x.user_id = account[e] /\ conn[e] = "polled"
        /\ Fitting(x.type, x.payload)
    BY <2>1, Brings1 DEF Operations
  <2> QED BY <2>2 DEF Edit
<1>2. \A f \in Editors : out[f] = IF f \in Polled \ {e} THEN <<x>> ELSE << >>
  BY Outgoing
<1>3. Streams(down) /\ Streams(up) /\ Sound(worker) /\ Places
  BY DEF Inv, DownGood, UpGood, Served, InStep
<1>4. \A f \in Editors : f # e => up'[f] = up[f]
  BY <1>1, <1>3, TakeUp
<1>5. u \in Users /\ \A f \in Editors : account[f] \in Users /\ (f # e => account[f] # u)
  BY DEF Users, OwnAccounts
<1>6. Has(worker, u)
  <2>1. HasCursor(worker, u)
    BY <1>1, UserOwns DEF Uses
  <2> QED BY <1>3, <2>1, UserIds, HasIs
<1>7. ASSUME NEW f \in Editors \ Typists, f # e
      PROVE  Shows(f, up'[f], down'[f], editor'[f], copy'[f], conn'[f], worker')
  <2>1. ASSUME NEW c, Mirrors(worker, c, account[f])
        PROVE  Mirrors(worker', Follow(f, c, x), account[f])
    <3> PICK a : a = account[f]
      OBVIOUS
    <3> PICK w, v, t, y : w = worker /\ v = worker' /\ t = x.type /\ y = x.payload
      OBVIOUS
    <3>1. Follow(f, c, x) = Operate(c, u, t, y)
      BY <1>1 DEF Follow, Operations
    <3>2. /\ a \in Users /\ u # a /\ Mirrors(w, c, a) /\ Has(w, u) /\ v = Operate(w, u, t, y)
          /\ t \in Operations /\ Fitting(t, y)
      BY <1>1, <1>5, <1>6, <1>7, <2>1
    <3>3. Mirrors(v, Operate(c, u, t, y), a)
      BY <1>5, <3>2, MirrorOperate
    <3> QED BY <3>1, <3>3
  <2>2. out[e] = << >> /\ \A g \in Editors : g # e => out[g] = IF g \in Polled THEN <<x>> ELSE << >>
    BY <1>2
  <2> QED BY <1>1, <1>3, <1>4, <1>7, <2>1, <2>2, WordShown
\* Whoever sends an operation only watches if he has no file.
<1>8. ASSUME e \notin Typists
      PROVE  Shows(e, up'[e], down'[e], editor'[e], copy'[e], conn'[e], worker')
  <2>1. \A f \in Editors : out[f] = << >> \/ \E y : out[f] = <<y>>
    BY <1>2
  <2>2. \A f \in Editors : down'[f] = down[f] \/ \E y : out[f] = <<y>>
    BY <1>1, <1>3, <2>1, SendDown
  <2>3. down'[e] = down[e]
    BY <1>2, <2>2, NoMessage
  <2> PICK d, s, c, r, l, v : /\ d = down[e] /\ s = editor[e] /\ c = copy[e] /\ r = up'[e]
                              /\ l = conn'[e] /\ v = worker'
    OBVIOUS
  <2>4. \A q \in 0 .. Len(d) : ~HasBase(d, s, q)
    BY <1>1, <1>8 DEF AllShow, Shows
  <2>5. Shows(e, r, d, s, c, l, v)
    BY <2>4 DEF Shows
  <2> QED BY <1>1, <2>3, <2>5
<1>9. \A f \in reset' : Ended(f)'
  BY <1>1, SendRefused DEF AllShow
<1> QED BY <1>7, <1>8, <1>9 DEF AllShow

\* A step of the worker.
LEMMA WorkerShown ==
  ASSUME OwnAccounts, Inv, InStep, AllShow, NEW e \in Editors, WorkerStep(e), running' = "yes"
  PROVE  AllShow'
<1>1. CASE Accept(e) \/ HangUp(e) \/ NotLoggedIn(e)
  BY <1>1, ClosedShows
<1>2. CASE Login(e)
  BY <1>2, LoginShown
<1>3. CASE FileRequest(e)
  BY <1>3, FileRequestShown
<1>4. CASE Quit(e)
  BY <1>4, QuitShown
<1>5. CASE Edit(e)
  BY <1>5, EditShown
<1>6. CASE WorkerFaults(e)
  <2>1. running' = Fault(worker, Head(up[e]).user_id, Head(up[e]).type)
    BY <1>6 DEF WorkerFaults
  <2>2. running' \in {"none", "noCursor", "twoCursors", "noBottom"}
    BY <2>1, FaultIs
  <2> QED BY <2>2
<1> QED BY <1>1, <1>2, <1>3, <1>4, <1>5, <1>6 DEF WorkerStep

-----------------------------------------------------------------------------
\* One editor has moved on.
LEMMA OneShown ==
  ASSUME AllShow, NEW e \in Editors, e \notin reset, worker' = worker, reset' = reset,
         \A f \in Editors : f # e => /\ up'[f] = up[f] /\ down'[f] = down[f] /\ conn'[f] = conn[f]
                                     /\ editor'[f] = editor[f] /\ copy'[f] = copy[f],
         reset \subseteq Editors,
         e \notin Typists => Shows(e, up'[e], down'[e], editor'[e], copy'[e], conn'[e], worker)
  PROVE  AllShow'
<1>1. ASSUME NEW f \in Editors \ Typists, f # e
      PROVE  Shows(f, up'[f], down'[f], editor'[f], copy'[f], conn'[f], worker')
  BY <1>1, UntouchedShows
<1>2. \A f \in reset' : Ended(f)'
  BY DEF AllShow, Ended
<1> QED BY <1>1, <1>2 DEF AllShow

\* A step of an editor.
LEMMA GetsShown ==
  ASSUME Relays = "one", Inv, InStep, AllShow, NEW e \in Editors, EditorGets(e)
  PROVE  AllShow'
<1> PICK u, d, s, c, k, w : /\ u = up[e] /\ d = down[e] /\ s = editor[e] /\ c = copy[e]
                            /\ k = conn[e] /\ w = worker
  OBVIOUS
<1> PICK t : t = down'[e]
  OBVIOUS
<1> PICK m : m = Head(d)
  OBVIOUS
<1>1. PICK types : Gets(e, types)
  BY DEF EditorGets, GetOk, GetFile, GetEdit, GetGarbage, GetTooEarly, EditorFaults
<1>2. /\ UNCHANGED <<worker, conn, reset>> /\ RestOf(d, t) /\ (\A f \in Editors : f # e => down'[f] = down[f])
      /\ IsStream(d) /\ d # << >> /\ s \in {"waiting", "open"} /\ InTurn(u, d, s, k)
  BY <1>1, GetRest DEF Inv, DownGood, Streams, Gets, Live, InStep, Turns, Turn
<1>3. m = d[1]
  BY <1>2, StreamFacts
<1>4. e \notin reset /\ reset \subseteq Editors
  BY <1>2 DEF AllShow, Ended, Ends, Inv, Plain
<1>5. \A f \in Editors : f # e => copy'[f] = copy[f] /\ editor'[f] = editor[f] /\ up'[f] = up[f]
  BY DEF EditorGets, GetOk, GetFile, GetEdit, GetGarbage, GetTooEarly, EditorFaults, Becomes,
         Post, Inv, Plain, CopyGood, UpGood, Streams
<1>6. ASSUME e \notin Typists => Shows(e, up'[e], t, editor'[e], copy'[e], k, w)
      PROVE  AllShow'
  BY <1>2, <1>4, <1>5, <1>6, OneShown
<1>7. \A x : Becomes(e, x) => editor'[e] = x
  BY DEF Becomes, Inv, Plain
<1>8. e \notin Typists => Shows(e, u, d, s, c, k, w)
  BY DEF AllShow
<1>9. ASSUME NEW x, Becomes(e, x), x \notin {"open", "waiting"} PROVE AllShow'
  <2> PICK r, y : r = up'[e] /\ y = copy'[e]
    OBVIOUS
  <2>1. Shows(e, r, t, x, y, k, w)
    BY <1>9, ShowsNothing
  <2> QED BY <1>6, <1>7, <1>9, <2>1
\* The message is no file, and the editor has none.
<1>10. ASSUME s = "waiting", editor' = editor, copy' = copy, up' = up PROVE AllShow'
  <2>1. ASSUME e \notin Typists PROVE Shows(e, u, t, s, c, k, w)
    BY <1>2, <1>8, <1>10, <2>1, ShowsBefore
  <2> QED BY <1>6, <1>10, <2>1
<1>11. CASE GetOk(e)
  <2>1. m.type = "MSG_OK" /\ editor' = editor /\ copy' = copy
    BY <1>11 DEF GetOk, Gets
  <2>2. d[1].type \in Answers /\ Carries(d, Answers)
    BY <1>2, <1>3, <2>1, CarriesHead DEF Answers
  <2>3. ASSUME NEW i \in 1 .. Len(t), t[i].type = "FILE_RESPONSE" PROVE FALSE
    <3>1. 1 \in 1 .. Len(d) /\ i + 1 \in 1 .. Len(d) /\ i + 1 # 1 /\ t[i] = d[i + 1]
      BY <1>2 DEF RestOf
    <3>2. d[i + 1].type \in Answers
      BY <2>3, <3>1 DEF Answers
    <3> QED BY <1>2, <2>2, <3>1, <3>2 DEF InTurn
  <2>4. s # "open"
    BY <1>2, <2>2 DEF InTurn
  <2> PICK r : r = up'[e]
    OBVIOUS
  <2>5. Shows(e, r, t, s, c, k, w)
    BY <2>3, <2>4, ShowsNothing
  <2> QED BY <1>6, <2>1, <2>5
<1>12. CASE GetFile(e)
  <2>1. /\ m.type = "FILE_RESPONSE" /\ editor'[e] = "open" /\ up' = up
        /\ copy' = [copy EXCEPT ![e] = buffer_deserialize(m.payload)]
    BY <1>7, <1>12 DEF GetFile, Gets
  <2> PICK x : x = buffer_deserialize(m.payload)
    OBVIOUS
  <2>2. copy'[e] = x
    BY <2>1 DEF Inv, CopyGood
  <2>3. s = "waiting"
    <3>1. Carries(d, Answers)
      BY <1>2, <2>1, CarriesHead DEF Answers
    <3> QED BY <1>2, <3>1 DEF InTurn
  <2>4. ASSUME e \notin Typists PROVE Shows(e, u, t, "open", x, k, w)
    BY <1>2, <1>3, <1>8, <2>1, <2>3, <2>4, ShowsFile
  <2> QED BY <1>6, <2>1, <2>2, <2>4
<1>13. CASE GetEdit(e)
  <2>1. s = "open" /\ editor' = editor /\ up' = up /\ copy' = [copy EXCEPT ![e] = Follow(e, c, m)]
    BY <1>13 DEF GetEdit, Gets, Open
  <2> PICK x : x = Follow(e, c, m)
    OBVIOUS
  <2>2. copy'[e] = x
    BY <2>1 DEF Inv, CopyGood
  <2>3. ASSUME e \notin Typists PROVE Shows(e, u, t, "open", x, k, w)
    BY <1>2, <1>3, <1>8, <2>1, <2>3, ShowsTaken
  <2> QED BY <1>6, <2>1, <2>2, <2>3
<1>14. CASE GetGarbage(e)
  <2>1. m.type = "MSG_FAILED" /\ editor' = editor /\ copy' = copy /\ up' = up
    BY <1>14 DEF GetGarbage, Gets
  <2>2. ASSUME s = "open", e \notin Typists PROVE FALSE
    <3>1. d[1].type \in Operations \cup CursorMessages
      BY <1>2, <1>8, <2>2, ShowsTaken
    <3> QED BY <1>3, <2>1, <3>1 DEF Operations, CursorMessages
  <2> QED BY <1>2, <1>6, <1>10, <2>1, <2>2
<1>15. CASE GetTooEarly(e)
  <2>1. s = "waiting" /\ copy' = copy /\ up' = up /\ (editor' = editor \/ Becomes(e, "noFile"))
    BY <1>15 DEF GetTooEarly, Gets
  <2> QED BY <1>9, <1>10, <2>1
<1>16. CASE EditorFaults(e)
  <2> PICK fault : fault = Fault(c, m.user_id, m.type)
    OBVIOUS
  <2>1. Becomes(e, fault)
    BY <1>16 DEF EditorFaults
  <2>2. fault \notin {"open", "waiting"}
    BY FaultIs
  <2> QED BY <1>9, <2>1, <2>2
<1> QED BY <1>11, <1>12, <1>13, <1>14, <1>15, <1>16 DEF EditorGets

\* A step of a user.
LEMMA UserShown ==
  ASSUME Inv, InStep, AllShow, NEW e \in Editors, UserStep(e)
  PROVE  AllShow'
<1> PICK d, k, w : d = down[e] /\ k = conn'[e] /\ w = worker
  OBVIOUS
<1>1. /\ UNCHANGED <<worker, down, reset>>
      /\ \A f \in Editors : f # e => /\ up'[f] = up[f] /\ conn'[f] = conn[f]
                                     /\ copy'[f] = copy[f] /\ editor'[f] = editor[f]
  BY DEF UserStep, Start, PressTooEarly, Escape, Disconnected, Press, Becomes, Post, Inv, Plain,
         CopyGood, UpGood, Streams, net
<1>2. e \notin reset /\ reset \subseteq Editors
  <2>1. editor[e] \in {"idle", "waiting", "open"}
    BY DEF UserStep, Start, PressTooEarly, Escape, Disconnected, Press, Live, Open
  <2> QED BY <2>1 DEF AllShow, Ended, Ends, Inv, Plain
<1>3. ASSUME e \notin Typists => Shows(e, up'[e], d, editor'[e], copy'[e], k, w)
      PROVE  AllShow'
  BY <1>1, <1>2, <1>3, OneShown
<1>4. \A x : Becomes(e, x) => editor'[e] = x
  BY DEF Becomes, Inv, Plain
\* The editor has ended.
<1>5. ASSUME NEW x, Becomes(e, x), x \notin {"open", "waiting"} PROVE AllShow'
  <2> PICK r, y : r = up'[e] /\ y = copy'[e]
    OBVIOUS
  <2>1. Shows(e, r, d, x, y, k, w)
    BY <1>5, ShowsNothing
  <2> QED BY <1>3, <1>4, <1>5, <2>1
<1>6. CASE Start(e)
  <2>1. editor[e] = "idle" /\ editor'[e] = "waiting"
    BY <1>4, <1>6 DEF Start
  <2>2. d = << >>
    BY <2>1 DEF InStep, Turns, Turn, InTurn
  <2>3. \A q \in 1 .. Len(d) : d[q].type # "FILE_RESPONSE"
    BY <2>2, EmptyStream
  <2> PICK r, y : r = up'[e] /\ y = copy'[e]
    OBVIOUS
  <2>4. Shows(e, r, d, "waiting", y, k, w)
    BY <2>3, ShowsNothing
  <2> QED BY <1>3, <2>1, <2>4
<1>7. CASE PressTooEarly(e)
  BY <1>5, <1>7 DEF PressTooEarly
<1>8. CASE Escape(e)
  BY <1>5, <1>8 DEF Escape
<1>9. CASE Disconnected(e)
  BY <1>5, <1>9 DEF Disconnected
<1>10. ASSUME NEW key \in Keys, Press(e, key) PROVE AllShow'
  BY <1>3, <1>10 DEF Press
<1> QED BY <1>6, <1>7, <1>8, <1>9, <1>10 DEF UserStep

LEMMA StepShown ==
  ASSUME Relays = "one", OwnAccounts, Inv, InStep, running = "yes" => AllShow, [Next]_vars
  PROVE  running' = "yes" => AllShow'
<1>1. CASE UNCHANGED vars
  <2>1. UNCHANGED <<worker, running, conn, editor, copy, up, down, reset>>
    BY <1>1 DEF vars, net
  <2> QED BY <2>1 DEF AllShow, Ended
<1>2. ASSUME NEW e \in Editors, WorkerStep(e) \/ EditorGets(e) \/ UserStep(e)
      PROVE  running' = "yes" => AllShow'
  <2>1. running = "yes" /\ AllShow
    BY <1>2 DEF WorkerStep, Accept, HangUp, NotLoggedIn, Login, FileRequest, Quit, Edit, WorkerFaults,
                Brings, EditorGets, GetOk, GetFile, GetEdit, GetGarbage, GetTooEarly, EditorFaults,
                Gets, UserStep, Start, PressTooEarly, Escape, Disconnected, Press
  <2> QED BY <1>2, <2>1, WorkerShown, GetsShown, UserShown
<1> QED BY <1>1, <1>2 DEF Next

LEMMA InitShown == FromTheFork /\ Init => AllShow
<1> SUFFICES ASSUME FromTheFork, Init PROVE AllShow
  OBVIOUS
<1>1. editor = [e \in Editors |-> "idle"] /\ reset = {}
  BY NobodyEarly DEF Init
<1>2. ASSUME NEW e \in Editors \ Typists
      PROVE  Shows(e, up[e], down[e], editor[e], copy[e], conn[e], worker)
  <2> PICK u, d, c, k, w : u = up[e] /\ d = down[e] /\ c = copy[e] /\ k = conn[e] /\ w = worker
    OBVIOUS
  <2>1. Shows(e, u, d, "idle", c, k, w)
    BY ShowsNothing
  <2> QED BY <1>1, <2>1
<1> QED BY <1>1, <1>2 DEF AllShow

-----------------------------------------------------------------------------
(***************************************************************************)
(* What is shown at the end is the picture of the worker's buffer.         *)
(***************************************************************************)
\* A trace gives what all of the stream makes of the buffer.
LEMMA TraceFollowed ==
  ASSUME NEW e, NEW h, NEW b, NEW s, Len(s) \in Nat, IsTrace(e, h, b, s, 0)
  PROVE  Followed(e, b, s) = h[Len(s)]
<1> PICK N : N = Len(s)
  OBVIOUS
<1> DEFINE Tells(f) == f = [n \in 0 .. N |-> IF n = 0 THEN b ELSE Follow(e, f[n - 1], s[n])]
           f0 == [n \in 0 .. N |-> h[n]]
<1>1. h[0] = b /\ \A n \in 1 .. N : h[n] = Follow(e, h[n - 1], s[n])
  <2>1. 0 + 1 = 1
    OBVIOUS
  <2> QED BY <2>1 DEF IsTrace
<1>2. \A n \in 0 .. N : n = 0 \/ (n # 0 /\ n \in 1 .. N /\ n - 1 \in 0 .. N)
  OBVIOUS
<1>3. Tells(f0)
  <2>1. \A n \in 0 .. N : f0[n] = h[n]
    OBVIOUS
  <2>2. f0 = [n \in 0 .. N |-> f0[n]]
    OBVIOUS
  <2> HIDE DEF f0
  <2>3. \A n \in 0 .. N : f0[n] = IF n = 0 THEN b ELSE Follow(e, f0[n - 1], s[n])
    <3> TAKE n \in 0 .. N
    <3>1. CASE n = 0
      BY <1>1, <2>1, <3>1
    <3>2. CASE n # 0 /\ n \in 1 .. N /\ n - 1 \in 0 .. N
      <4>1. f0[n] = h[n] /\ f0[n - 1] = h[n - 1]
        BY <2>1, <3>2
      <4>2. h[n] = Follow(e, h[n - 1], s[n])
        BY <1>1, <3>2
      <4> QED BY <3>2, <4>1, <4>2
    <3> QED BY <1>2, <3>1, <3>2
  <2> QED BY <2>2, <2>3
<1> DEFINE g == CHOOSE f : Tells(f)
<1>4. Tells(g)
  BY <1>3
<1>5. Followed(e, b, s) = g[N]
  BY DEF Followed
<1> HIDE DEF g
<1>6. \A n \in 0 .. N : g[n] = IF n = 0 THEN b ELSE Follow(e, g[n - 1], s[n])
  BY <1>4
<1> DEFINE T == { n \in Nat : g[n] = h[n] }
<1>7. 0 \in T
  BY <1>1, <1>6
<1>8. ASSUME NEW n \in 0 .. N, n < N, n \in T PROVE n + 1 \in T
  <2>1. n + 1 \in 0 .. N /\ n + 1 \in 1 .. N /\ n + 1 # 0 /\ (n + 1) - 1 = n /\ n + 1 \in Nat
    BY <1>8
  <2>2. g[n + 1] = Follow(e, g[n], s[n + 1])
    BY <1>6, <2>1
  <2>3. h[n + 1] = Follow(e, h[n], s[n + 1])
    <3>1. h[n + 1] = Follow(e, h[(n + 1) - 1], s[n + 1])
      BY <1>1, <2>1
    <3> QED BY <2>1, <3>1
  <2>4. g[n] = h[n]
    BY <1>8
  <2> QED BY <2>1, <2>2, <2>3, <2>4
<1>9. N \in T
  <2> HIDE DEF T
  <2>1. \A n \in 0 .. N : n \in T
    BY <1>7, <1>8, CountUp
  <2> QED BY <2>1
<1> QED BY <1>5, <1>9

\* The slots with the cursors that are shown, and whose they are.
Shown(b, u) == { k \in AllSlots : b.curs[k] # NoCursor /\ (k = Own => u # NULL) }
User(b, u, k) == IF k = Own THEN u ELSE b.curs[k].id
Marks(b, u) == { <<User(b, u, k), b.curs[k].line, b.curs[k].pos>> : k \in Shown(b, u) }

LEMMA PictureIs ==
  ASSUME NEW b, NEW u
  PROVE  Picture(b, u) = [ text |-> SubSeq(b.str, b.first, b.last), cursors |-> Marks(b, u),
                           count |-> Cardinality(Shown(b, u)) ]
BY DEF Picture, Shown, User, Marks, AllSlots

LEMMA HeldCursor ==
  ASSUME NEW b, Copied(b), NEW k \in AllSlots
  PROVE  b.curs[k] # NoCursor <=> b.curs[k].id # NULL
<1>1. b.curs[k] = NoCursor \/ b.curs[k] \in Cursor
  BY DEF Copied, Sound, GoodCursors, GoodCursor
<1>2. b.curs[k] \in Cursor => b.curs[k].id # NULL
  BY DEF Cursor, NULL
<1>3. b.curs[k] = NoCursor => b.curs[k].id = NULL
  BY NoCursorId
<1> QED BY <1>1, <1>2, <1>3

\* Each cursor of one is a cursor of the other.
LEMMA MarksPaired ==
  ASSUME OwnAccounts, NEW a \in Users, NEW w, NEW b, Mirrors(w, b, a)
  PROVE  /\ \A j \in Shown(w, NULL) : \E k \in Shown(b, a) : Paired(w, b, a, j, k)
         /\ \A k \in Shown(b, a) : \E j \in Shown(w, NULL) : Paired(w, b, a, j, k)
         /\ \A j \in Shown(w, NULL) : \A k \in Shown(b, a) : Paired(w, b, a, j, k) =>
              /\ User(w, NULL, j) = User(b, a, k)
              /\ w.curs[j].line = b.curs[k].line /\ w.curs[j].pos = b.curs[k].pos
<1>1. a # NULL /\ a # Own /\ Own # NULL
  BY UserRange DEF Own, NULL
<1>2. /\ Copied(w) /\ Copied(b) /\ w.curs[Own].id = Own /\ b.curs[Own].id = Own
      /\ \A k \in Slots : w.curs[k].id # Own /\ b.curs[k].id # Own
  BY DEF Mirrors, Copied, Sound, GoodCursors, IdsOfSlots
<1>3. \A j : j \in Shown(w, NULL) <=> (j \in Slots /\ w.curs[j].id # NULL)
  <2>1. \A k \in AllSlots : w.curs[k] # NoCursor <=> w.curs[k].id # NULL
    BY <1>2, HeldCursor
  <2>2. \A j : (j \in AllSlots /\ (j = Own => NULL # NULL)) <=> j \in Slots
    BY DEF AllSlots, Slots, Own
  <2> QED BY <2>1, <2>2 DEF Shown
<1>4. \A k : k \in Shown(b, a) <=> (k \in AllSlots /\ b.curs[k].id # NULL)
  <2>1. \A k \in AllSlots : b.curs[k] # NoCursor <=> b.curs[k].id # NULL
    BY <1>2, HeldCursor
  <2> QED BY <1>1, <2>1 DEF Shown
<1>5. \A u \in Users : Has(w, u) <=> (u = a \/ Has(b, u))
  BY DEF Mirrors, SameUsers
<1>6. /\ \A j \in Slots : w.curs[j].id # NULL => w.curs[j].id \in Users
      /\ \A j \in Slots : b.curs[j].id # NULL => b.curs[j].id \in Users
  BY <1>2 DEF Copied, IdsIn, AllSlots
<1>7. ASSUME NEW j \in Shown(w, NULL) PROVE \E k \in Shown(b, a) : Paired(w, b, a, j, k)
  <2> PICK u : u = w.curs[j].id
    OBVIOUS
  <2>1. j \in Slots /\ u # NULL /\ u \in Users /\ Has(w, u)
    BY <1>3, <1>6 DEF Has
  <2>2. CASE u = a
    BY <1>1, <1>2, <1>4, <2>1, <2>2 DEF Paired, IdAt, AllSlots
  <2>3. CASE u # a
    <3>1. Has(b, u)
      BY <1>5, <2>1, <2>3
    <3>2. PICK k \in Slots : b.curs[k].id = u
      BY <3>1 DEF Has
    <3> QED BY <1>4, <2>1, <2>3, <3>2 DEF Paired, IdAt, AllSlots
  <2> QED BY <2>2, <2>3
<1>8. ASSUME NEW k \in Shown(b, a) PROVE \E j \in Shown(w, NULL) : Paired(w, b, a, j, k)
  <2>1. k \in AllSlots /\ b.curs[k].id # NULL
    BY <1>4
  <2>2. CASE k = Own
    <3>1. PICK j \in Slots : w.curs[j].id = a
      BY <1>5 DEF Has
    <3> QED BY <1>1, <1>2, <1>3, <2>1, <2>2, <3>1 DEF Paired, IdAt
  <2>3. CASE k \in Slots
    <3> PICK u : u = b.curs[k].id
      OBVIOUS
    <3>1. u \in Users /\ Has(b, u) /\ u # a
      BY <1>6, <2>1, <2>3 DEF Has, Mirrors, SameUsers
    <3>2. PICK j \in Slots : w.curs[j].id = u
      BY <1>5, <3>1 DEF Has
    <3> QED BY <1>3, <2>1, <3>1, <3>2 DEF Paired, IdAt
  <2> QED BY <2>1, <2>2, <2>3 DEF AllSlots
<1>9. ASSUME NEW j \in Shown(w, NULL), NEW k \in Shown(b, a), Paired(w, b, a, j, k)
      PROVE  /\ User(w, NULL, j) = User(b, a, k)
             /\ w.curs[j].line = b.curs[k].line /\ w.curs[j].pos = b.curs[k].pos
  <2>1. Level(w.curs[j], b.curs[k])
    BY <1>9 DEF Mirrors
  <2>2. j \in Slots /\ j # Own /\ k \in AllSlots /\ b.curs[k].id = IdAt(a, w.curs[j].id)
    BY <1>2, <1>9 DEF Paired
  <2>3. User(w, NULL, j) = User(b, a, k)
    <3>1. CASE k = Own
      BY <1>2, <2>2, <3>1 DEF User, IdAt
    <3>2. CASE k \in Slots /\ k # Own
      BY <1>2, <2>2, <3>2 DEF User, IdAt
    <3> QED BY <2>2, <3>1, <3>2 DEF AllSlots
  <2> QED BY <2>1, <2>3 DEF Level
<1> QED BY <1>7, <1>8, <1>9

LEMMA PicturesAlike ==
  ASSUME OwnAccounts, NEW a \in Users, NEW w, NEW b, Mirrors(w, b, a)
  PROVE  Picture(b, a) = Picture(w, NULL)
<1> PICK S, T : S = Shown(w, NULL) /\ T = Shown(b, a)
  OBVIOUS
<1>1. /\ \A j \in S : \E k \in T : Paired(w, b, a, j, k)
      /\ \A k \in T : \E j \in S : Paired(w, b, a, j, k)
      /\ \A j \in S : \A k \in T : Paired(w, b, a, j, k) =>
           /\ User(w, NULL, j) = User(b, a, k)
           /\ w.curs[j].line = b.curs[k].line /\ w.curs[j].pos = b.curs[k].pos
  BY MarksPaired
<1>2. Marks(w, NULL) = Marks(b, a)
  <2>1. Marks(w, NULL) = { <<User(w, NULL, j), w.curs[j].line, w.curs[j].pos>> : j \in S }
    BY DEF Marks
  <2>2. Marks(b, a) = { <<User(b, a, k), b.curs[k].line, b.curs[k].pos>> : k \in T }
    BY DEF Marks
  <2> QED BY <1>1, <2>1, <2>2
<1>3. \A i, j \in S : \A m, k \in T : Paired(w, b, a, i, m) /\ Paired(w, b, a, j, k) => (j = i <=> k = m)
  <2>1. a # NULL /\ Copied(w) /\ Copied(b)
    BY UserRange DEF Mirrors
  <2> QED BY <2>1, PairedOnce
<1>4. Cardinality(T) = Cardinality(S)
  <2> DEFINE f == [j \in S |-> CHOOSE k \in T : Paired(w, b, a, j, k)]
  <2>1. \A j \in S : f[j] \in T /\ Paired(w, b, a, j, f[j])
    BY <1>1
  <2>2. f \in [S -> T] /\ DOMAIN f = S
    BY <2>1
  <2> HIDE DEF f
  <2>3. f \in Injection(S, T)
    BY <1>3, <2>1, <2>2 DEF Injection, IsInjective
  <2>4. \A k \in T : \E j \in S : f[j] = k
    BY <1>1, <1>3, <2>1
  <2>5. f \in Surjection(S, T)
    BY <2>2, <2>4 DEF Surjection
  <2>6. ExistsBijection(S, T)
    BY <2>3, <2>5 DEF ExistsBijection, Bijection
  <2>7. IsFiniteSet(S)
    <3>1. MAX_CURSOR_NUM \in Nat
      BY ConstantsAssumption
    <3>2. IsFiniteSet(Slots)
      BY <3>1, FS_Interval DEF Slots
    <3>3. S \subseteq Slots
      BY DEF Shown, AllSlots
    <3> QED BY <3>2, <3>3, FS_Subset
  <2> QED BY <2>6, <2>7, FS_Bijection
<1>5. SubSeq(b.str, b.first, b.last) = SubSeq(w.str, w.first, w.last)
  BY DEF Mirrors, SameText, Copied, Sound, GoodLines
<1> QED BY <1>2, <1>4, <1>5, PictureIs

\* Where every user runs one editor and messages arrive one by one, somebody who only
\* watches sees, once what is on the way has arrived, exactly the text and the cursors
\* of the worker, however many others edit, come, go and break.
THEOREM WatchersFollowTheorem ==
  ASSUME FromTheFork, Relays = "one", OwnAccounts PROVE Spec => []WatchersFollow
<1> DEFINE All == Inv /\ InStep /\ EditorsFindCursors /\ (running = "yes" => AllTold)
                  /\ (running = "yes" => AllShow)
<1>1. Init => All
  BY InitInv, InitInStep, InitTold, InitShown
<1>2. All /\ [Next]_vars => All'
  <2> SUFFICES ASSUME All, [Next]_vars PROVE All'
    OBVIOUS
  <2>1. Inv' /\ InStep'
    BY OwnAccountsFew, StepInv, StepProgress DEF Progress
  <2>2. EditorsFindCursors' /\ (running' = "yes" => AllTold')
    BY StepTold
  <2>3. running' = "yes" => AllShow'
    BY StepShown
  <2> QED BY <2>1, <2>2, <2>3
<1>3. All => WatchersFollow
  <2> SUFFICES ASSUME Inv, AllShow, NEW e \in Editors \ Typists, Open(e)
               PROVE  Picture(Followed(e, copy[e], down[e]), account[e]) = Picture(worker, NULL)
    BY DEF WatchersFollow
  <2> PICK d, c, a : d = down[e] /\ c = copy[e] /\ a = account[e]
    OBVIOUS
  <2>1. IsStream(d) /\ Len(d) \in Nat
    BY StreamFacts DEF Inv, DownGood, Streams
  <2>2. 0 \in 0 .. Len(d) /\ HasBase(d, editor[e], 0) /\ Loaded(d, c, 0) = c
    BY <2>1 DEF HasBase, Loaded, Open
  <2>3. Reaches(e, c, d, 0, worker)
    BY <2>2 DEF AllShow, Shows
  <2>4. PICK h : IsTrace(e, h, c, d, 0) /\ Mirrors(worker, h[Len(d)], a)
    BY <2>3 DEF Reaches
  <2>5. Followed(e, c, d) = h[Len(d)]
    BY <2>1, <2>4, TraceFollowed
  <2>6. a \in Users
    BY DEF Users
  <2>7. Picture(h[Len(d)], a) = Picture(worker, NULL)
    BY <2>4, <2>6, PicturesAlike
  <2> QED BY <2>5, <2>7
<1> QED BY <1>1, <1>2, <1>3, PTL DEF Spec
=============================================================================
