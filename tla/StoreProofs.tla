----------------------------- MODULE StoreProofs ----------------------------
(***************************************************************************)
(* What holds of files.txt and of the files, with any list, any number of  *)
(* editors, and SIGINT at any moment: the list is a directory, a deleted   *)
(* file does not come back, and what was edited is saved.                  *)
(***************************************************************************)
EXTENDS ServerProofs

-----------------------------------------------------------------------------
(***************************************************************************)
(* What the loop of deleteFile copies.                                     *)
(***************************************************************************)
\* f[n] is what it has copied after n lines, for the first N of them.
CopiedUpTo(f, ls, id, N) ==
  f = [n \in 0 .. N |-> IF n = 0 THEN << >>
                        ELSE IF ls[n].id = id THEN f[n - 1] ELSE Append(f[n - 1], ls[n])]

\* There is always such a function.
LEMMA CopiesExist ==
  ASSUME NEW ls, NEW id, NEW N \in Nat
  PROVE  \E f : CopiedUpTo(f, ls, id, N)
<1> DEFINE T == { n \in Nat : ~\E f : CopiedUpTo(f, ls, id, n) }
<1> SUFFICES ASSUME T # {} PROVE FALSE
  OBVIOUS
<1>1. PICK m \in T : \A y \in T : ~ (<<y, m>> \in OpToRel(<, Nat))
  BY WFMin, NatLessThanWellFounded
<1>2. m \in Nat /\ \A y \in T : ~(y < m)
  BY <1>1 DEF OpToRel
<1>3. CASE m = 0
  <2> DEFINE f == [n \in 0 .. 0 |-> << >>]
  <2>1. CopiedUpTo(f, ls, id, 0)
    BY DEF CopiedUpTo
  <2> QED BY <1>1, <1>3, <2>1
<1>4. CASE m # 0
  <2>1. m - 1 \in Nat /\ m - 1 \notin T
    BY <1>2, <1>4
  <2>2. PICK f : CopiedUpTo(f, ls, id, m - 1)
    BY <2>1
  <2>3. PICK last : last = IF ls[m].id = id THEN f[m - 1] ELSE Append(f[m - 1], ls[m])
    OBVIOUS
  <2> DEFINE g == [n \in 0 .. m |-> IF n = m THEN last ELSE f[n]]
  <2>4. \A n \in 0 .. m - 1 : g[n] = f[n]
    BY <2>1
  <2>5. g[m] = last /\ DOMAIN g = 0 .. m /\ m \in Nat \ {0}
    BY <1>2, <1>4
  <2>6. \A n \in 0 .. m - 1 :
          f[n] = IF n = 0 THEN << >>
                 ELSE IF ls[n].id = id THEN f[n - 1] ELSE Append(f[n - 1], ls[n])
    BY <2>2 DEF CopiedUpTo
  <2>7. g = [n \in 0 .. m |-> g[n]]
    OBVIOUS
  <2> HIDE DEF g
  <2>8. ASSUME NEW n \in 0 .. m
        PROVE  g[n] = IF n = 0 THEN << >>
                      ELSE IF ls[n].id = id THEN g[n - 1] ELSE Append(g[n - 1], ls[n])
    <3>1. CASE n = m
      <4>1. g[n] = last /\ n # 0 /\ g[n - 1] = f[n - 1]
        BY <2>4, <2>5, <2>1, <3>1
      <4> QED BY <4>1, <2>3, <3>1
    <3>2. CASE n # m
      <4>1. n \in 0 .. m - 1 /\ (n # 0 => n - 1 \in 0 .. m - 1)
        BY <3>2, <1>2
      <4>2. g[n] = f[n] /\ (n # 0 => g[n - 1] = f[n - 1])
        BY <4>1, <2>4
      <4> QED BY <4>1, <4>2, <2>6
    <3> QED BY <3>1, <3>2
  <2>9. CopiedUpTo(g, ls, id, m)
    BY <2>7, <2>8 DEF CopiedUpTo
  <2> QED BY <1>1, <2>9
<1> QED BY <1>3, <1>4

\* s are those of the first n lines that have another id, in their order.
KeptOf(s, ls, id, n) ==
  /\ \A i \in DOMAIN s : \E a \in 1 .. n : s[i] = ls[a] /\ ls[a].id # id
  /\ \A a \in 1 .. n : ls[a].id # id => \E i \in DOMAIN s : s[i] = ls[a]
  /\ \A i, j \in DOMAIN s : i < j => \E a, b \in 1 .. n : a < b /\ s[i] = ls[a] /\ s[j] = ls[b]

\* A line more, which is copied.
LEMMA KeptMore ==
  ASSUME NEW L, NEW ls \in Seq(L), NEW id, NEW n \in Nat, n + 1 \in 1 .. Len(ls),
         NEW s \in Seq(L), KeptOf(s, ls, id, n), ls[n + 1].id # id
  PROVE  Append(s, ls[n + 1]) \in Seq(L) /\ KeptOf(Append(s, ls[n + 1]), ls, id, n + 1)
<1> PICK l : l = ls[n + 1]
  OBVIOUS
<1> PICK v : v = Append(s, l)
  OBVIOUS
<1>1. l \in L
  BY ElementOfSeq
<1>2. /\ v \in Seq(L) /\ Len(v) = Len(s) + 1 /\ Len(s) \in Nat
      /\ v[Len(s) + 1] = l /\ \A i \in 1 .. Len(s) : v[i] = s[i]
  BY <1>1, AppendProperties, LenProperties
<1>3. DOMAIN v = 1 .. Len(s) + 1 /\ DOMAIN s = 1 .. Len(s)
  BY <1>2, LenProperties
<1>4. \A i \in DOMAIN v : i = Len(s) + 1 \/ (i \in DOMAIN s /\ v[i] = s[i])
  BY <1>2, <1>3
<1>5. /\ 1 .. n \subseteq 1 .. n + 1 /\ n + 1 \in 1 .. n + 1
      /\ \A a \in 1 .. n + 1 : a \in 1 .. n \/ a = n + 1
      /\ \A a \in 1 .. n : a < n + 1
  OBVIOUS
<1>6. ASSUME NEW i \in DOMAIN v PROVE \E a \in 1 .. n + 1 : v[i] = ls[a] /\ ls[a].id # id
  <2>1. CASE i = Len(s) + 1
    BY <1>2, <1>5, <2>1
  <2>2. CASE i \in DOMAIN s /\ v[i] = s[i]
    <3>1. PICK a \in 1 .. n : s[i] = ls[a] /\ ls[a].id # id
      BY <2>2 DEF KeptOf
    <3> QED BY <2>2, <3>1, <1>5
  <2> QED BY <1>4, <2>1, <2>2
<1>7. ASSUME NEW a \in 1 .. n + 1, ls[a].id # id PROVE \E i \in DOMAIN v : v[i] = ls[a]
  <2>1. CASE a = n + 1
    <3>1. Len(s) + 1 \in DOMAIN v
      BY <1>2, <1>3
    <3> QED BY <2>1, <3>1, <1>2
  <2>2. CASE a \in 1 .. n
    <3>1. PICK i \in DOMAIN s : s[i] = ls[a]
      BY <1>7, <2>2 DEF KeptOf
    <3>2. i \in DOMAIN v /\ v[i] = s[i]
      BY <1>2, <1>3
    <3> QED BY <3>1, <3>2
  <2> QED BY <2>1, <2>2, <1>5
<1>8. ASSUME NEW i \in DOMAIN v, NEW j \in DOMAIN v, i < j
      PROVE  \E a, b \in 1 .. n + 1 : a < b /\ v[i] = ls[a] /\ v[j] = ls[b]
  <2>1. i \in DOMAIN s /\ v[i] = s[i]
    BY <1>2, <1>3, <1>4, <1>8
  <2>2. CASE j = Len(s) + 1
    <3>1. PICK a \in 1 .. n : s[i] = ls[a]
      BY <2>1 DEF KeptOf
    <3>2. v[j] = ls[n + 1]
      BY <1>2, <2>2
    <3> QED BY <3>1, <3>2, <1>5, <2>1
  <2>3. CASE j \in DOMAIN s /\ v[j] = s[j]
    <3>1. PICK a, b \in 1 .. n : a < b /\ s[i] = ls[a] /\ s[j] = ls[b]
      BY <1>8, <2>1, <2>3 DEF KeptOf
    <3> QED BY <3>1, <1>5, <2>1, <2>3
  <2> QED BY <2>2, <2>3, <1>4
<1>9. KeptOf(v, ls, id, n + 1)
  BY <1>6, <1>7, <1>8 DEF KeptOf
<1> QED BY <1>2, <1>9

\* A line more, which is not.
LEMMA KeptSame ==
  ASSUME NEW ls, NEW id, NEW n \in Nat, NEW s, KeptOf(s, ls, id, n), ls[n + 1].id = id
  PROVE  KeptOf(s, ls, id, n + 1)
<1>1. 1 .. n \subseteq 1 .. n + 1 /\ \A a \in 1 .. n + 1 : a \in 1 .. n \/ a = n + 1
  OBVIOUS
<1> QED BY <1>1 DEF KeptOf

\* The lines that deleteFile copies are those with another id.
LEMMA CopiedKept ==
  ASSUME NEW L, NEW ls \in Seq(L), NEW id
  PROVE  Copied(ls, id) \in Seq(L) /\ KeptOf(Copied(ls, id), ls, id, Len(ls))
<1> PICK N : N = Len(ls)
  OBVIOUS
<1>0. N \in Nat
  BY LenProperties
<1> DEFINE f == CHOOSE g : CopiedUpTo(g, ls, id, N)
<1>1. CopiedUpTo(f, ls, id, N)
  BY <1>0, CopiesExist
<1>2. Copied(ls, id) = f[N]
  BY DEF Copied, CopiedUpTo
<1> HIDE DEF f
<1>3. f[0] = << >> /\ \A n \in 1 .. N : f[n] = IF ls[n].id = id THEN f[n - 1]
                                              ELSE Append(f[n - 1], ls[n])
  <2>1. \A n \in 0 .. N :
          f[n] = IF n = 0 THEN << >>
                 ELSE IF ls[n].id = id THEN f[n - 1] ELSE Append(f[n - 1], ls[n])
    BY <1>1 DEF CopiedUpTo
  <2>2. 0 \in 0 .. N /\ \A n \in 1 .. N : n \in 0 .. N /\ n # 0
    BY <1>0
  <2> QED BY <2>1, <2>2
<1> DEFINE T == { n \in 0 .. N : ~(f[n] \in Seq(L) /\ KeptOf(f[n], ls, id, n)) }
<1>4. T = {}
  <2> SUFFICES ASSUME T # {} PROVE FALSE
    OBVIOUS
  <2>1. T \subseteq Nat
    BY <1>0
  <2>2. PICK m \in T : \A y \in T : ~ (<<y, m>> \in OpToRel(<, Nat))
    BY <2>1, WFMin, NatLessThanWellFounded
  <2>3. m \in 0 .. N /\ \A y \in T : ~(y < m)
    BY <2>1, <2>2 DEF OpToRel
  <2>4. CASE m = 0
    <3>1. << >> \in Seq(L) /\ DOMAIN << >> = {}
      BY EmptySeq
    <3>2. KeptOf(f[0], ls, id, 0)
      BY <1>3, <3>1 DEF KeptOf
    <3> QED BY <1>3, <2>2, <2>4, <3>1, <3>2
  <2>5. CASE m # 0
    <3> PICK k : k = m - 1
      OBVIOUS
    <3>1. k \in Nat /\ k \in 0 .. N /\ k \notin T /\ k + 1 = m /\ m \in 1 .. Len(ls)
      BY <1>0, <2>3, <2>5
    <3>2. f[k] \in Seq(L) /\ KeptOf(f[k], ls, id, k)
      BY <3>1
    <3>3. f[m] = IF ls[m].id = id THEN f[k] ELSE Append(f[k], ls[m])
      BY <1>3, <3>1
    <3>4. f[m] \in Seq(L) /\ KeptOf(f[m], ls, id, m)
      <4>1. CASE ls[m].id = id
        BY <3>1, <3>2, <3>3, <4>1, KeptSame
      <4>2. CASE ls[m].id # id
        BY <3>1, <3>2, <3>3, <4>2, KeptMore
      <4> QED BY <4>1, <4>2
    <3> QED BY <2>2, <3>4
  <2> QED BY <2>4, <2>5
<1> QED BY <1>0, <1>2, <1>4

-----------------------------------------------------------------------------
(***************************************************************************)
(* Lists of files.                                                         *)
(***************************************************************************)
\* The lines of a list of files with names of N.
FileLine(N) == [id : Nat, name : N \cup {NULL}]
Lined(ls, N) ==
  /\ ls \in Seq(FileLine(N))
  /\ \A i \in DOMAIN ls : ls[i] # NoEntry => ls[i].id > 0 /\ ls[i].name # NULL
  /\ \A i, j \in DOMAIN ls :
       i < j /\ ls[i] # NoEntry /\ ls[j] # NoEntry => ls[i].id < ls[j].id \/ ls[i] = ls[j]
Listed(ls) == { ls[i] : i \in DOMAIN ls } \ {NoEntry}

\* A list is a text file that is there and has such lines.
LEMMA ListIsLined ==
  ASSUME NEW t, NEW N, IsList(t, N)
  PROVE  /\ Lined(t.lines, N) /\ ListedIn(t) = Listed(t.lines)
         /\ t \in [there : BOOLEAN, lines : Seq(FileLine(N)), ends : BOOLEAN] /\ t.there
  BY DEF IsList, Lined, Texts, FileLine, ListedIn, Listed

LEMMA LinedIsList ==
  ASSUME NEW N, NEW ls, Lined(ls, N), NEW b \in BOOLEAN,
         NEW t, t = [there |-> TRUE, lines |-> ls, ends |-> b]
  PROVE  IsList(t, N) /\ ListedIn(t) = Listed(ls)
  BY DEF IsList, Lined, Texts, FileLine, ListedIn, Listed

LEMMA Rewritten ==
  ASSUME NEW N, NEW t \in [there : BOOLEAN, lines : Seq(FileLine(N)), ends : BOOLEAN], t.there,
         NEW ls, NEW b
  PROVE  [t EXCEPT !.lines = ls, !.ends = b] = [there |-> TRUE, lines |-> ls, ends |-> b]
<1>1. t.there = TRUE /\ DOMAIN t = {"there", "lines", "ends"}
  OBVIOUS
<1> PICK r : r = [t EXCEPT !.lines = ls, !.ends = b]
  OBVIOUS
<1>2. r.there = TRUE /\ r.lines = ls /\ r.ends = b /\ DOMAIN r = {"there", "lines", "ends"}
  BY <1>1
<1>3. r = [x \in {"there", "lines", "ends"} |-> r[x]]
  BY <1>2
<1> QED BY <1>2, <1>3

\* s are some of the lines, in their order.
SomeOf(s, ls) ==
  /\ \A i \in DOMAIN s : \E a \in DOMAIN ls : s[i] = ls[a]
  /\ \A i, j \in DOMAIN s : i < j => \E a, b \in DOMAIN ls : a < b /\ s[i] = ls[a] /\ s[j] = ls[b]

LinedIn(s, ls, N) == Lined(s, N) /\ Listed(s) \subseteq Listed(ls)

LEMMA SomeOfLined ==
  ASSUME NEW N, NEW ls, Lined(ls, N), NEW s, s \in Seq(FileLine(N)), SomeOf(s, ls)
  PROVE  LinedIn(s, ls, N)
<1>1. \A i \in DOMAIN s : s[i] # NoEntry => s[i].id > 0 /\ s[i].name # NULL
  BY DEF SomeOf, Lined
<1>2. ASSUME NEW i \in DOMAIN s, NEW j \in DOMAIN s, i < j, s[i] # NoEntry, s[j] # NoEntry
      PROVE  s[i].id < s[j].id \/ s[i] = s[j]
  <2>1. PICK a, b \in DOMAIN ls : a < b /\ s[i] = ls[a] /\ s[j] = ls[b]
    BY <1>2 DEF SomeOf
  <2> QED BY <1>2, <2>1 DEF Lined
<1>3. Listed(s) \subseteq Listed(ls)
  BY DEF SomeOf, Listed
<1> QED BY <1>1, <1>2, <1>3 DEF Lined, LinedIn

\* What deleteFile copies are some of the lines.
LEMMA KeptSomeOf ==
  ASSUME NEW ms, NEW id, NEW s, KeptOf(s, ms, id, Len(ms)), DOMAIN ms = 1 .. Len(ms)
  PROVE  SomeOf(s, ms) /\ Listed(s) = { f \in Listed(ms) : f.id # id }
<1> PICK D : D = 1 .. Len(ms)
  OBVIOUS
<1>1. /\ \A i \in DOMAIN s : \E a \in D : s[i] = ms[a] /\ ms[a].id # id
      /\ \A a \in D : ms[a].id # id => \E i \in DOMAIN s : s[i] = ms[a]
      /\ \A i, j \in DOMAIN s : i < j => \E a, b \in D : a < b /\ s[i] = ms[a] /\ s[j] = ms[b]
  BY DEF KeptOf
<1>2. DOMAIN ms = D
  OBVIOUS
<1>3. SomeOf(s, ms)
  <2>1. \A i \in DOMAIN s : \E a \in DOMAIN ms : s[i] = ms[a]
    BY <1>1, <1>2
  <2>2. ASSUME NEW i \in DOMAIN s, NEW j \in DOMAIN s, i < j
        PROVE  \E a, b \in DOMAIN ms : a < b /\ s[i] = ms[a] /\ s[j] = ms[b]
    <3>1. PICK a, b \in D : a < b /\ s[i] = ms[a] /\ s[j] = ms[b]
      BY <1>1, <2>2
    <3> QED BY <1>2, <3>1
  <2> QED BY <2>1, <2>2 DEF SomeOf
<1>4. ASSUME NEW f PROVE f \in Listed(s) <=> (f \in Listed(ms) /\ f.id # id)
  BY <1>1, <1>2 DEF Listed
<1> QED BY <1>3, <1>4

\* The first lines of a list.
LEMMA FirstLined ==
  ASSUME NEW N, NEW ls, Lined(ls, N), NEW n \in 0 .. Len(ls), NEW s, s = SubSeq(ls, 1, n)
  PROVE  LinedIn(s, ls, N)
<1>1. ls \in Seq(FileLine(N)) /\ Len(ls) \in Nat /\ DOMAIN ls = 1 .. Len(ls) /\ n \in Nat
  BY LenProperties DEF Lined
<1>2. \A i \in 1 .. n : ls[i] \in FileLine(N)
  BY <1>1, ElementOfSeq
<1>3. /\ s \in Seq(FileLine(N)) /\ Len(s) = IF 1 <= n THEN n - 1 + 1 ELSE 0
      /\ \A i \in 1 .. n - 1 + 1 : s[i] = ls[1 + i - 1]
  BY <1>1, <1>2, SubSeqProperties
<1>4. DOMAIN s = 1 .. n /\ \A i \in 1 .. n : s[i] = ls[i] /\ i \in DOMAIN ls
  BY <1>1, <1>3, LenProperties
<1>5. SomeOf(s, ls)
  BY <1>4 DEF SomeOf
<1> QED BY <1>3, <1>5, SomeOfLined

\* A line more.
Longer(v, ls, l, N) ==
  /\ v \in Seq(FileLine(N)) /\ DOMAIN v = 1 .. Len(ls) + 1 /\ v[Len(ls) + 1] = l
  /\ \A i \in 1 .. Len(ls) : v[i] = ls[i]

\* An empty line, or one whose id is greater than those of all others, or that is in the
\* list already.
MayFollow(l, ls, N) ==
  \/ l = NoEntry
  \/ /\ l \in FileLine(N) /\ l.id > 0 /\ l.name # NULL
     /\ \A f \in Listed(ls) : f.id < l.id \/ f = l

LinedWith(v, ls, l, N) == Lined(v, N) /\ Listed(v) = Listed(ls) \cup ({l} \ {NoEntry})

LEMMA LongerLined ==
  ASSUME NEW N, NEW ls, Lined(ls, N), NEW l, MayFollow(l, ls, N),
         NEW v, Longer(v, ls, l, N)
  PROVE  LinedWith(v, ls, l, N)
<1>1. Len(ls) \in Nat /\ DOMAIN ls = 1 .. Len(ls)
  BY LenProperties DEF Lined
<1>2. \A i \in DOMAIN v : i \in Nat /\ (i = Len(ls) + 1 \/ (i \in DOMAIN ls /\ v[i] = ls[i]))
  BY <1>1 DEF Longer
<1>3. v[Len(ls) + 1] = l /\ Len(ls) + 1 \in DOMAIN v
      /\ \A i \in DOMAIN ls : i \in DOMAIN v /\ v[i] = ls[i] /\ i < Len(ls) + 1
  BY <1>1 DEF Longer
<1>4. l # NoEntry => l.id > 0 /\ l.name # NULL /\ \A f \in Listed(ls) : f.id < l.id \/ f = l
  BY DEF MayFollow
<1>5. \A i \in DOMAIN v : v[i] # NoEntry => v[i].id > 0 /\ v[i].name # NULL
  BY <1>2, <1>3, <1>4 DEF Lined
<1>6. ASSUME NEW i \in DOMAIN v, NEW j \in DOMAIN v, i < j, v[i] # NoEntry, v[j] # NoEntry
      PROVE  v[i].id < v[j].id \/ v[i] = v[j]
  <2>1. i \in DOMAIN ls /\ v[i] = ls[i]
    BY <1>1, <1>2, <1>6
  <2>2. CASE j = Len(ls) + 1
    <3>1. ls[i] \in Listed(ls)
      BY <1>6, <2>1 DEF Listed
    <3> QED BY <1>3, <1>4, <1>6, <2>1, <2>2, <3>1
  <2>3. CASE j \in DOMAIN ls /\ v[j] = ls[j]
    BY <1>6, <2>1, <2>3 DEF Lined
  <2> QED BY <1>2, <2>2, <2>3
<1>7. Listed(v) = Listed(ls) \cup ({l} \ {NoEntry})
  BY <1>2, <1>3 DEF Listed
<1> QED BY <1>5, <1>6, <1>7 DEF Lined, LinedWith, Longer

\* AppendLine writes the line, and an empty one before it if the last one has a newline.
LEMMA AppendedList ==
  ASSUME NEW N, NEW t, IsList(t, N), NEW l, l # NoEntry, MayFollow(l, t.lines, N)
  PROVE  LET u == AppendLine(t, l, NoEntry) IN
         /\ IsList(u, N) /\ ListedIn(u) = ListedIn(t) \cup {l}
         /\ MayFollow(l, u.lines, N)
<1> PICK ls : ls = t.lines
  OBVIOUS
<1> PICK ps : ps = IF t.ends THEN Append(ls, NoEntry) ELSE ls
  OBVIOUS
<1> PICK v : v = ps \o <<l>>
  OBVIOUS
<1> PICK u : u = AppendLine(t, l, NoEntry)
  OBVIOUS
<1>1. Lined(ls, N) /\ ListedIn(t) = Listed(ls)
      /\ t \in [there : BOOLEAN, lines : Seq(FileLine(N)), ends : BOOLEAN] /\ t.there
  BY ListIsLined
<1>2. NoEntry \in FileLine(N) /\ l \in FileLine(N)
  BY DEF NoEntry, Entry, FileLine, MayFollow
<1>3. Lined(ps, N) /\ Listed(ps) = Listed(ls)
  <2>1. CASE ~t.ends
    BY <1>1, <2>1
  <2>2. CASE t.ends
    <3>1. ls \in Seq(FileLine(N))
      BY <1>1 DEF Lined
    <3>2. ps \in Seq(FileLine(N)) /\ Len(ps) = Len(ls) + 1 /\ ps[Len(ls) + 1] = NoEntry
          /\ \A i \in 1 .. Len(ls) : ps[i] = ls[i]
      BY <2>2, <3>1, <1>2, AppendProperties
    <3>3. Longer(ps, ls, NoEntry, N)
      BY <3>2, LenProperties DEF Longer
    <3>4. MayFollow(NoEntry, ls, N)
      BY DEF MayFollow
    <3>5. LinedWith(ps, ls, NoEntry, N)
      BY <1>1, <3>3, <3>4, LongerLined
    <3> QED BY <3>5 DEF LinedWith
  <2> QED BY <2>1, <2>2
<1>4. ps \in Seq(FileLine(N)) /\ <<l>> \in Seq(FileLine(N)) /\ Len(<<l>>) = 1 /\ <<l>>[1] = l
  BY <1>2, <1>3 DEF Lined
<1>5. /\ v \in Seq(FileLine(N)) /\ Len(v) = Len(ps) + 1
      /\ \A i \in 1 .. Len(ps) + 1 : v[i] = IF i <= Len(ps) THEN ps[i] ELSE <<l>>[i - Len(ps)]
  BY <1>4, ConcatProperties
<1>6. Len(ps) \in Nat /\ DOMAIN v = 1 .. Len(v)
  BY <1>4, <1>5, LenProperties
<1>7. Longer(v, ps, l, N)
  <2>1. Len(ps) + 1 \in 1 .. Len(ps) + 1 /\ ~(Len(ps) + 1 <= Len(ps)) /\ Len(ps) + 1 - Len(ps) = 1
        /\ \A i \in 1 .. Len(ps) : i \in 1 .. Len(ps) + 1 /\ i <= Len(ps)
    BY <1>6
  <2> QED BY <2>1, <1>4, <1>5, <1>6 DEF Longer
<1>8. MayFollow(l, ps, N)
  BY <1>3 DEF MayFollow
<1>9. LinedWith(v, ps, l, N)
  BY <1>3, <1>7, <1>8, LongerLined
<1>10. u = [there |-> TRUE, lines |-> v, ends |-> FALSE]
  BY <1>1 DEF AppendLine
<1>11. IsList(u, N) /\ ListedIn(u) = Listed(v)
  BY <1>9, <1>10, LinedIsList DEF LinedWith
<1>12. MayFollow(l, u.lines, N)
  BY <1>3, <1>9, <1>10 DEF MayFollow, LinedWith
<1> QED BY <1>1, <1>3, <1>9, <1>11, <1>12 DEF LinedWith

\* If no line is empty, the last one has the greatest id (createFile).
LEMMA NextIdFollows ==
  ASSUME NEW N, NEW t, IsList(t, N), ~NameUnreadable(t), NEW n \in N, n # NULL
  PROVE  LET l == Entry(NextId(t), n) IN
         /\ MayFollow(l, t.lines, N) /\ l # NoEntry
         /\ \A f \in ListedIn(t) : f.id < l.id
<1> PICK ls : ls = t.lines
  OBVIOUS
<1> PICK l : l = Entry(NextId(t), n)
  OBVIOUS
<1>1. Lined(ls, N) /\ ListedIn(t) = Listed(ls)
  BY ListIsLined
<1>2. Len(ls) \in Nat /\ DOMAIN ls = 1 .. Len(ls) /\ ls \in Seq(FileLine(N))
  BY <1>1, LenProperties DEF Lined
<1>3. \A i \in DOMAIN ls : ls[i] # NoEntry
  BY DEF NameUnreadable, Lines, NoEntry, Entry
<1>4. NextId(t) \in Nat \ {0} /\ \A i \in DOMAIN ls : ls[i].id < NextId(t)
  <2>1. CASE ls = << >>
    BY <1>2, <2>1 DEF NextId
  <2>2. CASE ls # << >>
    <3> PICK last : last = ls[Len(ls)]
      OBVIOUS
    <3>1. Len(ls) \in DOMAIN ls
      BY <1>2, <2>2, EmptySeq
    <3>2. NextId(t) = last.id + 1
      BY <2>2 DEF NextId, Last
    <3>3. \A i \in DOMAIN ls : ls[i] \in FileLine(N)
      BY <1>2, ElementOfSeq
    <3>4. \A i \in DOMAIN ls : ls[i].id \in Nat
      BY <3>3 DEF FileLine
    <3>5. last.id \in Nat
      BY <3>1, <3>4
    <3>6. ASSUME NEW i \in DOMAIN ls PROVE ls[i].id < last.id \/ ls[i] = last
      <4>1. i < Len(ls) \/ i = Len(ls)
        BY <1>2
      <4> QED BY <4>1, <1>1, <1>3, <3>1 DEF Lined
    <3>7. \A i \in DOMAIN ls : ls[i].id < last.id + 1
      BY <3>4, <3>5, <3>6
    <3> QED BY <3>2, <3>5, <3>7
  <2> QED BY <2>1, <2>2
<1>5. l.id = NextId(t) /\ l.name = n /\ l \in FileLine(N)
  BY <1>4 DEF Entry, FileLine
<1>6. \A f \in Listed(ls) : f.id < l.id
  BY <1>4, <1>5 DEF Listed
<1>7. l # NoEntry
  BY <1>5 DEF NoEntry, Entry
<1> QED BY <1>1, <1>4, <1>5, <1>6, <1>7 DEF MayFollow

\* deleteFile takes the entry of the id from the list, and no other.
LEMMA DeletedList ==
  ASSUME NEW N, NEW t, IsList(t, N), NEW id \in Nat \ {0}
  PROVE  /\ IsList(deleteFile(t, id), N)
         /\ ListedIn(deleteFile(t, id)) = { f \in ListedIn(t) : f.id # id }
<1> PICK ls : ls = t.lines
  OBVIOUS
<1> PICK ms : ms = IF ls # << >> /\ Last(ls) = NoEntry THEN Front(ls) ELSE ls
  OBVIOUS
<1> PICK s : s = Copied(ms, id)
  OBVIOUS
<1> PICK b : b = (s # << >> /\ ~LastKept(t, id))
  OBVIOUS
<1>1. Lined(ls, N) /\ ListedIn(t) = Listed(ls)
      /\ t \in [there : BOOLEAN, lines : Seq(FileLine(N)), ends : BOOLEAN] /\ t.there
  BY ListIsLined
<1>2. Lined(ms, N) /\ Listed(ms) = Listed(ls)
  <2>1. CASE ls # << >> /\ Last(ls) = NoEntry
    <3>1. ls \in Seq(FileLine(N)) /\ Len(ls) \in Nat \ {0} /\ DOMAIN ls = 1 .. Len(ls)
      BY <1>1, <2>1, EmptySeq, LenProperties DEF Lined
    <3>2. ms = SubSeq(ls, 1, Len(ls) - 1) /\ ls[Len(ls)] = NoEntry
      BY <2>1 DEF Front, Last
    <3>3. Len(ls) - 1 \in 0 .. Len(ls)
      BY <3>1
    <3>4. LinedIn(ms, ls, N)
      BY <1>1, <3>2, <3>3, FirstLined
    <3>5. \A i \in 1 .. Len(ls) - 1 : ls[i] \in FileLine(N)
      BY <3>1, ElementOfSeq
    <3>6. /\ ms \in Seq(FileLine(N)) /\ Len(ms) = IF 1 <= Len(ls) - 1 THEN Len(ls) - 1 - 1 + 1 ELSE 0
          /\ \A i \in 1 .. Len(ls) - 1 - 1 + 1 : ms[i] = ls[1 + i - 1]
      BY <3>1, <3>2, <3>5, SubSeqProperties
    <3>7. DOMAIN ms = 1 .. Len(ms)
      BY <3>6, LenProperties
    <3>8. \A i \in DOMAIN ls : i # Len(ls) => i \in DOMAIN ms /\ ms[i] = ls[i]
      BY <3>1, <3>6, <3>7
    <3>9. Listed(ls) \subseteq Listed(ms)
      BY <3>2, <3>8 DEF Listed
    <3> QED BY <3>4, <3>9 DEF LinedIn
  <2>2. CASE ~(ls # << >> /\ Last(ls) = NoEntry)
    BY <1>1, <2>2
  <2> QED BY <2>1, <2>2
<1>3. ms \in Seq(FileLine(N)) /\ DOMAIN ms = 1 .. Len(ms)
  BY <1>2, LenProperties DEF Lined
<1>4. s \in Seq(FileLine(N)) /\ KeptOf(s, ms, id, Len(ms))
  BY <1>3, CopiedKept
<1>5. SomeOf(s, ms) /\ Listed(s) = { f \in Listed(ms) : f.id # id }
  BY <1>3, <1>4, KeptSomeOf
<1>6. Lined(s, N)
  BY <1>2, <1>4, <1>5, SomeOfLined DEF LinedIn
<1>8. b \in BOOLEAN
  OBVIOUS
<1>9. deleteFile(t, id) = [there |-> TRUE, lines |-> s, ends |-> b]
  <2>1. deleteFile(t, id) = [t EXCEPT !.lines = s, !.ends = b]
    BY DEF deleteFile
  <2> QED BY <1>1, <2>1, Rewritten
<1>10. IsList(deleteFile(t, id), N) /\ ListedIn(deleteFile(t, id)) = Listed(s)
  BY <1>6, <1>8, <1>9, LinedIsList
<1> QED BY <1>1, <1>2, <1>5, <1>10

\* What may have been written of a list is one too.
LEMMA PartsAreLists ==
  ASSUME NEW N, NEW t, IsList(t, N), NEW u \in Parts(t)
  PROVE  IsList(u, N) /\ ListedIn(u) \subseteq ListedIn(t)
<1>1. CASE u = t
  BY <1>1
<1>2. ASSUME NEW n \in 0 .. Len(t.lines) - 1,
             u = [t EXCEPT !.lines = SubSeq(@, 1, n), !.ends = n > 0]
      PROVE  IsList(u, N) /\ ListedIn(u) \subseteq ListedIn(t)
  <2>1. Lined(t.lines, N) /\ ListedIn(t) = Listed(t.lines) /\ t.there
        /\ t \in [there : BOOLEAN, lines : Seq(FileLine(N)), ends : BOOLEAN]
    BY ListIsLined
  <2>2. Len(t.lines) \in Nat
    BY <2>1, LenProperties DEF Lined
  <2>3. n \in 0 .. Len(t.lines)
    BY <2>2
  <2> PICK s : s = SubSeq(t.lines, 1, n)
    OBVIOUS
  <2> PICK ls : ls = t.lines
    OBVIOUS
  <2>7. LinedIn(s, ls, N)
    BY <2>1, <2>3, FirstLined
  <2>4. Lined(s, N) /\ Listed(s) \subseteq ListedIn(t)
    BY <2>1, <2>7 DEF LinedIn
  <2>5. PICK b \in BOOLEAN : b = (n > 0)
    <3>1. (n > 0) \in BOOLEAN
      OBVIOUS
    <3> QED BY <3>1
  <2>6. u = [there |-> TRUE, lines |-> s, ends |-> b]
    BY <1>2, <2>1, <2>5, Rewritten
  <2>8. IsList(u, N) /\ ListedIn(u) = Listed(s)
    BY <2>4, <2>6, LinedIsList
  <2> QED BY <2>4, <2>8
<1> QED BY <1>1, <1>2 DEF Parts

\* The empty file and the empty list.
LEMMA EmptyList ==
  ASSUME NEW N PROVE IsList(EmptyFile, N) /\ ListedIn(EmptyFile) = {}
  BY EmptySeq DEF IsList, EmptyFile, Texts, ListedIn

\* getFileName finds the name of the only entry that has the id.
LEMMA NameOfEntry ==
  ASSUME NEW N, NEW t, IsList(t, N), NEW id \in Nat \ {0}, NEW f \in ListedIn(t), f.id = id
  PROVE  getFileName(t, id) = f.name
<1> PICK S : S = WithId(t, id)
  OBVIOUS
<1>1. PICK i \in DOMAIN t.lines : t.lines[i] = f /\ f # NoEntry
  BY DEF ListedIn
<1>2. DOMAIN t.lines = 1 .. Len(t.lines) /\ Len(t.lines) \in Nat
  BY ListIsLined, LenProperties DEF Lined
<1>3. i \in S /\ S \subseteq Nat /\ S \subseteq DOMAIN t.lines
  BY <1>1, <1>2 DEF WithId, Lines
<1>4. Min(S) \in S
  BY <1>3, LeastOf
<1>5. PICK m : m = Min(S) /\ m \in DOMAIN t.lines /\ t.lines[m].id = id
  BY <1>3, <1>4 DEF WithId, Lines
<1>6. t.lines[m] # NoEntry
  BY <1>5 DEF NoEntry, Entry
<1>7. t.lines[m] = t.lines[i]
  <2>1. m < i \/ i < m \/ m = i
    BY <1>1, <1>2, <1>5
  <2>2. t.lines[m].id = t.lines[i].id /\ t.lines[m].id \in Nat
    BY <1>1, <1>5
  <2> QED BY <1>1, <1>5, <1>6, <2>1, <2>2, ListIsLined DEF Lined
<1> QED BY <1>1, <1>3, <1>5, <1>7 DEF getFileName

\* What it finds is in the list.
LEMMA NameIsListed ==
  ASSUME NEW N, NEW t, IsList(t, N), NEW id \in Nat \ {0}, getFileName(t, id) # NULL
  PROVE  Entry(id, getFileName(t, id)) \in ListedIn(t) /\ getFileName(t, id) \in N
<1> PICK S : S = WithId(t, id)
  OBVIOUS
<1>1. S # {}
  BY DEF getFileName
<1>2. DOMAIN t.lines = 1 .. Len(t.lines) /\ Len(t.lines) \in Nat
      /\ t.lines \in Seq(FileLine(N))
  BY ListIsLined, LenProperties DEF Lined
<1>3. S \subseteq Nat /\ S \subseteq DOMAIN t.lines
  BY <1>2 DEF WithId, Lines
<1>4. Min(S) \in S
  BY <1>1, <1>3, LeastOf
<1>5. PICK m : m = Min(S) /\ m \in DOMAIN t.lines /\ t.lines[m].id = id
  BY <1>3, <1>4 DEF WithId, Lines
<1>6. getFileName(t, id) = t.lines[m].name
  BY <1>1, <1>5 DEF getFileName
<1>7. t.lines[m] \in FileLine(N)
  BY <1>2, <1>5, ElementOfSeq
<1>8. t.lines[m] = Entry(id, getFileName(t, id)) /\ getFileName(t, id) \in N
  BY <1>5, <1>6, <1>7 DEF FileLine, Entry
<1>9. t.lines[m] # NoEntry
  BY <1>5 DEF NoEntry, Entry
<1> QED BY <1>5, <1>8, <1>9 DEF ListedIn

-----------------------------------------------------------------------------
(***************************************************************************)
(* What each step does to the list and to the files.                       *)
(***************************************************************************)
\* What the main server is doing, or was doing when SIGINT came.
Doing == IF main.at = "stopping" THEN main.was ELSE main.at

\* Nobody takes the lock, and nobody gives back that of deleteFile.
LockKept ==
  /\ held' # {} => held # {}
  /\ Doing = "locked" /\ held = {0} => held' = {0}

\* Nothing; the server may stand still or crash.
Quiet ==
  /\ UNCHANGED <<files, temp, disk>> /\ LockKept
  /\ \/ UNCHANGED main
     \/ main.at = "poll" /\ \E s \in {"blocked", "crashed"} : main' = [main EXCEPT !.at = s]

\* What is left in the stream of a worker is written.
Flushes ==
  /\ UNCHANGED <<temp, disk, main>> /\ LockKept
  /\ \E p \in Int \ {0} : files' = Flushed(p)

\* SIGINT comes.
Stops ==
  /\ UNCHANGED <<files, temp, disk>> /\ LockKept
  /\ main.at \in Stages \cup {"poll", "blocked"}
  /\ \E w \in {main.at, "fork"} :
       /\ w = "fork" => main.at = "poll"
       /\ main' = [main EXCEPT !.at = "stopping", !.was = w]

Creates ==
  \E n \in CreateNames \ Unusable :
    /\ main.at = "poll" /\ held = {} /\ ~NameUnreadable(files)
    /\ files' = createFile(files, n) /\ disk' = [disk EXCEPT ![n] = {}]
    /\ UNCHANGED <<temp, main, held>>

Leaks ==
  \E n \in CreateNames \cap Unusable :
    /\ main.at = "poll" /\ held = {} /\ ~NameUnreadable(files)
    /\ main' = [main EXCEPT !.leak = Entry(NextId(files), n)]
    /\ UNCHANGED <<files, temp, disk>>

Renames ==
  \E e \in Editors, f \in FileIds :
    /\ main.at = "poll" /\ held = {}
    /\ main' = [main EXCEPT !.at = "renamed", !.e = e, !.id = f, !.name = getFileName(files, f)]
    /\ temp' = files /\ files' = Missing
    /\ UNCHANGED <<disk, held>>

StoreSteps ==
  \/ Quiet \/ Flushes \/ Creates \/ Leaks \/ Renames \/ Stops \/ ExitServer
  \/ DeleteStep \/ \E p \in DOMAIN proc : Save(p)

\* The name of a new file is one of those that users give.
LEMMA CreateName ==
  ASSUME NEW e, NEW u, NEW m \in Sendable(e, u), m.type = "CREATE_FILE"
  PROVE  m.arg \in CreateNames
  BY DEF Sendable, Opening, Msg

\* The messages that make a new file, or none.
LEMMA CreateFileStep ==
  ASSUME Inv, NEW e \in Editors, CreateFile(e)
  PROVE  Quiet \/ Creates \/ Leaks
<1> PICK n : n = Head(up[e]).arg
  OBVIOUS
<1>1. main.at = "poll" /\ Head(up[e]) \in Sendable(e, editor[e].uid)
      /\ Head(up[e]).type = "CREATE_FILE" /\ UNCHANGED temp
  BY BringsFacts DEF CreateFile
<1>2. n \in CreateNames
  BY <1>1, CreateName
<1>3. CASE held # {} /\ main' = [main EXCEPT !.at = "blocked"] /\ UNCHANGED <<files, disk, down, held>>
  BY <1>1, <1>3 DEF Quiet, LockKept
<1>4. CASE UNCHANGED <<files, disk, main, held>>
  BY <1>1, <1>4 DEF Quiet, LockKept
<1>5. CASE /\ held = {} /\ ~NameUnreadable(files) /\ n \notin Unusable
           /\ files' = createFile(files, n) /\ disk' = [disk EXCEPT ![n] = {}]
           /\ UNCHANGED <<main, held>>
  BY <1>1, <1>2, <1>5 DEF Creates
<1>6. CASE /\ held = {} /\ ~NameUnreadable(files) /\ n \in Unusable
           /\ main' = [main EXCEPT !.leak = Entry(NextId(files), n)]
           /\ UNCHANGED <<files, disk>>
  BY <1>1, <1>2, <1>6 DEF Leaks
<1> QED BY <1>3, <1>4, <1>5, <1>6 DEF CreateFile

\* What the server does for one connection.
LEMMA HandleStore ==
  ASSUME Inv, NEW e \in Editors, Handle(e)
  PROVE  Quiet \/ Creates \/ Leaks \/ Renames
<1>1. CASE Accept(e) \/ HangUp(e) \/ NotLoggedIn(e) \/ Quit(e)
  BY <1>1 DEF Accept, HangUp, NotLoggedIn, Quit, store, Quiet, LockKept
<1>2. CASE Login(e)
  BY <1>2 DEF Login, SendList, Brings, store, Quiet, LockKept
<1>3. CASE Register(e)
  BY <1>3 DEF Register, SendList, Brings, Quiet, LockKept
<1>4. CASE FileRequest(e)
  <2>1. LockKept
    BY <1>4 DEF FileRequest, Fork, Brings, LockKept, Doing
  <2> QED BY <1>4, <2>1 DEF FileRequest, store, Quiet
<1>5. CASE CreateFile(e)
  BY <1>5, CreateFileStep
<1>6. CASE DeleteFile(e)
  <2> PICK f : f = Head(up[e]).arg
    OBVIOUS
  <2>1. main.at = "poll" /\ f \in FileIds /\ UNCHANGED <<disk, held>>
    BY <1>6, BringsFacts, SendableFields DEF DeleteFile
  <2>2. CASE held # {}
    BY <1>6, <2>1, <2>2 DEF DeleteFile, Quiet, LockKept
  <2>3. CASE held = {}
    <3>1. /\ main' = [main EXCEPT !.at = "renamed", !.e = e, !.id = f,
                                  !.name = getFileName(files, f)]
          /\ temp' = files /\ files' = Missing
      BY <1>6, <2>3 DEF DeleteFile
    <3> QED BY <2>1, <2>3, <3>1 DEF Renames
  <2> QED BY <2>2, <2>3
<1>7. CASE MainFaults(e)
  <2>1. main.at = "poll" /\ main' = [main EXCEPT !.at = "crashed"]
        /\ UNCHANGED <<files, temp, disk>> /\ LockKept
    BY <1>7 DEF MainFaults, Brings, store, LockKept, Doing
  <2> QED BY <2>1 DEF Quiet
<1> QED BY <1>1, <1>2, <1>3, <1>4, <1>5, <1>6, <1>7 DEF Handle

\* Every step is one of them.
LEMMA StoreStep ==
  ASSUME Inv, [Next]_vars PROVE StoreSteps
<1>1. ASSUME NEW e \in Editors, Handle(e) PROVE StoreSteps
  BY <1>1, HandleStore DEF StoreSteps
<1>2. CASE DeleteStep
  BY <1>2 DEF StoreSteps
<1>3. CASE Shutdown \/ ShutdownInDelete
  <2>1. Stops
    BY <1>3 DEF Shutdown, ShutdownInDelete, handle_shutdown, Stages, store, LockKept, Stops
  <2> QED BY <2>1 DEF StoreSteps
<1>4. ASSUME NEW e \in Editors, ShutdownInFork(e) PROVE StoreSteps
  <2>1. main.at = "poll"
    BY <1>4 DEF ShutdownInFork, Brings
  <2>2. LockKept
    BY <1>4, <2>1 DEF ShutdownInFork, LockKept, Doing
  <2>3. Stops
    BY <1>4, <2>1, <2>2 DEF ShutdownInFork, handle_shutdown, store, Stops
  <2> QED BY <2>3 DEF StoreSteps
<1>5. CASE ExitServer
  BY <1>5 DEF StoreSteps
<1>6. ASSUME NEW p \in DOMAIN proc, WorkerStep(p) PROVE StoreSteps
  <2>4. p \in Int \ {0}
    BY WorkersLength DEF Inv
  <2>1. CASE Load(p) \/ NoList(p) \/ Fault(p)
    <3>1. Quiet
      BY <2>1, <2>4 DEF Load, NoList, Fault, Dies, store, Quiet, LockKept
    <3> QED BY <3>1 DEF StoreSteps
  <2>2. CASE Save(p)
    BY <2>2 DEF StoreSteps
  <2>3. CASE Exit(p)
    <3>2. Flushes
      BY <2>3, <2>4 DEF Exit, Flushes, LockKept
    <3> QED BY <3>2 DEF StoreSteps
  <2> QED BY <1>6, <2>1, <2>2, <2>3 DEF WorkerStep
<1>7. ASSUME NEW e \in Editors, AtWorkerStep(e) PROVE StoreSteps
  <2>1. UNCHANGED <<files, temp, disk, main>>
    BY <1>7 DEF AtWorkerStep, WorkerLogin, WorkerWaits, WorkerLoginFaults, WorkerFileRequest,
                Edit, Lost, store
  <2>2. LockKept
    <3>1. held' = held \/ \E q \in DOMAIN proc : held' = held \ {q}
      BY <1>7 DEF AtWorkerStep, WorkerLogin, WorkerWaits, WorkerLoginFaults, WorkerFileRequest,
                  Edit, Lost, Dies, AtWorker
    <3>2. 0 \notin DOMAIN proc
      BY WorkersLength DEF Inv
    <3> QED BY <3>1, <3>2 DEF LockKept
  <2>3. Quiet
    BY <2>1, <2>2 DEF Quiet
  <2> QED BY <2>3 DEF StoreSteps
<1>8. ASSUME NEW e \in Editors, EditorStep(e) PROVE StoreSteps
  <2>1. Quiet
    BY <1>8 DEF EditorStep, Start, Choose, GetOk, GetPort, GetFailed, Answers, Vanish, store, Quiet, LockKept
  <2> QED BY <2>1 DEF StoreSteps
<1>9. CASE UNCHANGED vars
  BY <1>9 DEF vars, store, Quiet, LockKept, StoreSteps
<1> QED BY <1>1, <1>2, <1>3, <1>4, <1>5, <1>6, <1>7, <1>8, <1>9 DEF Next, ServerStep

-----------------------------------------------------------------------------
(***************************************************************************)
(* The list through its stages.                                            *)
(***************************************************************************)
\* While a delete is under way the list is in files_temp.txt, and may stay there when the
\* server is shut down; otherwise it is files.txt.  What a failed createFile has left in
\* its stream may still follow it.
Whole == temp = Missing /\ files.there
LeakOK ==
  held # {} =>
    \/ Doing = "locked" /\ held = {0}
    \/ /\ Doing \notin Stages /\ temp = Missing /\ main.leak # NoEntry
       /\ MayFollow(main.leak, files.lines, Names)
Outside == {"poll", "blocked", "fork", "crashed"}
Copying == Stages \ {"rewritten"}
Stage ==
  /\ DOMAIN disk = Names
  /\ files.there => IsList(files, Names)
  /\ Whole \/ IsList(temp, Names)
  /\ Doing \in Outside => main.name = NULL /\ Whole
  /\ Doing \in Copying =>
       /\ IsList(temp, Names) /\ files = IF Doing = "renamed" THEN Missing ELSE EmptyFile
       /\ main.id \in FileIds /\ main.name = getFileName(temp, main.id)
  /\ Doing = "rewritten" => Whole
  /\ Doing = "locked" => held = {0}
  /\ LeakOK

\* No file is called NULL, and a file has an id.
LEMMA NamesAndIds ==
  /\ NULL \notin Names /\ CreateNames \subseteq Names
  /\ \A f \in FileIds : f \in Nat \ {0}
  /\ \A n \in CreateNames : n # NULL
  BY FilesAssumption, ServerAssumption DEF Names

LEMMA MissingFacts ==
  Missing.there = FALSE /\ EmptyFile.there = TRUE /\ Missing # EmptyFile
  /\ \A N : ~IsList(Missing, N)
  BY DEF Missing, EmptyFile, IsList

\* At the start the list is one that createFile and deleteFile may have left.
LEMMA InitStage == Init => Stage
<1> SUFFICES ASSUME Init PROVE Stage
  OBVIOUS
<1>1. PICK N : N = { l.name : l \in LinesOf({files}) } \ Unusable /\ IsList(files, N)
  BY FilesAssumption DEF Init
<1>2. N \subseteq { l.name : l \in LinesOf(InitFiles) }
  BY <1>1 DEF LinesOf, Init
<1>3. N \cup {NULL} \subseteq Names \cup {NULL}
  BY <1>2 DEF Names
<1>4. files.lines \in Seq([id : Nat, name : N \cup {NULL}])
      /\ files \in Texts([id : Nat, name : N \cup {NULL}]) /\ files.there
  BY <1>1 DEF IsList, Texts
<1>5. files.lines \in Seq([id : Nat, name : Names \cup {NULL}])
  <2>1. [id : Nat, name : N \cup {NULL}] \subseteq [id : Nat, name : Names \cup {NULL}]
    BY <1>3
  <2> QED BY <2>1, <1>4, SeqMonotonic
<1>6. files \in Texts([id : Nat, name : Names \cup {NULL}])
  BY <1>4, <1>5 DEF Texts
<1>7. IsList(files, Names)
  BY <1>1, <1>6 DEF IsList
<1>8. Doing = "poll"
  BY DEF Init, Idle, Doing
<1> QED BY <1>4, <1>7, <1>8 DEF Init, Stage, Stages, Copying, Outside, Whole, LeakOK, Idle

\* What the server does stays, or it stands still or crashes.
LEMMA DoingQuiet ==
  ASSUME MainOK, Quiet
  PROVE  /\ main'.name = main.name /\ main'.leak = main.leak /\ main'.id = main.id
         /\ \/ main' = main /\ Doing' = Doing
            \/ Doing = "poll" /\ Doing' \in {"blocked", "crashed"}
  BY DEF Quiet, MainOK, Idle, Doing

LEMMA StageQuiet ==
  ASSUME MainOK, Stage, Quiet PROVE Stage'
<1>1. /\ main'.name = main.name /\ main'.leak = main.leak /\ main'.id = main.id
      /\ Doing' = Doing \/ (Doing = "poll" /\ Doing' \in {"blocked", "crashed"})
  BY DoingQuiet
<1>2. UNCHANGED <<files, temp, disk>> /\ LockKept
  BY DEF Quiet
<1>3. LeakOK'
  BY <1>1, <1>2 DEF Stage, LeakOK, LockKept, Stages
<1> QED BY <1>1, <1>2, <1>3 DEF Stage, Whole, LockKept, Outside, Copying, Stages

LEMMA StageSave ==
  ASSUME Stage, NEW p, Save(p) PROVE Stage'
<1>1. UNCHANGED <<files, temp, main, held>> /\ DOMAIN disk' = DOMAIN disk
  BY DEF Save
<1> QED BY <1>1 DEF Stage, Whole, LeakOK, Doing

\* SIGINT changes neither the list nor the lock.
LEMMA StageStops ==
  ASSUME MainOK, Stage, Stops PROVE Stage'
<1>1. /\ main'.name = main.name /\ main'.leak = main.leak /\ main'.id = main.id
      /\ Doing' = Doing \/ (Doing = "poll" /\ Doing' = "fork")
  BY DEF Stops, MainOK, Idle, Doing, Stages
<1>2. UNCHANGED <<files, temp, disk>> /\ LockKept
  BY DEF Stops
<1>3. LeakOK'
  BY <1>1, <1>2 DEF Stage, LeakOK, LockKept, Stages
<1> QED BY <1>1, <1>2, <1>3 DEF Stage, Whole, LockKept, Outside, Copying, Stages

\* What is written at the end of a process that holds the lock.
LEMMA FlushedList ==
  ASSUME Stage, NEW p, p # 0 \/ Doing # "locked"
  PROVE  \/ Flushed(p) = files
         \/ /\ held # {} /\ Whole /\ Flushed(p) = AppendLine(files, main.leak, NoEntry)
            /\ IsList(Flushed(p), Names) /\ ListedIn(Flushed(p)) = ListedIn(files) \cup {main.leak}
            /\ Doing \notin Stages /\ main.leak # NoEntry /\ MayFollow(main.leak, files.lines, Names)
            /\ MayFollow(main.leak, Flushed(p).lines, Names)
<1> SUFFICES ASSUME p \in held PROVE
         \/ Flushed(p) = files
         \/ /\ held # {} /\ Whole /\ Flushed(p) = AppendLine(files, main.leak, NoEntry)
            /\ IsList(Flushed(p), Names) /\ ListedIn(Flushed(p)) = ListedIn(files) \cup {main.leak}
            /\ Doing \notin Stages /\ main.leak # NoEntry /\ MayFollow(main.leak, files.lines, Names)
            /\ MayFollow(main.leak, Flushed(p).lines, Names)
  BY DEF Flushed
<1>1. /\ held # {} /\ temp = Missing /\ main.leak # NoEntry /\ Doing \notin Stages
      /\ MayFollow(main.leak, files.lines, Names)
  BY DEF Stage, LeakOK
<1>2. Whole /\ IsList(files, Names)
  BY <1>1, MissingFacts DEF Stage, Whole
<1>3. Flushed(p) = AppendLine(files, main.leak, NoEntry)
  BY <1>1 DEF Flushed
<1> QED BY <1>1, <1>2, <1>3, AppendedList

\* What a process leaves in files.txt at its end, if nothing else is changed.
LEMMA StageFlushed ==
  ASSUME Stage, NEW p, p # 0 \/ Doing # "locked", files' = Flushed(p),
         UNCHANGED <<temp, disk>>, held' # {} => held # {},
         Doing = "locked" => held' = {0},
         main'.name = main.name, main'.leak = main.leak, main'.id = main.id,
         Doing' = Doing \/ (Doing \notin {"locked", "copied"} /\ Doing' = "shut")
  PROVE  Stage'
<1>1. CASE files' = files
  <2>1. LeakOK'
    BY <1>1 DEF Stage, LeakOK, Stages
  <2> QED BY <1>1, <2>1 DEF Stage, Whole, Outside, Copying, Stages
<1>2. CASE /\ Whole /\ IsList(files', Names) /\ Doing \notin Stages /\ main.leak # NoEntry
           /\ MayFollow(main.leak, files'.lines, Names)
  <2>1. files'.there
    BY <1>2 DEF IsList
  <2>2. Whole'
    BY <1>2, <2>1 DEF Whole
  <2>3. temp' = Missing /\ Doing' \notin Stages
    BY <1>2 DEF Whole, Stages
  <2>4. LeakOK'
    BY <1>2, <2>3 DEF LeakOK
  <2> QED BY <1>2, <2>2, <2>3, <2>4 DEF Stage, Outside, Copying, Stages
<1> QED BY <1>1, <1>2, FlushedList

LEMMA StageFlushes ==
  ASSUME MainOK, Stage, Flushes PROVE Stage'
<1>1. PICK p \in Int \ {0} : files' = Flushed(p)
  BY DEF Flushes
<1>2. UNCHANGED <<temp, disk, main>> /\ LockKept /\ Doing' = Doing
  BY DEF Flushes, Doing
<1>3. Doing = "locked" => held' = {0}
  BY <1>2 DEF Stage, LockKept
<1> QED BY <1>1, <1>2, <1>3, StageFlushed DEF LockKept

LEMMA StageCreates ==
  ASSUME MainOK, Stage, Creates PROVE Stage'
<1>1. PICK n \in CreateNames \ Unusable :
        /\ main.at = "poll" /\ held = {} /\ ~NameUnreadable(files)
        /\ files' = createFile(files, n) /\ disk' = [disk EXCEPT ![n] = {}]
        /\ UNCHANGED <<temp, main, held>>
  BY DEF Creates
<1>2. Whole /\ IsList(files, Names)
  BY <1>1 DEF Stage, Whole, Doing, Outside
<1>3. n \in Names /\ n # NULL
  BY NamesAndIds
<1> PICK l : l = Entry(NextId(files), n)
  OBVIOUS
<1>4. MayFollow(l, files.lines, Names) /\ l # NoEntry
  BY <1>1, <1>2, <1>3, NextIdFollows
<1>5. IsList(files', Names)
  BY <1>1, <1>2, <1>4, AppendedList DEF createFile
<1>6. files'.there
  BY <1>5 DEF IsList
<1>7. Doing' = "poll" /\ main' = main
  BY <1>1 DEF Doing
<1> QED BY <1>1, <1>2, <1>5, <1>6, <1>7 DEF Stage, Whole, LeakOK, Doing, Outside, Copying, Stages

LEMMA StageLeaks ==
  ASSUME MainOK, Stage, Leaks PROVE Stage'
<1>1. PICK n \in CreateNames \cap Unusable :
        /\ main.at = "poll" /\ held = {} /\ ~NameUnreadable(files)
        /\ main' = [main EXCEPT !.leak = Entry(NextId(files), n)]
        /\ UNCHANGED <<files, temp, disk>>
  BY DEF Leaks
<1>2. Whole /\ IsList(files, Names)
  BY <1>1 DEF Stage, Whole, Doing, Outside
<1>3. n \in Names /\ n # NULL
  BY NamesAndIds
<1> PICK l : l = Entry(NextId(files), n)
  OBVIOUS
<1>4. MayFollow(l, files.lines, Names) /\ l # NoEntry
  BY <1>1, <1>2, <1>3, NextIdFollows
<1>5. main'.leak = l /\ Doing = "poll" /\ Doing' = "poll" /\ main'.name = main.name
  BY <1>1 DEF MainOK, Idle, Doing
<1>6. LeakOK'
  BY <1>1, <1>2, <1>4, <1>5 DEF LeakOK, Whole, Stages
<1> QED BY <1>1, <1>5, <1>6 DEF Stage, Whole, Outside, Copying, Stages

LEMMA StageRenames ==
  ASSUME MainOK, Stage, Renames PROVE Stage'
<1>1. PICK e \in Editors, f \in FileIds :
        /\ main.at = "poll" /\ held = {}
        /\ main' = [main EXCEPT !.at = "renamed", !.e = e, !.id = f, !.name = getFileName(files, f)]
        /\ temp' = files /\ files' = Missing
        /\ UNCHANGED <<disk, held>>
  BY DEF Renames
<1>2. IsList(temp', Names)
  BY <1>1 DEF Stage, Whole, Doing, Outside
<1>3. Doing = "poll" /\ Doing' = "renamed" /\ main'.id = f /\ main'.name = getFileName(files, f)
  BY <1>1 DEF MainOK, Idle, Doing
<1> QED BY <1>1, <1>2, <1>3, MissingFacts DEF Stage, LeakOK, Outside, Copying, Stages

LEMMA StageDelete ==
  ASSUME MainOK, Stage, DeleteStep PROVE Stage'
<1>1. CASE DeleteReopen \/ DeleteLock \/ DeleteUnlock
  <2>1. /\ Doing \in {"renamed", "reopened", "locked"}
        /\ Doing' \in {"reopened", "locked", "copied"} /\ main'.id = main.id
        /\ main'.name = main.name /\ UNCHANGED <<temp, disk>>
    BY <1>1 DEF DeleteReopen, DeleteLock, DeleteUnlock, Deletes, MainOK, Idle, Doing
  <2>2. files' = EmptyFile
    BY <1>1 DEF DeleteReopen, DeleteLock, DeleteUnlock, Deletes, Stage, Doing, Copying, Stages
  <2>3. held' = IF Doing' = "locked" THEN {0} ELSE {}
    <3>1. CASE DeleteReopen
      <4>1. Doing = "renamed" /\ Doing' = "reopened" /\ held' = held
        BY <3>1 DEF DeleteReopen, Deletes, Doing, MainOK, Idle
      <4> QED BY <4>1 DEF Stage, LeakOK, Stages
    <3>2. CASE DeleteLock
      BY <3>2 DEF DeleteLock, Deletes, Doing, MainOK, Idle
    <3>3. CASE DeleteUnlock
      BY <3>3 DEF DeleteUnlock, Deletes, Doing, MainOK, Idle
    <3> QED BY <1>1, <3>1, <3>2, <3>3
  <2>4. IsList(temp, Names) /\ main.id \in FileIds /\ main.name = getFileName(temp, main.id)
    BY <2>1 DEF Stage, Copying, Stages
  <2>5. LeakOK'
    BY <2>3 DEF LeakOK
  <2>6. IsList(files', Names)
    BY <2>2, EmptyList
  <2> QED BY <2>1, <2>2, <2>3, <2>4, <2>5, <2>6 DEF Stage, Outside, Copying, Stages
<1>2. CASE DeleteRewrite
  <2>1. /\ Doing = "copied" /\ Doing' = "rewritten" /\ UNCHANGED <<disk, held>>
        /\ files' = deleteFile(temp, main.id) /\ temp' = Missing
    BY <1>2 DEF DeleteRewrite, Deletes, NewList, MainOK, Idle, Doing
  <2>2. IsList(temp, Names) /\ held = {} /\ main.id \in Nat \ {0}
    BY <2>1, NamesAndIds DEF Stage, LeakOK, Copying, Stages
  <2>3. IsList(files', Names)
    BY <2>1, <2>2, DeletedList
  <2>4. files'.there
    BY <2>3 DEF IsList
  <2> QED BY <2>1, <2>2, <2>3, <2>4 DEF Stage, Whole, LeakOK, Outside, Copying
<1>3. CASE DeleteAnswer
  <2>1. /\ Doing = "rewritten" /\ main' = Idle /\ UNCHANGED <<files, temp, held>>
        /\ DOMAIN disk' = DOMAIN disk
    BY <1>3 DEF DeleteAnswer, Doing
  <2>2. Whole /\ held = {} /\ Doing' = "poll" /\ main'.name = NULL
    BY <2>1 DEF Stage, LeakOK, Idle, Doing, Stages
  <2> QED BY <2>1, <2>2 DEF Stage, Whole, LeakOK, Outside, Copying, Stages
<1> QED BY <1>1, <1>2, <1>3 DEF DeleteStep

\* What exit writes of the new list.
LEMMA ExitList ==
  ASSUME Stage, Doing \in {"locked", "copied"}, NEW t \in Parts(NewList) \cup {NewList}
  PROVE  /\ IsList(temp, Names) /\ main.id \in Nat \ {0}
         /\ IsList(t, Names) /\ ListedIn(t) \subseteq ListedIn(temp)
<1>1. IsList(temp, Names) /\ main.id \in Nat \ {0}
  BY NamesAndIds DEF Stage, Copying, Stages
<1>2. IsList(NewList, Names) /\ ListedIn(NewList) \subseteq ListedIn(temp)
  BY <1>1, DeletedList DEF NewList
<1> QED BY <1>1, <1>2, PartsAreLists

\* The end of the server.
LEMMA ExitDoing ==
  ASSUME MainOK, ExitServer
  PROVE  /\ Doing = main.was /\ Doing' = "shut" /\ main'.id = main.id /\ main'.was = main.was
         /\ main'.name = main.name /\ main'.leak = main.leak /\ main.was # "shut"
  BY DEF ExitServer, MainOK, Idle, Doing, Stages

LEMMA StageExit ==
  ASSUME MainOK, Stage, ExitServer PROVE Stage'
<1>1. /\ Doing' = "shut" /\ Doing = main.was /\ main'.id = main.id
      /\ main'.name = main.name /\ main'.leak = main.leak
  BY ExitDoing
<1>2. UNCHANGED <<temp, disk>> /\ held' = held \ {0}
  BY DEF ExitServer
<1>3. CASE Doing \in {"locked", "copied"}
  <2>1. files' \in Parts(NewList) \cup {NewList}
    BY <1>1, <1>3 DEF ExitServer
  <2>2. IsList(files', Names) /\ IsList(temp, Names)
    BY <1>3, <2>1, ExitList
  <2>3. held' = {}
    BY <1>2, <1>3 DEF Stage, LeakOK, Stages
  <2> QED BY <1>1, <1>2, <2>2, <2>3 DEF Stage, LeakOK, Outside, Copying, Stages
<1>4. CASE Doing \notin {"locked", "copied"}
  <2>1. files' = Flushed(0)
    BY <1>1, <1>4 DEF ExitServer
  <2> QED BY <1>1, <1>2, <1>4, <2>1, StageFlushed
<1> QED BY <1>3, <1>4

\* Every step keeps the list in its stages.
LEMMA StageStep ==
  ASSUME Inv, Stage, [Next]_vars PROVE Stage'
<1>1. StoreSteps /\ MainOK
  BY StoreStep DEF Inv
<1> QED BY <1>1, StageQuiet, StageFlushes, StageCreates, StageLeaks, StageRenames,
           StageStops, StageExit, StageDelete, StageSave DEF StoreSteps

LEMMA StageTheorem == Spec => [](Inv /\ Stage)
<1>1. Init => Inv /\ Stage
  BY InitInv, InitStage
<1>2. Inv /\ Stage /\ [Next]_vars => (Inv /\ Stage)'
  BY StepInv, StageStep
<1> QED BY <1>1, <1>2, PTL DEF Spec

-----------------------------------------------------------------------------
(***************************************************************************)
(* The list is a directory.                                                *)
(***************************************************************************)
TheList == ListedIn(IF Rewriting THEN temp ELSE files)
Open    == main.at \notin {"stopping", "shut"}

LEMMA RewritingWhen == Rewriting <=> Doing \in Copying
  BY DEF Rewriting, Doing, Copying
LEMMA ListedNow ==
  TheList = IF Doing \in Copying THEN ListedIn(temp) ELSE ListedIn(files)
  BY RewritingWhen DEF TheList

\* Entries are of files with a name, and no two have the same id.
LEMMA EntriesOfList ==
  ASSUME NEW t, IsList(t, Names)
  PROVE  /\ ListedIn(t) \subseteq [id : Nat, name : Names]
         /\ \A f, g \in ListedIn(t) : f.id = g.id => f = g
         /\ \A f \in ListedIn(t) : f.id > 0
<1> PICK ls : ls = t.lines
  OBVIOUS
<1>1. Lined(ls, Names) /\ ListedIn(t) = Listed(ls)
  BY ListIsLined
<1>2. ls \in Seq(FileLine(Names)) /\ DOMAIN ls = 1 .. Len(ls) /\ Len(ls) \in Nat
  BY <1>1, LenProperties DEF Lined
<1>3. \A i \in DOMAIN ls : ls[i] \in FileLine(Names)
  BY <1>2, ElementOfSeq
<1>4. \A i \in DOMAIN ls : ls[i] # NoEntry =>
        ls[i] \in [id : Nat, name : Names] /\ ls[i].id > 0
  BY <1>1, <1>3 DEF Lined, FileLine
<1>5. ASSUME NEW i \in DOMAIN ls, NEW j \in DOMAIN ls, ls[i] # NoEntry, ls[j] # NoEntry,
             ls[i].id = ls[j].id
      PROVE  ls[i] = ls[j]
  <2>1. i < j \/ j < i \/ i = j
    BY <1>2
  <2>2. ls[i].id \in Nat
    BY <1>4, <1>5
  <2> QED BY <1>1, <1>5, <2>1, <2>2 DEF Lined
<1> QED BY <1>1, <1>4, <1>5 DEF Listed

LEMMA DirectoryAdd ==
  ASSUME NEW f \in [id : Nat, name : Names], \A g \in TheList : g.id < f.id,
         TheList' = TheList \cup {f}, Open' = Open
  PROVE  Directory_!Next
<1>1. f \notin TheList
  OBVIOUS
<1>2. f \in TheList' \ TheList
  BY <1>1
<1>3. Directory_!Add(f)
  BY DEF Directory_!Add, TheList, Open
<1> QED BY <1>2, <1>3 DEF Directory_!Next, TheList

LEMMA DirectoryRemove ==
  ASSUME NEW f \in TheList, TheList' = TheList \ {f}, Open' = Open
  PROVE  Directory_!Next
<1>1. Directory_!Remove(f)
  BY DEF Directory_!Remove, TheList, Open
<1> QED BY <1>1 DEF Directory_!Next, TheList

LEMMA DirectoryInit ==
  ASSUME Init, Stage PROVE Directory_!Init
<1>1. Doing = "poll" /\ Open
  BY DEF Init, Idle, Doing, Open
<1>2. Whole /\ IsList(files, Names)
  BY <1>1 DEF Stage, Whole, Outside
<1>3. TheList = ListedIn(files)
  BY <1>1, ListedNow DEF Copying, Stages
<1>4. TheList \in SUBSET [id : Nat, name : Names] /\ \A f, g \in TheList : f.id = g.id => f = g
  BY <1>2, <1>3, EntriesOfList
<1> QED BY <1>1, <1>4 DEF Directory_!Init, TheList, Open

\* Whether the server is open changes with SIGINT only.
LEMMA OpenKept ==
  ASSUME MainOK, Quiet \/ Flushes \/ Creates \/ Leaks \/ Renames \/ ExitServer \/ DeleteStep
                 \/ \E p \in DOMAIN proc : Save(p)
  PROVE  Open' = Open
<1>1. CASE Quiet \/ Leaks \/ Renames
  BY <1>1 DEF Quiet, Leaks, Renames, MainOK, Idle, Open
<1>2. CASE UNCHANGED main
  BY <1>2 DEF Open
<1>3. CASE ExitServer
  BY <1>3 DEF ExitServer, MainOK, Idle, Open
<1>4. CASE DeleteStep
  BY <1>4 DEF DeleteStep, DeleteReopen, DeleteLock, DeleteUnlock, DeleteRewrite, Deletes,
              DeleteAnswer, MainOK, Idle, Open
<1> QED BY <1>1, <1>2, <1>3, <1>4 DEF Flushes, Creates, Save

\* What is left in a stream is added when it is written first, and once only.
LEMMA DirectoryFlushed ==
  ASSUME Stage, NEW p, p # 0 \/ Doing # "locked", files' = Flushed(p), UNCHANGED temp,
         Doing' = Doing \/ (Doing \notin Copying /\ Doing' = "shut"), Open' = Open
  PROVE  Directory_!Next \/ TheList' = TheList
<1>1. Doing' \in Copying <=> Doing \in Copying
  BY DEF Copying, Stages
<1>2. CASE files' = files
  <2>1. Rewriting' <=> Rewriting
    BY <1>1, RewritingWhen DEF Rewriting, Doing, Copying
  <2> QED BY <1>2, <2>1 DEF TheList
<1>3. CASE /\ held # {} /\ Whole /\ IsList(files', Names) /\ Doing \notin Stages
           /\ main.leak # NoEntry /\ MayFollow(main.leak, files.lines, Names)
           /\ ListedIn(files') = ListedIn(files) \cup {main.leak}
  <2> PICK f : f = main.leak
    OBVIOUS
  <2>1. Doing \notin Copying /\ Doing' \notin Copying
    BY <1>1, <1>3 DEF Copying
  <2>2. TheList = ListedIn(files)
    BY <2>1, ListedNow
  <2>9. TheList' = ListedIn(files')
    BY <2>1, RewritingWhen DEF TheList, Rewriting, Doing, Copying
  <2>3. f # NoEntry /\ MayFollow(f, files.lines, Names) /\ IsList(files, Names)
    BY <1>3 DEF Stage, Whole
  <2>4. f \in [id : Nat, name : Names]
    BY <2>3 DEF MayFollow, FileLine
  <2>5. ListedIn(files) = Listed(files.lines)
    BY <2>3, ListIsLined
  <2>6. \A g \in TheList : g.id < f.id \/ g = f
    BY <2>2, <2>3, <2>5 DEF MayFollow
  <2>7. CASE f \in TheList
    BY <1>3, <2>2, <2>7, <2>9
  <2>8. CASE f \notin TheList
    <3>1. \A g \in TheList : g.id < f.id
      BY <2>6, <2>8
    <3>2. TheList' = TheList \cup {f}
      BY <1>3, <2>2, <2>9
    <3> QED BY <2>4, <3>1, <3>2, DirectoryAdd
  <2> QED BY <2>7, <2>8
<1> QED BY <1>2, <1>3, FlushedList

LEMMA DirectoryFlushes ==
  ASSUME MainOK, Stage, Flushes
  PROVE  Directory_!Next \/ TheList' = TheList
<1>1. PICK p \in Int \ {0} : files' = Flushed(p)
  BY DEF Flushes
<1>2. UNCHANGED temp /\ Doing' = Doing /\ Open' = Open
  BY OpenKept DEF Flushes, Doing
<1> QED BY <1>1, <1>2, DirectoryFlushed

LEMMA DirectoryCreates ==
  ASSUME MainOK, Stage, Creates PROVE Directory_!Next
<1>1. PICK n \in CreateNames \ Unusable :
        /\ main.at = "poll" /\ held = {} /\ ~NameUnreadable(files)
        /\ files' = createFile(files, n) /\ UNCHANGED <<temp, main>>
  BY DEF Creates
<1>2. Doing = "poll"
  BY <1>1 DEF Doing
<1>3. Whole /\ IsList(files, Names) /\ n \in Names /\ n # NULL
  BY <1>2, NamesAndIds DEF Stage, Whole, Outside
<1> PICK f : f = Entry(NextId(files), n)
  OBVIOUS
<1>4. MayFollow(f, files.lines, Names) /\ f # NoEntry /\ \A g \in ListedIn(files) : g.id < f.id
  BY <1>1, <1>3, NextIdFollows
<1>5. ListedIn(files') = ListedIn(files) \cup {f}
  BY <1>1, <1>3, <1>4, AppendedList DEF createFile
<1>6. TheList = ListedIn(files) /\ TheList' = ListedIn(files')
  BY <1>1, <1>2, RewritingWhen DEF TheList, Rewriting, Copying, Stages
<1>7. f \in [id : Nat, name : Names]
  BY <1>4 DEF MayFollow, FileLine
<1> QED BY <1>4, <1>5, <1>6, <1>7, OpenKept, DirectoryAdd

LEMMA DirectoryDelete ==
  ASSUME MainOK, Stage, DeleteStep
  PROVE  Directory_!Next \/ TheList' = TheList
<1>1. CASE DeleteReopen \/ DeleteLock \/ DeleteUnlock
  <2>1. Rewriting /\ Rewriting' /\ UNCHANGED temp
    BY <1>1 DEF DeleteReopen, DeleteLock, DeleteUnlock, Deletes, Rewriting, Stages, MainOK, Idle
  <2> QED BY <2>1 DEF TheList
<1>2. CASE DeleteRewrite
  <2> PICK id : id = main.id
    OBVIOUS
  <2>1. /\ Doing = "copied" /\ files' = deleteFile(temp, id)
        /\ Rewriting /\ ~Rewriting'
    BY <1>2 DEF DeleteRewrite, Deletes, NewList, Doing, Rewriting, Stages, MainOK, Idle
  <2>2. IsList(temp, Names) /\ id \in Nat \ {0}
    BY <2>1, NamesAndIds DEF Stage, Copying, Stages
  <2>3. TheList = ListedIn(temp) /\ TheList' = ListedIn(files')
    BY <2>1 DEF TheList
  <2>4. TheList' = { f \in TheList : f.id # id }
    BY <2>1, <2>2, <2>3, DeletedList
  <2>5. \A f, g \in TheList : f.id = g.id => f = g
    BY <2>2, <2>3, EntriesOfList
  <2>6. CASE \E f \in TheList : f.id = id
    <3>1. PICK f \in TheList : f.id = id
      BY <2>6
    <3>2. TheList' = TheList \ {f}
      BY <2>4, <2>5, <3>1
    <3>3. Open' = Open
      BY OpenKept
    <3> QED BY <3>1, <3>2, <3>3, DirectoryRemove
  <2>7. CASE ~\E f \in TheList : f.id = id
    BY <2>4, <2>7
  <2> QED BY <2>6, <2>7
<1>3. CASE DeleteAnswer
  <2>1. ~Rewriting /\ ~Rewriting' /\ UNCHANGED files
    BY <1>3 DEF DeleteAnswer, Rewriting, Stages, Idle
  <2> QED BY <2>1 DEF TheList
<1> QED BY <1>1, <1>2, <1>3 DEF DeleteStep

LEMMA DirectorySame ==
  ASSUME MainOK, Stage, Quiet \/ Leaks \/ Renames \/ Stops \/ \E p \in DOMAIN proc : Save(p)
  PROVE  TheList' = TheList
<1>1. CASE UNCHANGED <<files, temp>> /\ (Rewriting' <=> Rewriting)
  BY <1>1 DEF TheList
<1>2. CASE Quiet \/ Leaks
  <2>1. Rewriting' <=> Rewriting
    BY <1>2 DEF Quiet, Leaks, MainOK, Idle, Rewriting, Stages
  <2> QED BY <1>1, <1>2, <2>1 DEF Quiet, Leaks
<1>3. CASE Stops
  <2>1. Rewriting' <=> Rewriting
    BY <1>3 DEF Stops, MainOK, Idle, Rewriting, Stages
  <2> QED BY <1>1, <1>3, <2>1 DEF Stops
<1>4. CASE \E p \in DOMAIN proc : Save(p)
  BY <1>1, <1>4 DEF Save, Rewriting
<1>5. CASE Renames
  <2>1. temp' = files /\ ~Rewriting /\ Rewriting'
    BY <1>5 DEF Renames, MainOK, Idle, Rewriting, Stages
  <2> QED BY <2>1 DEF TheList
<1> QED BY <1>2, <1>3, <1>4, <1>5

LEMMA DirectoryStops ==
  ASSUME MainOK, Stage, Stops PROVE Directory_!Next
<1>1. TheList' = TheList /\ Open' = FALSE
  BY DirectorySame DEF Stops, MainOK, Idle, Open
<1>2. Directory_!Close
  BY <1>1 DEF Directory_!Close, TheList, Open
<1> QED BY <1>2 DEF Directory_!Next

\* At the end of the server files may be lost, if SIGINT has found it in deleteFile.
LEMMA DirectoryExit ==
  ASSUME MainOK, Stage, ExitServer
  PROVE  Directory_!Next \/ TheList' = TheList
<1>1. /\ Doing = main.was /\ Doing' = "shut" /\ main.at = "stopping" /\ UNCHANGED temp
  BY ExitDoing DEF ExitServer
<1>2. ~Open /\ Open' = Open
  BY <1>1, OpenKept DEF Open
<1>3. ASSUME TheList' \subseteq TheList PROVE Directory_!Next
  <2>1. Directory_!Lose
    BY <1>2, <1>3 DEF Directory_!Lose, TheList, Open
  <2> QED BY <2>1 DEF Directory_!Next
<1>4. TheList' = ListedIn(files')
  BY <1>1 DEF TheList, Rewriting, Doing, Stages
<1>5. CASE Doing \in {"locked", "copied"}
  <2>1. files' \in Parts(NewList) \cup {NewList}
    BY <1>1, <1>5 DEF ExitServer
  <2>2. ListedIn(files') \subseteq ListedIn(temp)
    BY <1>5, <2>1, ExitList
  <2>3. TheList = ListedIn(temp)
    BY <1>5, ListedNow DEF Copying, Stages
  <2> QED BY <1>3, <1>4, <2>2, <2>3
<1>6. CASE Doing \notin {"locked", "copied"}
  <2>1. files' = Flushed(0)
    BY <1>1, <1>6 DEF ExitServer
  <2>2. CASE Doing \in Copying
    <3>1. files \in {Missing, EmptyFile}
      BY <2>2 DEF Stage
    <3>2. Flushed(0) = files
      BY <1>6, <2>2, FlushedList DEF Copying
    <3>3. ListedIn(files') = {}
      BY <2>1, <3>1, <3>2 DEF ListedIn, Missing, EmptyFile
    <3> QED BY <1>3, <1>4, <3>3
  <2>3. CASE Doing \notin Copying
    BY <1>1, <1>2, <1>6, <2>1, <2>3, DirectoryFlushed
  <2> QED BY <2>2, <2>3
<1> QED BY <1>5, <1>6

LEMMA DirectoryStep ==
  ASSUME Inv, Stage, [Next]_vars
  PROVE  [Directory_!Next]_<<TheList, Open>>
<1>1. StoreSteps /\ MainOK
  BY StoreStep DEF Inv
<1>2. CASE Stops
  BY <1>2, <1>1, DirectoryStops
<1>3. CASE ~Stops
  <2>1. Open' = Open
    BY <1>1, <1>3, OpenKept DEF StoreSteps
  <2>2. Directory_!Next \/ TheList' = TheList
    BY <1>1, <1>3, DirectorySame, DirectoryDelete, DirectoryCreates, DirectoryFlushes, DirectoryExit
       DEF StoreSteps
  <2> QED BY <2>1, <2>2
<1> QED BY <1>2, <1>3

\* Whatever createFile and deleteFile make of the newlines of the list, and whenever SIGINT
\* comes, every file that is listed has an id of its own, which is greater than those of all
\* that were there before it, and one is deleted at a time; once the server is being shut
\* down files may be lost, and no other is ever listed in their place.
THEOREM ImplementsDirectoryTheorem == Spec => ImplementsDirectory
<1>1. Init /\ Inv /\ Stage => Directory_!Init
  BY DirectoryInit
<1>2. Inv /\ Stage /\ [Next]_vars => [Directory_!Next]_<<TheList, Open>>
  BY DirectoryStep
<1>3. Spec => Init /\ [](Inv /\ Stage) /\ [][Next]_vars
  BY StageTheorem, PTL DEF Spec
<1> QED BY <1>1, <1>2, <1>3, PTL DEF ImplementsDirectory, Directory_!Spec, TheList, Open

-----------------------------------------------------------------------------
(***************************************************************************)
(* What was deleted stays deleted.                                         *)
(***************************************************************************)
\* A list names a file.
Lists(t, n) == Lines(t, LAMBDA l : l.name = n) # {}

LEMMA ListsEntry ==
  ASSUME NEW t, NEW n, n # NULL
  PROVE  Lists(t, n) <=> (\E f \in ListedIn(t) : f.name = n)
  BY DEF Lists, Lines, ListedIn, NoEntry, Entry

NoneBack == \A n \in Names : disk[n] # Absent => n = main.name \/ Lists(files, n) \/ Lists(temp, n)

LEMMA StaysDeleted == DeletedStaysDeleted <=> NoneBack
  BY DEF DeletedStaysDeleted, NoneBack, Lists

LEMMA MissingLists == \A n : ~Lists(Missing, n) /\ ~Lists(EmptyFile, n)
  BY DEF Missing, EmptyFile, Lists, Lines

\* Nothing is forgotten.
LEMMA DeletedKept ==
  ASSUME NoneBack, UNCHANGED disk,
         \A n \in Names : n = main.name => n = main'.name,
         \A n \in Names : Lists(files, n) \/ Lists(temp, n) => Lists(files', n) \/ Lists(temp', n)
  PROVE  NoneBack'
<1>1. \A n \in Names : disk[n] # Absent => n = main.name \/ Lists(files, n) \/ Lists(temp, n)
  BY DEF NoneBack
<1>2. \A n \in Names : disk'[n] # Absent => n = main'.name \/ Lists(files', n) \/ Lists(temp', n)
  BY <1>1
<1> QED BY <1>2 DEF NoneBack

LEMMA DeletedInit == ASSUME Init PROVE NoneBack
<1>1. \A n \in Names : disk[n] # Absent => Lists(files, n)
  BY DEF Init, Lists
<1> QED BY <1>1 DEF NoneBack

LEMMA DeletedCreates ==
  ASSUME MainOK, Stage, NoneBack, Creates PROVE NoneBack'
<1>1. PICK n \in CreateNames \ Unusable :
        /\ main.at = "poll" /\ held = {} /\ ~NameUnreadable(files)
        /\ files' = createFile(files, n) /\ disk' = [disk EXCEPT ![n] = {}]
        /\ UNCHANGED <<temp, main>>
  BY DEF Creates
<1>2. Whole /\ IsList(files, Names) /\ n \in Names /\ n # NULL
  BY <1>1, NamesAndIds DEF Stage, Whole, Doing, Outside
<1> PICK f : f = Entry(NextId(files), n)
  OBVIOUS
<1>3. MayFollow(f, files.lines, Names) /\ f # NoEntry
  BY <1>1, <1>2, NextIdFollows
<1>4. ListedIn(files') = ListedIn(files) \cup {f}
  BY <1>1, <1>2, <1>3, AppendedList DEF createFile
<1>5. \A m \in Names : Lists(files, m) => Lists(files', m)
  BY <1>4, ListsEntry, NamesAndIds
<1>6. Lists(files', n)
  BY <1>2, <1>4, ListsEntry DEF Entry
<1>7. \A m \in Names : m # n => disk'[m] = disk[m]
  BY <1>1
<1>8. \A m \in Names : disk[m] # Absent => m = main.name \/ Lists(files, m) \/ Lists(temp, m)
  BY DEF NoneBack
<1>9. \A m \in Names : disk'[m] # Absent => m = main'.name \/ Lists(files', m) \/ Lists(temp', m)
  BY <1>1, <1>5, <1>6, <1>7, <1>8
<1> QED BY <1>9 DEF NoneBack

\* A worker saves to a name that is listed (buffer_save, getFileName).
LEMMA DeletedSave ==
  ASSUME Inv, Stage, NoneBack, NEW p \in DOMAIN proc, Save(p)
  PROVE  NoneBack'
<1> PICK n : n = getFileName(files, proc[p].file)
  OBVIOUS
<1>1. /\ UNCHANGED <<files, temp, main>> /\ files.there
      /\ disk' = IF n \in {NULL} \cup Unusable THEN disk ELSE [disk EXCEPT ![n] = proc[p].text]
  BY DEF Save
<1>2. CASE n \in {NULL} \cup Unusable
  BY <1>1, <1>2, DeletedKept
<1>3. CASE n \notin {NULL} \cup Unusable
  <2>1. proc[p].file \in Nat \ {0} /\ IsList(files, Names)
    BY <1>1, NamesAndIds DEF Inv, WorkersOK, Stage
  <2>2. Entry(proc[p].file, n) \in ListedIn(files)
    BY <1>3, <2>1, NameIsListed
  <2>3. Lists(files, n)
    BY <1>3, <2>2, ListsEntry DEF Entry
  <2>4. \A m \in Names : m # n => disk'[m] = disk[m]
    BY <1>1, <1>3
  <2>5. \A m \in Names : disk[m] # Absent => m = main.name \/ Lists(files, m) \/ Lists(temp, m)
    BY DEF NoneBack
  <2>6. \A m \in Names : disk'[m] # Absent => m = main'.name \/ Lists(files', m) \/ Lists(temp', m)
    BY <1>1, <2>3, <2>4, <2>5
  <2> QED BY <2>6 DEF NoneBack
<1> QED BY <1>2, <1>3

LEMMA DeletedDelete ==
  ASSUME MainOK, Stage, NoneBack, DeleteStep PROVE NoneBack'
<1>1. CASE DeleteReopen \/ DeleteLock \/ DeleteUnlock
  <2>1. /\ Doing \in Copying /\ main'.name = main.name /\ UNCHANGED <<temp, disk>>
    BY <1>1 DEF DeleteReopen, DeleteLock, DeleteUnlock, Deletes, Doing, Copying, Stages, MainOK, Idle
  <2>2. \A n \in Names : ~Lists(files, n)
    BY <2>1, MissingLists DEF Stage
  <2> QED BY <2>1, <2>2, DeletedKept
<1>2. CASE DeleteRewrite
  <2> PICK id : id = main.id
    OBVIOUS
  <2>1. /\ Doing \in Copying /\ files' = deleteFile(temp, id) /\ temp' = Missing
        /\ UNCHANGED disk /\ main'.name = main.name
    BY <1>2 DEF DeleteRewrite, Deletes, NewList, Doing, Copying, Stages, MainOK, Idle
  <2>2. IsList(temp, Names) /\ id \in Nat \ {0} /\ main.name = getFileName(temp, id)
        /\ files \in {Missing, EmptyFile}
    BY <2>1, NamesAndIds DEF Stage
  <2>3. ListedIn(files') = { f \in ListedIn(temp) : f.id # id }
    BY <2>1, <2>2, DeletedList
  <2>4. \A f \in ListedIn(temp) : f.id = id => f.name = main.name
    BY <2>2, NameOfEntry
  <2>5. ASSUME NEW n \in Names, Lists(temp, n), n # main.name PROVE Lists(files', n)
    <3>1. PICK f \in ListedIn(temp) : f.name = n
      BY <2>5, ListsEntry, NamesAndIds
    <3>2. f \in ListedIn(files')
      BY <2>3, <2>4, <2>5, <3>1
    <3> QED BY <3>1, <3>2, ListsEntry, NamesAndIds
  <2>6. \A n \in Names : ~Lists(files, n)
    BY <2>2, MissingLists
  <2>7. \A n \in Names : disk[n] # Absent => n = main.name \/ Lists(files, n) \/ Lists(temp, n)
    BY DEF NoneBack
  <2>8. \A n \in Names : disk'[n] # Absent => n = main'.name \/ Lists(files', n) \/ Lists(temp', n)
    BY <2>1, <2>5, <2>6, <2>7
  <2> QED BY <2>8 DEF NoneBack
<1>3. CASE DeleteAnswer
  <2> PICK n : n = main.name
    OBVIOUS
  <2>1. UNCHANGED <<files, temp>>
    BY <1>3 DEF DeleteAnswer
  <2>2. \A m \in Names : disk[m] # Absent => m = n \/ Lists(files, m) \/ Lists(temp, m)
    BY DEF NoneBack
  <2>3. \A m \in Names : disk'[m] # Absent => m # n /\ disk'[m] = disk[m]
    <3>1. CASE n # NULL /\ disk[n] # Absent
      <4>1. disk' = [disk EXCEPT ![n] = Absent]
        BY <1>3, <3>1 DEF DeleteAnswer
      <4> QED BY <4>1 DEF Stage
    <3>2. CASE ~(n # NULL /\ disk[n] # Absent)
      <4>1. disk' = disk
        BY <1>3, <3>2 DEF DeleteAnswer
      <4> QED BY <3>2, <4>1, NamesAndIds
    <3> QED BY <3>1, <3>2
  <2>4. \A m \in Names : disk'[m] # Absent => m = main'.name \/ Lists(files', m) \/ Lists(temp', m)
    BY <2>1, <2>2, <2>3
  <2> QED BY <2>4 DEF NoneBack
<1> QED BY <1>1, <1>2, <1>3 DEF DeleteStep

\* What is left in a stream is added to the list.
LEMMA DeletedFlushed ==
  ASSUME Stage, NoneBack, NEW p, p # 0 \/ Doing # "locked", files' = Flushed(p),
         UNCHANGED <<temp, disk>>, main'.name = main.name
  PROVE  NoneBack'
<1>1. \A n \in Names : Lists(files, n) => Lists(files', n)
  <2>1. CASE files' = files
    BY <2>1
  <2>2. CASE ListedIn(files') = ListedIn(files) \cup {main.leak}
    BY <2>2, ListsEntry, NamesAndIds
  <2> QED BY <2>1, <2>2, FlushedList
<1> QED BY <1>1, DeletedKept

LEMMA DeletedFlushes ==
  ASSUME MainOK, Stage, NoneBack, Flushes PROVE NoneBack'
<1>1. PICK p \in Int \ {0} : files' = Flushed(p)
  BY DEF Flushes
<1>2. UNCHANGED <<temp, disk, main>>
  BY DEF Flushes
<1> QED BY <1>1, <1>2, DeletedFlushed

LEMMA DeletedExit ==
  ASSUME MainOK, Stage, NoneBack, ExitServer PROVE NoneBack'
<1>1. Doing = main.was /\ main'.name = main.name /\ UNCHANGED <<temp, disk>>
  BY ExitDoing DEF ExitServer
<1>2. CASE Doing \in {"locked", "copied"}
  <2>1. \A n \in Names : ~Lists(files, n)
    BY <1>2, MissingLists DEF Stage, Copying, Stages
  <2> QED BY <1>1, <2>1, DeletedKept
<1>3. CASE Doing \notin {"locked", "copied"}
  <2>1. files' = Flushed(0)
    BY <1>1, <1>3 DEF ExitServer
  <2> QED BY <1>1, <1>3, <2>1, DeletedFlushed
<1> QED BY <1>2, <1>3

LEMMA DeletedOthers ==
  ASSUME MainOK, Stage, NoneBack, Quiet \/ Leaks \/ Renames \/ Stops
  PROVE  NoneBack'
<1>1. CASE Quiet \/ Leaks \/ Stops
  <2>1. UNCHANGED <<files, temp, disk>> /\ main'.name = main.name
    BY <1>1 DEF Quiet, Leaks, Stops, MainOK, Idle
  <2> QED BY <2>1, DeletedKept
<1>2. CASE Renames
  <2>1. temp' = files /\ Doing = "poll" /\ UNCHANGED disk
    BY <1>2 DEF Renames, Doing
  <2>2. temp = Missing /\ \A n \in Names : n # main.name
    BY <2>1, NamesAndIds DEF Stage, Whole, Outside
  <2> QED BY <2>1, <2>2, MissingLists, DeletedKept
<1> QED BY <1>1, <1>2

LEMMA DeletedStep ==
  ASSUME Inv, Stage, NoneBack, [Next]_vars PROVE NoneBack'
<1>1. StoreSteps /\ MainOK
  BY StoreStep DEF Inv
<1> QED BY <1>1, DeletedOthers, DeletedExit, DeletedDelete, DeletedCreates, DeletedFlushes, DeletedSave
        DEF StoreSteps

\* No file is there that is in no list, but for the one that is being removed: neither
\* createFile, nor deleteFile in any of its stages, nor a worker that saves what it still
\* has of a deleted file brings one back, with any list and whenever SIGINT comes.
THEOREM DeletedStaysDeletedTheorem == Spec => []DeletedStaysDeleted
<1>1. Init => NoneBack
  BY DeletedInit
<1>2. (Inv /\ Stage) /\ NoneBack /\ [Next]_vars => NoneBack'
  BY DeletedStep
<1>3. NoneBack => DeletedStaysDeleted
  BY StaysDeleted
<1> QED BY <1>1, <1>2, <1>3, StageTheorem, PTL DEF Spec
=============================================================================
