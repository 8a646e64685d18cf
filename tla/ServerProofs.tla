---------------------------- MODULE ServerProofs ----------------------------
(***************************************************************************)
(* What holds of the main server with any number of editors, files, users  *)
(* and slots: its table of workers is true, its poll list and its          *)
(* conversations are in order, and nobody's login is lost to another user. *)
(***************************************************************************)
EXTENDS Server, TLAPS, SequenceTheorems, NaturalsInduction, WellFoundedInduction

-----------------------------------------------------------------------------
(***************************************************************************)
(* The inductive invariant.                                                *)
(***************************************************************************)
UserIds  == 0 .. MaxUsers
Accounts == LinesOf(InitUsers) \cup { account[e] : e \in Editors } \cup {Scrap, NoAccount}

\* deleteFile is under way, for main.e.
Deleting == main.at \in Stages

MainOK ==
  /\ main.at \in Stages \cup {"poll", "blocked", "stopping", "crashed", "shut"}
  /\ main.was \in Stages \cup {"poll", "blocked", "fork"}
  /\ main.at \notin {"stopping", "shut"} => main.was = "poll"
  /\ DOMAIN main = DOMAIN Idle

UsersOK == users \in Texts(Accounts) /\ Len(users.lines) <= MaxUsers

EditorsOK ==
  /\ DOMAIN editor = Editors
  /\ \A e \in Editors : DOMAIN editor[e] = {"at", "uid", "port"} /\ editor[e].uid \in UserIds

\* What e may have sent when its user id is u, and what it may be sent.
Opening(e) == Msg(IF e \in Registers THEN "REGISTER" ELSE "LOGIN", -1, account[e])
Sendable(e, u) ==
  {Opening(e), Msg("QUIT", u, NULL)}
    \cup { Msg("CREATE_FILE", u, n) : n \in CreateNames }
    \cup { Msg(t, u, f) : t \in {"FILE_REQUEST", "DELETE_FILE"}, f \in FileIds }
Receivable ==
  {Failed} \cup { Msg("MSG_OK", u, NULL) : u \in UserIds }
           \cup { Msg("FILE_RESPONSE", -1, p) : p \in Int }

\* One message at a time, from an editor or to it, and none while its file is deleted.
Talk(e) ==
  /\ up[e] = << >> \/ \E m \in Sendable(e, editor[e].uid) : up[e] = <<m>>
  /\ down[e] = << >> \/ \E m \in Receivable : down[e] = <<m>>
  /\ up[e] = << >> \/ down[e] = << >>
  /\ editor[e].at = "idle" => up[e] = << >> /\ down[e] = << >>
  /\ Deleting /\ main.e = e => up[e] = << >> /\ down[e] = << >> /\ editor[e].at # "idle"
Talks ==
  /\ DOMAIN up = Editors /\ DOMAIN down = Editors
  /\ \A e \in Editors : Talk(e)

Polls ==
  /\ DOMAIN conn = Editors
  /\ slots \in [1..MAX_CLIENTS -> Editors \cup {Free}]
  /\ \A e \in Editors :
       /\ (conn[e] = "polled") <=> (\E i \in 1..MAX_CLIENTS : slots[i] = e)
       /\ \A i, j \in 1..MAX_CLIENTS : slots[i] = e /\ slots[j] = e => i = j
       /\ editor[e].at = "idle" => conn[e] = "none"

\* A list of workers.
Row(ws)     == { ws[p] : p \in DOMAIN ws }
WorkersOK(ws) ==
  /\ ws \in Seq(Row(ws))
  /\ \A p \in DOMAIN ws : DOMAIN ws[p] = {"file", "name", "text", "at"} /\ ws[p].file \in FileIds

Memory == mem \in [Words -> Int]
Holders == held \subseteq 0 .. Len(proc)

Inv ==
  /\ MainOK /\ Memory /\ UsersOK /\ EditorsOK /\ Talks /\ Polls
  /\ WorkersOK(proc) /\ Holders

-----------------------------------------------------------------------------
(***************************************************************************)
(* Sequences and lists.                                                    *)
(***************************************************************************)
\* A queue of one message.
LEMMA OneMessage ==
  ASSUME NEW m
  PROVE  /\ Head(<<m>>) = m /\ Tail(<<m>>) = << >> /\ Append(<< >>, m) = <<m>>
         /\ <<m>> # << >> /\ Len(<<m>>) = 1 /\ Len(<< >>) = 0
  OBVIOUS

\* A set of natural numbers has a least one.
LEMMA LeastOf ==
  ASSUME NEW T, T \subseteq Nat, T # {}
  PROVE  Min(T) \in T
<1>1. PICK x \in T : \A y \in T : ~ (<<y, x>> \in OpToRel(<, Nat))
  BY WFMin, NatLessThanWellFounded
<1>2. \A y \in T : ~(y < x)
  BY <1>1 DEF OpToRel
<1>3. x \in Nat /\ T \subseteq Int
  OBVIOUS
<1>4. \A y \in T : x <= y
  BY <1>2, <1>3
<1> QED BY <1>4 DEF Min

\* A list of workers is a sequence, and each is there under its number.
LEMMA WorkersLength ==
  ASSUME NEW ws, WorkersOK(ws)
  PROVE  Len(ws) \in Nat /\ DOMAIN ws = 1 .. Len(ws)
  BY LenProperties DEF WorkersOK

\* A worker that is forked comes at the end (get_worker).
LEMMA Forking ==
  ASSUME NEW ws, WorkersOK(ws), NEW f \in FileIds
  PROVE  LET vs == Append(ws, Worker(f)) IN
         /\ WorkersOK(vs) /\ Len(vs) = Len(ws) + 1
         /\ vs[Len(ws) + 1].file = f
         /\ \A p \in 1 .. Len(ws) : vs[p] = ws[p]
<1> DEFINE S  == Row(ws) \cup {Worker(f)}
           vs == Append(ws, Worker(f))
<1>1. ws \in Seq(S) /\ Worker(f) \in S
  BY SeqMonotonic DEF WorkersOK
<1>2. /\ vs \in Seq(S) /\ Len(vs) = Len(ws) + 1 /\ Len(ws) \in Nat
      /\ vs[Len(ws) + 1] = Worker(f)
      /\ \A p \in 1 .. Len(ws) : vs[p] = ws[p]
  BY <1>1, AppendProperties, LenProperties
<1> HIDE DEF vs, S
<1>3. vs \in Seq(Row(vs)) /\ DOMAIN vs = 1 .. Len(ws) + 1 /\ DOMAIN ws = 1 .. Len(ws)
  <2>1. DOMAIN vs = 1 .. Len(vs) /\ vs \in [1 .. Len(vs) -> S] /\ DOMAIN ws = 1 .. Len(ws)
    BY <1>1, <1>2, LenProperties
  <2>2. vs \in [1 .. Len(vs) -> Row(vs)]
    BY <2>1 DEF Row
  <2> QED BY <1>2, <2>1, <2>2, SeqDef
<1>4. DOMAIN Worker(f) = {"file", "name", "text", "at"} /\ Worker(f).file = f
  BY DEF Worker
<1>5. \A p \in DOMAIN vs : DOMAIN vs[p] = {"file", "name", "text", "at"} /\ vs[p].file \in FileIds
  BY <1>2, <1>3, <1>4 DEF WorkersOK
<1> QED BY <1>2, <1>3, <1>4, <1>5 DEF WorkersOK, vs

\* vs are the workers of ws, whatever became of them.
SameWorkers(ws, vs) ==
  /\ DOMAIN vs = DOMAIN ws
  /\ \A p \in DOMAIN ws : vs[p].file = ws[p].file

\* A list of workers stays one when they only change their states.
LEMMA WorkersKept ==
  ASSUME NEW ws, WorkersOK(ws), NEW g,
         \A p \in DOMAIN ws : DOMAIN g[p] = DOMAIN ws[p] /\ g[p].file = ws[p].file,
         NEW vs, vs = [p \in DOMAIN ws |-> g[p]]
  PROVE  WorkersOK(vs) /\ SameWorkers(ws, vs) /\ Len(vs) = Len(ws)
<1>1. Len(ws) \in Nat /\ DOMAIN ws = 1 .. Len(ws)
  BY WorkersLength
<1>2. vs \in [1 .. Len(ws) -> Row(vs)] /\ DOMAIN vs = 1 .. Len(ws)
  BY <1>1 DEF Row
<1>3. vs \in Seq(Row(vs))
  BY <1>1, <1>2, SeqDef
<1>4. Len(vs) = Len(ws)
  BY <1>1, <1>2, <1>3, LenProperties
<1>5. \A p \in DOMAIN ws : vs[p] = g[p]
  OBVIOUS
<1> QED BY <1>2, <1>1, <1>3, <1>4, <1>5 DEF WorkersOK, SameWorkers

\* handle_shutdown changes the states of workers only.
LEMMA ToldKept ==
  ASSUME NEW ws, WorkersOK(ws), NEW S
  PROVE  /\ WorkersOK(Told(ws, S)) /\ SameWorkers(ws, Told(ws, S))
         /\ Len(Told(ws, S)) = Len(ws)
<1> DEFINE g == Told(ws, S)
<1>1. \A p \in DOMAIN ws : DOMAIN g[p] = DOMAIN ws[p] /\ g[p].file = ws[p].file
  BY DEF Told, WorkersOK
<1>2. g = [p \in DOMAIN ws |-> g[p]]
  BY DEF Told
<1> HIDE DEF g
<1>3. WorkersOK(g) /\ SameWorkers(ws, g) /\ Len(g) = Len(ws)
  BY <1>1, <1>2, WorkersKept
<1> QED BY <1>3 DEF g

-----------------------------------------------------------------------------
(***************************************************************************)
(* Steps that leave the main server alone.                                 *)
(***************************************************************************)
\* Nobody's user id changes, and nobody is idle again.
SameEditors ==
  /\ EditorsOK'
  /\ \A e \in Editors : /\ editor'[e].uid = editor[e].uid
                        /\ editor'[e].at = "idle" => editor[e].at = "idle"

\* An editor goes on.
LEMMA EditingKept ==
  ASSUME EditorsOK, NEW e \in Editors, NEW s, s # "idle", Editing(e, s)
  PROVE  SameEditors
  BY DEF EditorsOK, SameEditors, Editing

\* Conversations stay in order when nothing is sent.
LEMMA TalksKept ==
  ASSUME Talks, UNCHANGED <<up, down>>, SameEditors,
         Deleting' => Deleting /\ main'.e = main.e
  PROVE  Talks'
  BY DEF Talks, Talk, SameEditors, Sendable, Opening, Receivable

\* The poll list stays in order when no connection is accepted or closed.
LEMMA PollsKept ==
  ASSUME Polls, UNCHANGED <<slots, conn>>, SameEditors
  PROVE  Polls'
  BY DEF Polls, SameEditors

\* What workers and editors at them do.
WorkerEffect ==
  /\ UNCHANGED <<users, main, mem, slots, conn, up, down>>
  /\ SameEditors
  /\ WorkersOK(proc') /\ SameWorkers(proc, proc') /\ Len(proc') = Len(proc)
  /\ held' \subseteq held

\* One worker changes its state, its text or its name.
LEMMA WorkerEdited ==
  ASSUME WorkersOK(proc), NEW p \in DOMAIN proc, NEW r,
         DOMAIN r = DOMAIN proc[p], r.file = proc[p].file,
         proc' = [proc EXCEPT ![p] = r]
  PROVE  WorkersOK(proc') /\ SameWorkers(proc, proc') /\ Len(proc') = Len(proc)
<1> DEFINE g == [q \in DOMAIN proc |-> IF q = p THEN r ELSE proc[q]]
<1>1. proc' = g
  OBVIOUS
<1>2. g = [q \in DOMAIN proc |-> g[q]]
  OBVIOUS
<1>3. \A q \in DOMAIN proc : DOMAIN g[q] = DOMAIN proc[q] /\ g[q].file = proc[q].file
  OBVIOUS
<1> HIDE DEF g
<1>4. WorkersOK(g) /\ SameWorkers(proc, g) /\ Len(g) = Len(proc)
  BY <1>2, <1>3, WorkersKept
<1> QED BY <1>1, <1>4

\* One worker changes its state.
LEMMA BecomesKept ==
  ASSUME WorkersOK(proc), NEW p \in DOMAIN proc, NEW s, Becomes(p, s)
  PROVE  WorkersOK(proc') /\ SameWorkers(proc, proc') /\ Len(proc') = Len(proc)
<1> DEFINE r == [proc[p] EXCEPT !.at = s]
<1>1. DOMAIN r = DOMAIN proc[p] /\ r.file = proc[p].file
  BY DEF WorkersOK
<1>2. proc' = [proc EXCEPT ![p] = r]
  BY DEF Becomes
<1> HIDE DEF r
<1> QED BY <1>1, <1>2, WorkerEdited

\* No worker changes.
LEMMA SameWorkersRefl ==
  ASSUME WorkersOK(proc), UNCHANGED proc
  PROVE  WorkersOK(proc') /\ SameWorkers(proc, proc') /\ Len(proc') = Len(proc)
  BY DEF SameWorkers

\* No editor changes.
LEMMA SameEditorsRefl ==
  ASSUME EditorsOK, UNCHANGED editor
  PROVE  SameEditors
  BY DEF EditorsOK, SameEditors

\* A step of a worker (buffer_from_file, buffer_save, exit, a fault).
LEMMA WorkerStepEffect ==
  ASSUME Inv, NEW p \in DOMAIN proc, WorkerStep(p) PROVE WorkerEffect
<1> USE DEF Inv
<1>1. CASE Load(p)
  <2> PICK r : r = [proc[p] EXCEPT !.at = "up", !.name = getFileName(files, proc[p].file),
                      !.text = IF getFileName(files, proc[p].file) = NULL
                                 THEN NoText ELSE disk[getFileName(files, proc[p].file)]]
    OBVIOUS
  <2>1. DOMAIN r = DOMAIN proc[p] /\ r.file = proc[p].file
    BY DEF WorkersOK
  <2>2. proc' = [proc EXCEPT ![p] = r]
    BY <1>1 DEF Load
  <2>3. WorkersOK(proc') /\ SameWorkers(proc, proc') /\ Len(proc') = Len(proc)
    BY <2>1, <2>2, WorkerEdited
  <2> QED BY <1>1, <2>3, SameEditorsRefl DEF Load, store, net, WorkerEffect
<1>2. CASE Save(p)
  BY <1>2, BecomesKept, SameEditorsRefl DEF Save, net, WorkerEffect
<1>3. CASE Exit(p)
  BY <1>3, BecomesKept, SameEditorsRefl DEF Exit, net, WorkerEffect
<1>4. CASE NoList(p)
  BY <1>4, BecomesKept, SameEditorsRefl DEF NoList, Dies, store, net, WorkerEffect
<1>5. CASE Fault(p)
  BY <1>5, BecomesKept, SameEditorsRefl DEF Fault, Dies, store, net, WorkerEffect
<1> QED BY <1>1, <1>2, <1>3, <1>4, <1>5 DEF WorkerStep

\* A step of an editor at its worker (worker_loop of the editor), or the user ends it.
LEMMA AtWorkerEffect ==
  ASSUME Inv, NEW e \in Editors, AtWorkerStep(e) \/ Vanish(e) PROVE WorkerEffect
<1> USE DEF Inv
<1>1. CASE WorkerLogin(e)
  BY <1>1, BecomesKept, EditingKept DEF WorkerLogin, AtWorker, store, net, WorkerEffect
<1>2. CASE WorkerWaits(e)
  BY <1>2, BecomesKept, SameEditorsRefl DEF WorkerWaits, AtWorker, store, net, WorkerEffect
<1>3. CASE WorkerLoginFaults(e)
  BY <1>3, BecomesKept, SameEditorsRefl DEF WorkerLoginFaults, Dies, AtWorker, store, net, WorkerEffect
<1>4. CASE WorkerFileRequest(e)
  <2>1. CASE proc[editor[e].port].text # NoText
    BY <1>4, <2>1, EditingKept, SameWorkersRefl
      DEF WorkerFileRequest, AtWorker, store, net, WorkerEffect
  <2>2. CASE proc[editor[e].port].text = NoText
    BY <1>4, <2>2, BecomesKept, SameEditorsRefl
      DEF WorkerFileRequest, Dies, AtWorker, store, net, WorkerEffect
  <2> QED BY <2>1, <2>2
<1>5. CASE Edit(e)
  <2> PICK p : p = editor[e].port
    OBVIOUS
  <2> PICK r : r = [proc[p] EXCEPT !.text = @ \cup {Len(edits) + 1}]
    OBVIOUS
  <2>1. p \in DOMAIN proc /\ proc' = [proc EXCEPT ![p] = r]
    BY <1>5 DEF Edit, AtWorker
  <2>2. DOMAIN r = DOMAIN proc[p] /\ r.file = proc[p].file
    BY <2>1 DEF WorkersOK
  <2>3. WorkersOK(proc') /\ SameWorkers(proc, proc') /\ Len(proc') = Len(proc)
    BY <2>1, <2>2, WorkerEdited
  <2> QED BY <1>5, <2>3, SameEditorsRefl DEF Edit, store, net, WorkerEffect
<1>6. CASE Lost(e)
  BY <1>6, EditingKept, SameWorkersRefl DEF Lost, store, net, WorkerEffect
<1>7. CASE Vanish(e)
  BY <1>7, EditingKept, SameWorkersRefl DEF Vanish, store, net, WorkerEffect
<1> QED BY <1>1, <1>2, <1>3, <1>4, <1>5, <1>6, <1>7 DEF AtWorkerStep

\* Such a step keeps the invariant.
LEMMA WorkerEffectInv ==
  ASSUME Inv, WorkerEffect PROVE Inv'
<1> USE DEF Inv, WorkerEffect
<1>1. MainOK' /\ Memory' /\ UsersOK' /\ EditorsOK'
  BY DEF MainOK, Memory, UsersOK, SameEditors
<1>2. Talks'
  BY TalksKept DEF Deleting
<1>3. Polls'
  BY PollsKept
<1>4. Holders'
  BY DEF Holders
<1> QED BY <1>1, <1>2, <1>3, <1>4

-----------------------------------------------------------------------------
(***************************************************************************)
(* Messages taken, answered and sent.                                      *)
(***************************************************************************)
\* What is first is all there is.
LEMMA HeadOf ==
  ASSUME Talks, NEW e \in Editors, up[e] # << >>
  PROVE  /\ Head(up[e]) \in Sendable(e, editor[e].uid)
         /\ up[e] = <<Head(up[e])>> /\ Tail(up[e]) = << >> /\ down[e] = << >>
         /\ editor[e].at # "idle" /\ ~(Deleting /\ main.e = e)
<1>1. PICK m \in Sendable(e, editor[e].uid) : up[e] = <<m>>
  BY DEF Talks, Talk
<1>2. Head(up[e]) = m /\ Tail(up[e]) = << >>
  BY <1>1, OneMessage
<1> QED BY <1>1, <1>2 DEF Talks, Talk

\* What is in a message of an editor with user id u.
LEMMA SendableFields ==
  ASSUME NEW e, NEW u, NEW m \in Sendable(e, u)
  PROVE  /\ m.type \in {"FILE_REQUEST", "DELETE_FILE"} => m.arg \in FileIds
         /\ m.type \in {"LOGIN", "REGISTER"} => m = Opening(e)
         /\ m.type \notin {"LOGIN", "REGISTER"} => m.user_id = u
         /\ Opening(e).arg = account[e]
         /\ m.type = "LOGIN" => e \notin Registers
  BY DEF Sendable, Opening, Msg

\* An answer is sent in the place of what is taken.
LEMMA Answering ==
  ASSUME Talks, EditorsOK, NEW e \in Editors, up[e] # << >>, NEW m \in Receivable,
         Send(e, m), UNCHANGED editor, Deleting' => Deleting /\ main'.e = main.e
  PROVE  Talks'
<1>1. up' = [up EXCEPT ![e] = << >>] /\ down' = [down EXCEPT ![e] = <<m>>]
  BY HeadOf, OneMessage DEF Send, Take, Talks
<1>2. \A x \in Editors \ {e} : up'[x] = up[x] /\ down'[x] = down[x]
  BY <1>1 DEF Talks
<1>3. \A x \in Editors \ {e} : Talk(x)'
  BY <1>2 DEF Talks, Talk, Sendable, Opening, Receivable
<1>4. up'[e] = << >> /\ down'[e] = <<m>> /\ m \in Receivable'
  BY <1>1 DEF Talks, Receivable
<1>5. Talk(e)'
  BY <1>4, HeadOf DEF Talk
<1>6. DOMAIN up' = Editors /\ DOMAIN down' = Editors
  BY <1>1 DEF Talks
<1> QED BY <1>3, <1>5, <1>6 DEF Talks

\* What is taken may be the reason of a delete.
LEMMA Taking ==
  ASSUME Talks, EditorsOK, NEW e \in Editors, up[e] # << >>,
         up' = [up EXCEPT ![e] = << >>], UNCHANGED <<down, editor>>,
         Deleting' => main'.e = e \/ (Deleting /\ main'.e = main.e)
  PROVE  Talks'
<1>1. \A x \in Editors \ {e} : up'[x] = up[x]
  BY DEF Talks
<1>2. \A x \in Editors \ {e} : Talk(x)'
  BY <1>1 DEF Talks, Talk, Sendable, Opening, Receivable
<1>3. up'[e] = << >> /\ DOMAIN up' = Editors
  BY DEF Talks
<1>4. Talk(e)'
  BY <1>3, HeadOf DEF Talk
<1> QED BY <1>2, <1>3, <1>4 DEF Talks

\* What was sent is dropped.
LEMMA Dropping ==
  ASSUME Talks, NEW e \in Editors, up' = [up EXCEPT ![e] = << >>],
         UNCHANGED <<down, editor, main>>
  PROVE  Talks'
<1>1. \A x \in Editors \ {e} : up'[x] = up[x]
  BY DEF Talks
<1>2. \A x \in Editors \ {e} : Talk(x)'
  BY <1>1 DEF Talks, Talk, Sendable, Opening, Receivable, Deleting
<1>3. up'[e] = << >> /\ DOMAIN up' = Editors
  BY DEF Talks
<1>4. Talk(e)'
  BY <1>3 DEF Talks, Talk, Receivable, Deleting
<1> QED BY <1>2, <1>3, <1>4 DEF Talks

\* Take leaves nothing.
LEMMA TakeAll ==
  ASSUME Talks, NEW e \in Editors, up[e] # << >>, Take(e)
  PROVE  up' = [up EXCEPT ![e] = << >>]
  BY HeadOf DEF Take

\* close_socket gives the slot of the connection back, and only this one.
LEMMA Closing ==
  ASSUME Polls, EditorsOK, NEW e \in Editors, conn[e] = "polled", close_socket(e),
         UNCHANGED editor
  PROVE  Polls'
<1>1. conn'[e] = "closed" /\ DOMAIN conn' = Editors
      /\ \A x \in Editors \ {e} : conn'[x] = conn[x]
  BY DEF close_socket, Polls
<1>2. /\ slots' \in [1..MAX_CLIENTS -> Editors \cup {Free}]
      /\ \A i \in 1..MAX_CLIENTS : slots'[i] = IF slots[i] = e THEN Free ELSE slots[i]
  BY DEF close_socket, Polls
<1>3. Free \notin Editors
  BY ServerAssumption DEF Free
<1>4. ASSUME NEW x \in Editors
      PROVE  /\ (conn'[x] = "polled") <=> (\E i \in 1..MAX_CLIENTS : slots'[i] = x)
             /\ \A i, j \in 1..MAX_CLIENTS : slots'[i] = x /\ slots'[j] = x => i = j
             /\ editor'[x].at = "idle" => conn'[x] = "none"
  <2>1. CASE x = e
    BY <2>1, <1>1, <1>2, <1>3 DEF Polls
  <2>2. CASE x # e
    BY <2>2, <1>1, <1>2, <1>3 DEF Polls
  <2> QED BY <2>1, <2>2
<1> QED BY <1>1, <1>2, <1>4 DEF Polls

\* The list of files is the answer, if the lock can be had.
LEMMA SendingList ==
  ASSUME Talks, EditorsOK, MainOK, main.at = "poll", NEW e \in Editors, up[e] # << >>,
         NEW u \in UserIds, SendList(e, u), UNCHANGED editor
  PROVE  Talks' /\ MainOK' /\ ~Deleting'
<1>1. CASE held = {}
  <2>1. Msg("MSG_OK", u, NULL) \in Receivable /\ Send(e, Msg("MSG_OK", u, NULL)) /\ UNCHANGED main
    BY <1>1 DEF SendList, Receivable
  <2>2. ~Deleting'
    BY <2>1 DEF Deleting, Stages
  <2> QED BY <2>1, <2>2, Answering DEF MainOK
<1>2. CASE held # {}
  <2>1. Take(e) /\ UNCHANGED down /\ main' = [main EXCEPT !.at = "blocked"]
    BY <1>2 DEF SendList
  <2>2. MainOK' /\ main'.at = "blocked"
    BY <2>1 DEF MainOK, Idle
  <2> QED BY <2>1, <2>2, Taking, TakeAll DEF Deleting, Stages
<1> QED BY <1>1, <1>2

-----------------------------------------------------------------------------
(***************************************************************************)
(* The accounts.                                                           *)
(***************************************************************************)
\* Who logs in has the number of a line that is his account.
LEMMA Validated ==
  ASSUME UsersOK, NEW a, validate_user(users, a) >= 0
  PROVE  /\ validate_user(users, a) \in 1 .. Len(users.lines)
         /\ users.lines[validate_user(users, a)] = a
         /\ validate_user(users, a) \in UserIds
<1> DEFINE S == OfAccount(users, a)
<1>1. users.lines \in Seq(Accounts) /\ Len(users.lines) <= MaxUsers
  BY DEF UsersOK, Texts
<1>2. DOMAIN users.lines = 1 .. Len(users.lines) /\ Len(users.lines) \in Nat
  BY <1>1, LenProperties
<1>3. S = { i \in 1 .. Len(users.lines) : users.lines[i] = a }
  BY <1>2 DEF OfAccount, Lines
<1>7. S \subseteq Nat
  BY <1>3
<1> HIDE DEF S
<1>4. S # {} /\ validate_user(users, a) = Min(S)
  BY DEF validate_user, S
<1>5. Min(S) \in S
  BY <1>4, <1>7, LeastOf
<1>6. MaxUsers \in Nat
  BY ServerAssumption DEF Words, SocatAt
<1> QED BY <1>1, <1>2, <1>3, <1>4, <1>5, <1>6 DEF UserIds

\* A new account is the last line, and what was there stays where it was.
LEMMA Registering ==
  ASSUME UsersOK, NEW a \in Accounts, NEW t, t = validate_register(users, a),
         Len(t.lines) <= MaxUsers
  PROVE  /\ t \in Texts(Accounts)
         /\ RegisteredId(users) \in 1 .. Len(t.lines)
         /\ RegisteredId(users) \in UserIds
         /\ t.lines[RegisteredId(users)] \in {a, NoAccount}
         /\ \A i \in 1 .. Len(users.lines) :
              i \in 1 .. Len(t.lines) /\ t.lines[i] = users.lines[i]
<1> DEFINE ls  == users.lines
           pre == IF users.ends THEN Append(ls, NoAccount) ELSE ls
<1>1. ls \in Seq(Accounts) /\ Len(ls) \in Nat /\ NoAccount \in Accounts
  BY LenProperties DEF UsersOK, Texts, Accounts
<1>2. /\ pre \in Seq(Accounts) /\ Len(pre) \in {Len(ls), Len(ls) + 1}
      /\ \A i \in 1 .. Len(ls) : pre[i] = ls[i]
      /\ Len(pre) = Len(ls) + 1 => pre[Len(ls) + 1] = NoAccount
  BY <1>1, AppendProperties
<1>3. t.lines = pre \o <<a>> /\ t \in [there : BOOLEAN, lines : {pre \o <<a>>}, ends : BOOLEAN]
  BY DEF validate_register, AppendLine, UsersOK, Texts
<1> HIDE DEF pre
<1>4. <<a>> \in Seq(Accounts) /\ Len(<<a>>) = 1 /\ <<a>>[1] = a
  OBVIOUS
<1>5. /\ pre \o <<a>> \in Seq(Accounts) /\ Len(pre \o <<a>>) = Len(pre) + 1
      /\ \A i \in 1 .. Len(pre) + 1 :
           (pre \o <<a>>)[i] = IF i <= Len(pre) THEN pre[i] ELSE <<a>>[i - Len(pre)]
  BY <1>2, <1>4, ConcatProperties
<1>6. t \in Texts(Accounts) /\ Len(t.lines) = Len(pre) + 1
  BY <1>3, <1>5 DEF Texts
<1>7. t.lines[Len(ls) + 1] \in {a, NoAccount}
  BY <1>1, <1>2, <1>3, <1>4, <1>5
<1>8. \A i \in 1 .. Len(ls) : i \in 1 .. Len(t.lines) /\ t.lines[i] = ls[i]
  BY <1>1, <1>2, <1>3, <1>5, <1>6
<1>9. Len(ls) + 1 \in 1 .. Len(t.lines) /\ Len(ls) + 1 \in UserIds
  <2>1. MaxUsers \in Nat
    BY ServerAssumption DEF Words, SocatAt
  <2> QED BY <2>1, <1>1, <1>2, <1>6 DEF UserIds
<1> QED BY <1>6, <1>7, <1>8, <1>9 DEF RegisteredId

-----------------------------------------------------------------------------
(***************************************************************************)
(* The invariant is one.                                                   *)
(***************************************************************************)
\* It holds when the server starts.
LEMMA InitInv == Init => Inv
<1> SUFFICES ASSUME Init PROVE Inv
  OBVIOUS
<1>1. MaxUsers \in Nat /\ Free \notin Editors
  BY ServerAssumption DEF Words, SocatAt, Free
<1>2. MainOK /\ Memory /\ EditorsOK /\ ~Deleting
  BY <1>1 DEF Init, MainOK, Memory, EditorsOK, Idle, Tunnel, UserIds, Deleting, Stages
<1>3. UsersOK
  <2>1. users \in Texts(LinesOf(InitUsers)) /\ Len(users.lines) <= MaxUsers
    BY ServerAssumption DEF Init
  <2>2. users.lines \in Seq(Accounts)
    BY <2>1, SeqMonotonic DEF Texts, Accounts
  <2> QED BY <2>1, <2>2 DEF UsersOK, Texts
<1>4. Talks
  BY <1>2 DEF Init, Talks, Talk
<1>5. Polls
  BY <1>1 DEF Init, Polls
<1>6. WorkersOK(proc) /\ Holders
  BY EmptySeq DEF Init, WorkersOK, Holders
<1> QED BY <1>2, <1>3, <1>4, <1>5, <1>6 DEF Inv

\* A worker is forked, or there is one.
LEMMA ForkInv ==
  ASSUME Inv, NEW f \in FileIds, Fork(f)
  PROVE  WorkersOK(proc') /\ Holders'
<1>1. WorkersOK(proc') /\ Len(proc') = Len(proc) + 1 /\ Len(proc) \in Nat
  BY Forking, WorkersLength DEF Fork, Inv
<1>2. held \subseteq 0 .. Len(proc) /\ held' \subseteq held \cup {Len(proc) + 1}
  BY DEF Fork, Forked, Holders, Inv
<1>3. \A h \in held' : h \in 0 .. Len(proc) + 1
  BY <1>1, <1>2
<1> QED BY <1>1, <1>3 DEF Holders

\* The words of a file are words.
LEMMA WordsOfFile ==
  ASSUME NEW f \in FileIds
  PROVE  /\ PortAt(f) \in Words /\ PidAt(f) \in Words /\ PortAt(f) # PidAt(f)
         /\ Workers < PortAt(f) /\ Workers < PidAt(f)
         /\ \A g \in FileIds : /\ PortAt(f) # PidAt(g)
                               /\ g # f => PortAt(f) # PortAt(g) /\ PidAt(f) # PidAt(g)
<1>1. f \in Nat /\ f >= 1 /\ f <= MAX_WORKERS + 1 /\ Workers \in Nat /\ MAX_WORKERS \in Nat
      /\ \A g \in FileIds : g \in Nat
  BY ServerAssumption
<1> QED BY <1>1 DEF PortAt, PidAt, Words, SocatAt

\* So are those of users.
LEMMA UserWords == UserIds \subseteq Words
  BY ServerAssumption DEF UserIds, Words, SocatAt

\* A word that is written holds a number.
LEMMA Writing ==
  ASSUME Memory, NEW k \in Words, NEW n \in Int, mem' = [mem EXCEPT ![k] = n]
  PROVE  Memory'
  BY DEF Memory

\* What only concerns the list, the files or the lock keeps the rest of the invariant.
LEMMA StoreInv ==
  ASSUME Inv, MainOK', Talks', UNCHANGED <<users, mem, slots, conn, editor, proc>>,
         held' \subseteq held \cup {0}
  PROVE  Inv'
<1> USE DEF Inv
<1>1. UsersOK' /\ Memory' /\ EditorsOK' /\ WorkersOK(proc')
  BY DEF UsersOK, Memory, EditorsOK
<1>2. Polls'
  BY PollsKept, SameEditorsRefl
<1>3. Holders'
  BY WorkersLength DEF Holders
<1> QED BY <1>1, <1>2, <1>3

\* What handle_msg of the server starts from.
LEMMA BringsFacts ==
  ASSUME Inv, NEW e \in Editors, NEW t, Brings(e, t)
  PROVE  /\ main.at = "poll" /\ ~Deleting /\ conn[e] = "polled" /\ up[e] # << >>
         /\ Head(up[e]).type = t /\ Head(up[e]) \in Sendable(e, editor[e].uid)
  BY HeadOf DEF Brings, Deleting, Stages, Inv

\* Each step of the poll loop for one connection.
LEMMA HandleInv ==
  ASSUME Inv, NEW e \in Editors, Handle(e) PROVE Inv'
<1> USE DEF Inv
<1>1. CASE Accept(e)
  <2>1. UNCHANGED <<users, main, mem, up, down, editor, proc, held>> /\ conn[e] = "backlog"
    BY <1>1 DEF Accept, store
  <2>2. MainOK' /\ UsersOK' /\ Memory' /\ EditorsOK' /\ WorkersOK(proc') /\ Holders'
    BY <2>1 DEF MainOK, UsersOK, Memory, EditorsOK, Holders
  <2>3. Talks'
    BY <2>1, TalksKept, SameEditorsRefl DEF Deleting
  <2>4. Free \notin Editors
    BY ServerAssumption DEF Free
  <2>5. CASE FreeSlots = {}
    <3>1. conn' = [conn EXCEPT ![e] = "ignored"] /\ UNCHANGED slots
      BY <1>1, <2>5 DEF Accept
    <3> QED BY <2>1, <3>1, <2>2, <2>3 DEF Polls
  <2>6. CASE FreeSlots # {}
    <3>1. FreeSlots \subseteq Nat /\ FreeSlots \subseteq 1..MAX_CLIENTS
      BY ServerAssumption DEF FreeSlots, Polls
    <3>2. PICK n : n = Min(FreeSlots)
      OBVIOUS
    <3>3. n \in 1..MAX_CLIENTS /\ slots[n] = Free
      BY <2>6, <3>1, <3>2, LeastOf DEF FreeSlots
    <3>4. conn' = [conn EXCEPT ![e] = "polled"] /\ slots' = [slots EXCEPT ![n] = e]
      BY <1>1, <2>6, <3>2 DEF Accept
    <3>5. \A i \in 1..MAX_CLIENTS : slots'[i] = IF i = n THEN e ELSE slots[i]
      BY <3>3, <3>4 DEF Polls
    <3>6. \A i \in 1..MAX_CLIENTS : slots[i] # e
      BY <2>1 DEF Polls
    <3>7. /\ DOMAIN conn' = Editors
          /\ slots' \in [1..MAX_CLIENTS -> Editors \cup {Free}]
      BY <3>4 DEF Polls
    <3>8. ASSUME NEW x \in Editors
          PROVE  /\ (conn'[x] = "polled") <=> (\E i \in 1..MAX_CLIENTS : slots'[i] = x)
                 /\ \A i, j \in 1..MAX_CLIENTS : slots'[i] = x /\ slots'[j] = x => i = j
                 /\ editor'[x].at = "idle" => conn'[x] = "none"
      <4>1. CASE x = e
        BY <4>1, <2>1, <3>3, <3>4, <3>5, <3>6 DEF Polls
      <4>2. CASE x # e
        BY <4>2, <2>1, <2>4, <3>3, <3>4, <3>5 DEF Polls
      <4> QED BY <4>1, <4>2
    <3> QED BY <2>2, <2>3, <3>7, <3>8 DEF Polls
  <2> QED BY <2>5, <2>6
<1>2. ASSUME conn[e] = "polled", close_socket(e), UNCHANGED <<users, main, down, editor, proc, held>>,
             Memory'
      PROVE  Inv'
  <2>1. up' = [up EXCEPT ![e] = << >>]
    BY <1>2 DEF close_socket
  <2>2. Talks'
    BY <1>2, <2>1, Dropping
  <2>3. Polls'
    BY <1>2, Closing
  <2> QED BY <1>2, <2>2, <2>3 DEF MainOK, UsersOK, EditorsOK, Holders
<1>3. CASE HangUp(e)
  BY <1>2, <1>3 DEF HangUp, store, Memory
<1>4. CASE NotLoggedIn(e)
  BY <1>2, <1>4 DEF NotLoggedIn, store, Memory
<1>5. CASE Quit(e)
  <2>1. Head(up[e]).user_id \in Words /\ 0 \in Int
    BY <1>5, BringsFacts, SendableFields, UserWords DEF Quit, EditorsOK
  <2>2. Memory'
    BY <1>5, <2>1, Writing DEF Quit
  <2> QED BY <1>2, <1>5, <2>2 DEF Quit, Brings, store
<1>6. CASE Login(e)
  <2> PICK u : u = validate_user(users, Head(up[e]).arg)
    OBVIOUS
  <2>1. main.at = "poll" /\ up[e] # << >> /\ UNCHANGED <<users, slots, conn, editor, proc, held>>
    BY <1>6, BringsFacts DEF Login, store
  <2>2. CASE u >= 0
    <3>1. u \in UserIds /\ SendList(e, u) /\ mem' = [mem EXCEPT ![u] = 1]
      BY <1>6, <2>2, Validated DEF Login
    <3>2. Talks' /\ MainOK'
      BY <2>1, <3>1, SendingList
    <3>4. Memory'
      BY <3>1, UserWords DEF Memory
    <3>3. UsersOK' /\ EditorsOK' /\ WorkersOK(proc') /\ Holders'
      BY <2>1 DEF UsersOK, EditorsOK, Holders
    <3> QED BY <2>1, <3>2, <3>3, <3>4, PollsKept, SameEditorsRefl
  <2>3. CASE ~(u >= 0)
    <3>1. Send(e, Failed) /\ UNCHANGED <<mem, main>> /\ Failed \in Receivable
      BY <1>6, <2>3 DEF Login, Receivable
    <3> QED BY <2>1, <3>1, Answering, StoreInv DEF MainOK, Deleting
  <2> QED BY <2>2, <2>3
<1>7. CASE Register(e)
  <2>1. main.at = "poll" /\ up[e] # << >> /\ UNCHANGED <<mem, slots, conn, editor, proc, held>>
    BY <1>7, BringsFacts DEF Register
  <2>2. AfterFree(Head(up[e]).arg) \subseteq Accounts
    <3>1. Head(up[e]).arg = account[e]
      BY <1>7, BringsFacts, SendableFields DEF Register
    <3> QED BY <3>1 DEF AfterFree, Accounts
  <2>3. PICK a \in Accounts :
          \/ Send(e, Failed) /\ UNCHANGED <<users, main>>
          \/ /\ Len(validate_register(users, a).lines) <= MaxUsers
             /\ users' = validate_register(users, a)
             /\ SendList(e, RegisteredId(users))
    BY <1>7, <2>2 DEF Register
  <2>4. CASE Send(e, Failed) /\ UNCHANGED <<users, main>>
    <3>1. Failed \in Receivable
      BY DEF Receivable
    <3> QED BY <2>1, <2>4, <3>1, Answering, StoreInv DEF MainOK, Deleting
  <2>5. CASE /\ Len(validate_register(users, a).lines) <= MaxUsers
             /\ users' = validate_register(users, a)
             /\ SendList(e, RegisteredId(users))
    <3>1. RegisteredId(users) \in UserIds /\ UsersOK'
      BY <2>5, Registering DEF UsersOK
    <3>2. Talks' /\ MainOK'
      BY <2>1, <2>5, <3>1, SendingList
    <3>3. Memory' /\ EditorsOK' /\ WorkersOK(proc') /\ Holders'
      BY <2>1 DEF Memory, EditorsOK, Holders
    <3> QED BY <2>1, <3>1, <3>2, <3>3, PollsKept, SameEditorsRefl
  <2> QED BY <2>3, <2>4, <2>5
<1>8. CASE FileRequest(e)
  <2> PICK f : f = Head(up[e]).arg
    OBVIOUS
  <2>1. f \in FileIds /\ up[e] # << >> /\ UNCHANGED <<users, main, slots, conn, editor>>
    BY <1>8, BringsFacts, SendableFields DEF FileRequest, store
  <2>2. Len(proc) \in Nat
    BY WorkersLength
  <2>3. Memory' /\ WorkersOK(proc') /\ Holders'
    <3>1. CASE UNCHANGED <<mem, proc, held>>
      BY <3>1 DEF Memory, Holders
    <3>2. CASE Fork(f) /\ mem' = [mem EXCEPT ![PidAt(f)] = Forked, ![PortAt(f)] = Forked]
      <4>1. PortAt(f) \in Words /\ PidAt(f) \in Words /\ Forked \in Int
        BY <2>1, <2>2, WordsOfFile DEF Forked
      <4>2. Memory'
        BY <3>2, <4>1 DEF Memory
      <4> QED BY <2>1, <3>2, <4>2, ForkInv
    <3> QED BY <1>8, <3>1, <3>2 DEF FileRequest
  <2>4. PICK p \in Int : Send(e, Msg("FILE_RESPONSE", -1, p))
    <3>1. mem[PortAt(f)] \in Int /\ Forked \in Int
      BY <2>1, <2>2, WordsOfFile DEF Memory, Forked
    <3> QED BY <1>8, <3>1 DEF FileRequest
  <2>5. Talks'
    <3>1. Msg("FILE_RESPONSE", -1, p) \in Receivable
      BY DEF Receivable
    <3> QED BY <2>1, <2>4, <3>1, Answering DEF Deleting
  <2>6. MainOK' /\ UsersOK' /\ EditorsOK'
    BY <2>1 DEF MainOK, UsersOK, EditorsOK
  <2> QED BY <2>1, <2>3, <2>5, <2>6, PollsKept, SameEditorsRefl
<1>9. CASE CreateFile(e)
  <2>1. /\ ~Deleting /\ main.at = "poll" /\ up[e] # << >> /\ held' \subseteq held \cup {0}
        /\ UNCHANGED <<users, mem, slots, conn, editor, proc>>
    BY <1>9, BringsFacts DEF CreateFile
  <2>2. CASE Take(e) /\ main' = [main EXCEPT !.at = "blocked"] /\ UNCHANGED down
    <3>1. MainOK' /\ ~Deleting'
      BY <2>1, <2>2 DEF MainOK, Idle, Deleting, Stages
    <3> QED BY <2>1, <2>2, <3>1, Taking, TakeAll, StoreInv
  <2>3. ASSUME NEW m \in Receivable, Send(e, m), main' = main \/ (\E x : main' = [main EXCEPT !.leak = x])
        PROVE  Inv'
    <3>1. MainOK' /\ ~Deleting'
      BY <2>1, <2>3 DEF MainOK, Idle, Deleting, Stages
    <3> QED BY <2>1, <2>3, <3>1, Answering, StoreInv
  <2>4. Failed \in Receivable /\ Msg("MSG_OK", Head(up[e]).user_id, NULL) \in Receivable
    BY <1>9, BringsFacts, SendableFields DEF CreateFile, Receivable, EditorsOK
  <2> QED BY <1>9, <2>2, <2>3, <2>4 DEF CreateFile
<1>10. CASE DeleteFile(e)
  <2>1. /\ main.at = "poll" /\ up[e] # << >> /\ Take(e)
        /\ UNCHANGED <<users, mem, slots, conn, down, editor, proc, held>>
    BY <1>10, BringsFacts DEF DeleteFile
  <2>2. MainOK' /\ (Deleting' => main'.e = e)
    <3>1. CASE held # {}
      BY <1>10, <2>1, <3>1 DEF DeleteFile, MainOK, Idle, Deleting, Stages
    <3>2. CASE held = {}
      BY <1>10, <2>1, <3>2 DEF DeleteFile, MainOK, Idle, Deleting, Stages
    <3> QED BY <3>1, <3>2
  <2> QED BY <2>1, <2>2, Taking, TakeAll, StoreInv
<1>11. CASE MainFaults(e)
  <2>1. UNCHANGED <<users, mem, slots, conn, up, down, editor, proc>> /\ held' \subseteq held
        /\ main' = [main EXCEPT !.at = "crashed"] /\ main.at = "poll"
    BY <1>11 DEF MainFaults, Brings, store, net
  <2>2. MainOK' /\ ~Deleting'
    BY <2>1 DEF MainOK, Idle, Deleting, Stages
  <2> QED BY <2>1, <2>2, TalksKept, SameEditorsRefl, StoreInv
<1> QED BY <1>1, <1>3, <1>4, <1>5, <1>6, <1>7, <1>8, <1>9, <1>10, <1>11 DEF Handle

\* The steps of deleteFile.
LEMMA DeleteStepInv ==
  ASSUME Inv, DeleteStep PROVE Inv'
<1> USE DEF Inv
<1>1. CASE DeleteReopen \/ DeleteLock \/ DeleteUnlock \/ DeleteRewrite
  <2>1. /\ UNCHANGED <<users, mem, slots, conn, up, down, editor, proc>> /\ held' \subseteq held \cup {0}
        /\ Deleting /\ \E s \in Stages : main' = [main EXCEPT !.at = s]
    BY <1>1 DEF DeleteReopen, DeleteLock, DeleteUnlock, DeleteRewrite, Deletes, net, Deleting, Stages
  <2>2. MainOK' /\ main'.e = main.e
    BY <2>1 DEF MainOK, Idle, Deleting, Stages
  <2> QED BY <2>1, <2>2, TalksKept, SameEditorsRefl, StoreInv
<1>2. CASE DeleteAnswer
  <2> PICK e, m : /\ e = main.e
                  /\ m \in {Msg("MSG_OK", editor[e].uid, NULL), Failed}
                  /\ down' = [down EXCEPT ![e] = Append(@, m)]
    BY <1>2 DEF DeleteAnswer
  <2>1. /\ UNCHANGED <<users, mem, slots, conn, up, editor, proc, held>>
        /\ Deleting /\ main' = Idle
    BY <1>2 DEF DeleteAnswer, Deleting, Stages
  <2>2. MainOK' /\ ~Deleting'
    BY <2>1 DEF MainOK, Idle, Deleting, Stages
  <2>3. DOMAIN up' = Editors /\ DOMAIN down' = Editors
    BY <2>1 DEF Talks
  <2>4. ASSUME NEW x \in Editors PROVE Talk(x)'
    <3>1. CASE x = e
      <4>1. up[x] = << >> /\ down[x] = << >> /\ editor[x].at # "idle" /\ x = main.e
        BY <2>1, <3>1 DEF Talks, Talk
      <4>2. down'[x] = <<m>>
        BY <3>1, <4>1, OneMessage DEF Talks
      <4>3. m \in Receivable'
        BY <3>1 DEF Receivable, EditorsOK
      <4> QED BY <2>1, <2>2, <4>1, <4>2, <4>3 DEF Talk
    <3>2. CASE x # e
      <4>1. down'[x] = down[x]
        BY <3>2 DEF Talks
      <4> QED BY <2>1, <2>2, <4>1 DEF Talks, Talk, Sendable, Opening, Receivable
    <3> QED BY <3>1, <3>2
  <2>5. Talks'
    BY <2>3, <2>4 DEF Talks
  <2> QED BY <2>1, <2>2, <2>5, StoreInv
<1> QED BY <1>1, <1>2 DEF DeleteStep

\* handle_shutdown, wherever the signal finds the server.
LEMMA ShutdownInv ==
  ASSUME Inv, NEW ws, WorkersOK(ws), Len(ws) \in Nat,
         NEW s \in Stages \cup {"poll", "blocked", "fork"}, handle_shutdown(ws, s),
         held' \subseteq 0 .. Len(ws), Memory',
         UNCHANGED <<users, slots, conn, up, down, editor>>
  PROVE  Inv'
<1> USE DEF Inv
<1>1. MainOK' /\ ~Deleting'
  BY DEF handle_shutdown, MainOK, Idle, Deleting, Stages
<1>2. UsersOK' /\ EditorsOK'
  BY DEF UsersOK, EditorsOK
<1>3. WorkersOK(proc') /\ Len(proc') = Len(ws)
  BY ToldKept DEF handle_shutdown
<1>4. Talks' /\ Polls'
  BY <1>1, TalksKept, PollsKept, SameEditorsRefl
<1> QED BY <1>1, <1>2, <1>3, <1>4 DEF Holders

\* The end of the server.
LEMMA ExitInv ==
  ASSUME Inv, ExitServer PROVE Inv'
<1> USE DEF Inv
<1>1. MainOK' /\ ~Deleting'
  BY DEF ExitServer, MainOK, Idle, Deleting, Stages
<1>2. UNCHANGED <<users, mem, slots, conn, up, down, editor, proc>> /\ held' \subseteq held
  BY DEF ExitServer, net
<1>3. Talks'
  BY <1>1, <1>2, TalksKept, SameEditorsRefl
<1> QED BY <1>1, <1>2, <1>3, StoreInv

\* The three places where it may find it.
LEMMA ShutdownsInv ==
  ASSUME Inv,
         Shutdown \/ ShutdownInDelete \/ \E e \in Editors : ShutdownInFork(e)
  PROVE  Inv'
<1> USE DEF Inv
<1>1. Len(proc) \in Nat /\ held \subseteq 0 .. Len(proc)
  BY WorkersLength DEF Holders
<1>2. CASE Shutdown \/ ShutdownInDelete
  <2>1. /\ \E s \in Stages \cup {"poll", "blocked"} : handle_shutdown(proc, s)
        /\ held' \subseteq held /\ UNCHANGED <<users, mem, slots, conn, up, down, editor>>
    BY <1>2 DEF Shutdown, ShutdownInDelete, store, net
  <2>2. Memory' /\ held' \subseteq 0 .. Len(proc)
    BY <1>1, <2>1 DEF Memory
  <2> QED BY <1>1, <2>1, <2>2, ShutdownInv
<1>3. ASSUME NEW e \in Editors, ShutdownInFork(e) PROVE Inv'
  <2> PICK f, ws : f = Head(up[e]).arg /\ ws = Append(proc, Worker(f))
    OBVIOUS
  <2>1. /\ f \in FileIds /\ handle_shutdown(ws, "fork") /\ mem' = [mem EXCEPT ![PidAt(f)] = Forked]
        /\ held' \subseteq held \cup {Len(proc) + 1}
        /\ UNCHANGED <<users, slots, conn, up, down, editor>>
    BY <1>3, BringsFacts, SendableFields DEF ShutdownInFork, Forked, store, net
  <2>2. WorkersOK(ws) /\ Len(ws) = Len(proc) + 1
    BY <2>1, Forking
  <2>3. PidAt(f) \in Words /\ Forked \in Int
    BY <1>1, <2>1, WordsOfFile DEF Forked
  <2>4. Memory'
    BY <2>1, <2>3, Writing
  <2>5. \A h \in held' : h \in 0 .. Len(proc) + 1
    BY <1>1, <2>1
  <2>6. Len(ws) \in Nat /\ held' \subseteq 0 .. Len(ws)
    BY <1>1, <2>2, <2>5
  <2> QED BY <2>1, <2>2, <2>4, <2>6, ShutdownInv
<1> QED BY <1>2, <1>3

\* What an editor does at the server: it sends one message in the place of one it takes.
LEMMA EditorStepInv ==
  ASSUME Inv, NEW e \in Editors, EditorStep(e) PROVE Inv'
<1> USE DEF Inv
<1>1. ASSUME NEW m, NEW u \in UserIds, m \in Sendable(e, u), NEW s, s # "idle",
             up' = [up EXCEPT ![e] = <<m>>], down' = [down EXCEPT ![e] = << >>],
             EditorsOK', editor'[e].uid = u, editor'[e].at = s,
             \A x \in Editors \ {e} : editor'[x] = editor[x],
             ~(Deleting /\ main.e = e),
             Polls', UNCHANGED <<users, main, mem, proc, held>>
      PROVE  Inv'
  <2>1. \A x \in Editors \ {e} : Talk(x)'
    BY <1>1 DEF Talks, Talk, Sendable, Opening, Receivable, Deleting
  <2>2. up'[e] = <<m>> /\ down'[e] = << >> /\ DOMAIN up' = Editors /\ DOMAIN down' = Editors
    BY <1>1 DEF Talks
  <2>3. m \in Sendable(e, editor'[e].uid)
    BY <1>1
  <2>4. Talk(e)'
    BY <1>1, <2>2, <2>3 DEF Talk, Deleting, Sendable, Opening
  <2>5. Talks'
    BY <2>1, <2>2, <2>4 DEF Talks
  <2> QED BY <1>1, <2>5 DEF MainOK, Memory, UsersOK, Holders
<1>2. CASE Start(e)
  <2> PICK m : m = Msg(IF e \in Registers THEN "REGISTER" ELSE "LOGIN", -1, account[e])
    OBVIOUS
  <2>1. /\ editor[e].at = "idle" /\ up' = [up EXCEPT ![e] = <<m>>] /\ UNCHANGED down
        /\ conn' = [conn EXCEPT ![e] = "backlog"] /\ UNCHANGED <<users, main, mem, slots, proc, held>>
        /\ Editing(e, "asking")
    BY <1>2 DEF Start, store
  <2>2. m \in Sendable(e, editor[e].uid)
    BY DEF Sendable, Opening
  <2>3. up[e] = << >> /\ down[e] = << >> /\ ~(Deleting /\ main.e = e) /\ conn[e] = "none"
    BY <2>1 DEF Talks, Talk, Polls
  <2>4. SameEditors
    BY <2>1, EditingKept
  <2>5. Polls'
    BY <2>1, <2>3, <2>4 DEF Polls, SameEditors, Editing, EditorsOK
  <2>6. \A x \in Editors \ {e} : Talk(x)'
    BY <2>1, <2>4 DEF Talks, Talk, Sendable, Opening, Receivable, Deleting, SameEditors
  <2>7. /\ up'[e] = <<m>> /\ DOMAIN up' = Editors /\ editor'[e].at # "idle"
        /\ editor'[e].uid = editor[e].uid
    BY <2>1, <2>4 DEF Talks, Editing, EditorsOK, SameEditors
  <2>8. Talk(e)'
    BY <2>1, <2>2, <2>3, <2>7 DEF Talk, Sendable, Opening, Deleting
  <2>9. Talks'
    BY <2>1, <2>6, <2>7, <2>8 DEF Talks
  <2> QED BY <2>1, <2>4, <2>5, <2>9 DEF MainOK, Memory, UsersOK, Holders, SameEditors
<1>3. ASSUME NEW t, NEW m, Answers(e, t, m)
      PROVE  /\ up' = [up EXCEPT ![e] = <<m>>] /\ down' = [down EXCEPT ![e] = << >>]
             /\ Head(down[e]) \in Receivable /\ Head(down[e]).type = t
             /\ editor[e].at = "asking" /\ ~(Deleting /\ main.e = e)
             /\ UNCHANGED <<users, main, mem, slots, conn, proc, held>>
  <2>1. PICK r \in Receivable : down[e] = <<r>> /\ up[e] = << >> /\ ~(Deleting /\ main.e = e)
    BY <1>3 DEF Answers, Talks, Talk
  <2>2. Head(down[e]) = r /\ Tail(down[e]) = << >> /\ Append(up[e], m) = <<m>>
    BY <2>1, OneMessage
  <2> QED BY <1>3, <2>1, <2>2 DEF Answers, Talks, store
<1>4. CASE Choose(e)
  <2> PICK u : u = Head(down[e]).user_id
    OBVIOUS
  <2>1. PICK m : /\ Answers(e, "MSG_OK", m) /\ m \in Sendable(e, u)
                 /\ editor' = [editor EXCEPT ![e].uid = u]
    BY <1>4, ServerAssumption DEF Choose, GetOk, Sendable
  <2>2. u \in UserIds
    BY <1>3, <2>1 DEF Receivable, Failed, Msg
  <2>3. /\ EditorsOK' /\ editor'[e].uid = u /\ editor'[e].at = "asking"
        /\ \A x \in Editors \ {e} : editor'[x] = editor[x]
    BY <1>3, <2>1, <2>2 DEF EditorsOK
  <2>4. Polls'
    <3>1. \A x \in Editors : editor'[x].at = "idle" => editor[x].at = "idle"
      BY <1>3, <2>1, <2>3
    <3>2. UNCHANGED <<slots, conn>>
      BY <1>3, <2>1
    <3> QED BY <3>1, <3>2 DEF Polls
  <2> QED BY <1>1, <1>3, <2>1, <2>2, <2>3, <2>4
<1>5. CASE GetPort(e) \/ GetFailed(e)
  <2> PICK m : m = Msg("QUIT", editor[e].uid, NULL)
    OBVIOUS
  <2>1. PICK t : Answers(e, t, m)
    BY <1>5 DEF GetPort, GetFailed
  <2>2. m \in Sendable(e, editor[e].uid)
    BY DEF Sendable
  <2>3. PICK s \in {"connecting", "left"} :
          /\ EditorsOK' /\ editor'[e].uid = editor[e].uid /\ editor'[e].at = s
          /\ \A x \in Editors \ {e} : editor'[x] = editor[x]
    BY <1>5 DEF GetPort, GetFailed, Editing, EditorsOK
  <2>4. Polls'
    <3>1. \A x \in Editors : editor'[x].at = "idle" => editor[x].at = "idle"
      BY <1>3, <2>1, <2>3
    <3>2. UNCHANGED <<slots, conn>>
      BY <1>3, <2>1
    <3> QED BY <3>1, <3>2 DEF Polls
  <2> QED BY <1>1, <1>3, <2>1, <2>2, <2>3, <2>4 DEF EditorsOK
<1>6. CASE Vanish(e)
  BY <1>6, AtWorkerEffect, WorkerEffectInv
<1> QED BY <1>2, <1>4, <1>5, <1>6 DEF EditorStep

\* Every step keeps the invariant.
LEMMA StepInv == Inv /\ [Next]_vars => Inv'
<1> SUFFICES ASSUME Inv, [Next]_vars PROVE Inv'
  OBVIOUS
<1>1. CASE ServerStep
  BY <1>1, HandleInv, DeleteStepInv, ShutdownsInv, ExitInv DEF ServerStep
<1>2. ASSUME NEW p \in DOMAIN proc, WorkerStep(p) PROVE Inv'
  BY <1>2, WorkerStepEffect, WorkerEffectInv
<1>3. ASSUME NEW e \in Editors, AtWorkerStep(e) \/ EditorStep(e) PROVE Inv'
  BY <1>3, AtWorkerEffect, WorkerEffectInv, EditorStepInv
<1>4. CASE UNCHANGED vars
  BY <1>4, WorkerEffectInv, SameEditorsRefl, SameWorkersRefl
    DEF vars, store, net, WorkerEffect, Inv
<1> QED BY <1>1, <1>2, <1>3, <1>4 DEF Next

\* The server's conversations and its poll list stay in order.
LEMMA InvTheorem == Spec => []Inv
  BY InitInv, StepInv, PTL DEF Spec

-----------------------------------------------------------------------------
\* The poll list holds each connection that is read once and no other, and an editor
\* and the server take turns (server_listen, close_socket, server_loop).
THEOREM TypeOKTheorem == Spec => []TypeOK
<1>1. ASSUME Inv PROVE TypeOK
  <2>1. ASSUME NEW e \in Editors PROVE Len(up[e]) + Len(down[e]) <= 1
    <3>1. /\ up[e] = << >> \/ \E m : up[e] = <<m>>
          /\ down[e] = << >> \/ \E m : down[e] = <<m>>
          /\ up[e] = << >> \/ down[e] = << >>
      BY <1>1 DEF Inv, Talks, Talk
    <3>2. \/ Len(up[e]) = 0 /\ (Len(down[e]) = 0 \/ Len(down[e]) = 1)
          \/ Len(up[e]) = 1 /\ Len(down[e]) = 0
      BY <3>1, OneMessage
    <3>3. \A a, b : (a = 0 /\ (b = 0 \/ b = 1)) \/ (a = 1 /\ b = 0) => a + b <= 1
      OBVIOUS
    <3> QED BY <3>2, <3>3
  <2> QED BY <1>1, <2>1 DEF Inv, TypeOK, MainOK, Memory, Polls, Holders
<1> QED BY <1>1, InvTheorem, PTL

-----------------------------------------------------------------------------
(***************************************************************************)
(* The table of workers.  It is next to the words of the users, and both   *)
(* are indexed unchecked: the ids must not be greater than the arrays, and *)
(* that is what has to be assumed.                                         *)
(***************************************************************************)
Layout == MaxUsers < Workers /\ FileIds \subseteq 1 .. MAX_WORKERS

\* The words of different files are different, and none is a user's.
LEMMA TableWords ==
  ASSUME Layout, NEW f \in 1 .. MAX_WORKERS
  PROVE  /\ PortAt(f) \in Words /\ PidAt(f) \in Words
         /\ PortAt(f) \notin UserIds /\ PidAt(f) \notin UserIds
         /\ \A g \in 1 .. MAX_WORKERS :
              PortAt(f) # PidAt(g) /\ (g # f => PortAt(f) # PortAt(g) /\ PidAt(f) # PidAt(g))
<1>1. f \in Nat /\ f >= 1 /\ f <= MAX_WORKERS /\ Workers \in Nat /\ MAX_WORKERS \in Nat
      /\ MaxUsers \in Nat
  BY ServerAssumption DEF Words, SocatAt
<1> QED BY <1>1 DEF PortAt, PidAt, Words, SocatAt, UserIds, Layout

\* The table stays true while only states of workers change.
LEMMA TableKept ==
  ASSUME WorkersOK(proc), Layout, TableTrue,
         \A f \in 1 .. MAX_WORKERS : mem'[PortAt(f)] = mem[PortAt(f)] /\ mem'[PidAt(f)] = mem[PidAt(f)],
         SameWorkers(proc, proc'), main'.was # "fork" => main.was # "fork"
  PROVE  TableTrue'
<1>1. ASSUME NEW f \in 1 .. MAX_WORKERS, mem'[PortAt(f)] # 0
      PROVE  LET p == mem'[PortAt(f)]
             IN p \in DOMAIN proc' /\ proc'[p].file = f /\ mem'[PidAt(f)] = p
  <2>1. mem'[PortAt(f)] = mem[PortAt(f)] /\ mem'[PidAt(f)] = mem[PidAt(f)]
    OBVIOUS
  <2> QED BY <1>1, <2>1 DEF TableTrue, SameWorkers
<1>2. ASSUME main'.was # "fork", NEW p \in DOMAIN proc' PROVE mem'[PortAt(proc'[p].file)] = p
  <2>1. p \in DOMAIN proc /\ proc'[p].file = proc[p].file /\ proc[p].file \in 1 .. MAX_WORKERS
    BY DEF SameWorkers, WorkersOK, Layout
  <2>2. mem[PortAt(proc[p].file)] = p
    BY <1>2, <2>1 DEF TableTrue
  <2> QED BY <2>1, <2>2
<1> QED BY <1>1, <1>2 DEF TableTrue

\* Logging in and out writes to the words of users only.
LEMMA TableUserWord ==
  ASSUME Inv, Layout, TableTrue, NEW u \in UserIds, NEW n, mem' = [mem EXCEPT ![u] = n],
         UNCHANGED proc, main'.was # "fork" => main.was # "fork"
  PROVE  TableTrue'
<1>1. \A f \in 1 .. MAX_WORKERS : mem'[PortAt(f)] = mem[PortAt(f)] /\ mem'[PidAt(f)] = mem[PidAt(f)]
  BY TableWords DEF Inv, Memory
<1> QED BY <1>1, TableKept, SameWorkersRefl DEF Inv

\* get_worker: the new worker is written to the words of its file, which had none.
LEMMA TableFork ==
  ASSUME Inv, Layout, TableTrue, NEW f \in FileIds, mem[PortAt(f)] = 0, main.at = "poll",
         proc' = Append(proc, Worker(f)),
         mem' = [mem EXCEPT ![PidAt(f)] = Forked, ![PortAt(f)] = Forked]
  PROVE  TableTrue'
<1> PICK n : n = Len(proc) + 1
  OBVIOUS
<1>1. /\ n \in Nat \ {0} /\ DOMAIN proc = 1 .. n - 1 /\ DOMAIN proc' = 1 .. n
      /\ WorkersOK(proc') /\ WorkersOK(proc)
      /\ proc'[n].file = f /\ (\A p \in 1 .. n - 1 : proc'[p] = proc[p])
  <2>1. WorkersOK(proc) /\ Len(proc) \in Nat /\ DOMAIN proc = 1 .. Len(proc)
    BY WorkersLength DEF Inv
  <2>2. /\ WorkersOK(proc') /\ Len(proc') = n /\ proc'[n].file = f
        /\ \A p \in 1 .. Len(proc) : proc'[p] = proc[p]
    BY <2>1, Forking
  <2>3. DOMAIN proc' = 1 .. n
    BY <2>2, WorkersLength
  <2> QED BY <2>1, <2>2, <2>3
<1>2. f \in 1 .. MAX_WORKERS /\ mem \in [Words -> Int]
      /\ mem' = [mem EXCEPT ![PidAt(f)] = n, ![PortAt(f)] = n]
  BY DEF Layout, Forked, Inv, Memory
<1>3. /\ mem'[PortAt(f)] = n /\ mem'[PidAt(f)] = n
      /\ \A g \in 1 .. MAX_WORKERS \ {f} :
           mem'[PortAt(g)] = mem[PortAt(g)] /\ mem'[PidAt(g)] = mem[PidAt(g)]
  <2>1. PortAt(f) \in Words /\ PidAt(f) \in Words /\ PortAt(f) # PidAt(f)
    BY <1>2, TableWords
  <2>2. mem'[PortAt(f)] = n /\ mem'[PidAt(f)] = n
    BY <1>2, <2>1
  <2>3. ASSUME NEW g \in 1 .. MAX_WORKERS, g # f
        PROVE  mem'[PortAt(g)] = mem[PortAt(g)] /\ mem'[PidAt(g)] = mem[PidAt(g)]
    <3>1. /\ PortAt(g) \in Words /\ PidAt(g) \in Words
          /\ PortAt(g) # PidAt(f) /\ PortAt(g) # PortAt(f)
          /\ PidAt(g) # PidAt(f) /\ PidAt(g) # PortAt(f)
      BY <1>2, <2>3, TableWords
    <3> QED BY <1>2, <3>1
  <2> QED BY <2>2, <2>3
<1>4. ASSUME NEW g \in 1 .. MAX_WORKERS, mem'[PortAt(g)] # 0
      PROVE  LET p == mem'[PortAt(g)]
             IN p \in DOMAIN proc' /\ proc'[p].file = g /\ mem'[PidAt(g)] = p
  <2>1. CASE g = f
    BY <1>1, <1>3, <2>1
  <2>2. CASE g # f
    <3>1. mem'[PortAt(g)] = mem[PortAt(g)] /\ mem'[PidAt(g)] = mem[PidAt(g)]
      BY <1>3, <2>2
    <3>2. mem[PortAt(g)] \in 1 .. n - 1 /\ proc[mem[PortAt(g)]].file = g
          /\ mem[PidAt(g)] = mem[PortAt(g)]
      BY <1>1, <1>4, <3>1 DEF TableTrue
    <3> QED BY <1>1, <3>1, <3>2
  <2> QED BY <2>1, <2>2
<1>5. ASSUME NEW p \in DOMAIN proc' PROVE mem'[PortAt(proc'[p].file)] = p
  <2>1. CASE p = n
    BY <1>1, <1>3, <2>1
  <2>2. CASE p # n
    <3>1. p \in 1 .. n - 1 /\ p # 0 /\ proc'[p] = proc[p]
      BY <1>1, <2>2
    <3>2. mem[PortAt(proc[p].file)] = p
      BY <1>1, <3>1 DEF TableTrue, Inv, MainOK
    <3>3. proc[p].file \in 1 .. MAX_WORKERS /\ proc[p].file # f
      BY <1>1, <3>1, <3>2 DEF WorkersOK, Layout
    <3> QED BY <1>3, <3>1, <3>2, <3>3
  <2> QED BY <2>1, <2>2
<1> QED BY <1>4, <1>5 DEF TableTrue

\* When SIGINT comes in a fork the table does not know the last worker.
LEMMA TableShut ==
  ASSUME Inv, Layout, TableTrue, NEW ws, WorkersOK(ws), handle_shutdown(ws, "fork"),
         DOMAIN proc \subseteq DOMAIN ws, \A p \in DOMAIN proc : ws[p].file = proc[p].file,
         \A g \in 1 .. MAX_WORKERS :
           mem'[PortAt(g)] # 0 => mem'[PortAt(g)] = mem[PortAt(g)] /\ mem'[PidAt(g)] = mem[PidAt(g)]
  PROVE  TableTrue'
<1>1. DOMAIN proc' = DOMAIN ws /\ \A p \in DOMAIN ws : proc'[p].file = ws[p].file
  BY ToldKept DEF handle_shutdown, SameWorkers
<1>2. ~(main'.was # "fork")
  BY DEF handle_shutdown, Inv, MainOK, Idle
<1>3. ASSUME NEW g \in 1 .. MAX_WORKERS, mem'[PortAt(g)] # 0
      PROVE  LET p == mem'[PortAt(g)]
             IN p \in DOMAIN proc' /\ proc'[p].file = g /\ mem'[PidAt(g)] = p
  <2>1. mem'[PortAt(g)] = mem[PortAt(g)] /\ mem'[PidAt(g)] = mem[PidAt(g)]
    BY <1>3
  <2>2. mem[PortAt(g)] \in DOMAIN proc /\ proc[mem[PortAt(g)]].file = g
        /\ mem[PidAt(g)] = mem[PortAt(g)]
    BY <1>3, <2>1 DEF TableTrue
  <2> QED BY <1>1, <2>1, <2>2
<1> QED BY <1>2, <1>3 DEF TableTrue

\* Every step keeps the table true.
LEMMA TableStep == Layout /\ Inv /\ TableTrue /\ [Next]_vars => TableTrue'
<1> SUFFICES ASSUME Layout, Inv, TableTrue, [Next]_vars PROVE TableTrue'
  OBVIOUS
<1>1. WorkersOK(proc) /\ Len(proc) \in Nat /\ DOMAIN proc = 1 .. Len(proc)
  BY WorkersLength DEF Inv
<1>2. ASSUME UNCHANGED <<mem, proc>>, main'.was # "fork" => main.was # "fork" PROVE TableTrue'
  BY <1>1, <1>2, TableKept, SameWorkersRefl
<1>3. ASSUME NEW e \in Editors, Handle(e) PROVE TableTrue'
  <2>1. CASE Accept(e) \/ HangUp(e) \/ NotLoggedIn(e) \/ Register(e) \/ CreateFile(e)
             \/ DeleteFile(e) \/ MainFaults(e)
    <3>1. UNCHANGED <<mem, proc>> /\ main.was = "poll"
      BY <2>1 DEF Inv, MainOK, Accept, HangUp, NotLoggedIn, Register, CreateFile, DeleteFile, MainFaults, Brings
    <3> QED BY <1>2, <3>1
  <2>2. CASE Login(e)
    <3>1. main.was = "poll" /\ UNCHANGED proc
      BY <2>2 DEF Login, Brings, Inv, MainOK
    <3>2. CASE validate_user(users, Head(up[e]).arg) >= 0
      <4> PICK u : u = validate_user(users, Head(up[e]).arg)
        OBVIOUS
      <4>1. u \in UserIds /\ mem' = [mem EXCEPT ![u] = 1]
        BY <2>2, <3>2, Validated DEF Login, Inv
      <4> QED BY <3>1, <4>1, TableUserWord
    <3>3. CASE ~(validate_user(users, Head(up[e]).arg) >= 0)
      BY <1>2, <2>2, <3>1, <3>3 DEF Login
    <3> QED BY <3>2, <3>3
  <2>3. CASE Quit(e)
    <3> PICK u : u = Head(up[e]).user_id
      OBVIOUS
    <3>1. u \in UserIds /\ mem' = [mem EXCEPT ![u] = 0] /\ UNCHANGED proc /\ main.was = "poll"
      BY <2>3, BringsFacts, SendableFields DEF Quit, Inv, EditorsOK, MainOK
    <3> QED BY <3>1, TableUserWord
  <2>4. CASE FileRequest(e)
    <3> PICK f : f = Head(up[e]).arg
      OBVIOUS
    <3>1. f \in FileIds /\ main.at = "poll"
      BY <2>4, BringsFacts, SendableFields DEF FileRequest
    <3>2. CASE mem[PortAt(f)] # 0
      BY <1>2, <2>4, <3>1, <3>2 DEF FileRequest
    <3>3. CASE mem[PortAt(f)] = 0
      <4>1. /\ proc' = Append(proc, Worker(f))
            /\ mem' = [mem EXCEPT ![PidAt(f)] = Forked, ![PortAt(f)] = Forked]
        BY <2>4, <3>3 DEF FileRequest, Fork
      <4> QED BY <3>1, <3>3, <4>1, TableFork
    <3> QED BY <3>2, <3>3
  <2> QED BY <1>3, <2>1, <2>2, <2>3, <2>4 DEF Handle
<1>4. CASE DeleteStep
  <2>1. UNCHANGED <<mem, proc>> /\ main.was = "poll"
    BY <1>4 DEF DeleteStep, DeleteReopen, DeleteLock, DeleteUnlock, DeleteRewrite, DeleteAnswer, Deletes,
                Stages, Inv, MainOK
  <2> QED BY <1>2, <2>1
<1>5. CASE Shutdown \/ ShutdownInDelete
  <2>1. main.was = "poll" /\ UNCHANGED mem /\ \E S : proc' = Told(proc, S)
    BY <1>5 DEF Shutdown, ShutdownInDelete, handle_shutdown, Stages, Inv, MainOK
  <2>2. SameWorkers(proc, proc')
    BY <1>1, <2>1, ToldKept
  <2> QED BY <1>1, <2>1, <2>2, TableKept
<1>11. CASE ExitServer
  <2>1. UNCHANGED <<mem, proc>> /\ main'.was = main.was
    BY <1>11 DEF ExitServer, Inv, MainOK, Idle
  <2> QED BY <1>2, <2>1
<1>6. ASSUME NEW e \in Editors, ShutdownInFork(e) PROVE TableTrue'
  <2> PICK f, ws : f = Head(up[e]).arg /\ ws = Append(proc, Worker(f))
    OBVIOUS
  <2>5. Brings(e, "FILE_REQUEST")
    BY <1>6 DEF ShutdownInFork
  <2>6. Head(up[e]).type = "FILE_REQUEST" /\ Head(up[e]) \in Sendable(e, editor[e].uid)
    BY <2>5, BringsFacts
  <2>7. f \in FileIds
    BY <2>6, SendableFields
  <2>0. f \in FileIds /\ f \in 1 .. MAX_WORKERS
    BY <2>7 DEF Layout
  <2>1. /\ f \in FileIds /\ f \in 1 .. MAX_WORKERS /\ handle_shutdown(ws, "fork")
        /\ mem[PortAt(f)] = 0 /\ mem' = [mem EXCEPT ![PidAt(f)] = Forked]
    BY <1>6, <2>0 DEF ShutdownInFork
  <2>2. WorkersOK(ws) /\ DOMAIN ws = 1 .. Len(proc) + 1 /\ \A p \in 1 .. Len(proc) : ws[p] = proc[p]
    BY <1>1, <2>1, Forking, WorkersLength
  <2>3. ASSUME NEW g \in 1 .. MAX_WORKERS, mem'[PortAt(g)] # 0
        PROVE  mem'[PortAt(g)] = mem[PortAt(g)] /\ mem'[PidAt(g)] = mem[PidAt(g)]
    <3>1. PortAt(g) \in Words /\ PidAt(g) \in Words /\ PortAt(g) # PidAt(f)
          /\ (g # f => PidAt(g) # PidAt(f)) /\ mem \in [Words -> Int]
      BY <2>1, TableWords DEF Inv, Memory
    <3>2. mem'[PortAt(g)] = mem[PortAt(g)] /\ g # f
      BY <2>1, <2>3, <3>1
    <3> QED BY <2>1, <3>1, <3>2
  <2>4. DOMAIN proc \subseteq DOMAIN ws /\ \A p \in DOMAIN proc : ws[p].file = proc[p].file
    BY <1>1, <2>2
  <2> QED BY <2>1, <2>2, <2>3, <2>4, TableShut
<1>7. ASSUME WorkerEffect PROVE TableTrue'
  BY <1>1, <1>7, TableKept DEF WorkerEffect
<1>8. ASSUME NEW p \in DOMAIN proc, WorkerStep(p) PROVE TableTrue'
  BY <1>7, <1>8, WorkerStepEffect
<1>9. ASSUME NEW e \in Editors, AtWorkerStep(e) \/ EditorStep(e) PROVE TableTrue'
  <2>1. CASE AtWorkerStep(e) \/ Vanish(e)
    BY <1>7, <2>1, AtWorkerEffect
  <2>2. CASE Start(e) \/ Choose(e) \/ GetPort(e) \/ GetFailed(e)
    BY <1>2, <2>2 DEF Start, Choose, GetOk, GetPort, GetFailed, Answers
  <2> QED BY <1>9, <2>1, <2>2 DEF EditorStep
<1>10. CASE UNCHANGED vars
  BY <1>2, <1>10 DEF vars
<1> QED BY <1>3, <1>4, <1>5, <1>6, <1>8, <1>9, <1>10, <1>11 DEF Next, ServerStep

\* The port that the server has for a file is that of a worker forked for this file,
\* and no worker is forked that it does not know, while user ids fit into clients and
\* file ids into workers (get_worker, handle_msg, handle_shutdown).
THEOREM TableTrueTheorem ==
  ASSUME Layout PROVE Spec => []TableTrue
<1>1. Init => TableTrue
  <2> SUFFICES ASSUME Init PROVE TableTrue
    OBVIOUS
  <2>1. proc = << >> /\ \A f \in 1 .. MAX_WORKERS : mem[PortAt(f)] = 0
    <3>1. ASSUME NEW f \in 1 .. MAX_WORKERS PROVE PortAt(f) \in Words /\ PortAt(f) # SocatAt
      <4>1. f \in Nat /\ f <= MAX_WORKERS /\ MAX_WORKERS \in Nat /\ Workers \in Nat
        BY ServerAssumption
      <4> QED BY <4>1, TableWords DEF PortAt, SocatAt
    <3> QED BY <3>1 DEF Init
  <2> QED BY <2>1 DEF TableTrue
<1>2. Inv /\ TableTrue /\ [Next]_vars => TableTrue'
  BY TableStep
<1> QED BY <1>1, <1>2, InvTheorem, PTL DEF Spec

-----------------------------------------------------------------------------
(***************************************************************************)
(* Logins.  A user's id is the number of the line of his account, or, when *)
(* he has registered, of a line that is nobody else's.  So no QUIT but his *)
(* own clears the word of an id; what is read from freed memory must not   *)
(* happen to be an account.                                                *)
(***************************************************************************)
Genuine == \A e \in Editors : account[e] \notin {Scrap, NoAccount}

\* u is no id, or an id that is not another's.
Owned(e, u) ==
  u = 0 \/ (u \in 1 .. Len(users.lines) /\ users.lines[u] \in {account[e], Scrap, NoAccount})

\* u is the id of the user at e, and he is logged in.
Mine(e, u) == u \in 1 .. Len(users.lines) /\ users.lines[u] = account[e] /\ mem[u] # 0

LoginOf(e) ==
  /\ Owned(e, editor[e].uid)
  /\ down[e] # << >> /\ Head(down[e]).type = "MSG_OK" =>
       Owned(e, Head(down[e]).user_id) /\ (Alone(e) => Mine(e, Head(down[e]).user_id))
  /\ Alone(e) /\ up[e] # << >> /\ Head(up[e]).type \notin {"LOGIN", "REGISTER", "QUIT"} =>
       Mine(e, editor[e].uid)
  /\ Alone(e) /\ Deleting /\ main.e = e => Mine(e, editor[e].uid)

Logins == \A e \in Editors : LoginOf(e)

\* An editor's login stays his while nothing is said to him or by him.
LEMMA LoginKept ==
  ASSUME NEW e \in Editors, LoginOf(e),
         \A u : Owned(e, u) => Owned(e, u)',
         \A u : Alone(e) /\ Mine(e, u) => Mine(e, u)',
         up'[e] = up[e] \/ up'[e] = << >>, down'[e] = down[e],
         editor'[e].uid = editor[e].uid,
         Deleting' /\ main'.e = e => Deleting /\ main.e = e
  PROVE  LoginOf(e)'
  BY DEF LoginOf, Alone

\* Words and lines stay what they are.
LEMMA IdsKept ==
  ASSUME UNCHANGED <<users, mem>>, NEW e
  PROVE  (\A u : Owned(e, u) => Owned(e, u)') /\ (\A u : Mine(e, u) => Mine(e, u)')
  BY DEF Owned, Mine

\* What is written to a word is not 0, so nobody is logged out by it.
LEMMA IdsWritten ==
  ASSUME UsersOK, UNCHANGED users, \A w \in UserIds : mem'[w] = mem[w] \/ mem'[w] # 0, NEW e
  PROVE  (\A u : Owned(e, u) => Owned(e, u)') /\ (\A u : Mine(e, u) => Mine(e, u)')
<1>1. Len(users.lines) \in Nat /\ Len(users.lines) <= MaxUsers
  BY LenProperties DEF UsersOK, Texts
<1>2. MaxUsers \in Nat
  BY ServerAssumption DEF Words, SocatAt
<1>3. \A u \in 1 .. Len(users.lines) : u \in UserIds
  BY <1>1, <1>2 DEF UserIds
<1> QED BY <1>3 DEF Owned, Mine

\* Nor is anybody by a new account.
LEMMA IdsRegistered ==
  ASSUME UNCHANGED mem,
         \A i \in 1 .. Len(users.lines) :
           i \in 1 .. Len(users'.lines) /\ users'.lines[i] = users.lines[i],
         NEW e
  PROVE  (\A u : Owned(e, u) => Owned(e, u)') /\ (\A u : Mine(e, u) => Mine(e, u)')
  BY DEF Owned, Mine

\* An answer is there instead of the question, and nothing else has changed.
LEMMA SendExact ==
  ASSUME Talks, NEW e \in Editors, up[e] # << >>, NEW m, Send(e, m)
  PROVE  /\ up'[e] = << >> /\ Head(down'[e]) = m
         /\ \A x \in Editors \ {e} : up'[x] = up[x] /\ down'[x] = down[x]
<1>1. up' = [up EXCEPT ![e] = << >>] /\ down' = [down EXCEPT ![e] = <<m>>]
  BY HeadOf, OneMessage DEF Send, Take, Talks
<1>2. up'[e] = << >> /\ down'[e] = <<m>>
  BY <1>1 DEF Talks
<1> QED BY <1>1, <1>2, OneMessage DEF Talks

\* A handler that answers e with m and deletes nothing.
LEMMA LoginAnswered ==
  ASSUME Talks, Logins, UNCHANGED editor, ~Deleting', NEW e \in Editors, up[e] # << >>, NEW m,
         Send(e, m) \/ (Take(e) /\ UNCHANGED down),
         \A x \in Editors : \A u : Owned(x, u) => Owned(x, u)',
         \A x \in Editors : \A u : Mine(x, u) => Mine(x, u)',
         m.type = "MSG_OK" => Owned(e, m.user_id)' /\ (Alone(e) => Mine(e, m.user_id)')
  PROVE  Logins'
<1>1. CASE Take(e) /\ UNCHANGED down
  <2>1. \A x \in Editors : up'[x] = up[x] \/ up'[x] = << >>
    BY <1>1, TakeAll DEF Talks
  <2> QED BY <1>1, <2>1, LoginKept DEF Logins
<1>2. CASE Send(e, m)
  <2>1. /\ up'[e] = << >> /\ Head(down'[e]) = m
        /\ \A x \in Editors \ {e} : up'[x] = up[x] /\ down'[x] = down[x]
    BY <1>2, SendExact
  <2>2. ASSUME NEW x \in Editors, x # e PROVE LoginOf(x)'
    BY <2>1, <2>2, LoginKept DEF Logins
  <2>3. LoginOf(e)'
    BY <2>1 DEF Logins, LoginOf, Alone
  <2> QED BY <2>2, <2>3 DEF Logins
<1> QED BY <1>1, <1>2

\* A step that deletes nothing new and says nothing to an editor.
LEMMA LoginsKept ==
  ASSUME Logins,
         \A x \in Editors : \A u : Owned(x, u) => Owned(x, u)',
         \A x \in Editors : \A u : Mine(x, u) => Mine(x, u)',
         \A x \in Editors : up'[x] = up[x] \/ up'[x] = << >>,
         UNCHANGED down, \A x \in Editors : editor'[x].uid = editor[x].uid,
         Deleting' => Deleting /\ main'.e = main.e
  PROVE  Logins'
<1>1. ASSUME NEW x \in Editors PROVE LoginOf(x)'
  <2>1. LoginOf(x)
    BY DEF Logins
  <2> QED BY <2>1, LoginKept
<1> QED BY <1>1 DEF Logins

\* QUIT clears the word of its sender, which is nobody else's.
LEMMA LoginsQuit ==
  ASSUME Genuine, Inv, Logins, NEW e \in Editors, Quit(e) PROVE Logins'
<1> PICK q : q = Head(up[e]).user_id
  OBVIOUS
<1>1. /\ ~Deleting /\ up[e] # << >> /\ q = editor[e].uid /\ q \in UserIds
      /\ mem' = [mem EXCEPT ![q] = 0] /\ UNCHANGED <<users, main, down, editor>>
      /\ up' = [up EXCEPT ![e] = << >>]
  BY BringsFacts, SendableFields DEF Quit, close_socket, store, Inv, EditorsOK
<1>2. /\ Len(users.lines) \in Nat /\ Len(users.lines) <= MaxUsers /\ MaxUsers \in Nat
      /\ UserIds \subseteq Words /\ mem \in [Words -> Int] /\ ~Deleting'
  <2>1. Len(users.lines) \in Nat /\ Len(users.lines) <= MaxUsers
    BY LenProperties DEF Inv, UsersOK, Texts
  <2>2. MaxUsers \in Nat
    BY ServerAssumption DEF Words, SocatAt
  <2> QED BY <1>1, <2>1, <2>2, UserWords DEF Inv, Memory, Deleting
<1>3. Owned(e, q)
  BY <1>1 DEF Logins, LoginOf
<1>4. \A x \in Editors : \A u : Owned(x, u) => Owned(x, u)'
  BY <1>1 DEF Owned
<1>5. ASSUME NEW x \in Editors, x # e PROVE LoginOf(x)'
  <2>1. ASSUME Alone(x), NEW u, Mine(x, u) PROVE Mine(x, u)'
    <3>1. account[x] \notin {account[e], Scrap, NoAccount}
      BY <1>5, <2>1 DEF Alone, Genuine
    <3>2. u \in 1 .. Len(users.lines) /\ users.lines[u] = account[x] /\ mem[u] # 0
      BY <2>1 DEF Mine
    <3>3. u # q
      BY <1>2, <1>3, <3>1, <3>2 DEF Owned
    <3>4. u \in Words
      BY <1>2, <3>2 DEF UserIds
    <3>5. mem'[u] = mem[u] /\ users' = users
      BY <1>1, <1>2, <3>3, <3>4
    <3> QED BY <3>2, <3>5 DEF Mine
  <2>2. LoginOf(x) /\ up'[x] = up[x]
    BY <1>1, <1>5 DEF Logins, Inv, Talks
  <2> QED BY <1>1, <1>2, <1>4, <2>1, <2>2, LoginKept
<1>6. LoginOf(e)'
  <2>1. up'[e] = << >> /\ down'[e] = << >>
    BY <1>1, HeadOf DEF Inv, Talks
  <2> QED BY <1>1, <1>2, <1>3, <1>4, <2>1 DEF LoginOf
<1> QED BY <1>5, <1>6 DEF Logins

\* The answer to LOGIN is for its sender, whose word is set.
LEMMA LoginsLogin ==
  ASSUME Inv, Logins, NEW e \in Editors, Login(e) PROVE Logins'
<1> PICK u : u = validate_user(users, Head(up[e]).arg)
  OBVIOUS
<1>1. /\ ~Deleting /\ main.at = "poll" /\ up[e] # << >> /\ Head(up[e]).arg = account[e]
      /\ UNCHANGED <<users, editor>> /\ Talks /\ UsersOK /\ mem \in [Words -> Int]
  <2>1. Brings(e, "LOGIN") /\ UNCHANGED <<users, editor>>
    BY DEF Login, store
  <2>2. Head(up[e]) = Opening(e) /\ Opening(e).arg = account[e]
    BY <2>1, BringsFacts, SendableFields
  <2> QED BY <2>1, <2>2, BringsFacts DEF Inv, Memory
<1>2. CASE u >= 0
  <2>1. /\ u \in 1 .. Len(users.lines) /\ users.lines[u] = account[e] /\ u \in UserIds
        /\ mem' = [mem EXCEPT ![u] = 1] /\ SendList(e, u)
    BY <1>1, <1>2, Validated DEF Login
  <2>2. u \in Words /\ mem'[u] = 1 /\ \A w \in UserIds : mem'[w] = mem[w] \/ mem'[w] # 0
    BY <1>1, <2>1, UserWords
  <2>3. /\ \A x \in Editors : \A v : Owned(x, v) => Owned(x, v)'
        /\ \A x \in Editors : \A v : Mine(x, v) => Mine(x, v)'
    BY <1>1, <2>2, IdsWritten
  <2>4. Owned(e, u)' /\ Mine(e, u)'
    BY <1>1, <2>1, <2>2 DEF Owned, Mine
  <2>5. ~Deleting'
    BY <1>1, <2>1 DEF SendList, Deleting, Stages, Inv, MainOK, Idle
  <2> PICK m : m = Msg("MSG_OK", u, NULL)
    OBVIOUS
  <2>6. m.user_id = u /\ (Send(e, m) \/ (Take(e) /\ UNCHANGED down))
    BY <2>1 DEF SendList, Msg
  <2> QED BY <1>1, <2>3, <2>4, <2>5, <2>6, LoginAnswered
<1>3. CASE ~(u >= 0)
  <2>1. Send(e, Failed) /\ UNCHANGED <<users, mem, main>> /\ Failed.type # "MSG_OK"
    BY <1>1, <1>3 DEF Login, Failed, Msg
  <2>2. ~Deleting'
    BY <1>1, <2>1 DEF Deleting
  <2> QED BY <1>1, <2>1, <2>2, IdsKept, LoginAnswered
<1> QED BY <1>2, <1>3

\* The answer to REGISTER has the number of a new line, and others keep theirs.
LEMMA LoginsRegister ==
  ASSUME Inv, Logins, NEW e \in Editors, Register(e) PROVE Logins'
<1>1. /\ ~Deleting /\ main.at = "poll" /\ up[e] # << >> /\ Head(up[e]).arg = account[e]
      /\ e \in Registers
      /\ UNCHANGED <<mem, editor>> /\ Talks /\ UsersOK
  <2>1. Head(up[e]) = Opening(e) /\ Head(up[e]).type = "REGISTER"
    BY BringsFacts, SendableFields DEF Register
  <2>2. e \in Registers
    BY <2>1 DEF Opening, Msg
  <2> QED BY <2>1, <2>2, BringsFacts, SendableFields DEF Register, Inv
<1>2. AfterFree(account[e]) = {account[e], Scrap} /\ account[e] \in Accounts /\ Scrap \in Accounts
  BY DEF AfterFree, Accounts
<1>3. PICK a \in {account[e], Scrap} :
        \/ Send(e, Failed) /\ UNCHANGED <<users, main>>
        \/ /\ Len(validate_register(users, a).lines) <= MaxUsers
           /\ users' = validate_register(users, a)
           /\ SendList(e, RegisteredId(users))
  BY <1>1, <1>2 DEF Register
<1>4. CASE Send(e, Failed) /\ UNCHANGED <<users, main>>
  <2>1. ~Deleting' /\ Failed.type # "MSG_OK"
    BY <1>1, <1>4 DEF Deleting, Failed, Msg
  <2> QED BY <1>1, <1>4, <2>1, IdsKept, LoginAnswered
<1>5. CASE /\ Len(validate_register(users, a).lines) <= MaxUsers
           /\ users' = validate_register(users, a)
           /\ SendList(e, RegisteredId(users))
  <2> PICK u, m : u = RegisteredId(users) /\ m = Msg("MSG_OK", u, NULL)
    OBVIOUS
  <2>1. /\ u \in 1 .. Len(users'.lines) /\ users'.lines[u] \in {a, NoAccount}
        /\ \A i \in 1 .. Len(users.lines) :
             i \in 1 .. Len(users'.lines) /\ users'.lines[i] = users.lines[i]
    BY <1>1, <1>2, <1>5, Registering
  <2>2. /\ \A x \in Editors : \A v : Owned(x, v) => Owned(x, v)'
        /\ \A x \in Editors : \A v : Mine(x, v) => Mine(x, v)'
    BY <1>1, <2>1, IdsRegistered
  <2>3. Owned(e, u)' /\ ~Alone(e)
    BY <1>1, <2>1 DEF Owned, Alone
  <2>4. ~Deleting'
    BY <1>1, <1>5 DEF SendList, Deleting, Stages, Inv, MainOK, Idle
  <2>5. m.user_id = u /\ (Send(e, m) \/ (Take(e) /\ UNCHANGED down))
    BY <1>5 DEF SendList, Msg
  <2> QED BY <1>1, <2>2, <2>3, <2>4, <2>5, LoginAnswered
<1> QED BY <1>3, <1>4, <1>5

\* FILE_REQUEST may write the words of a user whose id is greater than clients, but
\* what it writes logs nobody out.
LEMMA LoginsFileRequest ==
  ASSUME Inv, Logins, NEW e \in Editors, FileRequest(e) PROVE Logins'
<1> PICK f : f = Head(up[e]).arg
  OBVIOUS
<1>1. /\ f \in FileIds /\ ~Deleting /\ up[e] # << >> /\ Talks /\ UsersOK
      /\ mem \in [Words -> Int] /\ UNCHANGED <<users, main, editor>>
  BY BringsFacts, SendableFields DEF FileRequest, store, Inv, Memory
<1>2. \A w \in UserIds : mem'[w] = mem[w] \/ mem'[w] # 0
  <2>1. CASE UNCHANGED mem
    BY <2>1
  <2>2. CASE mem' = [mem EXCEPT ![PidAt(f)] = Forked, ![PortAt(f)] = Forked]
    <3>1. Forked \in Nat \ {0}
      BY WorkersLength DEF Inv, Forked
    <3>2. \A w \in Words : mem'[w] \in {mem[w], Forked}
      BY <1>1, <2>2
    <3> QED BY <3>1, <3>2, UserWords
  <2> QED BY <2>1, <2>2 DEF FileRequest
<1>3. \E p : Send(e, Msg("FILE_RESPONSE", -1, p))
  BY DEF FileRequest
<1> PICK p, m : m = Msg("FILE_RESPONSE", -1, p) /\ Send(e, m)
  BY <1>3
<1>4. m.type # "MSG_OK" /\ ~Deleting'
  BY <1>1 DEF Msg, Deleting
<1> QED BY <1>1, <1>2, <1>4, IdsWritten, LoginAnswered

\* Who asks for a new file is logged in, and its answer has his id.
LEMMA LoginsCreate ==
  ASSUME Inv, Logins, NEW e \in Editors, CreateFile(e) PROVE Logins'
<1>1. /\ ~Deleting /\ up[e] # << >> /\ Head(up[e]).type = "CREATE_FILE"
      /\ Head(up[e]).user_id = editor[e].uid
      /\ UNCHANGED <<users, mem, editor>> /\ Talks
  <2>1. Brings(e, "CREATE_FILE") /\ UNCHANGED <<users, mem, editor>>
    BY DEF CreateFile
  <2> QED BY <2>1, BringsFacts, SendableFields DEF Inv
<1>2. Owned(e, editor[e].uid) /\ (Alone(e) => Mine(e, editor[e].uid))
  BY <1>1 DEF Logins, LoginOf
<1>3. /\ \A x \in Editors : \A v : Owned(x, v) => Owned(x, v)'
      /\ \A x \in Editors : \A v : Mine(x, v) => Mine(x, v)'
  BY <1>1, IdsKept
<1>4. ~Deleting'
  BY <1>1 DEF CreateFile, Brings, Deleting, Stages, Inv, MainOK, Idle
<1>5. PICK m : /\ m \in {Failed, Msg("MSG_OK", editor[e].uid, NULL)}
               /\ Send(e, m) \/ (Take(e) /\ UNCHANGED down)
  BY <1>1 DEF CreateFile
<1>6. m.type = "MSG_OK" => m.user_id = editor[e].uid
  BY <1>5 DEF Failed, Msg
<1>7. m.type = "MSG_OK" => Owned(e, m.user_id)' /\ (Alone(e) => Mine(e, m.user_id)')
  BY <1>2, <1>3, <1>6
<1> QED BY <1>1, <1>3, <1>4, <1>5, <1>7, LoginAnswered

\* Who asks for a delete is logged in until it is done.
LEMMA LoginsDelete ==
  ASSUME Inv, Logins, NEW e \in Editors, DeleteFile(e) PROVE Logins'
<1>1. /\ ~Deleting /\ up[e] # << >> /\ Head(up[e]).type = "DELETE_FILE"
      /\ UNCHANGED <<users, mem, editor, down>> /\ up' = [up EXCEPT ![e] = << >>]
      /\ main.at = "poll" /\ Talks
  <2>1. Brings(e, "DELETE_FILE") /\ UNCHANGED <<users, mem, editor, down>> /\ Take(e)
    BY DEF DeleteFile
  <2> QED BY <2>1, BringsFacts, TakeAll DEF Inv
<1>2. Deleting' => main'.e = e
  BY <1>1 DEF DeleteFile, Brings, Deleting, Stages, Inv, MainOK, Idle
<1>3. /\ \A x \in Editors : \A v : Owned(x, v) => Owned(x, v)'
      /\ \A x \in Editors : \A v : Mine(x, v) => Mine(x, v)'
  BY <1>1, IdsKept
<1>4. ASSUME NEW x \in Editors, x # e PROVE LoginOf(x)'
  <2>1. LoginOf(x) /\ up'[x] = up[x]
    BY <1>1, <1>4 DEF Logins, Talks
  <2> QED BY <1>1, <1>2, <1>3, <1>4, <2>1, LoginKept
<1>5. LoginOf(e)'
  <2>1. up'[e] = << >> /\ down'[e] = << >>
    BY <1>1, HeadOf DEF Talks
  <2>2. LoginOf(e)
    BY DEF Logins
  <2>3. Alone(e) => Mine(e, editor[e].uid)
    BY <1>1, <2>2 DEF LoginOf
  <2> QED BY <1>1, <1>3, <2>1, <2>2, <2>3 DEF LoginOf, Alone
<1> QED BY <1>4, <1>5 DEF Logins

\* Each step of the poll loop for one connection keeps the logins.
LEMMA LoginsHandle ==
  ASSUME Genuine, Inv, Logins, NEW e \in Editors, Handle(e) PROVE Logins'
<1>1. ASSUME UNCHANGED <<users, mem, down, editor>>, main.at = "poll",
             main'.at \in {"poll", "crashed"},
             UNCHANGED up \/ up' = [up EXCEPT ![e] = << >>]
      PROVE  Logins'
  <2>1. \A x \in Editors : up'[x] = up[x] \/ up'[x] = << >>
    BY <1>1 DEF Inv, Talks
  <2> QED BY <1>1, <2>1, IdsKept, LoginsKept DEF Deleting, Stages
<1>2. CASE Accept(e)
  BY <1>1, <1>2 DEF Accept, store
<1>3. CASE HangUp(e) \/ NotLoggedIn(e)
  BY <1>1, <1>3 DEF HangUp, NotLoggedIn, close_socket, store
<1>4. CASE MainFaults(e)
  <2>1. main.at = "poll"
    BY <1>4 DEF MainFaults, Brings
  <2>2. main'.at = "crashed"
    BY <1>4 DEF MainFaults, Inv, MainOK, Idle
  <2> QED BY <1>1, <1>4, <2>1, <2>2 DEF MainFaults, store, net
<1> QED BY <1>2, <1>3, <1>4, LoginsLogin, LoginsRegister, LoginsFileRequest, LoginsCreate,
           LoginsDelete, LoginsQuit DEF Handle

\* deleteFile answers the user who asked, and changes no login.
LEMMA LoginsDeleteStep ==
  ASSUME Inv, Logins, DeleteStep PROVE Logins'
<1>1. /\ Deleting /\ UNCHANGED <<users, mem, up, editor>>
      /\ \A x \in Editors : \A v : Owned(x, v) => Owned(x, v)'
      /\ \A x \in Editors : \A v : Mine(x, v) => Mine(x, v)'
  <2>1. Deleting /\ UNCHANGED <<users, mem, up, editor>>
    BY DEF DeleteStep, DeleteReopen, DeleteLock, DeleteUnlock, DeleteRewrite, DeleteAnswer, Deletes, Deleting,
           Stages, net
  <2> QED BY <2>1, IdsKept
<1>2. CASE DeleteReopen \/ DeleteLock \/ DeleteUnlock \/ DeleteRewrite
  <2>1. UNCHANGED down /\ main'.e = main.e
    BY <1>2 DEF DeleteReopen, DeleteLock, DeleteUnlock, DeleteRewrite, Deletes, net, Inv, MainOK, Idle
  <2> QED BY <1>1, <2>1, LoginsKept
<1>3. CASE DeleteAnswer
  <2>1. PICK m : /\ m \in {Msg("MSG_OK", editor[main.e].uid, NULL), Failed}
                 /\ down' = [down EXCEPT ![main.e] = Append(@, m)]
    BY <1>3 DEF DeleteAnswer
  <2>2. ~Deleting'
    BY <1>3 DEF DeleteAnswer, Deleting, Idle, Stages
  <2>3. ASSUME NEW x \in Editors, x # main.e PROVE LoginOf(x)'
    <3>1. LoginOf(x) /\ down'[x] = down[x]
      BY <2>1, <2>3 DEF Logins, Inv, Talks
    <3> QED BY <1>1, <2>2, <3>1, LoginKept
  <2>4. ASSUME NEW x \in Editors, x = main.e PROVE LoginOf(x)'
    <3>1. /\ Owned(x, editor[x].uid) /\ (Alone(x) => Mine(x, editor[x].uid))
          /\ up[x] = << >> /\ down[x] = << >>
      BY <1>1, <2>4 DEF Logins, LoginOf, Inv, Talks, Talk
    <3>2. down'[x] = <<m>> /\ Head(<<m>>) = m
      BY <2>1, <2>4, <3>1, OneMessage DEF Inv, Talks
    <3>3. m.type = "MSG_OK" => m.user_id = editor[x].uid
      BY <2>1, <2>4 DEF Failed, Msg
    <3> QED BY <1>1, <2>2, <3>1, <3>2, <3>3 DEF LoginOf, Alone
  <2> QED BY <2>3, <2>4 DEF Logins
<1> QED BY <1>2, <1>3 DEF DeleteStep

\* SIGINT logs nobody out.
LEMMA LoginsShutdown ==
  ASSUME Inv, Logins,
         Shutdown \/ ShutdownInDelete \/ ExitServer \/ \E e \in Editors : ShutdownInFork(e)
  PROVE  Logins'
<1>1. /\ UNCHANGED <<users, up, down, editor>> /\ ~Deleting'
  BY DEF Shutdown, ShutdownInDelete, ShutdownInFork, ExitServer, handle_shutdown, Deleting, Stages, store,
         net, Inv, MainOK, Idle
<1>2. \A w \in UserIds : mem'[w] = mem[w] \/ mem'[w] # 0
  <2>1. CASE Shutdown \/ ShutdownInDelete \/ ExitServer
    BY <2>1 DEF Shutdown, ShutdownInDelete, ExitServer
  <2>2. ASSUME NEW e \in Editors, ShutdownInFork(e)
        PROVE  \A w \in UserIds : mem'[w] = mem[w] \/ mem'[w] # 0
    <3> PICK f : f = Head(up[e]).arg
      OBVIOUS
    <3>1. mem' = [mem EXCEPT ![PidAt(f)] = Forked]
      BY <2>2 DEF ShutdownInFork
    <3>2. Forked \in Nat \ {0}
      BY WorkersLength DEF Inv, Forked
    <3>3. \A w \in Words : mem'[w] \in {mem[w], Forked}
      BY <3>1 DEF Inv, Memory
    <3> QED BY <3>2, <3>3, UserWords
  <2> QED BY <2>1, <2>2
<1> QED BY <1>1, <1>2, IdsWritten, LoginsKept DEF Inv

\* An editor takes its id from the answer, and sends what it asks for with it.
LEMMA LoginsEditor ==
  ASSUME Inv, Logins, NEW e \in Editors,
         Start(e) \/ Choose(e) \/ GetPort(e) \/ GetFailed(e)
  PROVE  Logins'
<1>1. /\ UNCHANGED <<users, main, mem>>
      /\ \A x \in Editors : \A v : Owned(x, v) => Owned(x, v)'
      /\ \A x \in Editors : \A v : Mine(x, v) => Mine(x, v)'
      /\ \A x \in Editors \ {e} : up'[x] = up[x] /\ down'[x] = down[x] /\ editor'[x] = editor[x]
  <2>1. UNCHANGED <<users, main, mem>>
    BY DEF Start, Choose, GetOk, GetPort, GetFailed, Answers, store
  <2>2. \A x \in Editors \ {e} : up'[x] = up[x] /\ down'[x] = down[x] /\ editor'[x] = editor[x]
    BY DEF Start, Choose, GetOk, GetPort, GetFailed, Answers, Editing, Inv, Talks, EditorsOK
  <2> QED BY <2>1, <2>2, IdsKept
<1>2. ASSUME NEW x \in Editors, x # e PROVE LoginOf(x)'
  BY <1>1, <1>2, LoginKept DEF Logins, Deleting
<1>3. ASSUME NEW t, NEW m, Answers(e, t, m)
      PROVE  /\ up'[e] = <<m>> /\ down'[e] = << >> /\ Head(up'[e]) = m
             /\ ~(Deleting /\ main.e = e) /\ Head(down[e]).type = t /\ down[e] # << >>
  <2>1. PICK r : down[e] = <<r>> /\ up[e] = << >> /\ ~(Deleting /\ main.e = e)
    BY <1>3 DEF Answers, Inv, Talks, Talk
  <2>2. Tail(down[e]) = << >> /\ Append(up[e], m) = <<m>> /\ Head(<<m>>) = m
    BY <2>1, OneMessage
  <2> QED BY <1>3, <2>1, <2>2 DEF Answers, Inv, Talks
<1>4. LoginOf(e)
  BY DEF Logins
<1>5. ASSUME Start(e) PROVE LoginOf(e)'
  <2>1. /\ up[e] = << >> /\ down[e] = << >> /\ ~(Deleting /\ main.e = e)
    BY <1>5 DEF Start, Inv, Talks, Talk
  <2> PICK m : m = Msg(IF e \in Registers THEN "REGISTER" ELSE "LOGIN", -1, account[e])
    OBVIOUS
  <2>2. /\ up' = [up EXCEPT ![e] = <<m>>] /\ UNCHANGED down
        /\ m.type \in {"LOGIN", "REGISTER"}
    BY <1>5 DEF Start, Msg
  <2>3. up'[e] = <<m>> /\ Head(up'[e]) = m /\ down'[e] = << >>
    BY <2>1, <2>2, OneMessage DEF Inv, Talks
  <2>4. editor'[e].uid = editor[e].uid
    BY <1>5, EditingKept DEF Start, SameEditors, Inv
  <2> QED BY <1>1, <1>4, <2>1, <2>2, <2>3, <2>4 DEF LoginOf, Alone, Deleting
<1>6. ASSUME Choose(e) PROVE LoginOf(e)'
  <2> PICK u : u = Head(down[e]).user_id
    OBVIOUS
  <2>1. PICK m : /\ Answers(e, "MSG_OK", m)
                 /\ editor' = [editor EXCEPT ![e].uid = u]
    BY <1>6 DEF Choose, GetOk
  <2>2. editor'[e].uid = u
    BY <2>1 DEF Inv, EditorsOK
  <2>3. Owned(e, u) /\ (Alone(e) => Mine(e, u))
    BY <1>3, <1>4, <2>1 DEF LoginOf
  <2> QED BY <1>1, <1>3, <2>1, <2>2, <2>3 DEF LoginOf, Alone, Deleting
<1>7. ASSUME GetPort(e) \/ GetFailed(e) PROVE LoginOf(e)'
  <2>1. PICK t, m : Answers(e, t, m) /\ m.type = "QUIT"
    BY <1>7 DEF GetPort, GetFailed, Msg
  <2>2. editor'[e].uid = editor[e].uid
    BY <1>7 DEF GetPort, GetFailed, Editing, Inv, EditorsOK
  <2> QED BY <1>1, <1>3, <1>4, <2>1, <2>2 DEF LoginOf, Alone, Deleting
<1>8. LoginOf(e)'
  BY <1>5, <1>6, <1>7
<1> QED BY <1>2, <1>8 DEF Logins

\* Every step keeps the logins.
LEMMA LoginsStep ==
  ASSUME Genuine PROVE Inv /\ Logins /\ [Next]_vars => Logins'
<1> SUFFICES ASSUME Inv, Logins, [Next]_vars PROVE Logins'
  OBVIOUS
<1>1. ASSUME WorkerEffect PROVE Logins'
  <2>1. \A x \in Editors : editor'[x].uid = editor[x].uid
    BY <1>1 DEF WorkerEffect, SameEditors
  <2> QED BY <1>1, <2>1, IdsKept, LoginsKept DEF WorkerEffect, Deleting
<1>2. CASE ServerStep
  BY <1>2, LoginsHandle, LoginsDeleteStep, LoginsShutdown DEF ServerStep
<1>3. ASSUME NEW p \in DOMAIN proc, WorkerStep(p) PROVE Logins'
  BY <1>1, <1>3, WorkerStepEffect
<1>4. ASSUME NEW e \in Editors, AtWorkerStep(e) \/ EditorStep(e) PROVE Logins'
  BY <1>1, <1>4, AtWorkerEffect, LoginsEditor DEF EditorStep
<1>5. CASE UNCHANGED vars
  <2>1. UNCHANGED <<users, main, mem, up, down, editor>>
    BY <1>5 DEF vars, store, net
  <2> QED BY <2>1, IdsKept, LoginsKept DEF Deleting
<1> QED BY <1>2, <1>3, <1>4, <1>5 DEF Next

\* Whoever asks for something is logged in, whatever the other users ask for, register
\* and leave, if he is at one editor only (logged_in, QUIT in handle_msg).
THEOREM NobodyShutOutTheorem ==
  ASSUME Genuine PROVE Spec => []NobodyShutOut
<1>1. Init => Logins
  <2> SUFFICES ASSUME Init PROVE Logins
    OBVIOUS
  <2>1. \A e \in Editors : up[e] = << >> /\ down[e] = << >> /\ editor[e].uid = 0 /\ ~Deleting
    BY DEF Init, Deleting, Idle, Stages
  <2> QED BY <2>1 DEF Logins, LoginOf, Owned
<1>2. Inv /\ Logins /\ [Next]_vars => Logins'
  BY LoginsStep
<1>3. Inv /\ Logins => NobodyShutOut
  <2> SUFFICES ASSUME Inv, Logins, NEW e \in Editors, Alone(e), up[e] # << >>,
                      Head(up[e]).type \in Requests
               PROVE  mem[Head(up[e]).user_id] # 0
    BY DEF NobodyShutOut
  <2>1. Head(up[e]).type \notin {"LOGIN", "REGISTER", "QUIT"}
    BY ServerAssumption
  <2>2. Head(up[e]).user_id = editor[e].uid
    BY <2>1, HeadOf, SendableFields DEF Inv
  <2>3. Mine(e, editor[e].uid)
    BY <2>1 DEF Logins, LoginOf
  <2> QED BY <2>2, <2>3 DEF Mine
<1> QED BY <1>1, <1>2, <1>3, InvTheorem, PTL DEF Spec
=============================================================================
