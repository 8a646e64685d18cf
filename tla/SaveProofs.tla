----------------------------- MODULE SaveProofs -----------------------------
(***************************************************************************)
(* SIGINT saves what was edited: it reaches every worker that somebody     *)
(* knows of, and nobody writes to the file afterwards but the worker whose *)
(* name it is.                                                             *)
(***************************************************************************)
EXTENDS StoreProofs

-----------------------------------------------------------------------------
(***************************************************************************)
(* Who knows of a worker.                                                  *)
(***************************************************************************)
\* An editor knows the worker that it is at, and the one it is being told of.
IsTold(ms, p) == ms # << >> /\ Head(ms).type = "FILE_RESPONSE" /\ Head(ms).arg = p
Known(e, p)  == editor[e].port = p \/ IsTold(down[e], p)

\* It learns of those that are there, and not once the server is being shut down.
Learns(e) ==
  \A p : Known(e, p)' => Known(e, p) \/ (p \in 0 .. Len(proc') /\ Open')

\* Who edits is at a worker with a text.
Starts(e) ==
  editor'[e].at = "editing" =>
    /\ editor'[e].port = editor[e].port
    /\ \/ editor[e].at = "editing"
       \/ editor[e].port \in DOMAIN proc /\ proc[editor[e].port].text # NoText

EditorsGo == \A e \in Editors : Learns(e) /\ Starts(e)

LEMMA GoesNowhere ==
  ASSUME UNCHANGED editor, \A e \in Editors : down'[e] = down[e] PROVE EditorsGo
  BY DEF EditorsGo, Learns, Starts, Known

\* A message is sent, or taken.
LEMMA GoesOnSend ==
  ASSUME Talks, NEW e \in Editors, UNCHANGED editor, NEW m, down' = [down EXCEPT ![e] = <<m>>],
         m.type = "FILE_RESPONSE" => m.arg \in 0 .. Len(proc') /\ Open'
  PROVE  EditorsGo
<1>1. \A x \in Editors \ {e} : down'[x] = down[x]
  BY DEF Talks
<1>2. down'[e] = <<m>> /\ Head(<<m>>) = m
  BY OneMessage DEF Talks
<1>3. \A x \in Editors \ {e} : Learns(x)
  BY <1>1 DEF Learns, Known
<1>4. Learns(e)
  BY <1>2 DEF Learns, Known, IsTold
<1> QED BY <1>3, <1>4 DEF EditorsGo, Starts

LEMMA GoesOnEditor ==
  ASSUME Talks, NEW e \in Editors,
         \A x \in Editors \ {e} : editor'[x] = editor[x],
         UNCHANGED down \/ down' = [down EXCEPT ![e] = << >>],
         editor'[e].port = editor[e].port \/ IsTold(down[e], editor'[e].port), Starts(e)
  PROVE  EditorsGo
<1>1. \A x \in Editors \ {e} : down'[x] = down[x] /\ editor'[x] = editor[x]
  BY DEF Talks
<1>2. down'[e] \in {down[e], << >>}
  BY DEF Talks
<1>3. \A x \in Editors \ {e} : Learns(x) /\ Starts(x)
  BY <1>1 DEF Learns, Known, Starts
<1>4. Learns(e)
  BY <1>2 DEF Learns, Known, IsTold
<1> QED BY <1>3, <1>4 DEF EditorsGo

\* An answer takes the place of the request.
LEMMA SendGoes ==
  ASSUME Inv, NEW e \in Editors, up[e] # << >>, NEW m, Send(e, m)
  PROVE  down' = [down EXCEPT ![e] = <<m>>]
  BY HeadOf, OneMessage DEF Send, Talks, Inv

LEMMA OkGoes ==
  ASSUME Inv, NEW e \in Editors, up[e] # << >>, NEW u, SendList(e, u), UNCHANGED editor
  PROVE  EditorsGo
<1>1. CASE held = {}
  <2> PICK m : m = Msg("MSG_OK", u, NULL)
    OBVIOUS
  <2>1. Send(e, m) /\ m.type # "FILE_RESPONSE"
    BY <1>1 DEF SendList, Msg
  <2> QED BY <2>1, SendGoes, GoesOnSend DEF Inv
<1>2. CASE held # {}
  <2>1. UNCHANGED down
    BY <1>2 DEF SendList
  <2> QED BY <2>1, GoesNowhere
<1> QED BY <1>1, <1>2

LEMMA FailedGoes ==
  ASSUME Inv, NEW e \in Editors, up[e] # << >>, UNCHANGED editor, NEW m, Send(e, m),
         m.type # "FILE_RESPONSE"
  PROVE  EditorsGo
  BY SendGoes, GoesOnSend DEF Inv

\* Answers of the server (handle_msg).
LEMMA HandleGoes ==
  ASSUME Layout, Inv, TableTrue, NEW e \in Editors, Handle(e) PROVE EditorsGo
<1>1. CASE Accept(e) \/ HangUp(e) \/ NotLoggedIn(e) \/ Quit(e) \/ MainFaults(e) \/ DeleteFile(e)
  <2>1. UNCHANGED <<editor, down>>
    BY <1>1 DEF Accept, HangUp, NotLoggedIn, Quit, MainFaults, DeleteFile, net
  <2> QED BY <2>1, GoesNowhere
<1>2. Failed.type # "FILE_RESPONSE"
  BY DEF Failed, Msg
<1>3. CASE Login(e)
  <2> PICK u : u = validate_user(users, Head(up[e]).arg)
    OBVIOUS
  <2>1. up[e] # << >> /\ UNCHANGED editor /\ (SendList(e, u) \/ Send(e, Failed))
    BY <1>3 DEF Login, Brings
  <2> QED BY <1>2, <2>1, OkGoes, FailedGoes
<1>4. CASE Register(e)
  <2> PICK u : u = RegisteredId(users)
    OBVIOUS
  <2>1. up[e] # << >> /\ UNCHANGED editor /\ (SendList(e, u) \/ Send(e, Failed))
    BY <1>4 DEF Register, Brings
  <2> QED BY <1>2, <2>1, OkGoes, FailedGoes
<1>5. CASE CreateFile(e)
  <2> PICK m : m = Msg("MSG_OK", Head(up[e]).user_id, NULL)
    OBVIOUS
  <2>1. /\ up[e] # << >> /\ UNCHANGED editor
        /\ UNCHANGED down \/ Send(e, m) \/ Send(e, Failed)
    BY <1>5 DEF CreateFile, Brings
  <2>2. m.type # "FILE_RESPONSE"
    BY DEF Msg
  <2> QED BY <1>2, <2>1, <2>2, FailedGoes, GoesNowhere
<1>6. CASE FileRequest(e)
  <2> PICK f : f = Head(up[e]).arg
    OBVIOUS
  <2>6. f \in 1 .. MAX_WORKERS /\ main.at = "poll" /\ up[e] # << >> /\ UNCHANGED <<editor, main>>
    BY ZenonT(40), <1>6, BringsFacts, SendableFields DEF FileRequest, Layout
  <2>1. f \in 1 .. MAX_WORKERS /\ up[e] # << >> /\ UNCHANGED editor /\ Open'
    BY <2>6 DEF Open
  <2>2. f \in FileIds
    BY <1>6, BringsFacts, SendableFields DEF FileRequest
  <2>3. Len(proc) \in Nat /\ DOMAIN proc = 1 .. Len(proc)
    BY WorkersLength DEF Inv
  <2>4. PICK p : Send(e, Msg("FILE_RESPONSE", -1, p)) /\ p \in 0 .. Len(proc')
    <3>1. CASE mem[PortAt(f)] # 0
      <4>1. mem[PortAt(f)] \in DOMAIN proc
        BY <2>1, <3>1 DEF TableTrue
      <4>2. Send(e, Msg("FILE_RESPONSE", -1, mem[PortAt(f)])) /\ UNCHANGED proc
        BY <1>6, <3>1 DEF FileRequest
      <4> QED BY <2>3, <4>1, <4>2
    <3>2. CASE mem[PortAt(f)] = 0
      <4>1. Send(e, Msg("FILE_RESPONSE", -1, Forked)) /\ proc' = Append(proc, Worker(f))
        BY <1>6, <3>2 DEF FileRequest, Fork
      <4>2. Len(proc') = Len(proc) + 1
        BY <2>2, <4>1, Forking DEF Inv
      <4> QED BY <2>3, <4>1, <4>2 DEF Forked
    <3> QED BY <3>1, <3>2
  <2> PICK m : m = Msg("FILE_RESPONSE", -1, p)
    OBVIOUS
  <2>5. down' = [down EXCEPT ![e] = <<m>>] /\ m.arg = p
    BY <2>1, <2>4, SendGoes DEF Msg
  <2> QED BY <2>1, <2>4, <2>5, GoesOnSend DEF Inv
<1> QED BY <1>1, <1>3, <1>4, <1>5, <1>6 DEF Handle

\* deleteFile answers MSG_OK or MSG_FAILED.
LEMMA DeleteGoes ==
  ASSUME Inv, Stage, DeleteStep PROVE EditorsGo
<1>1. CASE DeleteReopen \/ DeleteLock \/ DeleteUnlock \/ DeleteRewrite
  BY <1>1, GoesNowhere DEF DeleteReopen, DeleteLock, DeleteUnlock, DeleteRewrite, Deletes, net
<1>2. CASE DeleteAnswer
  <2> PICK m : /\ down' = [down EXCEPT ![main.e] = Append(@, m)]
               /\ m = Failed \/ m = Msg("MSG_OK", editor[main.e].uid, NULL)
    BY <1>2 DEF DeleteAnswer
  <2>1. m.type # "FILE_RESPONSE" /\ UNCHANGED editor
    BY <1>2 DEF DeleteAnswer, Failed, Msg
  <2>2. CASE main.e \notin Editors
    <3>1. \A e \in Editors : down'[e] = down[e]
      BY <2>2 DEF Inv, Talks
    <3> QED BY <2>1, <3>1, GoesNowhere
  <2>3. CASE main.e \in Editors
    <3>1. down[main.e] = << >>
      BY <1>2, <2>3 DEF Inv, Talks, Talk, Deleting, Stages, DeleteAnswer
    <3>2. down' = [down EXCEPT ![main.e] = <<m>>]
      BY <3>1, OneMessage
    <3> QED BY <2>1, <2>3, <3>2, GoesOnSend DEF Inv
  <2> QED BY <2>2, <2>3
<1> QED BY <1>1, <1>2 DEF DeleteStep

\* What an editor that asks does (server_loop of the editor).
LEMMA AskGoes ==
  ASSUME Inv, NEW e \in Editors, EditorStep(e) PROVE EditorsGo
<1>1. ASSUME NEW t, NEW m, Answers(e, t, m)
      PROVE  /\ down' = [down EXCEPT ![e] = << >>]
             /\ t = "FILE_RESPONSE" => IsTold(down[e], Head(down[e]).arg)
  <2>1. PICK r : down[e] = <<r>>
    BY <1>1 DEF Answers, Inv, Talks, Talk
  <2>2. Tail(down[e]) = << >>
    BY <2>1, OneMessage
  <2> QED BY <1>1, <2>2 DEF Answers, IsTold
<1>2. CASE Start(e) \/ Vanish(e)
  <2>1. /\ UNCHANGED down /\ editor'[e].port = editor[e].port /\ Starts(e)
        /\ \A x \in Editors \ {e} : editor'[x] = editor[x]
    BY <1>2 DEF Start, Vanish, Editing, net, Inv, EditorsOK, Starts
  <2> QED BY <2>1, GoesOnEditor DEF Inv
<1>3. CASE Choose(e)
  <2>1. PICK t, m : /\ Answers(e, t, m)
                    /\ editor' = [editor EXCEPT ![e].uid = Head(down[e]).user_id]
    BY <1>3 DEF Choose, GetOk
  <2>2. /\ editor'[e].port = editor[e].port /\ Starts(e)
        /\ \A x \in Editors \ {e} : editor'[x] = editor[x]
    BY <2>1 DEF Inv, EditorsOK, Starts
  <2> QED BY <1>1, <2>1, <2>2, GoesOnEditor DEF Inv
<1>4. CASE GetPort(e)
  <2> PICK p : p = Head(down[e]).arg
    OBVIOUS
  <2>1. PICK m : /\ Answers(e, "FILE_RESPONSE", m)
                 /\ editor' = [editor EXCEPT ![e].at = "connecting", ![e].port = p]
    BY <1>4 DEF GetPort
  <2>2. /\ editor'[e].port = p /\ Starts(e)
        /\ \A x \in Editors \ {e} : editor'[x] = editor[x]
    BY <2>1 DEF Inv, EditorsOK, Starts
  <2> QED BY <1>1, <2>1, <2>2, GoesOnEditor DEF Inv
<1>5. CASE GetFailed(e)
  <2>1. PICK m : Answers(e, "MSG_FAILED", m) /\ Editing(e, "left")
    BY <1>5 DEF GetFailed
  <2>2. /\ editor'[e].port = editor[e].port /\ Starts(e)
        /\ \A x \in Editors \ {e} : editor'[x] = editor[x]
    BY <2>1 DEF Inv, EditorsOK, Starts, Editing
  <2> QED BY <1>1, <2>1, <2>2, GoesOnEditor DEF Inv
<1> QED BY <1>2, <1>3, <1>4, <1>5 DEF EditorStep

\* What an editor at its worker does.
LEMMA AtWorkerGoes ==
  ASSUME Inv, NEW e \in Editors, AtWorkerStep(e) PROVE EditorsGo
<1>1. CASE UNCHANGED <<editor, down>>
  BY <1>1, GoesNowhere
<1>2. CASE /\ UNCHANGED down
           /\ \E s : Editing(e, s) /\ (s = "editing" => editor[e].port \in DOMAIN proc
                                                        /\ proc[editor[e].port].text # NoText)
  <2>1. /\ UNCHANGED down /\ editor'[e].port = editor[e].port /\ Starts(e)
        /\ \A x \in Editors \ {e} : editor'[x] = editor[x]
    BY <1>2 DEF Editing, Inv, EditorsOK, Starts
  <2> QED BY <2>1, GoesOnEditor DEF Inv
<1>3. CASE WorkerLogin(e) \/ Lost(e)
  <2>1. UNCHANGED down /\ (Editing(e, "opening") \/ Editing(e, "lost"))
    BY <1>3 DEF WorkerLogin, Lost, net
  <2> QED BY <1>2, <2>1
<1>4. CASE WorkerWaits(e) \/ WorkerLoginFaults(e) \/ Edit(e)
  BY <1>1, <1>4 DEF WorkerWaits, WorkerLoginFaults, Edit, net
<1>5. CASE WorkerFileRequest(e)
  <2>1. CASE proc[editor[e].port].text = NoText
    BY <1>1, <1>5, <2>1 DEF WorkerFileRequest, net
  <2>2. CASE proc[editor[e].port].text # NoText
    <3>1. UNCHANGED down /\ Editing(e, "editing") /\ editor[e].port \in DOMAIN proc
      BY <1>5, <2>2 DEF WorkerFileRequest, AtWorker, net
    <3> QED BY <1>2, <2>2, <3>1
  <2> QED BY <2>1, <2>2
<1> QED BY <1>3, <1>4, <1>5 DEF AtWorkerStep

LEMMA EveryoneGoes ==
  ASSUME Layout, Inv, TableTrue, Stage, [Next]_vars PROVE EditorsGo
<1>1. ASSUME NEW e \in Editors, Handle(e) PROVE EditorsGo
  BY <1>1, HandleGoes
<1>2. CASE DeleteStep
  BY <1>2, DeleteGoes
<1>3. CASE Shutdown \/ ShutdownInDelete \/ ExitServer \/ \E e \in Editors : ShutdownInFork(e)
  BY <1>3, GoesNowhere DEF Shutdown, ShutdownInDelete, ExitServer, ShutdownInFork, net
<1>4. ASSUME NEW p \in DOMAIN proc, WorkerStep(p) PROVE EditorsGo
  BY <1>4, GoesNowhere DEF WorkerStep, Load, Save, Exit, NoList, Fault, net
<1>5. ASSUME NEW e \in Editors, AtWorkerStep(e) \/ EditorStep(e) PROVE EditorsGo
  BY <1>5, AtWorkerGoes, AskGoes
<1>6. CASE UNCHANGED vars
  BY <1>6, GoesNowhere DEF vars, net
<1> QED BY <1>1, <1>2, <1>3, <1>4, <1>5, <1>6 DEF Next, ServerStep

-----------------------------------------------------------------------------
(***************************************************************************)
(* What becomes of workers.                                                *)
(***************************************************************************)
\* A worker for a file that has none.
NewWorker(ws) ==
  \E f \in FileIds : mem[PortAt(f)] = 0 /\ ws = Append(proc, Worker(f))

Forks == NewWorker(proc') /\ UNCHANGED edits /\ Open /\ Open'

Shuts ==
  \E ws :
    /\ ws = proc \/ NewWorker(ws)
    /\ \E where : handle_shutdown(ws, where)
    /\ Open /\ UNCHANGED <<editor, down, edits>>

\* Worker p goes over to another state.
Turns(p, s) ==
  /\ Becomes(p, s) /\ UNCHANGED <<edits, main>>
  /\ \/ s = "dead"
     \/ s \in {"up", "stuck"} /\ proc[p].at \in {"up", "stuck"}
     \/ s = "ended" /\ proc[p].at = "saving" /\ (proc[p].text = NoText \/ Save(p))

Unmoved == UNCHANGED <<proc, edits>> /\ Open' = Open

ProcSteps ==
  \/ Unmoved \/ Forks \/ Shuts
  \/ \E p \in DOMAIN proc : Load(p) \/ \E s : Turns(p, s)
  \/ \E e \in Editors : Edit(e)

LEMMA HandleProc ==
  ASSUME Inv, NEW e \in Editors, Handle(e) PROVE Unmoved \/ Forks
<1>1. CASE FileRequest(e)
  <2> PICK f : f = Head(up[e]).arg
    OBVIOUS
  <2>1. f \in FileIds /\ main.at = "poll" /\ UNCHANGED <<main, edits>>
    BY <1>1, BringsFacts, SendableFields DEF FileRequest
  <2>2. CASE mem[PortAt(f)] = 0
    BY <1>1, <2>1, <2>2 DEF FileRequest, Fork, Forks, NewWorker, Open
  <2>3. CASE mem[PortAt(f)] # 0
    BY <1>1, <2>1, <2>3 DEF FileRequest, Unmoved, Open
  <2> QED BY <2>2, <2>3
<1>2. CASE ~FileRequest(e)
  <2>1. UNCHANGED <<proc, edits>>
    BY <1>2 DEF Handle, Accept, HangUp, NotLoggedIn, Login, Register, CreateFile, DeleteFile,
                Quit, MainFaults
  <2>2. Open' = Open
    BY HandleStore, OpenKept DEF Inv
  <2> QED BY <2>1, <2>2 DEF Unmoved
<1> QED BY <1>1, <1>2

LEMMA ShutdownProc ==
  ASSUME Inv, Shutdown \/ ShutdownInDelete \/ \E e \in Editors : ShutdownInFork(e)
  PROVE  Shuts
<1>1. CASE Shutdown \/ ShutdownInDelete
  <2>1. \E where : handle_shutdown(proc, where)
    BY <1>1 DEF Shutdown, ShutdownInDelete
  <2> QED BY <1>1, <2>1 DEF Shutdown, ShutdownInDelete, Shuts, Open, Stages, net
<1>2. ASSUME NEW e \in Editors, ShutdownInFork(e) PROVE Shuts
  <2> PICK f, ws : f = Head(up[e]).arg /\ ws = Append(proc, Worker(f))
    OBVIOUS
  <2>1. f \in FileIds /\ main.at = "poll"
    BY <1>2, BringsFacts, SendableFields DEF ShutdownInFork
  <2>2. handle_shutdown(ws, "fork") /\ mem[PortAt(f)] = 0 /\ UNCHANGED <<editor, down, edits>>
    BY <1>2 DEF ShutdownInFork, net
  <2> QED BY <2>1, <2>2 DEF Shuts, NewWorker, Open
<1> QED BY <1>1, <1>2

LEMMA WorkerProc ==
  ASSUME Inv, NEW p \in DOMAIN proc, WorkerStep(p)
  PROVE  Load(p) \/ \E s : Turns(p, s)
<1>1. CASE Save(p)
  <2>1. Turns(p, "ended")
    BY <1>1 DEF Save, Turns
  <2> QED BY <2>1
<1>2. CASE Exit(p)
  <2>1. Turns(p, "ended")
    BY <1>2 DEF Exit, Turns
  <2> QED BY <2>1
<1>3. CASE NoList(p) \/ Fault(p)
  <2>1. Turns(p, "dead")
    BY <1>3 DEF NoList, Fault, Dies, Turns
  <2> QED BY <2>1
<1> QED BY <1>1, <1>2, <1>3 DEF WorkerStep

LEMMA AtWorkerProc ==
  ASSUME Inv, NEW e \in Editors, AtWorkerStep(e)
  PROVE  Unmoved \/ Edit(e) \/ \E p \in DOMAIN proc : \E s : Turns(p, s)
<1> PICK p : p = editor[e].port
  OBVIOUS
<1>1. CASE WorkerLogin(e)
  <2>1. p \in DOMAIN proc /\ Turns(p, "up")
    BY <1>1 DEF WorkerLogin, AtWorker, Turns
  <2> QED BY <2>1
<1>2. CASE WorkerWaits(e)
  <2>1. p \in DOMAIN proc /\ Turns(p, "stuck")
    BY <1>2 DEF WorkerWaits, AtWorker, Turns
  <2> QED BY <2>1
<1>3. CASE WorkerLoginFaults(e)
  <2>1. p \in DOMAIN proc /\ Turns(p, "dead")
    BY <1>3 DEF WorkerLoginFaults, AtWorker, Dies, Turns
  <2> QED BY <2>1
<1>4. CASE WorkerFileRequest(e)
  <2>1. CASE proc[p].text = NoText
    <3>1. p \in DOMAIN proc /\ Turns(p, "dead")
      BY <1>4, <2>1 DEF WorkerFileRequest, AtWorker, Dies, Turns
    <3> QED BY <3>1
  <2>2. CASE proc[p].text # NoText
    BY <1>4, <2>2 DEF WorkerFileRequest, Unmoved, Open
  <2> QED BY <2>1, <2>2
<1>5. CASE Lost(e)
  BY <1>5 DEF Lost, Unmoved, Open
<1> QED BY <1>1, <1>2, <1>3, <1>4, <1>5 DEF AtWorkerStep

LEMMA ProcStep ==
  ASSUME Inv, [Next]_vars PROVE ProcSteps
<1>1. ASSUME NEW e \in Editors, Handle(e) PROVE ProcSteps
  BY <1>1, HandleProc DEF ProcSteps
<1>2. CASE DeleteStep
  <2>1. UNCHANGED <<proc, edits>>
    BY <1>2 DEF DeleteStep, DeleteReopen, DeleteLock, DeleteUnlock, DeleteRewrite, Deletes, DeleteAnswer
  <2>2. Open' = Open
    BY <1>2, OpenKept DEF Inv
  <2> QED BY <2>1, <2>2 DEF Unmoved, ProcSteps
<1>3. CASE Shutdown \/ ShutdownInDelete \/ \E e \in Editors : ShutdownInFork(e)
  BY <1>3, ShutdownProc DEF ProcSteps
<1>4. ASSUME NEW p \in DOMAIN proc, WorkerStep(p) PROVE ProcSteps
  BY <1>4, WorkerProc DEF ProcSteps
<1>5. ASSUME NEW e \in Editors, AtWorkerStep(e) PROVE ProcSteps
  BY <1>5, AtWorkerProc DEF ProcSteps
<1>6. ASSUME NEW e \in Editors, EditorStep(e) PROVE ProcSteps
  <2>1. Unmoved
    BY <1>6 DEF EditorStep, Start, Choose, GetOk, GetPort, GetFailed, Answers, Vanish, Unmoved, Open
  <2> QED BY <2>1 DEF ProcSteps
<1>7. CASE UNCHANGED vars
  BY <1>7 DEF vars, Unmoved, Open, ProcSteps
<1>8. CASE ExitServer
  <2>1. UNCHANGED <<proc, edits>> /\ Open' = Open
    BY <1>8, OpenKept DEF ExitServer, Inv
  <2> QED BY <2>1 DEF Unmoved, ProcSteps
<1> QED BY <1>1, <1>2, <1>3, <1>4, <1>5, <1>6, <1>7, <1>8 DEF Next, ServerStep

\* When SIGINT has come nobody writes but workers and exit, and exit writes no more when
\* the lock is free, except to the list of deleteFile.
LEMMA AfterShut ==
  ASSUME Inv, Stage, ~Open, [Next]_vars
  PROVE  /\ ~Open' /\ main'.was = main.was /\ held' \subseteq held
         /\ held = {} /\ main.was # "copied" => UNCHANGED files
         /\ UNCHANGED disk \/ \E p \in DOMAIN proc : Save(p)
<1>1. CASE ServerStep
  <2>a. ASSUME NEW e \in Editors PROVE ~Handle(e)
    BY DEF Handle, Accept, HangUp, NotLoggedIn, Login, Register, FileRequest, CreateFile,
           DeleteFile, Quit, MainFaults, Brings, Open
  <2>b. ~DeleteStep
    BY DEF DeleteStep, DeleteReopen, DeleteLock, DeleteUnlock, DeleteRewrite, Deletes,
           DeleteAnswer, Open
  <2>c. /\ ~Shutdown /\ ~ShutdownInDelete
        /\ \A e \in Editors : ~ShutdownInFork(e)
    BY DEF Shutdown, ShutdownInFork, ShutdownInDelete, Brings, Open, Stages
  <2>1. ExitServer
    BY <1>1, <2>a, <2>b, <2>c DEF ServerStep
  <2>2. /\ ~Open' /\ main'.was = main.was /\ held' \subseteq held /\ UNCHANGED disk
    BY <2>1, ExitDoing, OpenKept DEF ExitServer, Inv
  <2>3. ASSUME held = {}, main.was # "copied" PROVE UNCHANGED files
    <3>1. Doing = main.was
      BY <2>1, ExitDoing DEF Inv
    <3>2. main.was # "locked"
      BY <2>3, <3>1 DEF Stage
    <3> QED BY <2>1, <2>3, <3>2 DEF ExitServer, Flushed
  <2> QED BY <2>2, <2>3
<1>2. ASSUME NEW p \in DOMAIN proc, WorkerStep(p)
      PROVE  /\ UNCHANGED main /\ held' \subseteq held
             /\ held = {} => UNCHANGED files
             /\ UNCHANGED disk \/ Save(p)
  <2>1. UNCHANGED main /\ held' \subseteq held
    BY <1>2, WorkerStepEffect DEF WorkerEffect
  <2>2. held = {} => UNCHANGED files
    BY <1>2 DEF WorkerStep, Load, Save, Exit, NoList, Fault, Flushed, store
  <2>3. UNCHANGED disk \/ Save(p)
    BY <1>2 DEF WorkerStep, Load, Exit, NoList, Fault, store
  <2> QED BY <2>1, <2>2, <2>3
<1>3. ASSUME NEW e \in Editors, AtWorkerStep(e)
      PROVE  UNCHANGED <<files, disk, main>> /\ held' \subseteq held
  <2>1. UNCHANGED <<files, disk>>
    BY <1>3 DEF AtWorkerStep, WorkerLogin, WorkerWaits, WorkerLoginFaults, WorkerFileRequest,
                Edit, Lost, store
  <2> QED BY <1>3, <2>1, AtWorkerEffect DEF WorkerEffect
<1>4. ASSUME NEW e \in Editors, EditorStep(e) PROVE UNCHANGED <<files, disk, main, held>>
  BY <1>4 DEF EditorStep, Start, Choose, GetOk, GetPort, GetFailed, Answers, Vanish, store
<1>5. CASE UNCHANGED vars
  BY <1>5 DEF vars, store, Open
<1> QED BY <1>1, <1>2, <1>3, <1>4, <1>5 DEF Next, Open

-----------------------------------------------------------------------------
(***************************************************************************)
(* The invariant.                                                          *)
(***************************************************************************)
WorkerStates == {"loading", "up", "stuck", "saving", "ended", "dead"}

\* A worker that has a text has read it from a file that can be written.
WorkerOK(w, open) ==
  /\ w.at \in WorkerStates
  /\ w.at \in {"saving", "ended"} => ~open
  /\ w.text # NoText => w.at # "loading" /\ w.name \in Names \ Unusable

AllOK   == \A p \in DOMAIN proc : WorkerOK(proc[p], Open)
OneEach == \A p, q \in DOMAIN proc : proc[p].file = proc[q].file => p = q

\* A name that no file can be created with has none.
NoSuchFile == \A n \in Names \cap Unusable : disk[n] = Absent

\* Who is known is there, and nobody who is known has missed the signal.
Bound == \A e \in Editors : \A p : Known(e, p) => p \in 0 .. Len(proc)
AtText ==
  \A e \in Editors :
    editor[e].at = "editing" =>
      editor[e].port \in DOMAIN proc /\ proc[editor[e].port].text # NoText
Hidden ==
  ~Open =>
    \A p \in DOMAIN proc : Alive(proc[p]) => \A e \in Editors : ~Known(e, p)

\* The ids that a list has for a name.
Ids(t, n) == { f.id : f \in { g \in ListedIn(t) : g.name = n } }

\* An edit is in the text of its worker, which is in the file when the worker has ended,
\* unless the list that it looked its name up in was empty.
InFile(k) ==
  LET w == proc[edits[k].worker]
  IN held = {} /\ (Ids(files, edits[k].name) = {w.file} => Saved(k))
EditOK(k) ==
  LET w == proc[edits[k].worker]
  IN /\ edits[k].worker \in DOMAIN proc /\ w.name = edits[k].name /\ k \in w.text
     /\ ~Open => ~Alive(w)
     /\ w.at = "ended" /\ main.was # "copied" => InFile(k)
EditsOK ==
  /\ edits \in Seq({ edits[k] : k \in DOMAIN edits })
  /\ \A k \in DOMAIN edits : EditOK(k)

Saving == AllOK /\ OneEach /\ NoSuchFile /\ Bound /\ AtText /\ Hidden /\ EditsOK

\* An edit is in no text that is none.
LEMMA TextOfEdit ==
  ASSUME NEW w, NEW k \in Nat, k \in w.text
  PROVE  w.text # NoText
  BY DEF NoText, Absent

LEMMA EditNumbers ==
  ASSUME EditsOK PROVE Len(edits) \in Nat /\ DOMAIN edits = 1 .. Len(edits)
  BY LenProperties DEF EditsOK

-----------------------------------------------------------------------------
(***************************************************************************)
(* What each step makes of the workers.                                    *)
(***************************************************************************)
LEMMA TurnsFacts ==
  ASSUME Inv, NEW p \in DOMAIN proc, NEW s, Turns(p, s)
  PROVE  /\ DOMAIN proc' = DOMAIN proc /\ Len(proc') = Len(proc)
         /\ proc'[p].at = s /\ proc'[p].file = proc[p].file
         /\ proc'[p].name = proc[p].name /\ proc'[p].text = proc[p].text
         /\ \A q \in DOMAIN proc \ {p} : proc'[q] = proc[q]
<1>1. Becomes(p, s) /\ WorkersOK(proc)
  BY DEF Turns, Inv
<1>2. DOMAIN proc[p] = {"file", "name", "text", "at"}
  BY <1>1 DEF WorkersOK
<1>3. Len(proc') = Len(proc)
  BY <1>1, BecomesKept
<1> QED BY <1>1, <1>2, <1>3 DEF Becomes

LEMMA LoadFacts ==
  ASSUME Inv, NEW p \in DOMAIN proc, Load(p)
  PROVE  LET n == getFileName(files, proc[p].file) IN
         /\ DOMAIN proc' = DOMAIN proc /\ Len(proc') = Len(proc)
         /\ proc'[p].at = "up" /\ proc'[p].file = proc[p].file
         /\ proc'[p].name = n /\ proc'[p].text = (IF n = NULL THEN NoText ELSE disk[n])
         /\ \A q \in DOMAIN proc \ {p} : proc'[q] = proc[q]
         /\ proc[p].at = "loading" /\ files.there /\ UNCHANGED <<edits, main>>
<1> PICK n, t : /\ n = getFileName(files, proc[p].file)
                /\ t = IF n = NULL THEN NoText ELSE disk[n]
  OBVIOUS
<1>1. DOMAIN proc[p] = {"file", "name", "text", "at"}
  BY DEF Inv, WorkersOK
<1>2. /\ proc' = [proc EXCEPT ![p].at = "up", ![p].name = n, ![p].text = t]
      /\ proc[p].at = "loading" /\ files.there /\ UNCHANGED <<edits, main>>
  BY DEF Load
<1>3. Len(proc') = Len(proc)
  BY WorkerStepEffect DEF WorkerStep, WorkerEffect
<1>4. /\ DOMAIN proc' = DOMAIN proc
      /\ proc'[p].at = "up" /\ proc'[p].file = proc[p].file
      /\ proc'[p].name = n /\ proc'[p].text = t
      /\ \A q \in DOMAIN proc \ {p} : proc'[q] = proc[q]
  BY <1>1, <1>2
<1> QED BY <1>2, <1>3, <1>4

\* Editor e has made edit k at worker p.
Typed(e, p, k) ==
  /\ p = editor[e].port /\ k = Len(edits) + 1
  /\ p \in DOMAIN proc /\ proc[p].at = "up" /\ editor[e].at = "editing"
  /\ DOMAIN proc' = DOMAIN proc /\ Len(proc') = Len(proc)
  /\ proc'[p].at = proc[p].at /\ proc'[p].file = proc[p].file
  /\ proc'[p].name = proc[p].name /\ proc'[p].text = proc[p].text \cup {k}
  /\ \A q \in DOMAIN proc \ {p} : proc'[q] = proc[q]
  /\ edits' = Append(edits, [worker |-> p, name |-> proc[p].name])
  /\ UNCHANGED <<main, files, disk, held>>

LEMMA EditFacts ==
  ASSUME Inv, NEW e \in Editors, Edit(e) PROVE \E p, k : Typed(e, p, k)
<1> PICK p, k : p = editor[e].port /\ k = Len(edits) + 1
  OBVIOUS
<1>1. /\ p \in DOMAIN proc /\ proc[p].at = "up" /\ editor[e].at = "editing"
      /\ edits' = Append(edits, [worker |-> p, name |-> proc[p].name])
      /\ UNCHANGED <<main, files, disk, held>>
      /\ proc' = [proc EXCEPT ![p].text = @ \cup {k}]
  BY DEF Edit, AtWorker, store
<1>2. DOMAIN proc[p] = {"file", "name", "text", "at"}
  BY <1>1 DEF Inv, WorkersOK
<1>3. Len(proc') = Len(proc)
  BY AtWorkerEffect DEF AtWorkerStep, WorkerEffect
<1>4. /\ DOMAIN proc' = DOMAIN proc
      /\ proc'[p].at = proc[p].at /\ proc'[p].file = proc[p].file
      /\ proc'[p].name = proc[p].name /\ proc'[p].text = proc[p].text \cup {k}
      /\ \A q \in DOMAIN proc \ {p} : proc'[q] = proc[q]
  BY <1>1, <1>2
<1>5. Typed(e, p, k)
  BY <1>1, <1>3, <1>4 DEF Typed
<1> QED BY <1>5

\* A list of workers, at most one of them new.
Grown(ws) ==
  /\ WorkersOK(ws) /\ Len(proc) <= Len(ws)
  /\ \A q \in DOMAIN proc : q \in DOMAIN ws /\ ws[q] = proc[q]
  /\ \A q \in DOMAIN ws \ DOMAIN proc :
       /\ ws[q].at = "loading" /\ ws[q].text = NoText /\ q \notin 0 .. Len(proc)
       /\ \A r \in DOMAIN ws \ {q} : ws[r].file # ws[q].file

LEMMA NewWorkerFacts ==
  ASSUME Layout, Inv, TableTrue, Open, NEW ws, NewWorker(ws)
  PROVE  Grown(ws)
<1>1. PICK f \in FileIds : mem[PortAt(f)] = 0 /\ ws = Append(proc, Worker(f))
  BY DEF NewWorker
<1> PICK n : n = Len(proc) + 1
  OBVIOUS
<1>2. WorkersOK(proc) /\ Len(proc) \in Nat /\ DOMAIN proc = 1 .. Len(proc)
  BY WorkersLength DEF Inv
<1>3. WorkersOK(ws) /\ Len(ws) = n /\ ws[n].file = f /\ \A p \in 1 .. Len(proc) : ws[p] = proc[p]
  BY <1>1, <1>2, Forking
<1>4. DOMAIN ws = 1 .. n
  BY <1>3, WorkersLength
<1>5. ws[n] = Worker(f)
  <2> PICK S : S = Row(proc) \cup {Worker(f)}
    OBVIOUS
  <2>1. proc \in Seq(S) /\ Worker(f) \in S
    BY <1>2, SeqMonotonic DEF WorkersOK
  <2> QED BY <1>1, <2>1, AppendProperties
<1>0. main.was # "fork"
  BY DEF Inv, MainOK, Open
<1>6. ASSUME NEW r \in 1 .. Len(proc) PROVE ws[r].file # f
  <2>1. mem[PortAt(proc[r].file)] = r /\ r # 0
    BY <1>0, <1>2 DEF TableTrue
  <2> QED BY <1>1, <1>3, <2>1
<1>7. DOMAIN ws \ DOMAIN proc = {n} /\ DOMAIN ws \ {n} = 1 .. Len(proc) /\ n \notin 0 .. Len(proc)
  BY <1>2, <1>4
<1> QED BY <1>2, <1>3, <1>4, <1>5, <1>6, <1>7 DEF Grown, Worker

\* handle_shutdown reaches every worker that is in the table.
LEMMA ShutsFacts ==
  ASSUME Layout, Inv, TableTrue, Shuts
  PROVE  \E ws :
           /\ Grown(ws) /\ DOMAIN proc' = DOMAIN ws /\ Len(proc') = Len(ws)
           /\ \A q \in DOMAIN ws :
                /\ proc'[q].file = ws[q].file /\ proc'[q].name = ws[q].name
                /\ proc'[q].text = ws[q].text
                /\ proc'[q].at = ws[q].at \/ (Alive(ws[q]) /\ proc'[q].at = "saving")
           /\ \A q \in DOMAIN proc : ~Alive(proc'[q])
<1>1. PICK ws : /\ ws = proc \/ NewWorker(ws)
                /\ \E where : handle_shutdown(ws, where)
  BY DEF Shuts
<1>0. main.was # "fork" /\ Open
  BY DEF Shuts, Inv, MainOK, Open
<1>2. WorkersOK(proc) /\ Len(proc) \in Nat /\ DOMAIN proc = 1 .. Len(proc)
  BY WorkersLength DEF Inv
<1>3. Grown(ws)
  <2>1. CASE ws = proc
    BY <1>2, <2>1 DEF Grown
  <2>2. CASE NewWorker(ws)
    BY <1>0, <2>2, NewWorkerFacts
  <2> QED BY <1>1, <2>1, <2>2
<1>4. PICK S : S \in {Signalled, DOMAIN ws} /\ proc' = Told(ws, S)
  BY <1>1 DEF handle_shutdown
<1>5. DOMAIN proc' = DOMAIN ws /\ Len(proc') = Len(ws) /\ WorkersOK(ws)
  BY <1>3, <1>4, ToldKept DEF Grown, SameWorkers
<1>6. ASSUME NEW q \in DOMAIN ws
      PROVE  /\ proc'[q].file = ws[q].file /\ proc'[q].name = ws[q].name
             /\ proc'[q].text = ws[q].text
             /\ proc'[q].at = ws[q].at \/ (Alive(ws[q]) /\ proc'[q].at = "saving")
             /\ q \in S => ~Alive(proc'[q])
  <2>1. proc'[q] = IF q \in S /\ Alive(ws[q]) THEN [ws[q] EXCEPT !.at = "saving"] ELSE ws[q]
    BY <1>4 DEF Told
  <2>2. DOMAIN ws[q] = {"file", "name", "text", "at"}
    BY <1>5 DEF WorkersOK
  <2> QED BY <2>1, <2>2 DEF Alive
<1>7. ASSUME NEW q \in DOMAIN proc PROVE q \in S
  <2>1. CASE S = DOMAIN ws
    BY <1>3, <2>1 DEF Grown
  <2>2. CASE S = Signalled
    <3> PICK f : f = proc[q].file
      OBVIOUS
    <3>0. q # 0 /\ f \in FileIds
      BY <1>2 DEF WorkersOK
    <3>1. f \in 1 .. MAX_WORKERS /\ mem[PortAt(f)] = q /\ q # 0
      BY <1>0, <3>0 DEF TableTrue, Layout
    <3>2. mem[PidAt(f)] = q
      BY <3>1 DEF TableTrue
    <3>3. f \in 0 .. MAX_WORKERS
      BY <3>1, ServerAssumption
    <3> QED BY <2>2, <3>1, <3>2, <3>3 DEF Signalled
  <2> QED BY <1>4, <2>1, <2>2
<1>8. \A q \in DOMAIN proc : ~Alive(proc'[q])
  BY <1>3, <1>6, <1>7 DEF Grown
<1> QED BY <1>3, <1>5, <1>6, <1>8

-----------------------------------------------------------------------------
(***************************************************************************)
(* Each part of the invariant is kept.                                     *)
(***************************************************************************)
\* No worker goes, none changes its file, and a new one is for a file that has none.
LEMMA WorkersLast ==
  ASSUME Layout, Inv, TableTrue, ProcSteps
  PROVE  \E ws : /\ Grown(ws) /\ DOMAIN proc' = DOMAIN ws /\ Len(proc') = Len(ws)
                 /\ \A q \in DOMAIN ws : proc'[q].file = ws[q].file
<1>1. WorkersOK(proc) /\ Len(proc) \in Nat /\ DOMAIN proc = 1 .. Len(proc)
  BY WorkersLength DEF Inv
<1>2. Grown(proc)
  BY <1>1 DEF Grown
<1>3. CASE Unmoved
  BY <1>2, <1>3 DEF Unmoved
<1>4. CASE Forks
  <2>1. Grown(proc')
    BY <1>4, NewWorkerFacts DEF Forks
  <2> QED BY <2>1
<1>5. CASE Shuts
  BY <1>5, ShutsFacts
<1>6. ASSUME NEW p \in DOMAIN proc, NEW s, Turns(p, s)
      PROVE  /\ DOMAIN proc' = DOMAIN proc /\ Len(proc') = Len(proc)
             /\ \A q \in DOMAIN proc : proc'[q].file = proc[q].file
  BY <1>6, TurnsFacts
<1>7. ASSUME NEW p \in DOMAIN proc, Load(p)
      PROVE  /\ DOMAIN proc' = DOMAIN proc /\ Len(proc') = Len(proc)
             /\ \A q \in DOMAIN proc : proc'[q].file = proc[q].file
  BY <1>7, LoadFacts
<1>8. ASSUME NEW e \in Editors, Edit(e)
      PROVE  /\ DOMAIN proc' = DOMAIN proc /\ Len(proc') = Len(proc)
             /\ \A q \in DOMAIN proc : proc'[q].file = proc[q].file
  BY <1>8, EditFacts DEF Typed
<1> QED BY <1>2, <1>3, <1>4, <1>5, <1>6, <1>7, <1>8 DEF ProcSteps

LEMMA OneEachKept ==
  ASSUME Layout, Inv, TableTrue, OneEach, ProcSteps PROVE OneEach'
<1>1. PICK ws : /\ Grown(ws) /\ DOMAIN proc' = DOMAIN ws
                /\ \A q \in DOMAIN ws : proc'[q].file = ws[q].file
  BY WorkersLast
<1>2. ASSUME NEW p \in DOMAIN ws, NEW q \in DOMAIN ws, ws[p].file = ws[q].file PROVE p = q
  BY <1>1, <1>2 DEF Grown, OneEach
<1> QED BY <1>1, <1>2 DEF OneEach

LEMMA BoundKept ==
  ASSUME Layout, Inv, TableTrue, Bound, ProcSteps, EditorsGo PROVE Bound'
<1>1. PICK ws : Grown(ws) /\ Len(proc') = Len(ws)
  BY WorkersLast
<1>2. Len(proc) \in Nat /\ Len(ws) \in Nat /\ Len(proc) <= Len(ws)
  BY <1>1, WorkersLength DEF Grown, Inv
<1>3. 0 .. Len(proc) \subseteq 0 .. Len(proc')
  BY <1>1, <1>2
<1> QED BY <1>3 DEF Bound, EditorsGo, Learns

\* What a worker reads is a file that is there.
LEMMA LoadedFile ==
  ASSUME Inv, Stage, NoSuchFile, NEW p \in DOMAIN proc, Load(p), proc'[p].text # NoText
  PROVE  proc'[p].name \in Names \ Unusable
<1> PICK n : n = getFileName(files, proc[p].file)
  OBVIOUS
<1>1. n # NULL /\ disk[n] # NoText /\ proc'[p].name = n /\ files.there
  BY LoadFacts
<1>2. proc[p].file \in Nat \ {0} /\ IsList(files, Names)
  BY <1>1, NamesAndIds DEF Inv, WorkersOK, Stage
<1>3. n \in Names
  BY <1>1, <1>2, NameIsListed
<1> QED BY <1>1, <1>3 DEF NoSuchFile, NoText

LEMMA AllOKKept ==
  ASSUME Layout, Inv, TableTrue, Stage, Saving, ProcSteps,
         ~Open => ~Open'
  PROVE  AllOK'
<1>1. CASE Unmoved
  BY <1>1 DEF Unmoved, Saving, AllOK, WorkerOK
<1>2. CASE Forks
  <2>1. Grown(proc')
    BY <1>2, NewWorkerFacts DEF Forks
  <2>2. ASSUME NEW q \in DOMAIN proc' PROVE WorkerOK(proc'[q], Open')
    BY <1>2, <2>1 DEF Forks, Grown, Saving, AllOK, WorkerOK, WorkerStates
  <2> QED BY <2>2 DEF AllOK
<1>3. CASE Shuts
  <2>1. PICK ws :
          /\ Grown(ws) /\ DOMAIN proc' = DOMAIN ws
          /\ \A q \in DOMAIN ws :
               /\ proc'[q].name = ws[q].name /\ proc'[q].text = ws[q].text
               /\ proc'[q].at = ws[q].at \/ (Alive(ws[q]) /\ proc'[q].at = "saving")
    BY <1>3, ShutsFacts
  <2>2. ~Open'
    BY <1>3 DEF Shuts, handle_shutdown, Inv, MainOK, Idle, Open
  <2>3. ASSUME NEW q \in DOMAIN ws
        PROVE  /\ ws[q].at \in WorkerStates
               /\ ws[q].text # NoText => ws[q].at # "loading" /\ ws[q].name \in Names \ Unusable
    BY <2>1 DEF Grown, Saving, AllOK, WorkerOK, WorkerStates
  <2>4. ASSUME NEW q \in DOMAIN proc' PROVE WorkerOK(proc'[q], Open')
    BY <2>1, <2>2, <2>3 DEF WorkerOK, WorkerStates
  <2> QED BY <2>4 DEF AllOK
<1>4. ASSUME NEW p \in DOMAIN proc, NEW s, Turns(p, s) PROVE AllOK'
  <2>1. /\ Open' = Open
        /\ s \in WorkerStates \ {"loading", "saving"}
        /\ s = "ended" => proc[p].at = "saving"
    BY <1>4 DEF Turns, WorkerStates, Open
  <2>2. ASSUME NEW q \in DOMAIN proc' PROVE WorkerOK(proc'[q], Open')
    <3>1. CASE q = p
      BY <1>4, <2>1, <3>1, TurnsFacts DEF Saving, AllOK, WorkerOK
    <3>2. CASE q # p
      BY <1>4, <2>1, <2>2, <3>2, TurnsFacts DEF Saving, AllOK, WorkerOK
    <3> QED BY <3>1, <3>2
  <2> QED BY <2>2 DEF AllOK
<1>5. ASSUME NEW p \in DOMAIN proc, Load(p) PROVE AllOK'
  <2>1. Open' = Open /\ proc'[p].at = "up"
    BY <1>5, LoadFacts DEF Open
  <2>2. ASSUME NEW q \in DOMAIN proc' PROVE WorkerOK(proc'[q], Open')
    <3>1. CASE q = p
      BY <1>5, <2>1, <3>1, LoadedFile DEF Saving, WorkerOK, WorkerStates
    <3>2. CASE q # p
      BY <1>5, <2>1, <2>2, <3>2, LoadFacts DEF Saving, AllOK, WorkerOK
    <3> QED BY <3>1, <3>2
  <2> QED BY <2>2 DEF AllOK
<1>6. ASSUME NEW e \in Editors, Edit(e) PROVE AllOK'
  <2>1. PICK p, k : Typed(e, p, k)
    BY <1>6, EditFacts
  <2>2. proc[p].text # NoText /\ Open' = Open
    BY <2>1 DEF Typed, Saving, AtText, Open
  <2>3. ASSUME NEW q \in DOMAIN proc' PROVE WorkerOK(proc'[q], Open')
    <3>1. CASE q = p
      BY <2>1, <2>2, <3>1 DEF Typed, Saving, AllOK, WorkerOK, WorkerStates
    <3>2. CASE q # p
      BY <2>1, <2>3, <3>2 DEF Typed, Saving, AllOK, WorkerOK
    <3> QED BY <3>1, <3>2
  <2> QED BY <2>3 DEF AllOK
<1> QED BY <1>1, <1>2, <1>3, <1>4, <1>5, <1>6 DEF ProcSteps

LEMMA NoSuchFileKept ==
  ASSUME Inv, Stage, NoSuchFile, StoreSteps PROVE NoSuchFile'
<1>1. CASE UNCHANGED disk
  BY <1>1 DEF NoSuchFile
<1>2. CASE \/ Quiet \/ Flushes \/ Leaks \/ Renames \/ Stops \/ ExitServer
           \/ DeleteReopen \/ DeleteLock \/ DeleteUnlock \/ DeleteRewrite
  BY <1>1, <1>2 DEF Quiet, Flushes, Leaks, Renames, Stops, ExitServer,
                    DeleteReopen, DeleteLock, DeleteUnlock, DeleteRewrite, Deletes
<1>3. ASSUME NEW n, n \notin Unusable, NEW t, disk' = [disk EXCEPT ![n] = t] PROVE NoSuchFile'
  <2>1. \A m \in Names \cap Unusable : disk'[m] = disk[m]
    BY <1>3
  <2> QED BY <2>1 DEF NoSuchFile
<1>4. CASE Creates
  BY <1>3, <1>4 DEF Creates
<1>5. ASSUME NEW p \in DOMAIN proc, Save(p) PROVE NoSuchFile'
  <2> PICK n : n = getFileName(files, proc[p].file)
    OBVIOUS
  <2>1. disk' = IF n \in {NULL} \cup Unusable THEN disk ELSE [disk EXCEPT ![n] = proc[p].text]
    BY <1>5 DEF Save
  <2> QED BY <1>1, <1>3, <2>1
<1>6. CASE DeleteAnswer
  <2>1. UNCHANGED disk \/ disk' = [disk EXCEPT ![main.name] = Absent]
    BY <1>6 DEF DeleteAnswer
  <2>2. ASSUME disk' = [disk EXCEPT ![main.name] = Absent] PROVE NoSuchFile'
    BY <2>2 DEF NoSuchFile, Stage
  <2> QED BY <1>1, <2>1, <2>2
<1> QED BY <1>2, <1>4, <1>5, <1>6 DEF StoreSteps, DeleteStep

\* A worker that has a text keeps it, and its name.
LEMMA TextLasts ==
  ASSUME Layout, Inv, TableTrue, Saving, ProcSteps, NEW q \in DOMAIN proc, proc[q].text # NoText
  PROVE  /\ q \in DOMAIN proc' /\ proc'[q].text # NoText
         /\ proc'[q].name = proc[q].name /\ proc'[q].file = proc[q].file
         /\ \A k \in proc[q].text : k \in proc'[q].text
<1>1. CASE Unmoved
  BY <1>1 DEF Unmoved
<1>2. CASE Forks
  <2>1. Grown(proc')
    BY <1>2, NewWorkerFacts DEF Forks
  <2> QED BY <2>1 DEF Grown
<1>3. CASE Shuts
  BY <1>3, ShutsFacts DEF Grown
<1>4. ASSUME NEW p \in DOMAIN proc, NEW s, Turns(p, s)
      PROVE  /\ q \in DOMAIN proc' /\ proc'[q].text = proc[q].text
             /\ proc'[q].name = proc[q].name /\ proc'[q].file = proc[q].file
  BY <1>4, TurnsFacts
<1>5. ASSUME NEW p \in DOMAIN proc, Load(p)
      PROVE  q \in DOMAIN proc' /\ proc'[q] = proc[q]
  <2>1. q # p
    BY <1>5, LoadFacts DEF Saving, AllOK, WorkerOK
  <2> QED BY <1>5, <2>1, LoadFacts
<1>6. ASSUME NEW e \in Editors, Edit(e)
      PROVE  /\ q \in DOMAIN proc' /\ proc'[q].text # NoText
             /\ proc'[q].name = proc[q].name /\ proc'[q].file = proc[q].file
             /\ \A k \in proc[q].text : k \in proc'[q].text
  <2>1. PICK p, k : Typed(e, p, k)
    BY <1>6, EditFacts
  <2>2. k \in Nat
    BY <2>1, EditNumbers DEF Typed, Saving
  <2>3. CASE q = p
    BY <2>1, <2>2, <2>3, TextOfEdit DEF Typed
  <2>4. CASE q # p
    BY <2>1, <2>4 DEF Typed
  <2> QED BY <2>3, <2>4
<1> QED BY <1>1, <1>2, <1>3, <1>4, <1>5, <1>6 DEF ProcSteps

LEMMA AtTextKept ==
  ASSUME Layout, Inv, TableTrue, Saving, ProcSteps, EditorsGo PROVE AtText'
<1>1. ASSUME NEW e \in Editors, editor'[e].at = "editing"
      PROVE  editor'[e].port \in DOMAIN proc' /\ proc'[editor'[e].port].text # NoText
  <2> PICK p : p = editor[e].port
    OBVIOUS
  <2>1. editor'[e].port = p /\ p \in DOMAIN proc /\ proc[p].text # NoText
    BY <1>1 DEF EditorsGo, Starts, Saving, AtText
  <2> QED BY <2>1, TextLasts
<1> QED BY <1>1 DEF AtText

\* Once the server is being shut down no worker comes to life.
LEMMA AliveBefore ==
  ASSUME Layout, Inv, TableTrue, ProcSteps, ~Open, NEW p \in DOMAIN proc', Alive(proc'[p])
  PROVE  p \in DOMAIN proc /\ Alive(proc[p])
<1>1. CASE Unmoved
  BY <1>1 DEF Unmoved
<1>2. ~Forks /\ ~Shuts
  BY DEF Forks, Shuts
<1>3. ASSUME NEW q \in DOMAIN proc, NEW s, Turns(q, s) PROVE p \in DOMAIN proc /\ Alive(proc[p])
  <2>1. s \in {"up", "stuck"} => proc[q].at \in {"up", "stuck"}
    BY <1>3 DEF Turns
  <2>2. s \in {"dead", "ended", "up", "stuck"}
    BY <1>3 DEF Turns
  <2> QED BY <1>3, <2>1, <2>2, TurnsFacts DEF Alive
<1>4. ASSUME NEW q \in DOMAIN proc, Load(q) PROVE p \in DOMAIN proc /\ Alive(proc[p])
  BY <1>4, LoadFacts DEF Alive
<1>5. ASSUME NEW e \in Editors, Edit(e) PROVE p \in DOMAIN proc /\ Alive(proc[p])
  BY ZenonT(40), <1>5, EditFacts DEF Typed, Alive
<1> QED BY <1>1, <1>2, <1>3, <1>4, <1>5 DEF ProcSteps

\* The server is shut down by SIGINT only.
LEMMA OnlyShuts ==
  ASSUME Inv, ProcSteps, Open, ~Open' PROVE Shuts
<1>1. ASSUME NEW p \in DOMAIN proc, NEW s, Turns(p, s) PROVE FALSE
  BY <1>1 DEF Turns, Open
<1>2. ASSUME NEW p \in DOMAIN proc, Load(p) PROVE FALSE
  BY <1>2, LoadFacts DEF Open
<1>3. ASSUME NEW e \in Editors, Edit(e) PROVE FALSE
  BY <1>3, EditFacts DEF Typed, Open
<1> QED BY <1>1, <1>2, <1>3 DEF ProcSteps, Unmoved, Forks

LEMMA HiddenKept ==
  ASSUME Layout, Inv, TableTrue, Saving, ProcSteps, EditorsGo,
         ~Open => ~Open'
  PROVE  Hidden'
<1> SUFFICES ASSUME ~Open', NEW p \in DOMAIN proc', Alive(proc'[p]), NEW e \in Editors
             PROVE  ~Known(e, p)'
  BY DEF Hidden
<1>1. Known(e, p)' => Known(e, p)
  BY DEF EditorsGo, Learns
<1>2. CASE ~Open
  BY <1>1, <1>2, AliveBefore DEF Saving, Hidden
<1>3. CASE Open
  <2>1. PICK ws : Grown(ws) /\ DOMAIN proc' = DOMAIN ws
    BY <1>3, OnlyShuts, ShutsFacts
  <2>2. p \notin DOMAIN proc
    BY <1>3, OnlyShuts, ShutsFacts
  <2>3. p \notin 0 .. Len(proc)
    BY <2>1, <2>2 DEF Grown
  <2> QED BY <1>1, <2>3 DEF Saving, Bound
<1> QED BY <1>2, <1>3

-----------------------------------------------------------------------------
(***************************************************************************)
(* What was edited is in the file.                                         *)
(***************************************************************************)
\* A worker that was edited at has a text, and a name.
LEMMA EditedWorker ==
  ASSUME Saving, NEW k \in DOMAIN edits
  PROVE  LET w == proc[edits[k].worker] IN
         /\ edits[k].worker \in DOMAIN proc /\ k \in w.text /\ w.text # NoText
         /\ w.name = edits[k].name /\ edits[k].name \in Names \ Unusable
<1>1. k \in Nat
  BY EditNumbers DEF Saving
<1> QED BY <1>1, TextOfEdit DEF Saving, EditsOK, EditOK, AllOK, WorkerOK

\* buffer_save of the worker, when the list has its name for it.
LEMMA SaveWrites ==
  ASSUME Inv, Stage, Saving, NEW k \in DOMAIN edits, Save(edits[k].worker),
         Ids(files, edits[k].name) = {proc[edits[k].worker].file}
  PROVE  k \in disk'[edits[k].name]
<1> PICK p, n : p = edits[k].worker /\ n = edits[k].name
  OBVIOUS
<1>1. p \in DOMAIN proc /\ k \in proc[p].text /\ n \in Names \ Unusable
  BY EditedWorker
<1>2. proc[p].file \in Nat \ {0} /\ IsList(files, Names)
  BY <1>1, NamesAndIds DEF Save, Inv, WorkersOK, Stage
<1>3. PICK f \in ListedIn(files) : f.name = n /\ f.id = proc[p].file
  BY DEF Ids
<1>4. getFileName(files, proc[p].file) = n
  BY <1>2, <1>3, NameOfEntry
<1>5. n \notin {NULL} \cup Unusable /\ n \in DOMAIN disk
  BY <1>1, NamesAndIds DEF Stage
<1>6. disk' = [disk EXCEPT ![n] = proc[p].text]
  BY <1>4, <1>5 DEF Save
<1> QED BY <1>1, <1>5, <1>6

\* buffer_save of another worker writes to a name that its own id has.
LEMMA OthersWrite ==
  ASSUME Inv, Stage, Saving, NEW k \in DOMAIN edits, NEW q \in DOMAIN proc, Save(q),
         q # edits[k].worker, Saved(k),
         Ids(files, edits[k].name) = {proc[edits[k].worker].file}
  PROVE  k \in disk'[edits[k].name]
<1> PICK p, n : p = edits[k].worker /\ n = edits[k].name
  OBVIOUS
<1> PICK m : m = getFileName(files, proc[q].file)
  OBVIOUS
<1>1. p \in DOMAIN proc /\ k \in disk[n]
  BY EditedWorker DEF Saved
<1>2. disk' = IF m \in {NULL} \cup Unusable THEN disk ELSE [disk EXCEPT ![m] = proc[q].text]
  BY DEF Save
<1>3. CASE m \in {NULL} \cup Unusable
  BY <1>1, <1>2, <1>3
<1>4. CASE m \notin {NULL} \cup Unusable
  <2>1. proc[q].file \in Nat \ {0} /\ IsList(files, Names)
    BY NamesAndIds DEF Save, Inv, WorkersOK, Stage
  <2>2. Entry(proc[q].file, m) \in ListedIn(files)
    BY <1>4, <2>1, NameIsListed
  <2>3. proc[q].file \in Ids(files, m)
    BY <2>2 DEF Ids, Entry
  <2>4. proc[q].file # proc[p].file
    BY <1>1 DEF Saving, OneEach
  <2>5. m # n
    BY <2>3, <2>4
  <2> QED BY <1>1, <1>2, <1>4, <2>5
<1> QED BY <1>3, <1>4

\* A worker ends when it has saved its text, and only then.
LEMMA EndsSaved ==
  ASSUME Layout, Inv, TableTrue, Saving, ProcSteps, NEW p \in DOMAIN proc, proc[p].text # NoText,
         proc[p].at # "ended", p \in DOMAIN proc', proc'[p].at = "ended"
  PROVE  Save(p)
<1>1. ~Unmoved
  BY DEF Unmoved
<1>2. CASE Forks
  <2>1. Grown(proc')
    BY <1>2, NewWorkerFacts DEF Forks
  <2> QED BY <2>1 DEF Grown
<1>3. CASE Shuts
  BY <1>3, ShutsFacts DEF Grown
<1>4. ASSUME NEW q \in DOMAIN proc, NEW s, Turns(q, s) PROVE Save(p)
  <2>1. q = p /\ s = "ended"
    BY <1>4, TurnsFacts
  <2> QED BY <1>4, <2>1 DEF Turns
<1>5. ASSUME NEW q \in DOMAIN proc, Load(q) PROVE FALSE
  <2>1. proc'[p].at \in {proc[p].at, "up"}
    BY <1>5, LoadFacts
  <2> QED BY <2>1
<1>6. ASSUME NEW e \in Editors, Edit(e) PROVE FALSE
  <2>1. proc'[p].at = proc[p].at
    BY ZenonT(40), <1>6, EditFacts DEF Typed
  <2> QED BY <2>1
<1> QED BY <1>1, <1>2, <1>3, <1>4, <1>5, <1>6 DEF ProcSteps

\* An edit that was made before.
LEMMA EditKept ==
  ASSUME Layout, Inv, TableTrue, Stage, Saving, ProcSteps, [Next]_vars,
         NEW k \in DOMAIN edits, edits'[k] = edits[k]
  PROVE  EditOK(k)'
<1> PICK p, n : p = edits[k].worker /\ n = edits[k].name
  OBVIOUS
<1>1. /\ p \in DOMAIN proc /\ k \in proc[p].text /\ proc[p].text # NoText
      /\ proc[p].name = n /\ n \in Names \ Unusable
  BY EditedWorker
<1>2. /\ p \in DOMAIN proc' /\ proc'[p].name = n /\ k \in proc'[p].text
      /\ proc'[p].file = proc[p].file
  BY <1>1, TextLasts
<1>3. /\ edits'[k].worker = p /\ edits'[k].name = n
  OBVIOUS
<1>4. ~Open' => ~Alive(proc'[p])
  <2>1. CASE ~Open
    <3>1. ~Alive(proc[p])
      BY <2>1 DEF Saving, EditsOK, EditOK
    <3> QED BY <1>1, <1>2, <2>1, <3>1, AliveBefore
  <2>2. CASE Open
    BY <1>1, <2>2, OnlyShuts, ShutsFacts
  <2> QED BY <2>1, <2>2
<1>5. ASSUME proc'[p].at = "ended", main'.was # "copied"
      PROVE  held' = {} /\ (Ids(files', n) = {proc'[p].file} => k \in disk'[n])
  <2>1. CASE proc[p].at = "ended"
    <3>1. ~Open
      BY <1>1, <2>1 DEF Saving, AllOK, WorkerOK
    <3>6. main.was # "copied"
      BY <1>5, <3>1, AfterShut
    <3>2. held = {} /\ (Ids(files, n) = {proc[p].file} => Saved(k))
      BY <2>1, <3>6 DEF Saving, EditsOK, EditOK, InFile
    <3>3. held' = {} /\ UNCHANGED files
      BY <3>1, <3>2, <3>6, AfterShut
    <3>4. CASE UNCHANGED disk
      BY <1>2, <3>2, <3>3, <3>4 DEF Saved
    <3>5. ASSUME NEW q \in DOMAIN proc, Save(q) PROVE Ids(files, n) = {proc[p].file} => k \in disk'[n]
      <4>1. q # p
        BY <2>1, <3>5 DEF Save
      <4> QED BY <3>2, <3>5, <4>1, OthersWrite
    <3> QED BY <1>2, <3>1, <3>3, <3>4, <3>5, AfterShut
  <2>2. CASE proc[p].at # "ended"
    <3>1. Save(p)
      BY <1>1, <1>2, <1>5, <2>2, EndsSaved
    <3>2. held' = {} /\ UNCHANGED files
      BY <3>1 DEF Save
    <3> QED BY <1>2, <3>1, <3>2, SaveWrites
  <2> QED BY <2>1, <2>2
<1> QED BY <1>2, <1>3, <1>4, <1>5 DEF EditOK, InFile, Saved

\* An edit that is made now.
LEMMA EditMade ==
  ASSUME Inv, Saving, NEW e \in Editors, Edit(e)
  PROVE  /\ edits' \in Seq({ edits'[k] : k \in DOMAIN edits' })
         /\ DOMAIN edits' = 1 .. Len(edits) + 1
         /\ \A k \in DOMAIN edits : edits'[k] = edits[k]
         /\ \A k : k = Len(edits) + 1 => EditOK(k)'
<1>1. PICK p, k : Typed(e, p, k)
  BY EditFacts
<1> PICK x, n : x = [worker |-> p, name |-> n] /\ n = proc[p].name
  OBVIOUS
<1>2. edits' = Append(edits, x) /\ k = Len(edits) + 1
  BY <1>1 DEF Typed
<1>3. Len(edits) \in Nat /\ DOMAIN edits = 1 .. Len(edits)
  BY EditNumbers DEF Saving
<1> PICK S : S = { edits[i] : i \in DOMAIN edits } \cup {x}
  OBVIOUS
<1>4. edits \in Seq(S) /\ x \in S
  BY SeqMonotonic DEF Saving, EditsOK
<1>5. /\ edits' \in Seq(S) /\ Len(edits') = k /\ edits'[k] = x
      /\ \A i \in 1 .. Len(edits) : edits'[i] = edits[i]
  BY <1>2, <1>4, AppendProperties
<1>6. DOMAIN edits' = 1 .. k /\ edits' \in [1 .. k -> S]
  BY <1>5, LenProperties
<1>7. edits' \in Seq({ edits'[i] : i \in DOMAIN edits' })
  <2> PICK T : T = { edits'[i] : i \in DOMAIN edits' }
    OBVIOUS
  <2>1. edits' \in [1 .. k -> T] /\ k \in Nat
    BY <1>2, <1>3, <1>6
  <2>2. edits' \in Seq(T)
    BY <2>1, SeqDef
  <2> QED BY <2>2
<1>8. Open
  <2>1. Known(e, p) /\ Alive(proc[p]) /\ p \in DOMAIN proc
    BY <1>1 DEF Typed, Known, Alive
  <2> QED BY <2>1 DEF Saving, Hidden
<1>9. /\ p \in DOMAIN proc' /\ proc'[p].name = n /\ k \in proc'[p].text /\ proc'[p].at = "up"
      /\ UNCHANGED main
  BY <1>1 DEF Typed
<1>10. edits'[k].worker = p /\ edits'[k].name = n
  BY <1>5
<1>11. EditOK(k)'
  BY <1>8, <1>9, <1>10 DEF EditOK, Open
<1> QED BY <1>2, <1>3, <1>5, <1>6, <1>7, <1>11

LEMMA EditsKept ==
  ASSUME Layout, Inv, TableTrue, Stage, Saving, ProcSteps, [Next]_vars
  PROVE  EditsOK'
<1>1. CASE UNCHANGED edits
  <2>1. \A k \in DOMAIN edits : EditOK(k)'
    BY <1>1, EditKept
  <2> QED BY <1>1, <2>1 DEF Saving, EditsOK
<1>2. ASSUME NEW e \in Editors, Edit(e) PROVE EditsOK'
  <2>1. Len(edits) \in Nat /\ DOMAIN edits = 1 .. Len(edits)
    BY EditNumbers DEF Saving
  <2>2. \A k \in DOMAIN edits : EditOK(k)'
    BY <1>2, EditMade, EditKept
  <2>3. \A k \in 1 .. Len(edits) + 1 : EditOK(k)'
    <3>1. \A k \in 1 .. Len(edits) + 1 : k \in DOMAIN edits \/ k = Len(edits) + 1
      BY <2>1
    <3> QED BY <1>2, <2>2, <3>1, EditMade
  <2> QED BY <1>2, <2>3, EditMade DEF EditsOK
<1>3. ASSUME NEW p \in DOMAIN proc, Load(p) PROVE UNCHANGED edits
  BY <1>3, LoadFacts
<1> QED BY <1>1, <1>2, <1>3 DEF ProcSteps, Unmoved, Forks, Shuts, Turns

-----------------------------------------------------------------------------
LEMMA SavingInit == Init => Saving
<1> SUFFICES ASSUME Init PROVE Saving
  OBVIOUS
<1>1. proc = << >> /\ edits = << >> /\ DOMAIN proc = {} /\ Len(proc) = 0 /\ DOMAIN edits = {}
  BY DEF Init
<1>2. AllOK /\ OneEach /\ Hidden
  BY <1>1 DEF AllOK, OneEach, Hidden
<1>3. EditsOK
  BY <1>1, EmptySeq DEF EditsOK
<1>4. Bound /\ AtText
  <2>1. \A e \in Editors : editor[e].port = 0 /\ editor[e].at = "idle" /\ down[e] = << >>
    BY DEF Init
  <2> QED BY <1>1, <2>1 DEF Bound, Known, IsTold, AtText
<1>5. ASSUME NEW n \in Names \cap Unusable PROVE disk[n] = Absent
  <2>1. files \in InitFiles /\ IsList(files, { l.name : l \in LinesOf({files}) } \ Unusable)
    BY FilesAssumption DEF Init
  <2> PICK N : N = { l.name : l \in LinesOf({files}) } \ Unusable
    OBVIOUS
  <2>2. ASSUME NEW i \in DOMAIN files.lines, files.lines[i].name = n PROVE FALSE
    <3>1. files.lines[i] \in FileLine(N)
      BY <2>1, ListIsLined, ElementOfSeq DEF Lined
    <3>2. n \in N \cup {NULL}
      BY <2>2, <3>1 DEF FileLine
    <3> QED BY <3>2, NamesAndIds
  <2>3. Lines(files, LAMBDA l : l.name = n) = {}
    BY <2>2 DEF Lines
  <2> QED BY <2>3 DEF Init
<1> QED BY <1>2, <1>3, <1>4, <1>5 DEF Saving, NoSuchFile

LEMMA SavingStep ==
  ASSUME Layout, Inv, TableTrue, Stage, Saving, [Next]_vars PROVE Saving'
<1>1. ProcSteps /\ EditorsGo /\ StoreSteps
  BY ProcStep, EveryoneGoes, StoreStep
<1>2. ~Open => ~Open'
  BY AfterShut
<1>3. AllOK'
  BY <1>1, <1>2, AllOKKept
<1>4. OneEach'
  BY <1>1, OneEachKept DEF Saving
<1>5. NoSuchFile'
  BY <1>1, NoSuchFileKept DEF Saving
<1>6. Bound'
  BY <1>1, BoundKept DEF Saving
<1>7. AtText'
  BY <1>1, AtTextKept
<1>8. Hidden'
  BY <1>1, <1>2, HiddenKept
<1>9. EditsOK'
  BY <1>1, EditsKept
<1> QED BY <1>3, <1>4, <1>5, <1>6, <1>7, <1>8, <1>9 DEF Saving

\* For a name, the ids of the invariant are those of the property.
LEMMA IdsAre ==
  ASSUME NEW n, n # NULL PROVE IdsNamed(n) = Ids(files, n)
  BY DEF IdsNamed, Ids, ListedIn, Lines, NoEntry, Entry

\* SIGINT reaches every worker that somebody has edited at, in the poll loop, in get_worker
\* and in deleteFile, and what was edited is in the file of its name when its worker has
\* ended in good order, if the list then has the name for this worker's file and for no
\* other: no other worker has written to it (handle_shutdown, buffer_save).  The exception
\* is SIGINT between the LOCK_UN of deleteFile and its fclose, when only the first holds.
THEOREM ShutdownSavesTheorem ==
  ASSUME Layout PROVE Spec => []ShutdownSaves
<1>1. Inv /\ Stage /\ TableTrue /\ Saving /\ [Next]_vars => Saving'
  BY SavingStep
<1>2. Saving => ShutdownSaves
  <2> SUFFICES ASSUME Saving, main.at = "shut", NEW k \in DOMAIN edits
               PROVE  /\ proc[edits[k].worker].at \in {"saving", "ended", "dead"}
                      /\ main.was # "copied" => Kept(k)
    BY DEF ShutdownSaves
  <2> PICK w : w = proc[edits[k].worker]
    OBVIOUS
  <2>1. edits[k].worker \in DOMAIN proc /\ edits[k].name # NULL
    BY EditedWorker, NamesAndIds
  <2>2. w.at \in WorkerStates /\ ~Alive(w) /\ (w.at = "ended" /\ main.was # "copied" => InFile(k))
    BY <2>1 DEF Saving, AllOK, WorkerOK, EditsOK, EditOK, Open
  <2>3. IdsNamed(edits[k].name) = Ids(files, edits[k].name)
    BY <2>1, IdsAre
  <2> QED BY <2>2, <2>3 DEF WorkerStates, Alive, InFile, Kept
<1> QED BY <1>1, <1>2, SavingInit, StageTheorem, TableTrueTheorem, PTL DEF Spec
=============================================================================
