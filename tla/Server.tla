------------------------------- MODULE Server -------------------------------
(***************************************************************************)
(* The main server, the workers it forks, the files they share, and the    *)
(* editors from their login to their first edits (SERVER_MODE of           *)
(* src/src/server.c, src/src/utilities.c, server_loop of                   *)
(* src/src/editor.c).                                                      *)
(*                                                                         *)
(* clients and workers are arrays that lie behind each other in memory and *)
(* are indexed, without a check, by user and file ids: mem is that memory, *)
(* word by word.  A worker is known by its number, which stands for its    *)
(* process id and for its port.                                            *)
(*                                                                         *)
(* handle_msg answers a message before the next is read, so a handler is   *)
(* one step, except where another process can see what it does: deleteFile *)
(* is a step for each state of files.txt and of its lock, and SIGINT is    *)
(* one step that tells the workers and another that ends the server.  A    *)
(* handler that waits for a lock which is never given back leaves the      *)
(* server blocked.                                                         *)
(*                                                                         *)
(* The text of a file is the set of the edits in it; what an edit does is  *)
(* in Replica, and what else editors and workers say to each other in      *)
(* Collab.                                                                 *)
(*                                                                         *)
(* files.txt is shorter than the buffer of a stream: what is written to it *)
(* is in it when the stream is closed, or at exit.                         *)
(*                                                                         *)
(* Bounds: MaxRequests choices of users, MaxUsers lines of userdata.txt,   *)
(* MaxEdits edits, MaxDeaths workers ended by a fault of their own.        *)
(***************************************************************************)
EXTENDS FileStore

CONSTANTS
  Editors,          \* editor processes
  account,          \* the name and password that is typed in each
  Registers,        \* those whose user has no account yet
  Requests,         \* what users ask for
  FileIds,          \* the numbers they type
  CreateNames,      \* the names they give to new files
  Unusable,         \* names that no file can be created with
  InitFiles, InitUsers,     \* files.txt and userdata.txt when the server starts
  MAX_CLIENTS, MAX_WORKERS,
  Workers,          \* the word of clients at which workers begins
  Interrupts,       \* where SIGINT may find the server
  MaxRequests, MaxUsers, MaxEdits, MaxDeaths

\* clients, workers, socat_pid; the last word is not used.
SocatAt     == Workers + 2 * (MAX_WORKERS + 1)
Words       == 0 .. SocatAt + 1
PortAt(f)   == Workers + 2 * f
PidAt(f)    == Workers + 2 * f + 1
Tunnel      == -1                           \* the pid of a process that is no worker

ASSUME ServerAssumption ==
  /\ Requests \subseteq {"FILE_REQUEST", "CREATE_FILE", "DELETE_FILE"}
  /\ Interrupts \subseteq {"poll", "fork", "delete"}
  /\ MAX_CLIENTS \in Nat /\ MAX_WORKERS \in Nat
  /\ Workers \in Nat /\ Workers > MAX_CLIENTS
  /\ FileIds \subseteq 1 .. MAX_WORKERS + 1
  /\ MaxUsers \in Words
  /\ InitUsers \subseteq Texts(LinesOf(InitUsers))
  /\ \A t \in InitUsers : Len(t.lines) <= MaxUsers
  /\ "free" \notin Editors

\* A list that createFile and deleteFile may have written: its lines are empty, or have
\* an id and a name, and the ids ascend.  Files could be created under its names.
IsList(t, names) ==
  /\ t \in Texts([id : Nat, name : names \cup {NULL}]) /\ t.there
  /\ \A i \in DOMAIN t.lines : t.lines[i] # NoEntry => t.lines[i].id > 0 /\ t.lines[i].name # NULL
  /\ \A i, j \in DOMAIN t.lines :
       i < j /\ NoEntry \notin {t.lines[i], t.lines[j]} =>
         t.lines[i].id < t.lines[j].id \/ t.lines[i] = t.lines[j]

ASSUME FilesAssumption ==
  /\ \A t \in InitFiles : IsList(t, { l.name : l \in LinesOf({t}) } \ Unusable)
  /\ NULL \notin CreateNames

VARIABLES
  files, users,     \* files.txt, userdata.txt
  temp,             \* files_temp.txt
  disk,             \* the file of each name, or Absent
  main,             \* what the main server is doing
  mem,              \* its words from clients on
  slots, conn,      \* poll_list, and each editor's connection to the main server
  up, down,         \* what is on the way to the server, and to the editor
  editor,           \* each editor: what it is doing, its user id, its worker
  proc,             \* the workers forked so far
  held,             \* who keeps the lock on files.txt that createFile left (0: main)
  edits,            \* the worker of each edit, and the name it was made under
  asked             \* choices made so far

store == <<files, users, temp, disk>>
net   == <<slots, conn, up, down>>
vars  == <<store, main, mem, net, editor, proc, held, edits, asked>>

Free     == "free"
Absent   == {-1}                            \* no file has this content
NoText   == Absent                          \* no buffer either
Names    == ({ l.name : l \in LinesOf(InitFiles) } \ {NULL}) \cup CreateNames
Idle     == [at |-> "poll", e |-> Free, id |-> 0, name |-> NULL, leak |-> NoEntry, was |-> "poll"]

Msg(t, u, x) == [type |-> t, user_id |-> u, arg |-> x]
Worker(f)    == [file |-> f, name |-> NULL, text |-> NoText, at |-> "loading"]

Ended == main.at \in {"crashed", "shut"}
Serving == main.at \notin {"blocked", "stopping", "crashed", "shut"}

Init ==
  /\ files \in InitFiles /\ users \in InitUsers /\ temp = Missing
  /\ disk = [n \in Names |-> IF Lines(files, LAMBDA l : l.name = n) # {} THEN {} ELSE Absent]
  /\ main = Idle
  /\ mem = [w \in Words |-> IF w = SocatAt THEN Tunnel ELSE 0]
  /\ slots = [i \in 1..MAX_CLIENTS |-> Free]
  /\ conn = [e \in Editors |-> "none"]
  /\ up = [e \in Editors |-> << >>] /\ down = [e \in Editors |-> << >>]
  /\ editor = [e \in Editors |-> [at |-> "idle", uid |-> 0, port |-> 0]]
  /\ proc = << >> /\ held = {} /\ edits = << >> /\ asked = 0

-----------------------------------------------------------------------------
(***************************************************************************)
(* server_listen                                                           *)
(***************************************************************************)
FreeSlots == { i \in DOMAIN slots : slots[i] = Free }

\* With no slot free the new connection is in no list.
Accept(e) ==
  /\ main.at = "poll" /\ conn[e] = "backlog"
  /\ IF FreeSlots = {}
       THEN conn' = [conn EXCEPT ![e] = "ignored"] /\ UNCHANGED slots
       ELSE /\ conn' = [conn EXCEPT ![e] = "polled"]
            /\ slots' = [slots EXCEPT ![Min(FreeSlots)] = e]
  /\ UNCHANGED <<store, main, mem, up, down, editor, proc, held, edits, asked>>

\* mutant: the slot is not given back
close_socket_KeepsSlot(e) ==
  /\ conn' = [conn EXCEPT ![e] = "closed"]
  /\ up' = [up EXCEPT ![e] = << >>]
  /\ UNCHANGED slots

close_socket(e) ==
  /\ conn' = [conn EXCEPT ![e] = "closed"]
  /\ up' = [up EXCEPT ![e] = << >>]
  /\ slots' = [i \in DOMAIN slots |-> IF slots[i] = e THEN Free ELSE slots[i]]

\* An editor that is no more has refused an answer; before one is sent to it
\* nothing is known of its end.
HangUp(e) ==
  /\ main.at = "poll" /\ conn[e] = "polled"
  /\ editor[e].at = "vanished" /\ down[e] # << >>
  /\ close_socket(e)
  /\ UNCHANGED <<store, main, mem, down, editor, proc, held, edits, asked>>

\* A message of type t that has come from e, whose user is logged in.
Brings(e, t) ==
  /\ main.at = "poll" /\ conn[e] = "polled"
  /\ up[e] # << >> /\ Head(up[e]).type = t
  /\ t \notin {"LOGIN", "REGISTER"} => mem[Head(up[e]).user_id] # 0

Take(e)    == up' = [up EXCEPT ![e] = Tail(@)]
Send(e, m) == Take(e) /\ down' = [down EXCEPT ![e] = Append(@, m)]
Failed     == Msg("MSG_FAILED", -1, NULL)

\* MSG_OK carries getFileList, which has to get the lock.
SendList(e, u) ==
  IF held = {} THEN Send(e, Msg("MSG_OK", u, NULL)) /\ UNCHANGED main
               ELSE Take(e) /\ main' = [main EXCEPT !.at = "blocked"] /\ UNCHANGED down

-----------------------------------------------------------------------------
(***************************************************************************)
(* handle_msg, SERVER_MODE                                                 *)
(***************************************************************************)
\* mutant: the message is dropped, the connection stays
NotLoggedIn_Stays(e) ==
  /\ main.at = "poll" /\ conn[e] = "polled" /\ up[e] # << >>
  /\ Head(up[e]).type \notin {"LOGIN", "REGISTER"} /\ mem[Head(up[e]).user_id] = 0
  /\ Take(e)
  /\ UNCHANGED <<store, main, mem, slots, conn, down, editor, proc, held, edits, asked>>

\* Whoever is not logged in is disconnected.
NotLoggedIn(e) ==
  /\ main.at = "poll" /\ conn[e] = "polled" /\ up[e] # << >>
  /\ Head(up[e]).type \notin {"LOGIN", "REGISTER"} /\ mem[Head(up[e]).user_id] = 0
  /\ close_socket(e)
  /\ UNCHANGED <<store, main, mem, down, editor, proc, held, edits, asked>>

Login(e) ==
  LET a == Head(up[e]).arg
      u == validate_user(users, a)
  IN /\ Brings(e, "LOGIN") /\ ~UserUnreadable(users, a)
     /\ \/ /\ u >= 0
           /\ mem' = [mem EXCEPT ![u] = 1]
           /\ SendList(e, u)
        \/ u < 0 /\ Send(e, Failed) /\ UNCHANGED <<mem, main>>
     /\ UNCHANGED <<store, slots, conn, editor, proc, held, edits, asked>>

\* mutant: no answer when the name is taken
Register_Silent(e) ==
  /\ Brings(e, "REGISTER")
  /\ \E a \in AfterFree(Head(up[e]).arg) :
       \/ Registered(users, a) /\ Take(e) /\ UNCHANGED <<users, down, main>>
       \/ /\ ~Registered(users, a)
          /\ Len(validate_register(users, a).lines) <= MaxUsers
          /\ users' = validate_register(users, a)
          /\ SendList(e, RegisteredId(users))
  /\ UNCHANGED <<files, temp, disk, mem, slots, conn, editor, proc, held, edits, asked>>

\* Who registers is not logged in.
Register(e) ==
  /\ Brings(e, "REGISTER")
  /\ \E a \in AfterFree(Head(up[e]).arg) :
       \/ Registered(users, a) /\ Send(e, Failed) /\ UNCHANGED <<users, main>>
       \/ /\ ~Registered(users, a)
          /\ Len(validate_register(users, a).lines) <= MaxUsers
          /\ users' = validate_register(users, a)
          /\ SendList(e, RegisteredId(users))
  /\ UNCHANGED <<files, temp, disk, mem, slots, conn, editor, proc, held, edits, asked>>

\* get_worker, when there is none: the number of the worker, and the words.
Forked == Len(proc) + 1
Fork(f) ==
  /\ proc' = Append(proc, Worker(f))
  /\ held' = IF 0 \in held THEN held \cup {Forked} ELSE held

\* mutant: a new worker for every request
FileRequest_Forks(e) ==
  LET f == Head(up[e]).arg
  IN /\ Brings(e, "FILE_REQUEST")
     /\ Fork(f)
     /\ mem' = [mem EXCEPT ![PidAt(f)] = Forked, ![PortAt(f)] = Forked]
     /\ Send(e, Msg("FILE_RESPONSE", -1, Forked))
     /\ UNCHANGED <<store, main, slots, conn, editor, edits, asked>>

FileRequest(e) ==
  LET f == Head(up[e]).arg
  IN /\ Brings(e, "FILE_REQUEST")
     /\ \/ /\ mem[PortAt(f)] # 0
           /\ Send(e, Msg("FILE_RESPONSE", -1, mem[PortAt(f)]))
           /\ UNCHANGED <<mem, proc, held>>
        \/ /\ mem[PortAt(f)] = 0
           /\ Fork(f)
           /\ mem' = [mem EXCEPT ![PidAt(f)] = Forked, ![PortAt(f)] = Forked]
           /\ Send(e, Msg("FILE_RESPONSE", -1, Forked))
     /\ UNCHANGED <<store, main, slots, conn, editor, edits, asked>>

\* The name is compared with the last line only, as all others have their newline.
\* When the file cannot be created its entry stays in the stream, and the lock is
\* never given back.
CreateFile(e) ==
  LET n == Head(up[e]).arg
  IN /\ Brings(e, "CREATE_FILE")
     /\ \/ /\ held # {}
           /\ Take(e) /\ main' = [main EXCEPT !.at = "blocked"]
           /\ UNCHANGED <<files, disk, down, held>>
        \/ /\ held = {} /\ ~NameUnreadable(files) /\ NameFound(files, n)
           /\ Send(e, Failed)
           /\ UNCHANGED <<files, disk, main, held>>
        \/ /\ held = {} /\ ~NameUnreadable(files) /\ ~NameFound(files, n)
           /\ n \notin Unusable
           /\ files' = createFile(files, n)
           /\ disk' = [disk EXCEPT ![n] = {}]
           /\ Send(e, Msg("MSG_OK", Head(up[e]).user_id, NULL))
           /\ UNCHANGED <<main, held>>
        \/ /\ held = {} /\ ~NameUnreadable(files) /\ ~NameFound(files, n)
           /\ n \in Unusable
           /\ main' = [main EXCEPT !.leak = Entry(NextId(files), n)]
           /\ held' = {0}
           /\ Send(e, Failed)
           /\ UNCHANGED <<files, disk>>
     /\ UNCHANGED <<users, temp, mem, slots, conn, editor, proc, edits, asked>>

\* What ends the server: an account that cannot be read, the missing argument of
\* printf when a login fails, and a name that cannot be read.
MainFaults(e) ==
  /\ \/ /\ Brings(e, "LOGIN")
        /\ LET a == Head(up[e]).arg
           IN UserUnreadable(users, a) \/ validate_user(users, a) < 0
     \/ Brings(e, "CREATE_FILE") /\ held = {} /\ NameUnreadable(files)
  /\ main' = [main EXCEPT !.at = "crashed"]
  /\ held' = held \ {0}
  /\ UNCHANGED <<store, mem, net, editor, proc, edits, asked>>

(***************************************************************************)
(* deleteFile: files.txt is renamed, created again, locked, and the list   *)
(* copied to its stream; the lock is given back before the stream is       *)
(* written to the file; then the file that was to be deleted is removed.   *)
(***************************************************************************)
DeleteFile(e) ==
  LET f == Head(up[e]).arg
  IN /\ Brings(e, "DELETE_FILE")
     /\ Take(e)
     /\ IF held # {}
          THEN main' = [main EXCEPT !.at = "blocked"] /\ UNCHANGED <<files, temp>>
          ELSE /\ main' = [main EXCEPT !.at = "renamed", !.e = e, !.id = f,
                                       !.name = getFileName(files, f)]
               /\ temp' = files /\ files' = Missing
     /\ UNCHANGED <<users, disk, mem, slots, conn, down, editor, proc, held, edits, asked>>

\* deleteFile goes on from one state to the next.
Deletes(stage, next) ==
  /\ main.at = stage /\ main' = [main EXCEPT !.at = next]
  /\ UNCHANGED <<users, disk, mem, net, editor, proc, edits, asked>>

DeleteReopen ==
  /\ Deletes("renamed", "reopened")
  /\ files' = EmptyFile
  /\ UNCHANGED <<temp, held>>

DeleteLock ==
  /\ Deletes("reopened", "locked")
  /\ held' = {0}
  /\ UNCHANGED <<files, temp>>

DeleteUnlock ==
  /\ Deletes("locked", "copied")
  /\ held' = {}
  /\ UNCHANGED <<files, temp>>

NewList == deleteFile(temp, main.id)

DeleteRewrite ==
  /\ Deletes("copied", "rewritten")
  /\ files' = NewList
  /\ temp' = Missing
  /\ UNCHANGED held

\* The answer tells whether there was such a file.
DeleteAnswer ==
  LET n == main.name
      there == n # NULL /\ disk[n] # Absent
  IN /\ main.at = "rewritten"
     /\ main' = Idle
     /\ disk' = IF there THEN [disk EXCEPT ![n] = Absent] ELSE disk
     /\ down' = [down EXCEPT ![main.e] =
                   Append(@, IF there THEN Msg("MSG_OK", editor[main.e].uid, NULL) ELSE Failed)]
     /\ UNCHANGED <<files, users, temp, mem, slots, conn, up, editor, proc, held, edits, asked>>

\* mutant: the user is known by the slot of his connection
Quit_BySlot(e) ==
  /\ Brings(e, "QUIT")
  /\ \E i \in DOMAIN slots : slots[i] = e /\ mem' = [mem EXCEPT ![i] = 0]
  /\ close_socket(e)
  /\ UNCHANGED <<store, main, down, editor, proc, held, edits, asked>>

Quit(e) ==
  /\ Brings(e, "QUIT")
  /\ mem' = [mem EXCEPT ![Head(up[e]).user_id] = 0]
  /\ close_socket(e)
  /\ UNCHANGED <<store, main, down, editor, proc, held, edits, asked>>

-----------------------------------------------------------------------------
(***************************************************************************)
(* handle_shutdown of the main server: the workers in the table get the    *)
(* signal too, or all processes do when it came from the terminal.         *)
(***************************************************************************)
\* mutant: the last worker is left out
Signalled_Short == { mem[PidAt(i)] : i \in { j \in 0 .. MAX_WORKERS - 1 : mem[PortAt(j)] # 0 } }

Signalled == { mem[PidAt(i)] : i \in { j \in 0 .. MAX_WORKERS : mem[PortAt(j)] # 0 } }

Alive(w) == w.at \in {"loading", "up", "stuck"}

Told(ws, S) ==
  [p \in DOMAIN ws |-> IF p \in S /\ Alive(ws[p]) THEN [ws[p] EXCEPT !.at = "saving"] ELSE ws[p]]

handle_shutdown(ws, where) ==
  /\ main' = [main EXCEPT !.at = "stopping", !.was = where]
  /\ \E S \in {Signalled, DOMAIN ws} : proc' = Told(ws, S)

Shutdown ==
  /\ "poll" \in Interrupts /\ main.at \in {"poll", "blocked"}
  /\ handle_shutdown(proc, main.at)
  /\ UNCHANGED <<store, mem, net, editor, held, edits, asked>>

\* The new worker is not yet in the table.
ShutdownInFork(e) ==
  LET f == Head(up[e]).arg
  IN /\ "fork" \in Interrupts
     /\ Brings(e, "FILE_REQUEST") /\ mem[PortAt(f)] = 0
     /\ mem' = [mem EXCEPT ![PidAt(f)] = Forked]
     /\ handle_shutdown(Append(proc, Worker(f)), "fork")
     /\ held' = IF 0 \in held THEN held \cup {Forked} ELSE held
     /\ UNCHANGED <<store, net, editor, edits, asked>>

Stages == {"renamed", "reopened", "locked", "copied", "rewritten"}
ShutdownInDelete ==
  /\ "delete" \in Interrupts /\ main.at \in Stages
  /\ handle_shutdown(proc, main.at)
  /\ UNCHANGED <<store, mem, net, editor, held, edits, asked>>

\* What a process leaves in files.txt when it ends and createFile left a line in the
\* stream.
Flushed(p) == IF p \in held /\ main.leak # NoEntry THEN AppendLine(files, main.leak, NoEntry) ELSE files

\* Part of the list may have been copied.
Parts(t) == { [t EXCEPT !.lines = SubSeq(@, 1, n), !.ends = n > 0] : n \in 0 .. Len(t.lines) - 1 } \cup {t}

\* exit writes what is left in the streams, and then the locks go with the process.
ExitServer ==
  /\ main.at = "stopping"
  /\ main' = [main EXCEPT !.at = "shut"]
  /\ \/ main.was = "locked" /\ files' \in Parts(NewList)
     \/ main.was = "copied" /\ files' = NewList
     \/ main.was \notin {"locked", "copied"} /\ files' = Flushed(0)
  /\ held' = held \ {0}
  /\ UNCHANGED <<users, temp, disk, mem, net, editor, proc, edits, asked>>

-----------------------------------------------------------------------------
(***************************************************************************)
(* Workers.                                                                *)
(***************************************************************************)
Becomes(p, state) == proc' = [proc EXCEPT ![p].at = state]

\* buffer_from_file of what files.txt says now; there may be no such file.
Load(p) ==
  LET n == getFileName(files, proc[p].file)
  IN /\ proc[p].at = "loading" /\ held = {} /\ files.there
     /\ proc' = [proc EXCEPT ![p].at = "up", ![p].name = n,
                             ![p].text = IF n = NULL THEN NoText ELSE disk[n]]
     /\ UNCHANGED <<store, main, mem, net, editor, held, edits, asked>>

\* mutant: the text is written to the name it was read from
Save_LoadedName(p) ==
  LET n == proc[p].name
  IN /\ proc[p].at = "saving" /\ proc[p].text # NoText
     /\ held = {} /\ files.there
     /\ disk' = IF n \in {NULL} \cup Unusable THEN disk ELSE [disk EXCEPT ![n] = proc[p].text]
     /\ Becomes(p, "ended")
     /\ UNCHANGED <<files, users, temp, main, mem, net, editor, held, edits, asked>>

\* handle_shutdown of a worker: buffer_save to the name that the id has now.
Save(p) ==
  LET n == getFileName(files, proc[p].file)
  IN /\ proc[p].at = "saving" /\ proc[p].text # NoText
     /\ held = {} /\ files.there
     /\ disk' = IF n \in {NULL} \cup Unusable THEN disk ELSE [disk EXCEPT ![n] = proc[p].text]
     /\ Becomes(p, "ended")
     /\ UNCHANGED <<files, users, temp, main, mem, net, editor, held, edits, asked>>


\* Without a buffer there is nothing to save.
Exit(p) ==
  /\ proc[p].at = "saving" /\ proc[p].text = NoText
  /\ Becomes(p, "ended")
  /\ files' = Flushed(p)
  /\ held' = held \ {p}
  /\ UNCHANGED <<users, temp, disk, main, mem, net, editor, edits, asked>>

Dies(p) == Becomes(p, "dead") /\ held' = held \ {p}

\* files.txt is opened while deleteFile has it under its other name.
NoList(p) ==
  /\ proc[p].at \in {"loading", "saving"} /\ ~files.there
  /\ proc[p].at = "saving" => proc[p].text # NoText
  /\ Dies(p)
  /\ UNCHANGED <<store, main, mem, net, editor, edits, asked>>

\* What in Collab ends a worker.
Fault(p) ==
  /\ proc[p].at \in {"up", "stuck"}
  /\ Cardinality({ q \in DOMAIN proc : proc[q].at = "dead" }) < MaxDeaths
  /\ Dies(p)
  /\ UNCHANGED <<store, main, mem, net, editor, edits, asked>>

(***************************************************************************)
(* An editor at its worker.                                                *)
(***************************************************************************)
Editing(e, state) == editor' = [editor EXCEPT ![e].at = state]

\* e is in the given state, and its worker is there in one of the others.
AtWorker(e, state, states) ==
  /\ editor[e].at = state
  /\ editor[e].port \in DOMAIN proc /\ proc[editor[e].port].at \in states

WorkerLogin(e) ==
  /\ AtWorker(e, "connecting", {"up", "stuck"})
  /\ ~UserUnreadable(users, account[e]) /\ validate_user(users, account[e]) > 0
  /\ held = {} /\ files.there
  /\ Becomes(editor[e].port, "up")
  /\ Editing(e, "opening")
  /\ UNCHANGED <<store, main, mem, net, held, edits, asked>>

WorkerWaits(e) ==
  /\ AtWorker(e, "connecting", {"up"}) /\ held # {}
  /\ ~UserUnreadable(users, account[e]) /\ validate_user(users, account[e]) > 0
  /\ Becomes(editor[e].port, "stuck")
  /\ UNCHANGED <<store, main, mem, net, editor, held, edits, asked>>

\* What ends a worker at a login: an account that cannot be read, and no list.
WorkerLoginFaults(e) ==
  /\ AtWorker(e, "connecting", {"up"})
  /\ \/ UserUnreadable(users, account[e])
     \/ validate_user(users, account[e]) > 0 /\ held = {} /\ ~files.there
  /\ Dies(editor[e].port)
  /\ UNCHANGED <<store, main, mem, net, editor, edits, asked>>

\* A worker without a buffer is ended by the first request for it.
WorkerFileRequest(e) ==
  LET p == editor[e].port
  IN /\ AtWorker(e, "opening", {"up"})
     /\ \/ proc[p].text # NoText /\ Editing(e, "editing") /\ UNCHANGED <<proc, held>>
        \/ proc[p].text = NoText /\ Dies(p) /\ UNCHANGED editor
     /\ UNCHANGED <<store, main, mem, net, edits, asked>>

Edit(e) ==
  LET p == editor[e].port
  IN /\ AtWorker(e, "editing", {"up"}) /\ Len(edits) < MaxEdits
     /\ proc' = [proc EXCEPT ![p].text = @ \cup {Len(edits) + 1}]
     /\ edits' = Append(edits, [worker |-> p, name |-> proc[p].name])
     /\ UNCHANGED <<store, main, mem, net, editor, held, asked>>

\* Nobody listens at the port, not yet or no longer.
Lost(e) ==
  /\ editor[e].at \in {"connecting", "opening", "editing"}
  /\ editor[e].port \in DOMAIN proc =>
       \/ editor[e].at = "connecting" /\ proc[editor[e].port].at = "loading"
       \/ proc[editor[e].port].at \in {"ended", "dead"}
  /\ Editing(e, "lost")
  /\ UNCHANGED <<store, main, mem, net, proc, held, edits, asked>>

-----------------------------------------------------------------------------
(***************************************************************************)
(* server_loop of the editor.                                              *)
(***************************************************************************)
Start(e) ==
  /\ editor[e].at = "idle" /\ ~Ended
  /\ Editing(e, "asking")
  /\ conn' = [conn EXCEPT ![e] = "backlog"]
  /\ up' = [up EXCEPT ![e] = <<Msg(IF e \in Registers THEN "REGISTER" ELSE "LOGIN", -1, account[e])>>]
  /\ UNCHANGED <<store, main, mem, slots, down, proc, held, edits, asked>>

\* A message that e takes, and what it sends then.
Answers(e, t, m) ==
  /\ editor[e].at = "asking" /\ down[e] # << >> /\ Head(down[e]).type = t
  /\ down' = [down EXCEPT ![e] = Tail(@)]
  /\ up' = [up EXCEPT ![e] = Append(@, m)]
  /\ UNCHANGED <<store, main, mem, slots, conn, proc, held, edits>>

\* The user chooses a file from the list, a new one, or one to delete.
GetOk(e, t, x) ==
  LET u == Head(down[e]).user_id
  IN /\ asked < MaxRequests /\ asked' = asked + 1
     /\ Answers(e, "MSG_OK", Msg(t, u, x))
     /\ editor' = [editor EXCEPT ![e].uid = u]

Choose(e) ==
  \/ \E t \in Requests \ {"CREATE_FILE"}, f \in FileIds : GetOk(e, t, f)
  \/ "CREATE_FILE" \in Requests /\ \E n \in CreateNames : GetOk(e, "CREATE_FILE", n)

GetPort(e) ==
  /\ Answers(e, "FILE_RESPONSE", Msg("QUIT", editor[e].uid, NULL))
  /\ editor' = [editor EXCEPT ![e].at = "connecting", ![e].port = Head(down[e]).arg]
  /\ UNCHANGED asked

\* Whatever has failed, the editor ends.
GetFailed(e) ==
  /\ Answers(e, "MSG_FAILED", Msg("QUIT", editor[e].uid, NULL))
  /\ Editing(e, "left")
  /\ UNCHANGED asked

\* The user ends the editor while it asks.
Vanish(e) ==
  /\ editor[e].at = "asking"
  /\ Editing(e, "vanished")
  /\ UNCHANGED <<store, main, mem, net, proc, held, edits, asked>>

-----------------------------------------------------------------------------
Handle(e) ==
  \/ Accept(e) \/ HangUp(e) \/ NotLoggedIn(e)
  \/ Login(e) \/ Register(e) \/ FileRequest(e) \/ CreateFile(e) \/ DeleteFile(e) \/ Quit(e)
  \/ MainFaults(e)

DeleteStep == DeleteReopen \/ DeleteLock \/ DeleteUnlock \/ DeleteRewrite \/ DeleteAnswer

ServerStep ==
  \/ \E e \in Editors : Handle(e) \/ ShutdownInFork(e)
  \/ DeleteStep \/ Shutdown \/ ShutdownInDelete \/ ExitServer

WorkerStep(p) == Load(p) \/ Save(p) \/ Exit(p) \/ NoList(p) \/ Fault(p)

AtWorkerStep(e) ==
  \/ WorkerLogin(e) \/ WorkerWaits(e) \/ WorkerLoginFaults(e) \/ WorkerFileRequest(e)
  \/ Edit(e) \/ Lost(e)

EditorStep(e) == Start(e) \/ Choose(e) \/ GetPort(e) \/ GetFailed(e) \/ Vanish(e)

Next ==
  \/ ServerStep
  \/ \E p \in DOMAIN proc : WorkerStep(p)
  \/ \E e \in Editors : AtWorkerStep(e) \/ EditorStep(e)

Spec == Init /\ [][Next]_vars

\* Each round of the poll loop looks at every connection that is ready, whatever the
\* others send, and a delete that was begun goes on.  Nothing is asked of users; an
\* editor that needs no user takes what has come.
Fairness ==
  /\ \A e \in Editors : SF_vars(Handle(e)) /\ WF_vars(GetPort(e) \/ GetFailed(e))
  /\ WF_vars(DeleteStep)

FairSpec == Spec /\ Fairness

\* handle_shutdown goes on, in the server and in the workers, and nothing is asked of
\* anything else.
Ends(p) == p \in DOMAIN proc /\ proc[p].at = "saving" /\ (Save(p) \/ Exit(p) \/ NoList(p))
StopSpec == Spec /\ WF_vars(ExitServer) /\ \A p \in 1 .. MaxRequests : WF_vars(Ends(p))

-----------------------------------------------------------------------------
(***************************************************************************)
(* Properties.                                                             *)
(***************************************************************************)
\* The poll list holds each connection that is read once and no other, and between
\* an editor and the server there is one message at a time, a request or its answer.
TypeOK ==
  /\ main.at \in Stages \cup {"poll", "blocked", "stopping", "crashed", "shut"}
  /\ main.was \in Stages \cup {"poll", "blocked", "fork"}
  /\ mem \in [Words -> Int]
  /\ slots \in [1..MAX_CLIENTS -> Editors \cup {Free}]
  /\ \A e \in Editors :
       /\ (conn[e] = "polled") <=> (\E i \in 1..MAX_CLIENTS : slots[i] = e)
       /\ \A i, j \in 1..MAX_CLIENTS : slots[i] = e /\ slots[j] = e => i = j
       /\ Len(up[e]) + Len(down[e]) <= 1
  /\ held \subseteq 0 .. Len(proc)

\* The table of workers is true: the port it has for a file is that of a worker forked
\* for this file, whose pid is beside it, and no worker was forked that is not there
\* (get_worker), although user ids and file ids index the same memory unchecked.
TableTrue ==
  /\ \A f \in 1..MAX_WORKERS :
       LET p == mem[PortAt(f)]
       IN p # 0 => p \in DOMAIN proc /\ proc[p].file = f /\ mem[PidAt(f)] = p
  /\ main.was # "fork" => \A p \in DOMAIN proc : mem[PortAt(proc[p].file)] = p

\* Whatever createFile and deleteFile make of files.txt, and of its newlines, the list
\* is a directory in which every file has its own id; until deleteFile has written the
\* new list, it is the one in files_temp.txt.  SIGINT may end deleteFile before: then
\* files may be lost from the list, but none is renamed or given another's id.
ListedIn(t) == { f \in { t.lines[i] : i \in DOMAIN t.lines } : f # NoEntry }
Rewriting   ==
  LET stage == IF main.at = "stopping" THEN main.was ELSE main.at
  IN stage \in Stages \ {"rewritten"}
Directory_  == INSTANCE Directory WITH
  FileNames <- Names,
  listed <- ListedIn(IF Rewriting THEN temp ELSE files),
  open <- main.at \notin {"stopping", "shut"}
ImplementsDirectory == Directory_!Spec

\* A file that was deleted does not come back: not by a worker that still has its text,
\* which is saved when the server is shut down (handle_shutdown, buffer_save), whenever
\* that is.
DeletedStaysDeleted ==
  \A n \in Names :
    disk[n] # Absent =>
      n = main.name \/ \E t \in {files, temp} : Lines(t, LAMBDA l : l.name = n) # {}

\* Who has logged in and asks for something is not disconnected for what other users
\* do, if he has no second editor (logged_in, QUIT).
Alone(e) == e \notin Registers /\ \A f \in Editors \ {e} : account[f] # account[e]
NobodyShutOut ==
  \A e \in Editors :
    Alone(e) /\ up[e] # << >> /\ Head(up[e]).type \in Requests => mem[Head(up[e]).user_id] # 0

\* The ids of the files that are listed under a name.
IdsNamed(n) == { files.lines[i].id : i \in Lines(files, LAMBDA l : l.name = n) }

\* SIGINT reaches every worker that somebody has edited with, and what was edited is in
\* the file when its worker has ended in good order, if the id still has that name and
\* no other file has it (handle_shutdown of the server, through the table, and of the
\* workers).  It may not be when SIGINT found deleteFile between its LOCK_UN and its
\* fclose: the list that the workers read is empty then (ListedSaved).
Saved(k) == k \in disk[edits[k].name]
Kept(k)  ==
  LET w == proc[edits[k].worker]
  IN w.at = "ended" /\ IdsNamed(edits[k].name) = {w.file} => Saved(k)
ShutdownSaves ==
  main.at = "shut" =>
    \A k \in DOMAIN edits :
      /\ proc[edits[k].worker].at \in {"saving", "ended", "dead"}
      /\ main.was # "copied" => Kept(k)


\* Every request is answered, by every path of every handler and whatever others ask
\* for meanwhile, unless it is never read or its sender is disconnected.  The answer may
\* be the port of a worker that is no more.
Answered ==
  \A e \in Editors :
    editor[e].at = "asking" /\ up[e] # << >> ~>
      \/ editor[e].at # "asking" \/ down[e] # << >>
      \/ conn[e] \in {"ignored", "closed"} \/ ~Serving

\* Who has left the server in good order does not keep his place in the poll list.
PlacesReturned ==
  \A e \in Editors :
    editor[e].at \in {"connecting", "left"} ~> conn[e] # "polled" \/ ~Serving

(***************************************************************************)
(* Statements of the documentation that the code does not keep.            *)
(***************************************************************************)

\* Asking for a new file does not end the server.
MainSurvives == main.at # "crashed"

\* SIGINT saves the files that are open: those that are still listed.
OpenFilesSaved ==
  main.at = "shut" /\ (\A p \in DOMAIN proc : proc[p].at \in {"ended", "dead"}) =>
    \A k \in DOMAIN edits :
      (\E t \in {files, temp} : Lines(t, LAMBDA l : l.name = edits[k].name) # {}) => Saved(k)

\* SIGINT saves the files that are open: those that are listed with the id of a worker
\* that has ended in good order.
ListedSaved == main.at = "shut" => \A k \in DOMAIN edits : Kept(k)
=============================================================================
