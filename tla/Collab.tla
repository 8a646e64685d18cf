------------------------------- MODULE Collab -------------------------------
(***************************************************************************)
(* A worker, the editors of its file, and the connections between them     *)
(* (WORKER_MODE of src/src/server.c, worker_loop of src/src/editor.c and   *)
(* the transport of src/src/msg.c).                                        *)
(*                                                                         *)
(* Each editor process is named, and has one connection, which has its     *)
(* name too: a file descriptor of the worker.  A connection is two         *)
(* streams, up[e] to the worker and down[e] to the editor, relayed by      *)
(* socat.  The messages on a stream may arrive one by one or several at a  *)
(* time (Relays), and recv_msg takes all that has arrived.                 *)
(*                                                                         *)
(* The poll loop handles what is ready slot by slot; here every slot that  *)
(* has something is handled at any time, in any order.  A worker that is   *)
(* not running leaves its editors to themselves: nothing happens then.     *)
(*                                                                         *)
(* Bounds: MaxKeys keys are pressed in all, and users end MaxEnds editors. *)
(***************************************************************************)
EXTENDS Buffer, FiniteSets

CONSTANTS
  Editors,          \* editor processes
  account,          \* the user id of each of them
  Typists,          \* whose users press keys other than ESC
  Keys,             \* the keys they press
  Files,            \* what the file may contain when the worker is forked
  Early,            \* who has it already when the behaviour starts, in the order
                    \* in which they came
  MAX_CLIENTS,      \* poll slots
  Relays,           \* "one": messages arrive one by one; "many": also together;
                    \* "cut": and the last of them in part
  MaxKeys, MaxEnds

Free == "free"                  \* what is in a slot with no connection

ASSUME CollabAssumption ==
  /\ Free \notin Editors
  /\ account \in [Editors -> Nat \ {0}]
  /\ Typists \subseteq Editors
  /\ \A key \in Keys : \/ key.type = "INSERT" /\ key.payload \in Chars
                       \/ key.type = "MOVE_CURSOR" /\ key.payload \in Dirs
                       \/ key.type \in {"INSERT_LINE", "DELETE"}
  /\ \A file \in Files : file \in Seq(Seq(Chars)) /\ file # << >>
  /\ Early \in Seq(Editors) /\ Len(Early) <= MAX_CLIENTS
  /\ \A i, j \in 1..Len(Early) : account[Early[i]] = account[Early[j]] => i = j
  /\ MAX_CLIENTS \in Nat /\ MaxKeys \in Nat
  /\ Relays \in {"one", "many", "cut"}

VARIABLES
  worker,       \* the worker's buffer
  running,      \* "yes", or why the worker is no more
  slots,        \* poll_list: the connection in each slot, or Free
  conn,         \* each connection, as the worker has it
  clients,      \* the users who are logged in
  editor,       \* what each editor is doing, or why it is no more
  copy,         \* the buffer of each editor that has one
  up, down,     \* the streams
  reset,        \* connections whose other end has refused data
  keys          \* who pressed the keys so far

net   == <<up, down, reset>>
vars  == <<worker, running, slots, conn, clients, editor, copy, up, down, reset, keys>>

NoBuffer == << >>
Conns    == {"none", "backlog", "polled", "ignored", "closed"}
Ends     == {"quit", "noFile", "ownKey", "noCursor", "noBottom", "twoCursors", "sigpipe"}

Live(e)   == editor[e] \in {"waiting", "open"}
Open(e)   == editor[e] = "open"
Ended(e)  == editor[e] \in Ends
MayEnd    == Cardinality({ e \in Editors : Ended(e) }) < MaxEnds

Msg(t, u, x) == [type |-> t, user_id |-> u, payload |-> x]
Garbage      == Msg("MSG_FAILED", 0, NoBuffer)     \* what is not JSON is all zero

\* The worker after editors came, and the copy of one who came after some and
\* before others, when all that was sent has arrived.
Came(b, es) ==
  LET upTo[n \in 0 .. Len(es)] ==
        IF n = 0 THEN b ELSE bcursor_copy_own(upTo[n - 1], account[es[n]])
  IN upTo[Len(es)]
CameBetween(b, before, after) ==
  FoldLeft(LAMBDA c, e : bcursor_new(c, account[e], c.lid[c.first], 0),
           buffer_deserialize(buffer_serialize(Came(b, before))), after)

IsEarly(e) == \E i \in 1..Len(Early) : Early[i] = e
Place(e)   == CHOOSE i \in 1..Len(Early) : Early[i] = e
EarlyCopy(b, e) ==
  CameBetween(b, SubSeq(Early, 1, Place(e) - 1), SubSeq(Early, Place(e) + 1, Len(Early)))

Init ==
  /\ \E file \in Files :
       /\ worker = Came(buffer_from_file(file), Early)
       /\ copy = [e \in Editors |-> IF IsEarly(e) THEN EarlyCopy(buffer_from_file(file), e)
                                                  ELSE NoBuffer]
  /\ running = "yes"
  /\ slots = [i \in 1..MAX_CLIENTS |-> IF i <= Len(Early) THEN Early[i] ELSE Free]
  /\ conn = [e \in Editors |-> IF IsEarly(e) THEN "polled" ELSE "none"]
  /\ clients = { account[e] : e \in { f \in Editors : IsEarly(f) } }
  /\ editor = [e \in Editors |-> IF IsEarly(e) THEN "open" ELSE "idle"]
  /\ up = [e \in Editors |-> << >>] /\ down = [e \in Editors |-> << >>]
  /\ reset = {}
  /\ keys = << >>

-----------------------------------------------------------------------------
(***************************************************************************)
(* recv_msg takes n of the messages of a stream and parses the first; what *)
(* is cut of the next one is not a message when its rest arrives.          *)
(***************************************************************************)
Arrivals(s) == IF Relays = "one" THEN {1} ELSE 1..Len(s)

Rests(s) ==
  LET rest(n) == SubSeq(s, n + 1, Len(s))
  IN  { rest(n) : n \in Arrivals(s) }
        \cup (IF Relays = "cut" THEN { << Garbage >> \o rest(n) : n \in Arrivals(s) \ {1} }
                                ELSE {})

(***************************************************************************)
(* The operations that a message or a key performs on a buffer, for the    *)
(* cursor of an id, and what goes wrong in them.                           *)
(***************************************************************************)
CursorMessages == {"ADD_CURSOR", "DELETE_CURSOR"}
Operations == {"INSERT", "INSERT_LINE", "DELETE", "MOVE_CURSOR"}

Operate(b, id, t, x) ==
  CASE t = "INSERT"      -> bcursor_insert(b, id, x)
    [] t = "INSERT_LINE" -> bcursor_insert_line(b, id)
    [] t = "DELETE"      -> bcursor_del(b, id)
    [] t = "MOVE_CURSOR" -> bcursor_move(b, id, x)

\* The cursors that the loops over peers carry to another line, when the line of
\* cursor k is broken or joined.
Carried(b, k, t) ==
  LET c == b.curs[k]
  IN CASE t = "INSERT_LINE" /\ c.pos \notin {0, LineLen(b, c.line)} -> RightOf(b, k, c.pos)
       [] t = "DELETE" /\ c.pos = 0 /\ c.line # b.first -> RightOf(b, k, -1)
       [] OTHER -> {}

\* These loops find each cursor again by its id.  Of two with one id the first is
\* moved in place of the second, which may be left on a line that is freed.
MovesAnother(b, id, t) ==
  \E j \in Carried(b, bcursor_find(b, id), t) : bcursor_find(b, b.curs[j].id) # j

\* Why an operation ends the process that performs it, or, after MovesAnother, what
\* is followed of it here.
Fault(b, id, t) ==
  CASE t \notin {"INSERT", "ADD_CURSOR"} /\ ~HasCursor(b, id) -> "noCursor"
    [] HasCursor(b, id) /\ MovesAnother(b, id, t) -> "twoCursors"
    [] t = "DELETE" /\ HasCursor(b, id) /\ ~MovesAnother(b, id, t)
         /\ ~Alive(bcursor_del(b, id)) -> "noBottom"
    [] OTHER -> "none"

-----------------------------------------------------------------------------
(***************************************************************************)
(* The worker sends out[e] to each e.  Data for a process that has ended   *)
(* may be refused; sending where data has been refused is SIGPIPE, which   *)
(* nobody handles.                                                         *)
(***************************************************************************)
Polled == { e \in Editors : \E i \in 1..MAX_CLIENTS : slots[i] = e }

Reply(e, m) == [f \in Editors |-> IF f = e THEN <<m>> ELSE << >>]

send_msg_everyone(e, m) ==
  [f \in Editors |-> IF f \in Polled \ {e} THEN <<m>> ELSE << >>]

Both(out1, out2) == [f \in Editors |-> out1[f] \o out2[f]]

Send(out) ==
  LET lost == { f \in Editors : out[f] # << >> /\ Ended(f) }
  IN IF lost \cap reset # {}
       THEN running' = "sigpipe" /\ UNCHANGED <<down, reset>>
       ELSE /\ down' = [f \in Editors |-> IF Ended(f) THEN down[f] ELSE down[f] \o out[f]]
            /\ \E refused \in SUBSET lost : reset' = reset \cup refused
            /\ UNCHANGED running

(***************************************************************************)
(* server_listen: connections come, break, and bring messages.             *)
(***************************************************************************)
FreeSlot == { i \in 1..MAX_CLIENTS : slots[i] = Free }

\* With no slot free the new connection is in no list.
Accept(e) ==
  /\ running = "yes" /\ conn[e] = "backlog"
  /\ IF FreeSlot = {}
       THEN conn' = [conn EXCEPT ![e] = "ignored"] /\ UNCHANGED slots
       ELSE /\ conn' = [conn EXCEPT ![e] = "polled"]
            /\ slots' = [slots EXCEPT ![CHOOSE i \in FreeSlot : \A j \in FreeSlot : i <= j] = e]
  /\ UNCHANGED <<worker, running, clients, editor, copy, net, keys>>

\* The end of a connection: its slot is free, what it still brings is lost.
Close(e) ==
  /\ conn' = [conn EXCEPT ![e] = "closed"]
  /\ slots' = [i \in 1..MAX_CLIENTS |-> IF slots[i] = e THEN Free ELSE slots[i]]
  /\ up' = [up EXCEPT ![e] = << >>]

\* POLLERR, POLLHUP: no message is read, and the cursor stays.
HangUp(e) ==
  /\ running = "yes" /\ conn[e] = "polled" /\ e \in reset
  /\ Close(e)
  /\ UNCHANGED <<worker, running, clients, editor, copy, down, reset, keys>>

\* recv_msg brings a message of one of the types, of a user who has logged in.
Brings(e, types) ==
  /\ running = "yes" /\ conn[e] = "polled" /\ up[e] # << >>
  /\ Head(up[e]).type \in types
  /\ "LOGIN" \in types \/ Head(up[e]).user_id \in clients

Taken(e) == \E rest \in Rests(up[e]) : up' = [up EXCEPT ![e] = rest]

\* Whoever is not logged in is disconnected.
NotLoggedIn(e) ==
  /\ running = "yes" /\ conn[e] = "polled" /\ up[e] # << >>
  /\ Head(up[e]).type # "LOGIN" /\ Head(up[e]).user_id \notin clients
  /\ Close(e)
  /\ UNCHANGED <<worker, running, clients, editor, copy, down, reset, keys>>

\* mutant: it is the sender of the message who is logged in
Login_Sender(e) ==
  /\ Brings(e, {"LOGIN"})
  /\ Taken(e)
  /\ clients' = clients \cup {Head(up[e]).user_id}
  /\ Send(Reply(e, Msg("MSG_OK", account[e], NoBuffer)))
  /\ UNCHANGED <<worker, slots, conn, editor, copy, keys>>

Login(e) ==
  /\ Brings(e, {"LOGIN"})
  /\ Taken(e)
  /\ clients' = clients \cup {account[e]}
  /\ Send(Reply(e, Msg("MSG_OK", account[e], NoBuffer)))
  /\ UNCHANGED <<worker, slots, conn, editor, copy, keys>>

\* mutant: a user who has a cursor gets no other
FileRequest_OneCursor(e) ==
  LET u == Head(up[e]).user_id
  IN /\ Brings(e, {"FILE_REQUEST"})
     /\ Taken(e)
     /\ worker' = IF HasCursor(worker, u) THEN worker ELSE bcursor_copy_own(worker, u)
     /\ Send(Both(Reply(e, Msg("FILE_RESPONSE", u, buffer_serialize(worker))),
                  send_msg_everyone(e, Msg("ADD_CURSOR", u, NoBuffer))))
     /\ UNCHANGED <<slots, conn, clients, editor, copy, keys>>

\* mutant: the newcomer's cursor is in the buffer it is sent
FileRequest_CopiedFirst(e) ==
  LET u == Head(up[e]).user_id
  IN /\ Brings(e, {"FILE_REQUEST"})
     /\ Taken(e)
     /\ worker' = bcursor_copy_own(worker, u)
     /\ Send(Both(Reply(e, Msg("FILE_RESPONSE", u, buffer_serialize(bcursor_copy_own(worker, u)))),
                  send_msg_everyone(e, Msg("ADD_CURSOR", u, NoBuffer))))
     /\ UNCHANGED <<slots, conn, clients, editor, copy, keys>>

\* mutant: nobody is told of the newcomer
FileRequest_Untold(e) ==
  LET u == Head(up[e]).user_id
  IN /\ Brings(e, {"FILE_REQUEST"})
     /\ Taken(e)
     /\ worker' = bcursor_copy_own(worker, u)
     /\ Send(Reply(e, Msg("FILE_RESPONSE", u, buffer_serialize(worker))))
     /\ UNCHANGED <<slots, conn, clients, editor, copy, keys>>

FileRequest(e) ==
  LET u == Head(up[e]).user_id
  IN /\ Brings(e, {"FILE_REQUEST"})
     /\ Taken(e)
     /\ worker' = bcursor_copy_own(worker, u)
     /\ Send(Both(Reply(e, Msg("FILE_RESPONSE", u, buffer_serialize(worker))),
                  send_msg_everyone(e, Msg("ADD_CURSOR", u, NoBuffer))))
     /\ UNCHANGED <<slots, conn, clients, editor, copy, keys>>

Quit(e) ==
  LET u == Head(up[e]).user_id
  IN /\ Brings(e, {"QUIT"}) /\ HasCursor(worker, u)
     /\ Close(e)
     /\ worker' = bcursor_free(worker, u)
     /\ Send(send_msg_everyone(e, Msg("DELETE_CURSOR", u, NoBuffer)))
     /\ UNCHANGED <<clients, editor, copy, keys>>

\* mutant: moves, which change no text, are not sent on
Edit_MovesUnsent(e) ==
  LET m == Head(up[e])
  IN /\ Brings(e, Operations) /\ Fault(worker, m.user_id, m.type) = "none"
     /\ Taken(e)
     /\ worker' = Operate(worker, m.user_id, m.type, m.payload)
     /\ IF m.type = "MOVE_CURSOR" THEN UNCHANGED <<running, down, reset>>
                                  ELSE Send(send_msg_everyone(e, m))
     /\ UNCHANGED <<slots, conn, clients, editor, copy, keys>>

Edit(e) ==
  LET m == Head(up[e])
  IN /\ Brings(e, Operations) /\ Fault(worker, m.user_id, m.type) = "none"
     /\ Taken(e)
     /\ worker' = Operate(worker, m.user_id, m.type, m.payload)
     /\ Send(send_msg_everyone(e, m))
     /\ UNCHANGED <<slots, conn, clients, editor, copy, keys>>

WorkerFaults(e) ==
  LET m == Head(up[e])
  IN /\ Brings(e, Operations \cup {"QUIT"})
     /\ Fault(worker, m.user_id, m.type) # "none"
     /\ running' = Fault(worker, m.user_id, m.type)
     /\ UNCHANGED <<worker, slots, conn, clients, editor, copy, net, keys>>

-----------------------------------------------------------------------------
(***************************************************************************)
(* worker_loop of the editor.                                              *)
(***************************************************************************)
\* What an editor that has the file does with a message.
Follow(e, b, m) ==
  CASE m.type = "DELETE_CURSOR" -> bcursor_free(b, m.user_id)
    [] m.type = "ADD_CURSOR"    -> IF m.user_id = account[e] THEN b
                                   ELSE bcursor_new(b, m.user_id, b.lid[b.first], 0)
    [] OTHER -> Operate(b, m.user_id, m.type, m.payload)

Post(e, m) == up' = IF conn[e] = "closed" THEN up ELSE [up EXCEPT ![e] = Append(@, m)]

Becomes(e, state) == editor' = [editor EXCEPT ![e] = state]

\* A user opens the file again only when his editor of before is no more.
Start(e) ==
  /\ running = "yes" /\ editor[e] = "idle"
  /\ \A f \in Editors : Live(f) => account[f] # account[e]
  /\ Becomes(e, "waiting")
  /\ conn' = [conn EXCEPT ![e] = "backlog"]
  /\ Post(e, Msg("LOGIN", -1, account[e]))
  /\ UNCHANGED <<worker, running, slots, clients, copy, down, reset, keys>>

\* A message that the editor e takes.
Gets(e, types) ==
  /\ running = "yes" /\ Live(e) /\ down[e] # << >>
  /\ Head(down[e]).type \in types
  /\ \E rest \in Rests(down[e]) : down' = [down EXCEPT ![e] = rest]
  /\ UNCHANGED <<worker, running, slots, conn, clients, reset, keys>>

GetOk(e) ==
  /\ Gets(e, {"MSG_OK"})
  /\ Post(e, Msg("FILE_REQUEST", account[e], NoBuffer))
  /\ UNCHANGED <<editor, copy>>

GetFile(e) ==
  /\ Gets(e, {"FILE_RESPONSE"})
  /\ copy' = [copy EXCEPT ![e] = buffer_deserialize(Head(down[e]).payload)]
  /\ Becomes(e, "open")
  /\ UNCHANGED up

GetEdit(e) ==
  LET m == Head(down[e])
  IN /\ Open(e) /\ Gets(e, Operations \cup CursorMessages)
     /\ Fault(copy[e], m.user_id, m.type) = "none"
     /\ copy' = [copy EXCEPT ![e] = Follow(e, @, m)]
     /\ UNCHANGED <<editor, up>>

GetGarbage(e) ==
  /\ Gets(e, {"MSG_FAILED"})
  /\ UNCHANGED <<editor, copy, up>>

\* What the others do reaches an editor that has no buffer yet.
GetTooEarly(e) ==
  /\ editor[e] = "waiting"
  /\ Gets(e, Operations \cup CursorMessages)
  /\ IF Head(down[e]).type = "ADD_CURSOR" /\ Head(down[e]).user_id = account[e]
       THEN UNCHANGED editor ELSE Becomes(e, "noFile")
  /\ UNCHANGED <<copy, up>>

EditorFaults(e) ==
  LET m == Head(down[e])
  IN /\ Open(e) /\ Gets(e, Operations \cup {"DELETE_CURSOR"})
     /\ Fault(copy[e], m.user_id, m.type) # "none"
     /\ Becomes(e, Fault(copy[e], m.user_id, m.type))
     /\ copy' = [copy EXCEPT ![e] = NoBuffer]
     /\ UNCHANGED up

\* A key is sent first and then done to the own copy.
Press(e, key) ==
  LET fault == Fault(copy[e], Own, key.type)
  IN /\ running = "yes" /\ Open(e) /\ e \in Typists /\ Len(keys) < MaxKeys
     /\ keys' = Append(keys, e)
     /\ Post(e, Msg(key.type, account[e], key.payload))
     /\ IF fault = "none"
          THEN /\ copy' = [copy EXCEPT ![e] = Operate(@, Own, key.type, key.payload)]
               /\ UNCHANGED editor
          ELSE copy' = [copy EXCEPT ![e] = NoBuffer] /\ Becomes(e, fault)
     /\ UNCHANGED <<worker, running, slots, conn, clients, down, reset>>

\* The message of any key has the id of the buffer, which is not there yet.
PressTooEarly(e) ==
  /\ running = "yes" /\ editor[e] = "waiting" /\ MayEnd
  /\ Becomes(e, "ownKey")
  /\ UNCHANGED <<worker, running, slots, conn, clients, copy, net, keys>>

Escape(e) ==
  /\ running = "yes" /\ Open(e) /\ MayEnd
  /\ Post(e, Msg("QUIT", account[e], NoBuffer))
  /\ copy' = [copy EXCEPT ![e] = NoBuffer]
  /\ Becomes(e, "quit")
  /\ UNCHANGED <<worker, running, slots, conn, clients, down, reset, keys>>

\* Sending to a worker that has closed the connection.
Disconnected(e) ==
  /\ running = "yes" /\ Live(e) /\ conn[e] = "closed"
  /\ Becomes(e, "sigpipe")
  /\ copy' = [copy EXCEPT ![e] = NoBuffer]
  /\ UNCHANGED <<worker, running, slots, conn, clients, net, keys>>

-----------------------------------------------------------------------------
WorkerStep(e) ==
  \/ Accept(e) \/ HangUp(e) \/ NotLoggedIn(e) \/ Login(e) \/ FileRequest(e)
  \/ Quit(e) \/ Edit(e) \/ WorkerFaults(e)

EditorGets(e) ==
  \/ GetOk(e) \/ GetFile(e) \/ GetEdit(e) \/ GetGarbage(e) \/ GetTooEarly(e) \/ EditorFaults(e)

UserStep(e) ==
  \/ Start(e) \/ PressTooEarly(e) \/ Escape(e) \/ Disconnected(e)
  \/ \E key \in Keys : Press(e, key)

Next == \E e \in Editors : WorkerStep(e) \/ EditorGets(e) \/ UserStep(e)

Spec == Init /\ [][Next]_vars

-----------------------------------------------------------------------------
(***************************************************************************)
(* Properties.                                                             *)
(***************************************************************************)
\* Everything has its type, only users who logged in are in clients, and an editor
\* has a buffer exactly while it has the file.
TypeOK ==
  /\ running \in {"yes", "sigpipe", "noCursor", "noBottom", "twoCursors"}
  /\ slots \in [1..MAX_CLIENTS -> Editors \cup {Free}]
  /\ conn \in [Editors -> Conns]
  /\ clients \subseteq { account[e] : e \in Editors }
  /\ editor \in [Editors -> {"idle", "waiting", "open"} \cup Ends]
  /\ reset \subseteq Editors
  /\ keys \in Seq(Editors) /\ Len(keys) <= MaxKeys
  /\ \A e \in Editors : copy[e] # NoBuffer <=> Open(e)

\* What a buffer shows if its own cursor is that of user u (NULL: of nobody): the
\* text, where the users' cursors are, and how many there are.
Picture(b, u) ==
  LET shown == { k \in {Own} \cup Slots : b.curs[k] # NoCursor /\ (k = Own => u # NULL) }
      user(k) == IF k = Own THEN u ELSE b.curs[k].id
  IN [ text    |-> SubSeq(b.str, b.first, b.last),
       cursors |-> { <<user(k), b.curs[k].line, b.curs[k].pos>> : k \in shown },
       count   |-> Cardinality(shown) ]

\* The buffer b of e once all of the stream s has arrived.
Followed(e, b, s) ==
  LET upTo[n \in 0 .. Len(s)] == IF n = 0 THEN b ELSE Follow(e, upTo[n - 1], s[n])
  IN upTo[Len(s)]

\* Somebody who only watches sees, once what is on the way has arrived, exactly
\* the text and the cursors of the worker, however many others edit, come and go.
WatchersFollow ==
  running = "yes" =>
    \A e \in Editors \ Typists : Open(e) =>
      Picture(Followed(e, copy[e], down[e]), account[e]) = Picture(worker, NULL)

\* A user's operations reach the worker after the cursor they are for was made
\* and before it is freed, whatever arrives together, is cut or breaks, also
\* when the user comes back: they never bring the worker down.
WorkerFindsCursors == running \notin {"noCursor", "noBottom"}

\* The others' operations reach an editor that has the file after the cursors
\* they are for.
EditorsFindCursors == \A e \in Editors : editor[e] # "noCursor"

Quiet == \A e \in Editors : up[e] = << >> /\ (Live(e) => down[e] = << >>)

\* When only one user has typed and nothing is on the way, everybody has the worker's
\* text: every operation that was applied and sent was received and did the same there.
OneTyped   == \A i, j \in DOMAIN keys : keys[i] = keys[j]
TextsAgree ==
  running = "yes" /\ Quiet /\ OneTyped =>
    \A e \in Editors : Open(e) => Picture(copy[e], NULL).text = Picture(worker, NULL).text
=============================================================================
