----------------------------- MODULE FleetSync -----------------------------
(***************************************************************************)
(* Fleet synchronisation (app/daemons/fleetd.py) over the device registry  *)
(* and the state log of stated.  A request comes in over the Unix socket,  *)
(* where each has a thread of its own, or over a WebSocket, whose requests *)
(* are served one at a time by the event loop and need a token only for    *)
(* the first handshake of a connection.  The registry's transactions and   *)
(* the calls to stated of different requests interleave, also with other   *)
(* writers of the log and with a restart of fleetd.                        *)
(*                                                                         *)
(* An item is an immutable state, named by its hash; items are numbered by *)
(* their place in stated's order (timestamp, then id).  RpcStateStore sees *)
(* only the newest Window of them.  Parents are older than their children. *)
(***************************************************************************)
EXTENDS DeviceRegistry, Integers, FiniteSetsExt

CONSTANTS
    Thread,     \* RPC threads of fleetd that are busy at the same time
    Loop,       \* the thread of the WebSocket server
    Socket,     \* WebSocket connections
    Item,       \* the states there are, as numbers in the order of the log
    IdOf,       \* id of each item
    ParentOf,   \* previous_state_id of each item; 0 when it has none
    Bad,        \* a block that does not decrypt to a valid state
    Window,     \* state.list answers with this many states (10 000)
    Client,     \* bound: the devices that send requests
    BatchSize   \* bound: blocks of one push

ASSUME FleetAssumption ==
    /\ Loop \notin Thread /\ Client \subseteq Device
    /\ Item \subseteq Nat /\ Window \in Nat \ {0}
    /\ Bad \notin Item

VARIABLES
    log,        \* the items stated holds
    conn,       \* authenticated_device of each socket; None before, "closed"
    pc,         \* where each thread is in its request
    req,        \* the request of each thread
    todo,       \* the part of the batch not stored yet
    pushed,     \* history: the items that came in by push_blocks
    late        \* history: the device was gone when the request came in

service == <<conn, pc, req, todo, pushed, late>>
fleet == <<registry, log, service>>

Worker == Thread \cup {Loop}
NoRequest == [kind |-> "none", device |-> None, key |-> None, token |-> None,
              socket |-> None, batch |-> {}]

Ids(items) == {IdOf[i] : i \in items}

\* state.list: the last Window states of the ordered log.
Newest(items) == {i \in items : Cardinality({j \in items : j > i}) < Window}

FleetTypeOK ==
    /\ RegistryTypeOK
    /\ log \subseteq Item /\ pushed \subseteq log
    /\ conn \in [Socket -> Device \cup {None, "closed"}]
    /\ pc \in [Worker -> {"idle", "expire", "check", "serve", "beatExpire",
                          "beatCheck", "beat", "store", "accepted"}]
    /\ \A t \in Worker : todo[t] \subseteq req[t].batch

FleetInit ==
    /\ RegistryInit
    /\ log = {}
    /\ conn = [s \in Socket |-> None]
    /\ pc = [t \in Worker |-> "idle"]
    /\ req = [t \in Worker |-> NoRequest]
    /\ todo = [t \in Worker |-> {}]
    /\ pushed = {}
    /\ late = [t \in Worker |-> FALSE]

-----------------------------------------------------------------------------
\* One step of a worker; the rest of what it keeps stays.
Step(t, from, to) ==
    /\ pc[t] = from
    /\ pc' = [pc EXCEPT ![t] = to]

\* MUTANT: the rest of the batch stays with the thread.
FinishKeeps(t, from, closing) ==
    /\ Step(t, from, "idle")
    /\ req' = [req EXCEPT ![t] = NoRequest]
    /\ late' = [late EXCEPT ![t] = FALSE]
    /\ conn' = IF closing /\ t = Loop
               THEN [conn EXCEPT ![req[t].socket] = "closed"] ELSE conn
    /\ UNCHANGED <<todo, pushed>>

\* An answer without effect on the log; an authorisation error also closes
\* the WebSocket, and so does what its handler does not catch.
Finish(t, from, closing) ==
    /\ Step(t, from, "idle")
    /\ req' = [req EXCEPT ![t] = NoRequest]
    /\ todo' = [todo EXCEPT ![t] = {}]
    /\ late' = [late EXCEPT ![t] = FALSE]
    /\ conn' = IF closing /\ t = Loop
               THEN [conn EXCEPT ![req[t].socket] = "closed"] ELSE conn
    /\ UNCHANGED pushed

Batches == {b \in SUBSET (Item \cup {Bad}) : Cardinality(b) \in 1..BatchSize}

\* The device of a WebSocket is the one it was authenticated as; any other
\* one in the parameters is an error.
Receive(t, q) ==
    /\ Step(t, "idle", "expire")
    /\ q.socket # None => conn[q.socket] \in {None, q.device}
    /\ q.socket # None /\ conn[q.socket] = None => q.kind = "handshake"
    /\ req' = [req EXCEPT ![t] = q]
    /\ late' = [late EXCEPT ![t] = status[q.device] \in {"expired", "revoked"}]
    /\ UNCHANGED <<registry, log, conn, todo, pushed>>

\* handle_message sets session_authenticated only for an authenticated socket.
SessionAuthenticated(t) ==
    /\ req[t].socket # None
    /\ conn[req[t].socket] # None

\* MUTANT: a session that passed its handshake is not asked again.
HandshakeOnly(t) ==
    \/ SessionAuthenticated(t)
    \/ Authorized(req[t].device, req[t].key, req[t].token, TRUE)

\* _authorize; only the handshake passes the public key on.
Admitted(t) ==
    Authorized(req[t].device,
               IF req[t].kind = "handshake" THEN req[t].key ELSE None,
               req[t].token, ~SessionAuthenticated(t))

\* assert_authorized: expire, then read the row.
Expire(t, from, to) ==
    /\ Step(t, from, to)
    /\ ExpireStaleDevices
    /\ UNCHANGED <<log, conn, req, todo, pushed, late>>

Authorize(t) ==
    /\ pc[t] = "check"
    /\ UNCHANGED <<registry, log>>
    /\ \/ /\ Admitted(t)
          /\ Step(t, "check", "serve")
          /\ UNCHANGED <<conn, req, todo, pushed, late>>
       \/ ~Admitted(t) /\ Finish(t, "check", TRUE)

\* The headers of the other side may be malformed: an answer, no heartbeat.
ServeHandshake(t) ==
    /\ req[t].kind = "handshake"
    /\ UNCHANGED <<registry, log>>
    /\ \/ /\ Step(t, "serve", "beatExpire")
          /\ UNCHANGED <<conn, req, todo, pushed, late>>
       \/ Finish(t, "serve", FALSE)

\* heartbeat: assert_authorized again, without key and token ...
BeatCheck(t) ==
    /\ pc[t] = "beatCheck"
    /\ UNCHANGED <<registry, log>>
    /\ \/ /\ status[req[t].device] = "active"
          /\ Step(t, "beatCheck", "beat")
          /\ UNCHANGED <<conn, req, todo, pushed, late>>
       \/ status[req[t].device] # "active" /\ Finish(t, "beatCheck", TRUE)

\* ... then the UPDATE; the socket belongs to the device from now on.
Beat(t) ==
    /\ Step(t, "beat", "idle")
    /\ WriteHeartbeat(req[t].device)
    /\ conn' = IF t = Loop THEN [conn EXCEPT ![req[t].socket] = req[t].device]
                           ELSE conn
    /\ req' = [req EXCEPT ![t] = NoRequest]
    /\ late' = [late EXCEPT ![t] = FALSE]
    /\ UNCHANGED <<log, todo, pushed>>

\* request_blocks only reads; get_by_hash is not bounded by the window.
ServeBlocks(t) ==
    /\ req[t].kind = "request"
    /\ Finish(t, "serve", FALSE)
    /\ UNCHANGED <<registry, log>>

-----------------------------------------------------------------------------
(* push_blocks: validated as a whole against one listing of the log, then  *)
(* appended one state at a time.                                           *)

\* MUTANT: what has the id of a listed state is skipped, as state.sync_push does.
FreshIds(batch, listed) == {i \in batch : IdOf[i] \notin Ids(listed)}

Fresh(batch, listed) == batch \ listed

Clashing(fresh, listed) ==
    \/ \E i, j \in fresh : i # j /\ IdOf[i] = IdOf[j]
    \/ Ids(fresh) \cap Ids(listed) # {}

\* Items whose parent is neither at hand nor absent by design.
Blocked(items, have) ==
    {i \in items : ParentOf[i] # 0 /\ ParentOf[i] \notin have}

\* The loop orders all of them unless some wait for each other or for a
\* parent that nobody has.
Orderable(items, have) ==
    \A rest \in (SUBSET items) \ {{}} :
        Blocked(rest, have \cup Ids(items \ rest)) # rest

\* decrypt_state: one block that fails spoils the batch.
Readable(batch) == Bad \notin batch

Acceptable(batch, listed) ==
    LET fresh == Fresh(batch, listed)
    IN  /\ Readable(batch)
        /\ ~Clashing(fresh, listed)
        /\ Orderable(fresh, Ids(listed))

Validate(t) ==
    LET listed == Newest(log)
    IN  /\ pc[t] = "serve" /\ req[t].kind = "push"
        /\ UNCHANGED <<registry, log>>
        /\ \/ /\ Acceptable(req[t].batch, listed)
              /\ Step(t, "serve", "store")
              /\ todo' = [todo EXCEPT ![t] = Fresh(req[t].batch, listed)]
              /\ UNCHANGED <<conn, req, pushed, late>>
           \/ ~Acceptable(req[t].batch, listed) /\ Finish(t, "serve", FALSE)

\* MUTANT: the batch is stored in any order.
Unordered(t) == todo[t]

\* The list is in some order that has every parent before its children.
NextUp(t) == {i \in todo[t] : ParentOf[i] \notin Ids(todo[t])}

\* stated refuses an id or a hash it holds: the request ends there, with
\* the states before it stored and, over a WebSocket, the socket closed.
Store(t) ==
    \E i \in NextUp(t) :
        /\ pc[t] = "store"
        /\ UNCHANGED registry
        /\ \/ /\ IdOf[i] \notin Ids(log)
              /\ log' = log \cup {i} /\ pushed' = pushed \cup {i}
              /\ todo' = [todo EXCEPT ![t] = @ \ {i}]
              /\ UNCHANGED <<conn, pc, req, late>>
           \/ IdOf[i] \in Ids(log) /\ Finish(t, "store", TRUE) /\ UNCHANGED log

Accept(t) ==
    /\ todo[t] = {} /\ Step(t, "store", "accepted")
    /\ UNCHANGED <<registry, log, conn, req, todo, pushed, late>>

Reply(t) ==
    /\ Finish(t, "accepted", FALSE)
    /\ UNCHANGED <<registry, log>>

-----------------------------------------------------------------------------
Requests(socket) ==
    [kind : {"handshake"}, device : Client, key : Key \cup {None},
     token : Client \cup {None}, socket : {socket}, batch : {{}}]
    \cup
    [kind : {"request"}, device : Client, key : {None},
     token : Client \cup {None}, socket : {socket}, batch : {{}}]
    \cup
    [kind : {"push"}, device : Client, key : {None},
     token : Client \cup {None}, socket : {socket}, batch : Batches]

ReceiveAny ==
    \/ \E t \in Thread : \E q \in Requests(None) : Receive(t, q)
    \/ \E s \in Socket : \E q \in Requests(s) : Receive(Loop, q)

Work(t) ==
    \/ Expire(t, "expire", "check") \/ Authorize(t)
    \/ ServeHandshake(t) \/ Expire(t, "beatExpire", "beatCheck")
    \/ BeatCheck(t) \/ Beat(t)
    \/ ServeBlocks(t)
    \/ Validate(t) \/ Store(t) \/ Accept(t) \/ Reply(t)

\* state.append and state.sync_push of other daemons: no parent is asked for.
AppendLocal(i) ==
    /\ IdOf[i] \notin Ids(log)
    /\ log' = log \cup {i}
    /\ UNCHANGED <<registry, service>>

\* A client closes its socket, or a new one is accepted in its place.
Reconnect(s) ==
    /\ req[Loop].socket # s
    /\ conn[s] # None
    /\ conn' = [conn EXCEPT ![s] = None]
    /\ UNCHANGED <<registry, log, pc, req, todo, pushed, late>>

\* fleetd stops at any point; the registry and the log are files.
Restart ==
    /\ pc' = [t \in Worker |-> "idle"]
    /\ req' = [t \in Worker |-> NoRequest]
    /\ todo' = [t \in Worker |-> {}]
    /\ late' = [t \in Worker |-> FALSE]
    /\ conn' = [s \in Socket |-> "closed"]
    /\ UNCHANGED <<registry, log, pushed>>

SyncNext ==
    \/ ReceiveAny
    \/ \E t \in Worker : Work(t)
    \/ \E i \in Item : AppendLocal(i)
    \/ \E s \in Socket : Reconnect(s)
    \/ Restart

FleetNext == (Administer /\ UNCHANGED <<log, service>>) \/ SyncNext

FleetSpec == FleetInit /\ [][FleetNext]_fleet

-----------------------------------------------------------------------------
(* A device that was revoked or had expired when its request came in never *)
(* gets past the authorisation, even on a WebSocket that was authenticated *)
(* while the device was still good.                                        *)
LateStoresNothing ==
    \A t \in Worker : late[t] => pc[t] \in {"expire", "check"}

(* Whatever a push leaves behind, the log holds the parent of each item it *)
(* stored: also when another writer took an id in the middle of the batch, *)
(* the window hid part of the log, or fleetd died between two states.      *)
ParentsStored ==
    \A i \in pushed : ParentOf[i] = 0 \/ ParentOf[i] \in Ids(log)

(* A push that is answered as accepted has its whole batch in the log, the *)
(* skipped part included.                                                  *)
AnswerTrue ==
    \A t \in Worker : pc[t] = "accepted" => req[t].batch \subseteq log
=============================================================================
