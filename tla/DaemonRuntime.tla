---------------------------- MODULE DaemonRuntime ----------------------------
(***************************************************************************)
(* Starting and stopping the Python daemons: start_daemons and             *)
(* stop_daemons (app/daemons/runner.py), the server thread and its start   *)
(* and stop (app/daemons/base.py), and the socket file that they bind and  *)
(* remove by name (app/ipc/transport.py, app/ipc/socket_security.py).      *)
(*                                                                         *)
(* A server is a number in order of creation, once its thread is begun; 0  *)
(* stands for none.  The connections, the handlers, what the stop          *)
(* callbacks do and the mode of the file are left out.                     *)
(***************************************************************************)
EXTENDS Naturals, Sequences, FiniteSetsExt

CONSTANTS
    Name,           \* daemons, in the order of DAEMON_NAMES: a sequence
    Caller,         \* threads that call start_daemons or stop_daemons
    Free,           \* the lock is free
    MaxServers      \* bound: JsonRpcServer objects made

ASSUME RuntimeAssumption ==
    MaxServers \in Nat /\ Free \notin Caller /\ Name \in Seq(Range(Name))

VARIABLES
    registry,   \* _SERVERS: the server of each daemon
    holder,     \* who holds _SERVERS_LOCK
    path,       \* the server the daemon's socket file leads to
    nameOf,     \* the daemon of each server made so far
    thread,     \* where each server's thread is
    stopSet,    \* servers whose _stop is set
    where,      \* where each caller is
    asked,      \* requested: the daemons it is to return
    pending,    \* those it has still to start
    new,        \* the server it is starting
    toStop,     \* servers it has still to stop
    mine        \* started_now

servers == <<nameOf, thread, stopSet>>
calls   == <<where, asked, pending, new, toStop, mine>>
runtime == <<registry, holder, path, servers, calls>>

Names == Range(Name)
Made == DOMAIN nameOf

RuntimeTypeOK ==
    /\ registry \in [Names -> 0..MaxServers] /\ path \in [Names -> 0..MaxServers]
    /\ holder \in Caller \cup {Free}
    /\ Len(nameOf) <= MaxServers /\ Range(nameOf) \subseteq Names
    /\ thread \in [Made -> {"begun", "bound", "listening", "failed", "broken", "ended"}]
    /\ stopSet \subseteq Made
    /\ where \in [Caller -> {"idle", "start", "ready", "stop", "lockstop", "undo"}]
    /\ \A c \in Caller : mine[c] \cup toStop[c] \subseteq Made /\ asked[c] \subseteq Names

RuntimeInit ==
    /\ registry = [n \in Names |-> 0] /\ path = [n \in Names |-> 0]
    /\ holder = Free
    /\ nameOf = <<>> /\ thread = <<>> /\ stopSet = {}
    /\ where = [c \in Caller |-> "idle"]
    /\ asked = [c \in Caller |-> {}] /\ pending = [c \in Caller |-> <<>>]
    /\ new = [c \in Caller |-> 0]
    /\ toStop = [c \in Caller |-> {}] /\ mine = [c \in Caller |-> {}]

-----------------------------------------------------------------------------
\* _run, up to the bind: an earlier file is removed, whosever it is.  When the
\* bind fails that has happened or not; the exception is kept for start().
Bind(i) ==
    /\ thread[i] = "begun"
    /\ \/ /\ thread' = [thread EXCEPT ![i] = "bound"]
          /\ path' = [path EXCEPT ![nameOf[i]] = i]
       \/ /\ thread' = [thread EXCEPT ![i] = "failed"]
          /\ path' \in {path, [path EXCEPT ![nameOf[i]] = 0]}
    /\ UNCHANGED <<registry, holder, nameOf, stopSet, calls>>

\* Once it was bound, the thread removes the file of its daemon when it ends.
Close(i, how) ==
    /\ thread' = [thread EXCEPT ![i] = how]
    /\ path' = [path EXCEPT ![nameOf[i]] = 0]

Listen(i) ==
    /\ thread[i] = "bound"
    /\ \/ thread' = [thread EXCEPT ![i] = "listening"] /\ UNCHANGED path
       \/ Close(i, "broken")
    /\ UNCHANGED <<registry, holder, nameOf, stopSet, calls>>

\* The accept loop ends within half a second of _stop, with any OSError, and,
\* leaving the exception behind, with any other; the server stays registered.
Leave(i) ==
    /\ thread[i] = "listening"
    /\ Close(i, "ended") \/ Close(i, "broken")
    /\ UNCHANGED <<registry, holder, nameOf, stopSet, calls>>

-----------------------------------------------------------------------------
Goto(c, from, to) == where[c] = from /\ where' = [where EXCEPT ![c] = to]

Stopping(c) == where[c] \in {"stop", "lockstop", "undo"}

\* stop() of the caller's next server: the first half sets the event.
\* _SERVERS and started_now are in the order of starting, which is that of
\* the numbers, and are gone through backwards.
BeginStop(c) ==
    /\ Stopping(c) /\ toStop[c] # {}
    /\ Max(toStop[c]) \notin stopSet
    /\ stopSet' = stopSet \cup {Max(toStop[c])}
    /\ UNCHANGED <<registry, holder, path, nameOf, thread, calls>>

\* The join has five seconds: only a thread that hangs before the accept
\* loop outlasts it.
Joined(i) == thread[i] # "listening"

\* The second half: join, then the clean-up of a server that was bound.
EndStop(c) ==
    LET i == Max(toStop[c])
    IN  /\ Stopping(c) /\ toStop[c] # {}
        /\ i \in stopSet /\ Joined(i)
        /\ path' = IF thread[i] \notin {"begun", "failed"}
                   THEN [path EXCEPT ![nameOf[i]] = 0] ELSE path
        /\ toStop' = [toStop EXCEPT ![c] = @ \ {i}]
        /\ UNCHANGED <<registry, holder, servers, where, asked, pending, new, mine>>

-----------------------------------------------------------------------------
\* start_daemons for one daemon or all, once it has the lock.
Call(c, names) ==
    /\ holder = Free
    /\ Goto(c, "idle", "start")
    /\ holder' = c
    /\ asked' = [asked EXCEPT ![c] = Range(names)]
    /\ pending' = [pending EXCEPT ![c] = names]
    /\ UNCHANGED <<registry, path, servers, new, toStop, mine>>

\* One name of the loop: registered already, whether or not it still serves, or
\* a server is made, whose registrar raises, or whose thread is begun.
StartOne(c) ==
    LET n == Head(pending[c])
    IN  /\ where[c] = "start" /\ pending[c] # <<>>
        /\ pending' = [pending EXCEPT ![c] = Tail(@)]
        /\ \/ /\ registry[n] # 0
              /\ UNCHANGED <<nameOf, thread, where, new>>
           \/ /\ registry[n] = 0
              /\ where' = [where EXCEPT ![c] = "lockstop"]
              /\ UNCHANGED <<nameOf, thread, new>>
           \/ /\ registry[n] = 0 /\ Len(nameOf) < MaxServers
              /\ nameOf' = Append(nameOf, n) /\ thread' = Append(thread, "begun")
              /\ new' = [new EXCEPT ![c] = Len(nameOf) + 1]
              /\ where' = [where EXCEPT ![c] = "ready"]
        /\ UNCHANGED <<registry, holder, path, stopSet, asked, toStop, mine>>

\* start() returns, and the server is registered: its thread got to the accept
\* loop and left no exception, even if it has left the loop by now.
Started(c) ==
    /\ Goto(c, "ready", "start")
    /\ thread[new[c]] \in {"listening", "ended"}
    /\ registry' = [registry EXCEPT ![nameOf[new[c]]] = new[c]]
    /\ mine' = [mine EXCEPT ![c] = @ \cup {new[c]}]
    /\ new' = [new EXCEPT ![c] = 0]
    /\ UNCHANGED <<holder, path, servers, asked, pending, toStop>>

\* The thread left an exception, or is not ready in five seconds: start() stops
\* it, still under the lock, and raises.
NotStarted(c) ==
    /\ Goto(c, "ready", "lockstop")
    /\ thread[new[c]] \in {"begun", "bound", "failed", "broken"}
    /\ toStop' = [toStop EXCEPT ![c] = {new[c]}]
    /\ new' = [new EXCEPT ![c] = 0]
    /\ UNCHANGED <<registry, holder, path, servers, asked, pending, mine>>

\* start_daemons returns its servers ...
Unlock(c) ==
    /\ pending[c] = <<>>
    /\ \A n \in asked[c] : registry[n] # 0
    /\ Goto(c, "start", "idle")
    /\ holder' = Free
    /\ asked' = [asked EXCEPT ![c] = {}]
    /\ mine' = [mine EXCEPT ![c] = {}]
    /\ UNCHANGED <<registry, path, servers, pending, new, toStop>>

\* ... or raises, when another call has undone one of them in the meantime.
LookupFails(c) ==
    /\ pending[c] = <<>>
    /\ \E n \in asked[c] : registry[n] = 0
    /\ Goto(c, "start", "lockstop")
    /\ UNCHANGED <<registry, holder, path, servers, asked, pending, new, toStop, mine>>

\* Leaving the with statement with any exception releases the lock ...
Release(c) ==
    /\ toStop[c] = {}
    /\ Goto(c, "lockstop", "undo")
    /\ holder' = Free
    /\ UNCHANGED <<registry, path, servers, asked, pending, new, toStop, mine>>

\* MUTANT: what this call started is stopped, and its name given up.
UndoOwn(c) ==
    LET i == Max(mine[c])
    IN  /\ where[c] = "undo" /\ mine[c] # {} /\ toStop[c] = {}
        /\ registry' = [registry EXCEPT ![nameOf[i]] = 0]
        /\ toStop' = [toStop EXCEPT ![c] = {i}]
        /\ mine' = [mine EXCEPT ![c] = @ \ {i}]
        /\ UNCHANGED <<holder, path, servers, where, asked, pending, new>>

\* ... and then what this call started is popped by name, the last one first,
\* whatever is registered there by now, and stopped before the next one.
Undo(c) ==
    LET i == Max(mine[c])
        n == nameOf[i]
    IN  /\ where[c] = "undo" /\ mine[c] # {} /\ toStop[c] = {}
        /\ registry' = [registry EXCEPT ![n] = 0]
        /\ toStop' = [toStop EXCEPT ![c] = {registry[n]} \ {0}]
        /\ mine' = [mine EXCEPT ![c] = @ \ {i}]
        /\ UNCHANGED <<holder, path, servers, where, asked, pending, new>>

\* The exception goes on to the caller.
Raise(c) ==
    /\ mine[c] = {} /\ toStop[c] = {}
    /\ Goto(c, "undo", "idle")
    /\ asked' = [asked EXCEPT ![c] = {}]
    /\ pending' = [pending EXCEPT ![c] = <<>>]
    /\ UNCHANGED <<registry, holder, path, servers, new, toStop, mine>>

\* stop_daemons: the servers are taken out under the lock, stopped outside.
TakeAll(c) ==
    /\ holder = Free
    /\ Goto(c, "idle", "stop")
    /\ registry' = [n \in Names |-> 0]
    /\ toStop' = [toStop EXCEPT ![c] = Range(registry) \ {0}]
    /\ UNCHANGED <<holder, path, servers, asked, pending, new, mine>>

Stopped(c) ==
    /\ toStop[c] = {}
    /\ Goto(c, "stop", "idle")
    /\ UNCHANGED <<registry, holder, path, servers, asked, pending, new, toStop, mine>>

RuntimeNext ==
    \/ \E i \in Made : Bind(i) \/ Listen(i) \/ Leave(i)
    \/ \E c \in Caller :
         \/ Call(c, Name) \/ \E n \in Names : Call(c, <<n>>)
         \/ StartOne(c) \/ Started(c) \/ NotStarted(c)
         \/ Unlock(c) \/ LookupFails(c) \/ Release(c) \/ Undo(c) \/ Raise(c)
         \/ TakeAll(c) \/ BeginStop(c) \/ EndStop(c) \/ Stopped(c)

RuntimeSpec == RuntimeInit /\ [][RuntimeNext]_runtime

-----------------------------------------------------------------------------
\* A thread that serves, or may still come to.
Alive(i) == thread[i] \in {"begun", "bound", "listening"}

\* Who answers for a server: the registry, the call that starts it, or a call
\* that is to stop it.
Starters(i) == {c \in Caller : where[c] = "ready" /\ new[c] = i}
Stoppers(i) == {c \in Caller : i \in toStop[c]}

(* No daemon is forgotten: whichever starts fail, are given up while their *)
(* thread comes up, or are undone by name while others stop and start the  *)
(* same daemons, a server that nobody has told to stop is registered, or   *)
(* some call is about to register or to stop it.  So what stop_daemons     *)
(* finds in the registry is all that runs.  No two calls stop the same     *)
(* server, none stops one that is registered, and a socket file belongs to *)
(* a thread that will still remove it.                                     *)
NoneForgotten ==
    \A i \in Made :
        /\ Alive(i) /\ i \notin stopSet =>
              registry[nameOf[i]] = i \/ Starters(i) # {} \/ Stoppers(i) # {}
        /\ registry[nameOf[i]] = i => Stoppers(i) = {} /\ Starters(i) = {}
        /\ \A c, d \in Stoppers(i) : c = d
        /\ path[nameOf[i]] = i => thread[i] \in {"bound", "listening"}
=============================================================================
