----------------------------- MODULE AuditTrail -----------------------------
(***************************************************************************)
(* The audit chain inside the state log (app/core/audit.py) as stated      *)
(* serves it (audit.append and audit.verify, app/daemons/stated.py): the   *)
(* trail object is made by whichever thread first finds none, each trail   *)
(* has a lock of its own, and an append numbers its event after those it   *)
(* read under that lock.  Audit events of another device may arrive by     *)
(* state.append and state.sync_push, which do not go through a trail.      *)
(*                                                                         *)
(* An event is named by a number; 0 stands for no previous event.  The     *)
(* previous_audit_hash always goes with previous_state_id.                 *)
(***************************************************************************)
EXTENDS Naturals, FiniteSets

CONSTANTS
    Appender,       \* RPC threads of stated that are inside audit.append
    Synced,         \* audit events of another device that may be synced in
    MaxEvents       \* bound: events appended here

ASSUME AuditAssumption ==
    /\ IsFiniteSet(Appender)
    /\ MaxEvents \in Nat
    /\ \A e \in Synced : e.id > MaxEvents

VARIABLES
    trails,     \* StateAuditTrail objects made so far; the newest is in use
    using,      \* the trail each thread got from _active_audit_trail
    at,         \* where each thread is in audit_append
    seen,       \* the events each thread read
    events,     \* the AuditEvent states of the log
    appended    \* ids given out so far

audit == <<trails, using, at, seen, events, appended>>

AuditTypeOK ==
    /\ trails \in 0..Cardinality(Appender)
    /\ using \in [Appender -> 0..trails]
    /\ at \in [Appender -> {"idle", "make", "take", "lock", "read"}]
    /\ \A t \in Appender : seen[t] \subseteq events
    /\ appended \in 0..MaxEvents

AuditInit ==
    /\ trails = 0
    /\ using = [t \in Appender |-> 0]
    /\ at = [t \in Appender |-> "idle"]
    /\ seen = [t \in Appender |-> {}]
    /\ events = {}
    /\ appended = 0

-----------------------------------------------------------------------------
\* _events: by sequence, then by time; ids grow with the time of the clock.
Before(e, f) == e.sequence < f.sequence \/ (e.sequence = f.sequence /\ e.id < f.id)
Preceding(e, log) == {f \in log : Before(f, e)}
LastOf(log) == CHOOSE e \in log : \A f \in log \ {e} : Before(f, e)
HeadId(log) == IF log = {} THEN 0 ELSE LastOf(log).id

\* verify, without an external head or count to compare with.
Verified(log) ==
    \A e \in log :
        /\ e.sequence = Cardinality(Preceding(e, log)) + 1
        /\ e.previous = HeadId(Preceding(e, log))

Go(t, from, to) == at[t] = from /\ at' = [at EXCEPT ![t] = to]

\* _active_audit_trail takes no lock: look, make, read the global.
Look(t) ==
    /\ Go(t, "idle", IF trails = 0 THEN "make" ELSE "take")
    /\ UNCHANGED <<trails, using, seen, events, appended>>

Make(t) ==
    /\ Go(t, "make", "take")
    /\ trails' = trails + 1
    /\ UNCHANGED <<using, seen, events, appended>>

Take(t) ==
    /\ Go(t, "take", "lock")
    /\ using' = [using EXCEPT ![t] = trails]
    /\ UNCHANGED <<trails, seen, events, appended>>

\* MUTANT: the events are read before the lock is taken.
Unlocked(t) == TRUE

LockFree(t) ==
    \A u \in Appender \ {t} : ~(at[u] = "read" /\ using[u] = using[t])

ReadEvents(t) ==
    /\ LockFree(t)
    /\ Go(t, "lock", "read")
    /\ seen' = [seen EXCEPT ![t] = events]
    /\ UNCHANGED <<trails, using, events, appended>>

NewEvent(t) ==
    [id |-> appended + 1, sequence |-> Cardinality(seen[t]) + 1,
     previous |-> HeadId(seen[t])]

\* The append releases the lock; it may also fail and leave nothing.
AppendEvent(t) ==
    /\ Go(t, "read", "idle")
    /\ \/ /\ appended < MaxEvents
          /\ events' = events \cup {NewEvent(t)}
          /\ appended' = appended + 1
       \/ UNCHANGED <<events, appended>>
    /\ seen' = [seen EXCEPT ![t] = {}]
    /\ using' = [using EXCEPT ![t] = 0]
    /\ UNCHANGED trails

SyncEvent(e) ==
    /\ e \notin events
    /\ events' = events \cup {e}
    /\ UNCHANGED <<trails, using, at, seen, appended>>

AuditNext ==
    \/ \E t \in Appender :
         Look(t) \/ Make(t) \/ Take(t) \/ ReadEvents(t) \/ AppendEvent(t)
    \/ \E e \in Synced : SyncEvent(e)

AuditSpec == AuditInit /\ [][AuditNext]_audit

-----------------------------------------------------------------------------
(* What the module, its lock and the test of audit.verify promise: a log   *)
(* whose audit events were all appended by audit.append verifies.  It does *)
(* not hold: two first appends can each make a trail and take the lock of  *)
(* their own.                                                              *)
AppendsVerify == events \cap Synced = {} => Verified(events)

(* As long as no more than one trail was made and no foreign event came    *)
(* in, every append continues the chain, whatever threads interleave and   *)
(* whichever appends fail.                                                 *)
OneTrailVerifies ==
    trails <= 1 /\ events \cap Synced = {} => Verified(events)
=============================================================================
