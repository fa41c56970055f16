--------------------------- MODULE SequenceTracker ---------------------------
(***************************************************************************)
(* One consumer of the event bus: ConsumerProgress, a SequenceTracker per  *)
(* producer (crates/eira-core/src/ipc/sequence.rs), with the consumer      *)
(* process around it.                                                      *)
(*                                                                         *)
(* The bus may lose, repeat and reorder events, and events are delivered   *)
(* again after a restart: any sequence number may arrive at any time.      *)
(* Several events are processed at once; each call on the tracker is one   *)
(* step, taken under the mutex its users wrap it in (the tests, :492), and *)
(* what a thread decides to call may rest on an older state.  The process  *)
(* persists checkpoints() now and then and may crash at any step.          *)
(*                                                                         *)
(* Calls that the tracker answers with an error or with Duplicate change   *)
(* nothing and are not steps.  Sequence 0, which every call refuses or     *)
(* does not find, is left out.                                             *)
(***************************************************************************)
EXTENDS Integers, FiniteSets

CONSTANTS
    Producer,       \* the producers the consumer listens to
    MaxSeq,         \* bound: the highest sequence number delivered
    MaxPending,     \* max_pending of the trackers
    MaxCrashes,     \* bound on crashes of the consumer
    MaxFails        \* bound on failed attempts at processing

ASSUME SizesAreNat ==
    /\ MaxSeq \in Nat
    /\ MaxPending \in Nat
    /\ MaxCrashes \in Nat
    /\ MaxFails \in Nat

VARIABLES
    last,       \* last_committed of each tracker
    pending,    \* the buffered events of each tracker, with their stage
    lost,       \* the count of events declared lost since the restart
    snapshot,   \* what the persister last read from checkpoints()
    saved,      \* the persisted checkpoints
    crashes,    \* crashes so far
    fails,      \* failed attempts so far
    got,        \* history: events accepted since the restart
    done,       \* history: events processed since the restart
    applied,    \* history: events ever processed
    gone        \* history: events ever declared lost

tracker == <<last, pending, lost>>
disk    == <<snapshot, saved>>
bounds  == <<crashes, fails>>
history == <<got, done, applied, gone>>
vars    == <<tracker, disk, bounds, history>>

Seq   == 1..MaxSeq
Stage == {"Received", "InFlight", "Processed"}

Zero == [p \in Producer |-> 0]
Nothing == [p \in Producer |-> {}]

Init ==
    /\ last     = Zero
    /\ pending  = [p \in Producer |-> [s \in {} |-> "Received"]]
    /\ lost     = Zero
    /\ snapshot = Zero
    /\ saved    = Zero
    /\ crashes  = 0
    /\ fails    = 0
    /\ got      = Nothing
    /\ done     = Nothing
    /\ applied  = Nothing
    /\ gone     = Nothing

-----------------------------------------------------------------------------
(* receive: buffer an event of the bus. *)

Buffered(p) == DOMAIN pending[p]

\* MUTANT: the newest committed event passes for a new one.
AnswerOffByOne(p, s) ==
    IF s < last[p] \/ s \in Buffered(p)                THEN "Duplicate"
    ELSE IF Cardinality(Buffered(p)) >= MaxPending     THEN "BufferFull"
    ELSE "Accepted"

\* MUTANT: the buffer has room for one event too many.
AnswerOverfull(p, s) ==
    IF s <= last[p] \/ s \in Buffered(p)               THEN "Duplicate"
    ELSE IF Cardinality(Buffered(p)) > MaxPending      THEN "BufferFull"
    ELSE "Accepted"

\* The answer about event s of p in the state before the call.
Answer(p, s) ==
    IF s <= last[p] \/ s \in Buffered(p)               THEN "Duplicate"
    ELSE IF Cardinality(Buffered(p)) >= MaxPending     THEN "BufferFull"
    ELSE "Accepted"

\* What an accepted event is told it waits for: 0 is InOrder, more is
\* AfterGap.  The code subtracts two counts.
Missing(p, s) ==
    (s - last[p] - 1) - Cardinality({q \in Buffered(p) : q < s})

\* f with the value v at s.
With(f, s, v) == [q \in (DOMAIN f) \cup {s} |-> IF q = s THEN v ELSE f[q]]

\* f without the event s.
Without(f, s) == [q \in (DOMAIN f) \ {s} |-> f[q]]

Receive(p, s) ==
    /\ Answer(p, s) = "Accepted"
    /\ pending' = [pending EXCEPT ![p] = With(@, s, "Received")]
    /\ got' = [got EXCEPT ![p] = @ \cup {s}]
    /\ UNCHANGED <<last, lost, disk, bounds, done, applied, gone>>

-----------------------------------------------------------------------------
(* begin, complete, fail: the stages of a buffered event. *)

Transition(p, s, from, to) ==
    /\ s \in Buffered(p)
    /\ pending[p][s] = from
    /\ pending' = [pending EXCEPT ![p] = With(@, s, to)]
    /\ UNCHANGED <<last, lost, disk, crashes, got, gone>>

StartWork(p, s) ==
    /\ Transition(p, s, "Received", "InFlight")
    /\ UNCHANGED <<fails, done, applied>>

Complete(p, s) ==
    /\ Transition(p, s, "InFlight", "Processed")
    /\ done' = [done EXCEPT ![p] = @ \cup {s}]
    /\ applied' = [applied EXCEPT ![p] = @ \cup {s}]
    /\ UNCHANGED fails

Fail(p, s) ==
    /\ fails < MaxFails
    /\ Transition(p, s, "InFlight", "Received")
    /\ fails' = fails + 1
    /\ UNCHANGED <<done, applied>>

-----------------------------------------------------------------------------
(* commit and declare_lost: the two ways the checkpoint moves. *)

\* MUTANT: any processed event commits, its predecessors or not.
Overtaking(p, s) ==
    s \in Buffered(p) /\ pending[p][s] = "Processed"

\* commit(s) succeeds: s is processed and its predecessor has committed.
Committable(p, s) ==
    /\ s \in Buffered(p)
    /\ pending[p][s] = "Processed"
    /\ s = last[p] + 1

Commit(p, s) ==
    /\ Committable(p, s)
    /\ pending' = [pending EXCEPT ![p] = Without(@, s)]
    /\ last' = [last EXCEPT ![p] = s]
    /\ UNCHANGED <<lost, disk, bounds, history>>

\* MUTANT: only the named event itself is looked up.
OnlyItself(p, through) ==
    through > last[p] /\ through \notin Buffered(p)

\* MUTANT: a buffered event of any number forbids the loss.
WhileEmpty(p, through) ==
    through > last[p] /\ Buffered(p) = {}

\* declare_lost(through) moves the checkpoint: no event it would skip is
\* buffered.  The caller may have read gaps() any number of steps ago, or
\* name a number of its own.
Skippable(p, through) ==
    /\ through > last[p]
    /\ \A s \in Buffered(p) : s > through

DeclareLost(p, through) ==
    /\ Skippable(p, through)
    /\ last' = [last EXCEPT ![p] = through]
    /\ lost' = [lost EXCEPT ![p] = @ + (through - last[p])]
    /\ gone' = [gone EXCEPT ![p] = @ \cup (last[p] + 1)..through]
    /\ UNCHANGED <<pending, disk, bounds, got, done, applied>>

\* MUTANT: a gap is said to end at the event that follows it.
GapsInclusive(p) ==
    {g \in [first : Seq, last : Seq] :
        /\ g.last \in Buffered(p)
        /\ g.first < g.last
        /\ g.first - 1 \in Buffered(p) \cup {last[p]}
        /\ \A s \in g.first..(g.last - 1) : s \notin Buffered(p)}

\* gaps(): a gap runs from after the checkpoint, or a buffered event, to
\* before the next buffered one.
Gaps(p) ==
    {g \in [first : Seq, last : Seq] :
        /\ g.last + 1 \in Buffered(p)
        /\ g.first <= g.last
        /\ g.first - 1 \in Buffered(p) \cup {last[p]}
        /\ \A s \in g.first..g.last : s \notin Buffered(p)}

\* The consumer gives up the first gap.
DeclareGap(p) ==
    \E g \in Gaps(p) : g.first = last[p] + 1 /\ DeclareLost(p, g.last)

-----------------------------------------------------------------------------
(* checkpoints and resume: what survives a crash. *)

\* MUTANT: the newest processed event counts as the checkpoint.
CheckpointsOfProcessed ==
    [p \in Producer |->
        LET ready == {s \in Buffered(p) : pending[p][s] = "Processed"}
        IN  IF ready = {} THEN last[p]
            ELSE CHOOSE s \in ready : \A t \in ready : t <= s]

Checkpoints == last

\* The persister calls checkpoints() and writes the answer later.
ReadCheckpoints ==
    /\ snapshot' = Checkpoints
    /\ UNCHANGED <<tracker, saved, bounds, history>>

Persist ==
    /\ saved' = snapshot
    /\ UNCHANGED <<tracker, snapshot, bounds, history>>

\* The process dies and comes back with resume(saved).  A producer without
\* a saved checkpoint gets a tracker at 0 with its first event.
Crash ==
    /\ crashes < MaxCrashes
    /\ crashes' = crashes + 1
    /\ last' = saved
    /\ pending' = [p \in Producer |-> [s \in {} |-> "Received"]]
    /\ lost' = Zero
    /\ snapshot' = saved
    /\ got' = Nothing
    /\ done' = Nothing
    /\ UNCHANGED <<saved, fails, applied, gone>>

-----------------------------------------------------------------------------

Next ==
    \/ \E p \in Producer, s \in Seq :
          \/ Receive(p, s)
          \/ StartWork(p, s)
          \/ Complete(p, s)
          \/ Fail(p, s)
          \/ Commit(p, s)
          \/ DeclareLost(p, s)
    \/ ReadCheckpoints
    \/ Persist
    \/ Crash

Spec == Init /\ [][Next]_vars

\* The consumer works on what it has accepted, retries refused commits and
\* gives up a gap that stays in front of buffered events (the policy the
\* code asks of it, sequence.rs:21-25).  Nothing is assumed of the bus.
FairSpec ==
    /\ Spec
    /\ \A p \in Producer :
          /\ WF_vars(DeclareGap(p))
          /\ \A s \in Seq :
                /\ WF_vars(StartWork(p, s))
                /\ WF_vars(Complete(p, s))
                /\ WF_vars(Commit(p, s))

-----------------------------------------------------------------------------
(* Properties *)

\* Every variable has its type, and no tracker buffers more than max_pending.
TypeOK ==
    /\ last \in [Producer -> 0..MaxSeq]
    /\ DOMAIN pending = Producer
    /\ \A p \in Producer :
          /\ Buffered(p) \subseteq Seq
          /\ \A s \in Buffered(p) : pending[p][s] \in Stage
          /\ Cardinality(Buffered(p)) <= MaxPending
    /\ lost \in [Producer -> 0..MaxSeq]
    /\ snapshot \in [Producer -> 0..MaxSeq]
    /\ saved \in [Producer -> 0..MaxSeq]
    /\ crashes \in 0..MaxCrashes
    /\ fails \in 0..MaxFails
    /\ got \in [Producer -> SUBSET Seq]
    /\ done \in [Producer -> SUBSET Seq]
    /\ applied \in [Producer -> SUBSET Seq]
    /\ gone \in [Producer -> SUBSET Seq]

\* An event the consumer accepted is not skipped: it stays buffered until
\* the checkpoint passes it, and the checkpoint passes it only once it has
\* been processed, whatever is declared lost around it (sequence.rs:24-25).
ReceivedNotSkipped ==
    \A p \in Producer : \A s \in got[p] :
        IF s <= last[p] THEN s \in done[p] ELSE s \in Buffered(p)

\* The count in AfterGap is the number of predecessors that are neither
\* settled nor buffered: the subtraction at :122-124 never takes away an
\* event that is already committed or lost.
MissingExact ==
    \A p \in Producer, s \in Seq :
        s > last[p] =>
            Missing(p, s) =
                Cardinality({q \in Seq : q < s /\ q > last[p] /\ q \notin Buffered(p)})

GapsNamed ==
    \A p \in Producer :
        UNION {g.first..g.last : g \in Gaps(p)} =
            {s \in Seq : /\ s > last[p] /\ s \notin Buffered(p)
                        /\ \E b \in Buffered(p) : s < b}

\* gaps() names exactly the events below a buffered one that are neither
\* settled nor buffered, so what it returns can be declared lost as it is,
\* and receive() counts the same ones.
GapsExact == GapsNamed /\ MissingExact

\* Since the restart an event is processed to success once, and never when
\* the persisted checkpoint has passed it: Duplicate is the answer to every
\* redelivery and a refused commit is retried without a second run.
ProcessedOnce ==
    [][\A p \in Producer, s \in Seq :
          Complete(p, s) => s \notin done[p] /\ s > saved[p]]_vars

\* Short of a crash the checkpoint moves over one processed event at a time,
\* in order, or over events the consumer does not hold, and these are counted.
CheckpointInOrder ==
    [][\A p \in Producer :
          last'[p] # last[p] /\ ~Crash =>
            /\ last'[p] > last[p]
            /\ \/ last'[p] = last[p] + 1 /\ last'[p] \in done[p] /\ lost'[p] = lost[p]
               \/ /\ (last[p] + 1)..last'[p] \cap (got[p] \cup done[p]) = {}
                  /\ lost'[p] = lost[p] + (last'[p] - last[p])]_vars

\* The persisted checkpoint keeps the promise of CheckpointPromise.
Promise == INSTANCE CheckpointPromise WITH mark <- saved
KeepsCheckpoint == Promise!Spec

\* A buffered event is settled in the end (or lost with the process): no
\* missing predecessor, failed attempt or full buffer blocks it for ever.
BufferedSettles ==
    \A p \in Producer, s \in Seq : (s \in Buffered(p)) ~> (s \notin Buffered(p))
=============================================================================
