------------------------------ MODULE EventBus ------------------------------
(***************************************************************************)
(* The event bus: a Fanout over the bounded queues of its subscribers      *)
(* (crates/eira-core/src/ipc/queue.rs).                                    *)
(*                                                                         *)
(* publish() visits the queues one after another and takes each lock with  *)
(* try_lock; consumers lock, pop and unlock between its visits, may hold   *)
(* a lock as long as they like, or panic with it.  An event is its number  *)
(* in the order of publishing, with the timestamp its producer gave it.    *)
(* The clock the caller reads may jump either way (it is wall time).       *)
(***************************************************************************)
EXTENDS Integers, Sequences, FiniteSets

CONSTANTS
    Subscribers,    \* bound: how many subscribers join
    Capacity,       \* the capacity of the queues
    MaxAge,         \* max_age_ns of the DropByAge policy
    MaxEvents,      \* bound on events published
    MaxClock        \* bound on the clock

Subscriber == 1..Subscribers
Time == 0..MaxClock

DropPolicy == {"DropOldest", "DropNewest", "DropByAge"}

\* Every queue has room: BoundedEventQueue::new refuses a capacity of zero.
ASSUME BusAssumption ==
    /\ {Subscribers, MaxAge, MaxEvents, MaxClock} \subseteq Nat
    /\ Capacity \in Nat \ {0}

VARIABLES
    joined,     \* the subscribers so far are 1..joined, in the order of the Vec
    policy,     \* the drop policy of each subscriber; "none" before it joins
    items,      \* the queue of each subscriber
    dropped,    \* the drop counter of each queue
    busyDrops,  \* busy_drops of the fanout
    lock,       \* who has the mutex of each queue
    clock,      \* wall time
    event,      \* the event being published, or the last one published
    now,        \* the time the caller of publish() passed
    next,       \* the subscriber publish() visits next; 0 when it has returned
    offered,    \* history: the events offered to each subscriber
    refused,    \* history: the busy drops, as pairs of subscriber and event
    taken       \* history: the events each subscriber popped, in order

queues  == <<items, dropped>>
publish == <<event, now, next>>
vars    == <<joined, policy, queues, busyDrops, lock, clock, publish, offered, refused, taken>>

Event == [id : 0..MaxEvents, ts : Time]

Init ==
    /\ joined    = 0
    /\ policy    = [s \in Subscriber |-> "none"]
    /\ items     = [s \in Subscriber |-> <<>>]
    /\ dropped   = [s \in Subscriber |-> 0]
    /\ busyDrops = 0
    /\ lock      = [s \in Subscriber |-> "free"]
    /\ clock     = 0
    /\ event     = [id |-> 0, ts |-> 0]
    /\ now       = 0
    /\ next      = 0
    /\ offered   = [s \in Subscriber |-> 0]
    /\ refused   = {}
    /\ taken     = [s \in Subscriber |-> <<>>]

-----------------------------------------------------------------------------
(* push: what each policy makes of queue q and event e.  The result is the *)
(* new queue and the number of events dropped, the new one included.       *)

Kept(q, drops) == [queue |-> q, drops |-> drops]

\* MUTANT: the new event is put at the front.
OldestAtFront(q, e) ==
    IF Len(q) < Capacity THEN Kept(Append(q, e), 0)
    ELSE Kept(<<e>> \o Tail(q), 1)

DropOldest(q, e) ==
    IF Len(q) < Capacity THEN Kept(Append(q, e), 0)
    ELSE Kept(Append(Tail(q), e), 1)

DropNewest(q, e) ==
    IF Len(q) < Capacity THEN Kept(Append(q, e), 0)
    ELSE Kept(q, 1)

Fresh(e) == e.ts >= now - MaxAge

\* The k-th smallest element of a set of places.
Place(places, k) ==
    CHOOSE i \in places : Cardinality({j \in places : j < i}) = k - 1

\* What expire() retains of a queue, in its order.
Retained(q) ==
    LET places == {i \in DOMAIN q : Fresh(q[i])}
    IN  [k \in 1..Cardinality(places) |-> q[Place(places, k)]]

\* MUTANT: the early return forgets the events that expired.
ByAgeForgetsExpired(q, e) ==
    LET alive == Retained(q)
    IN  IF ~Fresh(e) \/ Len(alive) >= Capacity
        THEN Kept(alive, 1)
        ELSE Kept(Append(alive, e), Len(q) - Len(alive))

DropByAge(q, e) ==
    LET alive   == Retained(q)
        expired == Len(q) - Len(alive)
    IN  IF ~Fresh(e) \/ Len(alive) >= Capacity
        THEN Kept(alive, expired + 1)
        ELSE Kept(Append(alive, e), expired)

Push(s) ==
    CASE policy[s] = "DropOldest" -> DropOldest(items[s], event)
      [] policy[s] = "DropNewest" -> DropNewest(items[s], event)
      [] policy[s] = "DropByAge"  -> DropByAge(items[s], event)

-----------------------------------------------------------------------------
(* Fanout::subscribe and Fanout::publish take &mut self: one at a time. *)

Subscribe(kind) ==
    /\ next = 0
    /\ joined < Subscribers
    /\ joined' = joined + 1
    /\ policy' = [policy EXCEPT ![joined + 1] = kind]
    /\ UNCHANGED <<queues, busyDrops, lock, clock, publish, offered, refused, taken>>

\* publish() is called with an event and the time; a producer may have
\* stamped its event some time ago, or with a clock of its own.
Publish(ts) ==
    /\ next = 0
    /\ event.id < MaxEvents
    /\ event' = [id |-> event.id + 1, ts |-> ts]
    /\ now' = clock
    /\ next' = IF joined = 0 THEN 0 ELSE 1
    /\ UNCHANGED <<joined, policy, queues, busyDrops, lock, clock, offered, refused, taken>>

Visited(s) ==
    /\ next' = IF s = joined THEN 0 ELSE s + 1
    /\ offered' = [offered EXCEPT ![s] = @ + 1]
    /\ UNCHANGED <<joined, policy, lock, clock, event, now, taken>>

\* try_lock succeeds: the event is pushed.
Offer(s) ==
    /\ next = s
    /\ lock[s] = "free"
    /\ items' = [items EXCEPT ![s] = Push(s).queue]
    /\ dropped' = [dropped EXCEPT ![s] = @ + Push(s).drops]
    /\ UNCHANGED <<busyDrops, refused>>
    /\ Visited(s)

\* MUTANT: publish() waits for the lock unless the mutex is poisoned.
OnlyPoisoned(s) ==
    /\ next = s
    /\ lock[s] = "poisoned"
    /\ busyDrops' = busyDrops + 1
    /\ refused' = refused \cup {<<s, event.id>>}
    /\ UNCHANGED queues
    /\ Visited(s)

\* try_lock fails: WouldBlock or Poisoned.
DropBusy(s) ==
    /\ next = s
    /\ lock[s] # "free"
    /\ busyDrops' = busyDrops + 1
    /\ refused' = refused \cup {<<s, event.id>>}
    /\ UNCHANGED queues
    /\ Visited(s)

-----------------------------------------------------------------------------
(* A consumer locks its queue, pops while it holds it, and unlocks. *)

Lock(s) ==
    /\ s <= joined
    /\ lock[s] = "free"
    /\ lock' = [lock EXCEPT ![s] = "consumer"]
    /\ UNCHANGED <<joined, policy, queues, busyDrops, clock, publish, offered, refused, taken>>

Pop(s) ==
    /\ lock[s] = "consumer"
    /\ items[s] # <<>>
    /\ taken' = [taken EXCEPT ![s] = Append(@, Head(items[s]).id)]
    /\ items' = [items EXCEPT ![s] = Tail(@)]
    /\ UNCHANGED <<joined, policy, dropped, busyDrops, lock, clock, publish, offered, refused>>

Unlock(s) ==
    /\ lock[s] = "consumer"
    /\ lock' = [lock EXCEPT ![s] = "free"]
    /\ UNCHANGED <<joined, policy, queues, busyDrops, clock, publish, offered, refused, taken>>

\* The consumer panics with the lock held.
Panic(s) ==
    /\ lock[s] = "consumer"
    /\ lock' = [lock EXCEPT ![s] = "poisoned"]
    /\ UNCHANGED <<joined, policy, queues, busyDrops, clock, publish, offered, refused, taken>>

SetClock ==
    /\ clock' \in Time
    /\ UNCHANGED <<joined, policy, queues, busyDrops, lock, publish, offered, refused, taken>>

-----------------------------------------------------------------------------

Next ==
    \/ \E kind \in DropPolicy : Subscribe(kind)
    \/ \E ts \in Time : Publish(ts)
    \/ \E s \in Subscriber :
          \/ Offer(s)
          \/ DropBusy(s)
          \/ Lock(s)
          \/ Pop(s)
          \/ Unlock(s)
          \/ Panic(s)
    \/ SetClock

Spec == Init /\ [][Next]_vars

\* The thread in publish() keeps running; nothing is assumed of consumers.
FairSpec == Spec /\ \A s \in Subscriber : WF_vars(Offer(s) \/ DropBusy(s))

-----------------------------------------------------------------------------
(* Properties *)

\* No event disappears without being counted: what was offered to a
\* subscriber is popped, in a queue that keeps within its capacity, or in one
\* of the two drop counters.
Counted ==
    /\ \A s \in Subscriber :
          /\ Len(items[s]) <= Capacity
          /\ offered[s] = Len(taken[s]) + Len(items[s]) + dropped[s]
                            + Cardinality({d \in refused : d[1] = s})
    /\ busyDrops = Cardinality(refused)

\* What a subscriber has popped and what still waits for it are events in
\* the order of publishing, each at most once: every drop policy only
\* makes gaps, which the consumer finds by the sequence numbers.
AtMostOnceInOrder ==
    \A s \in Subscriber :
        LET stream == taken[s] \o [i \in DOMAIN items[s] |-> items[s][i].id]
        IN  \A i \in 1..(Len(stream) - 1) : stream[i] < stream[i + 1]

\* A consumer that keeps its lock, or died with it, neither holds up the
\* publisher nor the other subscribers: publish() comes to its end.
PublishReturns == \A s \in Subscriber : (next = s) ~> (next = 0)
=============================================================================
