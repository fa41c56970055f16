---------------------------- MODULE EventBusProofs ----------------------------
(***************************************************************************)
(* Theorems of EventBus, for any number of subscribers, any capacity, ages *)
(* and times.  A push is described once for the three policies: it keeps   *)
(* some of the queue in its order, puts the new event behind it or nowhere *)
(* and counts what it leaves out (Pushes).  An event is offered to a       *)
(* subscriber once, since publish() visits them in order, so all that a    *)
(* subscriber has seen is at most Newest, and the event about to be        *)
(* offered is above it.                                                    *)
(***************************************************************************)
EXTENDS EventBus, FiniteSetTheorems, TLAPS

BusTypes ==
    /\ joined \in 0..Subscribers
    /\ policy \in [Subscriber -> DropPolicy \cup {"none"}]
    /\ \A s \in Subscriber : s <= joined => policy[s] # "none"
    /\ items \in [Subscriber -> Seq(Event)]
    /\ \A s \in Subscriber : Len(items[s]) <= Capacity
    /\ dropped \in [Subscriber -> Nat]
    /\ busyDrops \in Nat
    /\ event \in Event
    /\ now \in Time /\ clock \in Time
    /\ next \in 0..joined
    /\ offered \in [Subscriber -> Nat]
    /\ refused \in SUBSET (Subscriber \X (0..MaxEvents))
    /\ taken \in [Subscriber -> Seq(0..MaxEvents)]

\* The newest event that subscriber s can have been offered.
Newest(s) == IF next # 0 /\ next <= s THEN event.id - 1 ELSE event.id

\* Nothing a subscriber was offered is newer.
UpToNewest ==
    \A s \in Subscriber :
        /\ \A i \in 1..Len(items[s]) : items[s][i].id <= Newest(s)
        /\ \A i \in 1..Len(taken[s]) : taken[s][i] <= Newest(s)
        /\ \A n \in 0..MaxEvents : <<s, n>> \in refused => n <= Newest(s)

Increasing(q) == \A i, j \in 1..Len(q) : i < j => q[i].id < q[j].id

\* What was taken came in order, what waits is in order and comes after it.
InOrder ==
    \A s \in Subscriber :
        /\ \A i, j \in 1..Len(taken[s]) : i < j => taken[s][i] < taken[s][j]
        /\ Increasing(items[s])
        /\ \A i \in 1..Len(taken[s]), j \in 1..Len(items[s]) :
               taken[s][i] < items[s][j].id

RefusedBy(s) == {d \in refused : d[1] = s}

BusInv == BusTypes /\ UpToNewest /\ InOrder /\ Counted

-----------------------------------------------------------------------------
(* retain: the places of the fresh events, in order. *)

\* The places before i.
Before(places, i) == {j \in places : j < i}

LEMMA PlaceFacts ==
    ASSUME NEW n \in Nat, NEW places \in SUBSET (1..n)
    PROVE  /\ Cardinality(places) \in 0..n
           /\ \A k \in 1..Cardinality(places) : Place(places, k) \in places
           /\ \A k, l \in 1..Cardinality(places) :
                  k < l => Place(places, k) < Place(places, l)
<1> DEFINE c == Cardinality(places)
           rank == [i \in places |-> Cardinality(Before(places, i))]
<1>1. IsFiniteSet(places) /\ c \in Nat /\ c <= n
    <2>1. IsFiniteSet(1..n) /\ Cardinality(1..n) = n
        BY FS_Interval
    <2>2. IsFiniteSet(places) /\ Cardinality(places) <= n
        BY <2>1, FS_Subset
    <2> QED
        BY <2>2, FS_CardinalityType
<1> HIDE DEF c, rank
<1>2. ASSUME NEW i \in places
      PROVE  /\ i \in Int
             /\ IsFiniteSet(Before(places, i)) /\ Cardinality(Before(places, i)) \in Nat
    <2>1. Before(places, i) \in SUBSET places
        BY DEF Before
    <2> QED
        BY <1>1, <2>1, FS_Subset, FS_CardinalityType
<1>3. ASSUME NEW i \in places, NEW j \in places, i < j
      PROVE  Cardinality(Before(places, i)) < Cardinality(Before(places, j))
    <2>1. i \in Int /\ j \in Int /\ \A h \in places : h \in Int
        BY <1>2
    <2>2. Before(places, i) \cup {i} \in SUBSET Before(places, j) /\ i \notin Before(places, i)
        <3>1. \A h \in Before(places, i) : h \in places /\ h < j
            BY <1>3, <2>1 DEF Before
        <3>2. i \in Before(places, j) /\ i \notin Before(places, i)
            BY <1>3, <2>1 DEF Before
        <3> QED
            BY <3>1, <3>2 DEF Before
    <2>3. Cardinality(Before(places, i) \cup {i}) = Cardinality(Before(places, i)) + 1
        BY <1>2, <2>2, FS_AddElement
    <2>4. Cardinality(Before(places, i) \cup {i}) <= Cardinality(Before(places, j))
        BY <1>2, <2>2, FS_Subset
    <2>5. Cardinality(Before(places, i)) \in Nat /\ Cardinality(Before(places, j)) \in Nat
        BY <1>2
    <2> QED
        BY <2>3, <2>4, <2>5
<1>4. \A i \in places : Cardinality(Before(places, i)) \in 0..(c - 1)
    <2> SUFFICES ASSUME NEW i \in places
                 PROVE  Cardinality(Before(places, i)) \in 0..(c - 1)
        OBVIOUS
    <2>1. Before(places, i) \in SUBSET (places \ {i})
        BY <1>2 DEF Before
    <2>2. IsFiniteSet(places \ {i}) /\ Cardinality(places \ {i}) = c - 1
        BY <1>1, FS_RemoveElement DEF c
    <2>3. Cardinality(Before(places, i)) <= c - 1
        BY <2>1, <2>2, FS_Subset
    <2> QED
        BY <1>1, <1>2, <2>3
<1>5. rank \in Injection(places, 0..(c - 1))
    <2>1. rank \in [places -> 0..(c - 1)]
        BY <1>4 DEF rank
    <2>2. ASSUME NEW i \in places, NEW j \in places, rank[i] = rank[j] PROVE i = j
        <3>1. /\ i \in Int /\ j \in Int
              /\ Cardinality(Before(places, i)) = Cardinality(Before(places, j))
              /\ Cardinality(Before(places, i)) \in Nat
            BY <1>2, <2>2 DEF rank
        <3>2. ~(i < j) /\ ~(j < i)
            BY <1>3, <3>1
        <3> QED
            BY <3>1, <3>2
    <2> QED
        BY <2>1, <2>2 DEF Injection, IsInjective
<1>6. rank \in Surjection(places, 0..(c - 1))
    <2>1. IsFiniteSet(0..(c - 1)) /\ Cardinality(0..(c - 1)) = c
        <3>1. /\ IsFiniteSet(0..(c - 1))
              /\ Cardinality(0..(c - 1)) = IF 0 > c - 1 THEN 0 ELSE (c - 1) - 0 + 1
            <4>1. 0 \in Int /\ c - 1 \in Int
                BY <1>1
            <4> QED
                BY <4>1, FS_Interval
        <3> QED
            BY <1>1, <3>1
    <2> QED
        BY <1>5, <2>1, FS_Injection DEF c
<1>7. ASSUME NEW k \in 1..c
      PROVE  /\ Place(places, k) \in places
             /\ Cardinality(Before(places, Place(places, k))) = k - 1
    <2>1. k - 1 \in 0..(c - 1)
        BY <1>1
    <2>2. \E i \in places : Cardinality(Before(places, i)) = k - 1
        BY <1>6, <2>1 DEF Surjection, rank
    <2>3. \E i \in places : Cardinality({j \in places : j < i}) = k - 1
        BY <2>2 DEF Before
    <2> QED
        BY <2>3 DEF Place, Before
<1>8. ASSUME NEW k \in 1..c, NEW l \in 1..c, k < l
      PROVE  Place(places, k) < Place(places, l)
    <2>1. PICK a : a = Place(places, k)
        OBVIOUS
    <2>2. PICK b : b = Place(places, l)
        OBVIOUS
    <2>3. /\ a \in places /\ b \in places
          /\ Cardinality(Before(places, a)) = k - 1
          /\ Cardinality(Before(places, b)) = l - 1
        BY <1>7, <2>1, <2>2
    <2>4. a \in Int /\ b \in Int
        BY <1>2, <2>3
    <2>5. k - 1 < l - 1 /\ k \in Int /\ l \in Int
        BY <1>1, <1>8
    <2>6. ~(b < a) /\ b # a
        BY <1>3, <2>3, <2>5
    <2> QED
        BY <2>1, <2>2, <2>4, <2>6
<1> QED
    BY <1>1, <1>7, <1>8 DEF c

LEMMA RetainedFacts ==
    ASSUME NEW q \in Seq(Event)
    PROVE  /\ Retained(q) \in Seq(Event)
           /\ Len(Retained(q)) <= Len(q)
           /\ \A i \in 1..Len(Retained(q)) : \E j \in 1..Len(q) : Retained(q)[i] = q[j]
           /\ Increasing(q) => Increasing(Retained(q))
<1> DEFINE places == {i \in DOMAIN q : Fresh(q[i])}
           c == Cardinality(places)
<1>1. Len(q) \in Nat /\ DOMAIN q = 1..Len(q) /\ \A i \in 1..Len(q) : q[i] \in Event
    OBVIOUS
<1>2. /\ c \in 0..Len(q)
      /\ \A k \in 1..c : Place(places, k) \in 1..Len(q)
      /\ \A k, l \in 1..c : k < l => Place(places, k) < Place(places, l)
    <2>1. places \in SUBSET (1..Len(q))
        BY <1>1
    <2> HIDE DEF places
    <2> QED
        BY <1>1, <2>1, PlaceFacts
<1>3. Retained(q) = [k \in 1..c |-> q[Place(places, k)]]
    BY DEF Retained
<1> HIDE DEF places, c
<1>4. Retained(q) \in Seq(Event) /\ Len(Retained(q)) = c
    BY <1>1, <1>2, <1>3
<1>5. \A k \in 1..c : Retained(q)[k] = q[Place(places, k)]
    BY <1>3
<1>6. ASSUME Increasing(q) PROVE Increasing(Retained(q))
    BY <1>2, <1>4, <1>5, <1>6 DEF Increasing
<1> QED
    BY <1>1, <1>2, <1>4, <1>5, <1>6

-----------------------------------------------------------------------------
(* push, for the three policies. *)

\* r is what may become of queue q when event e is pushed.
Pushes(q, e, r) ==
    /\ r.queue \in Seq(Event) /\ Len(r.queue) <= Capacity
    /\ r.drops \in Nat
    /\ Len(r.queue) + r.drops = Len(q) + 1
    /\ \A i \in 1..Len(r.queue) :
           r.queue[i] = e \/ \E j \in 1..Len(q) : r.queue[i] = q[j]
    /\ (Increasing(q) /\ \A j \in 1..Len(q) : q[j].id < e.id) => Increasing(r.queue)

LEMMA AppendFacts ==
    ASSUME NEW q \in Seq(Event), NEW e \in Event
    PROVE  /\ Append(q, e) \in Seq(Event) /\ Len(Append(q, e)) = Len(q) + 1
           /\ \A i \in 1..Len(q) : Append(q, e)[i] = q[i]
           /\ Append(q, e)[Len(q) + 1] = e
           /\ (Increasing(q) /\ \A j \in 1..Len(q) : q[j].id < e.id)
                  => Increasing(Append(q, e))
<1>1. /\ Append(q, e) \in Seq(Event) /\ Len(Append(q, e)) = Len(q) + 1
      /\ \A i \in 1..Len(q) : Append(q, e)[i] = q[i]
      /\ Append(q, e)[Len(q) + 1] = e
    OBVIOUS
<1>2. ASSUME Increasing(q), \A j \in 1..Len(q) : q[j].id < e.id,
             NEW i \in 1..(Len(q) + 1), NEW j \in 1..(Len(q) + 1), i < j
      PROVE  Append(q, e)[i].id < Append(q, e)[j].id
    <2>1. Len(q) \in Nat /\ i \in 1..Len(q)
        BY <1>2
    <2>2. CASE j = Len(q) + 1
        BY <1>1, <1>2, <2>1, <2>2
    <2>3. CASE j \in 1..Len(q)
        BY <1>1, <1>2, <2>1, <2>3 DEF Increasing
    <2> QED
        BY <2>1, <2>2, <2>3
<1> QED
    BY <1>1, <1>2 DEF Increasing

LEMMA TailFacts ==
    ASSUME NEW q \in Seq(Event), q # <<>>
    PROVE  /\ Tail(q) \in Seq(Event) /\ Len(Tail(q)) = Len(q) - 1 /\ Len(q) \in Nat \ {0}
           /\ \A i \in 1..Len(Tail(q)) : Tail(q)[i] = q[i + 1]
           /\ Head(q) = q[1] /\ Head(q) \in Event
           /\ Increasing(q) => Increasing(Tail(q))
<1>1. /\ Tail(q) \in Seq(Event) /\ Len(Tail(q)) = Len(q) - 1 /\ Len(q) \in Nat \ {0}
      /\ \A i \in 1..Len(Tail(q)) : Tail(q)[i] = q[i + 1]
      /\ Head(q) = q[1] /\ Head(q) \in Event
    OBVIOUS
<1>2. ASSUME Increasing(q) PROVE Increasing(Tail(q))
    BY <1>1, <1>2 DEF Increasing
<1> QED
    BY <1>1, <1>2

LEMMA PushFacts ==
    ASSUME NEW q \in Seq(Event), NEW e \in Event, Len(q) <= Capacity
    PROVE  /\ Pushes(q, e, DropOldest(q, e))
           /\ Pushes(q, e, DropNewest(q, e))
           /\ Pushes(q, e, DropByAge(q, e))
<1>1. Len(q) \in Nat /\ Capacity \in Nat \ {0}
    BY BusAssumption
<1>2. ASSUME Len(q) < Capacity PROVE Pushes(q, e, Kept(Append(q, e), 0))
    BY <1>1, <1>2, AppendFacts DEF Pushes, Kept
<1>3. ASSUME ~(Len(q) < Capacity) PROVE Pushes(q, e, Kept(q, 1))
    BY <1>1, <1>3 DEF Pushes, Kept
<1>4. ASSUME ~(Len(q) < Capacity) PROVE Pushes(q, e, Kept(Append(Tail(q), e), 1))
    <2>1. q # <<>>
        BY <1>1, <1>4
    <2> DEFINE t == Tail(q)
    <2>2. /\ t \in Seq(Event) /\ Len(t) = Len(q) - 1
          /\ \A i \in 1..Len(t) : t[i] = q[i + 1] /\ i + 1 \in 1..Len(q)
          /\ Increasing(q) => Increasing(t)
        BY <1>1, <2>1, TailFacts
    <2> HIDE DEF t
    <2>3. (\A j \in 1..Len(q) : q[j].id < e.id) => \A j \in 1..Len(t) : t[j].id < e.id
        BY <2>2
    <2>4. /\ Append(t, e) \in Seq(Event) /\ Len(Append(t, e)) = Len(q)
          /\ \A i \in 1..Len(t) : Append(t, e)[i] = t[i]
          /\ Append(t, e)[Len(t) + 1] = e
          /\ (Increasing(q) /\ \A j \in 1..Len(q) : q[j].id < e.id)
                  => Increasing(Append(t, e))
        BY <1>1, <2>2, <2>3, AppendFacts
    <2>5. \A i \in 1..Len(q) : Append(t, e)[i] = e \/ \E j \in 1..Len(q) : Append(t, e)[i] = q[j]
        <3> SUFFICES ASSUME NEW i \in 1..Len(q)
                     PROVE  Append(t, e)[i] = e \/ \E j \in 1..Len(q) : Append(t, e)[i] = q[j]
            OBVIOUS
        <3>1. CASE i = Len(q)
            BY <1>1, <2>2, <2>4, <3>1
        <3>2. CASE i # Len(q)
            <4>1. i \in 1..Len(t)
                BY <1>1, <2>2, <3>2
            <4> QED
                BY <2>2, <2>4, <4>1
        <3> QED
            BY <3>1, <3>2
    <2> QED
        BY <1>1, <1>4, <2>4, <2>5 DEF Pushes, Kept, t
<1>5. Pushes(q, e, DropByAge(q, e))
    <2> DEFINE alive == Retained(q)
    <2>1. /\ alive \in Seq(Event) /\ Len(alive) \in Nat /\ Len(alive) <= Len(q)
          /\ \A i \in 1..Len(alive) : \E j \in 1..Len(q) : alive[i] = q[j]
          /\ Increasing(q) => Increasing(alive)
        BY RetainedFacts
    <2> HIDE DEF alive
    <2>2. (\A j \in 1..Len(q) : q[j].id < e.id) => \A j \in 1..Len(alive) : alive[j].id < e.id
        BY <2>1
    <2>3. Pushes(q, e, Kept(alive, (Len(q) - Len(alive)) + 1))
        BY <1>1, <2>1 DEF Pushes, Kept
    <2>4. ASSUME ~(Len(alive) >= Capacity)
          PROVE  Pushes(q, e, Kept(Append(alive, e), Len(q) - Len(alive)))
        <3>1. /\ Append(alive, e) \in Seq(Event) /\ Len(Append(alive, e)) = Len(alive) + 1
              /\ \A i \in 1..Len(alive) : Append(alive, e)[i] = alive[i]
              /\ Append(alive, e)[Len(alive) + 1] = e
              /\ (Increasing(q) /\ \A j \in 1..Len(q) : q[j].id < e.id)
                      => Increasing(Append(alive, e))
            BY <2>1, <2>2, AppendFacts
        <3>2. \A i \in 1..(Len(alive) + 1) :
                  Append(alive, e)[i] = e \/ \E j \in 1..Len(q) : Append(alive, e)[i] = q[j]
            <4> SUFFICES ASSUME NEW i \in 1..(Len(alive) + 1)
                         PROVE  \/ Append(alive, e)[i] = e
                                \/ \E j \in 1..Len(q) : Append(alive, e)[i] = q[j]
                OBVIOUS
            <4>1. i = Len(alive) + 1 \/ i \in 1..Len(alive)
                BY <2>1
            <4> QED
                BY <2>1, <3>1, <4>1
        <3> DEFINE r == Kept(Append(alive, e), Len(q) - Len(alive))
        <3>3. r.queue = Append(alive, e) /\ r.drops = Len(q) - Len(alive)
            BY DEF Kept
        <3>4. Len(alive) + 1 <= Capacity /\ Len(q) - Len(alive) \in Nat
            BY <1>1, <2>1, <2>4
        <3>5. (Len(alive) + 1) + (Len(q) - Len(alive)) = Len(q) + 1
            BY <1>1, <2>1
        <3> HIDE DEF r
        <3>6. Pushes(q, e, r)
            BY <3>1, <3>2, <3>3, <3>4, <3>5 DEF Pushes
        <3> QED
            BY <3>6 DEF r
    <2> QED
        BY <2>3, <2>4 DEF DropByAge, alive
<1> QED
    BY <1>2, <1>3, <1>4, <1>5 DEF DropOldest, DropNewest
-----------------------------------------------------------------------------
(* The refused events can be counted. *)

LEMMA RefusedFinite ==
    ASSUME BusTypes, NEW s
    PROVE  /\ IsFiniteSet(refused) /\ Cardinality(refused) \in Nat
           /\ IsFiniteSet(RefusedBy(s)) /\ Cardinality(RefusedBy(s)) \in Nat
<1>1. IsFiniteSet(Subscriber) /\ IsFiniteSet(0..MaxEvents)
    BY FS_Interval, BusAssumption DEF Subscriber
<1>2. IsFiniteSet(Subscriber \X (0..MaxEvents))
    BY <1>1, FS_Product
<1>3. refused \in SUBSET (Subscriber \X (0..MaxEvents)) /\ RefusedBy(s) \in SUBSET refused
    BY DEF BusTypes, RefusedBy
<1>4. IsFiniteSet(refused)
    BY <1>2, <1>3, FS_Subset
<1>5. IsFiniteSet(RefusedBy(s))
    BY <1>3, <1>4, FS_Subset
<1> QED
    BY <1>4, <1>5, FS_CardinalityType

-----------------------------------------------------------------------------
(* What the queues and the histories hold. *)

LEMMA ElementType ==
    ASSUME NEW S, NEW q \in Seq(S)
    PROVE  Len(q) \in Nat /\ \A i \in 1..Len(q) : q[i] \in S
OBVIOUS

LEMMA Elements ==
    ASSUME BusTypes
    PROVE  \A s \in Subscriber :
              /\ items[s] \in Seq(Event) /\ taken[s] \in Seq(0..MaxEvents)
              /\ Len(items[s]) \in Nat /\ Len(taken[s]) \in Nat
              /\ \A i \in 1..Len(items[s]) : items[s][i].id \in 0..MaxEvents
              /\ \A i \in 1..Len(items[s]) : items[s][i].id \in Int
              /\ \A i \in 1..Len(taken[s]) : taken[s][i] \in Int
<1> SUFFICES ASSUME NEW s \in Subscriber
             PROVE  /\ items[s] \in Seq(Event) /\ taken[s] \in Seq(0..MaxEvents)
                    /\ Len(items[s]) \in Nat /\ Len(taken[s]) \in Nat
                    /\ \A i \in 1..Len(items[s]) : items[s][i].id \in 0..MaxEvents
                    /\ \A i \in 1..Len(taken[s]) : taken[s][i] \in 0..MaxEvents
    OBVIOUS
<1> DEFINE q == items[s]
           w == taken[s]
<1>1. q \in Seq(Event) /\ w \in Seq(0..MaxEvents)
    BY DEF BusTypes
<1> HIDE DEF q, w
<1>2. /\ Len(q) \in Nat /\ Len(w) \in Nat
      /\ \A i \in 1..Len(q) : q[i] \in Event
      /\ \A i \in 1..Len(w) : w[i] \in 0..MaxEvents
    BY <1>1, ElementType
<1>3. \A i \in 1..Len(q) : q[i].id \in 0..MaxEvents
    BY <1>2 DEF Event
<1> QED
    BY <1>1, <1>2, <1>3 DEF q, w

\* Counted, subscriber by subscriber, with the types its sum needs.
LEMMA CountedBy ==
    ASSUME BusInv, NEW s \in Subscriber
    PROVE  /\ offered[s] = Len(taken[s]) + Len(items[s]) + dropped[s]
                             + Cardinality(RefusedBy(s))
           /\ Len(taken[s]) \in Nat /\ Len(items[s]) \in Nat
           /\ dropped[s] \in Nat /\ offered[s] \in Nat
           /\ IsFiniteSet(RefusedBy(s)) /\ Cardinality(RefusedBy(s)) \in Nat
<1>1. BusTypes /\ Counted
    BY DEF BusInv
<1>2. offered[s] = Len(taken[s]) + Len(items[s]) + dropped[s] + Cardinality(RefusedBy(s))
    BY <1>1 DEF Counted, RefusedBy
<1>3. dropped[s] \in Nat /\ offered[s] \in Nat
    BY <1>1 DEF BusTypes
<1> QED
    BY <1>1, <1>2, <1>3, Elements, RefusedFinite

-----------------------------------------------------------------------------
(* Every action keeps the invariant. *)

LEMMA InitBus == Init => BusInv
<1> SUFFICES ASSUME Init PROVE BusInv
    OBVIOUS
<1>1. BusTypes
    <2>1. \A s \in Subscriber : s \in Nat /\ s >= 1
        BY DEF Subscriber
    <2>2. 0 \in 0..MaxEvents /\ 0 \in Time /\ 0 \in 0..Subscribers
        BY BusAssumption DEF Time
    <2>3. event \in Event
        BY <2>2 DEF Init, Event
    <2> QED
        BY <2>1, <2>2, <2>3, BusAssumption DEF Init, BusTypes
<1>2. UpToNewest /\ InOrder
    BY DEF Init, UpToNewest, InOrder, Increasing
<1>3. Counted
    <2>1. Cardinality({}) = 0 /\ refused = {} /\ \A s : {d \in refused : d[1] = s} = {}
        BY FS_EmptySet DEF Init
    <2>2. 0 <= Capacity
        BY BusAssumption
    <2> QED
        BY <2>1, <2>2 DEF Init, Counted
<1> QED
    BY <1>1, <1>2, <1>3 DEF BusInv

\* A step that leaves queues and counters alone and offers nothing.
LEMMA QuietKeeps ==
    ASSUME BusInv, BusTypes',
           UNCHANGED <<items, dropped, busyDrops, offered, refused, taken>>,
           \A s \in Subscriber : Newest(s) <= Newest(s)'
    PROVE  BusInv'
<1>1. \A s \in Subscriber : Newest(s) \in Int /\ Newest(s)' \in Int
    BY DEF BusInv, BusTypes, Newest, Event
<1>2. UpToNewest'
    <2> SUFFICES ASSUME NEW s \in Subscriber
                 PROVE  /\ \A i \in 1..Len(items[s]) : items[s][i].id <= Newest(s)'
                        /\ \A i \in 1..Len(taken[s]) : taken[s][i] <= Newest(s)'
                        /\ \A n \in 0..MaxEvents : <<s, n>> \in refused => n <= Newest(s)'
        BY DEF UpToNewest
    <2>1. /\ \A i \in 1..Len(items[s]) : items[s][i].id \in Int
          /\ \A i \in 1..Len(taken[s]) : taken[s][i] \in Int
        BY Elements DEF BusInv
    <2>2. /\ \A i \in 1..Len(items[s]) : items[s][i].id <= Newest(s)
          /\ \A i \in 1..Len(taken[s]) : taken[s][i] <= Newest(s)
          /\ \A n \in 0..MaxEvents : <<s, n>> \in refused => n <= Newest(s)
        BY DEF BusInv, UpToNewest
    <2> QED
        BY <1>1, <2>1, <2>2
<1>3. InOrder'
    BY DEF BusInv, InOrder, Increasing
<1>4. Counted'
    BY DEF BusInv, Counted
<1> QED
    BY <1>2, <1>3, <1>4 DEF BusInv

LEMMA SubscribeKeeps ==
    ASSUME BusInv, NEW kind \in DropPolicy, Subscribe(kind)
    PROVE  BusInv'
<1>1. joined \in Nat /\ joined + 1 \in Subscriber /\ joined' = joined + 1 /\ Subscribers \in Nat
    BY BusAssumption DEF BusInv, BusTypes, Subscribe, Subscriber
<1>2. BusTypes'
    <2>1. policy' \in [Subscriber -> DropPolicy \cup {"none"}]
        BY DEF BusInv, BusTypes, Subscribe
    <2>2. \A s \in Subscriber : s <= joined' => policy'[s] # "none"
        BY <1>1 DEF BusInv, BusTypes, Subscribe, Subscriber, DropPolicy
    <2>3. joined' \in 0..Subscribers /\ next' \in 0..joined'
        BY <1>1 DEF BusInv, BusTypes, Subscribe, Subscriber, publish
    <2> QED
        BY <2>1, <2>2, <2>3 DEF BusInv, BusTypes, Subscribe, queues, publish
<1>3. \A s \in Subscriber : Newest(s)' = Newest(s) /\ Newest(s) \in Int
    BY DEF BusInv, BusTypes, Newest, Subscribe, publish, Event
<1> QED
    BY <1>2, <1>3, QuietKeeps DEF Subscribe, queues, publish

LEMMA PublishKeeps ==
    ASSUME BusInv, NEW ts \in Time, Publish(ts)
    PROVE  BusInv'
<1>1. /\ event.id \in Nat /\ event.id < MaxEvents /\ MaxEvents \in Nat /\ next = 0
      /\ event' = [id |-> event.id + 1, ts |-> ts] /\ next' \in {0, 1}
      /\ joined \in Nat /\ (joined = 0 => next' = 0)
    BY BusAssumption DEF BusInv, BusTypes, Publish, Event
<1>2. event'.id = event.id + 1 /\ event' \in Event
    BY <1>1 DEF Event
<1>3. BusTypes'
    BY <1>1, <1>2 DEF BusInv, BusTypes, Publish, queues
<1>4. \A s \in Subscriber : Newest(s) <= Newest(s)'
    BY <1>1, <1>2 DEF Newest
<1> QED
    BY <1>3, <1>4, QuietKeeps DEF Publish, queues

\* What the visit of publish() to subscriber s does to the bound of each.
LEMMA VisitFacts ==
    ASSUME BusInv, NEW s \in Subscriber, next = s, Visited(s)
    PROVE  /\ event.id \in Nat /\ s <= joined /\ policy[s] \in DropPolicy
           /\ Newest(s) = event.id - 1 /\ Newest(s)' = event.id
           /\ \A t \in Subscriber : Newest(t) \in Int /\ Newest(t)' \in Int
           /\ \A t \in Subscriber : Newest(t) <= Newest(t)'
           /\ next' \in 0..joined'
           /\ \A t \in Subscriber : offered'[t] = IF t = s THEN offered[t] + 1 ELSE offered[t]
           /\ offered' \in [Subscriber -> Nat]
<1>1. /\ event.id \in Nat /\ joined \in Nat /\ s \in Nat \ {0} /\ s <= joined
      /\ offered \in [Subscriber -> Nat] /\ policy \in [Subscriber -> DropPolicy \cup {"none"}]
      /\ policy[s] # "none"
    BY DEF BusInv, BusTypes, Event, Subscriber
<1>2. event' = event /\ joined' = joined
    BY DEF Visited
<1>3. /\ next' = IF s = joined THEN 0 ELSE s + 1
      /\ offered' = [offered EXCEPT ![s] = @ + 1]
    BY DEF Visited
<1>4. \A t \in Subscriber : t \in Nat
    BY DEF Subscriber
<1>5. next' \in 0..joined'
    BY <1>1, <1>2, <1>3
<1>6. Newest(s) = event.id - 1 /\ Newest(s)' = event.id
    BY <1>1, <1>2, <1>3 DEF Newest
<1>7. ASSUME NEW t \in Subscriber PROVE Newest(t) <= Newest(t)'
    BY <1>1, <1>2, <1>3, <1>4 DEF Newest
<1>8. \A t \in Subscriber : Newest(t) \in Int /\ Newest(t)' \in Int
    BY <1>1, <1>2 DEF Newest
<1> QED
    BY <1>1, <1>3, <1>5, <1>6, <1>7, <1>8

LEMMA OfferKeeps ==
    ASSUME BusInv, NEW s \in Subscriber, Offer(s)
    PROVE  BusInv'
<1>1. /\ next = s /\ Visited(s) /\ busyDrops' = busyDrops /\ refused' = refused
      /\ taken' = taken /\ event' = event /\ joined' = joined
      /\ policy' = policy /\ now' = now /\ clock' = clock
    BY DEF Offer, Visited
<1>2. /\ event.id \in Nat /\ s <= joined /\ policy[s] \in DropPolicy
      /\ Newest(s) = event.id - 1 /\ Newest(s)' = event.id
      /\ \A t \in Subscriber : Newest(t) \in Int /\ Newest(t)' \in Int
      /\ \A t \in Subscriber : Newest(t) <= Newest(t)'
      /\ next' \in 0..joined'
      /\ \A t \in Subscriber : offered'[t] = IF t = s THEN offered[t] + 1 ELSE offered[t]
      /\ offered' \in [Subscriber -> Nat]
    BY <1>1, VisitFacts
<1>3. /\ \A t \in Subscriber : items[t] \in Seq(Event) /\ taken[t] \in Seq(0..MaxEvents)
      /\ \A t \in Subscriber : Len(items[t]) <= Capacity
      /\ event \in Event /\ dropped \in [Subscriber -> Nat]
    BY DEF BusInv, BusTypes
<1>4. PICK r : r = Push(s)
    OBVIOUS
<1>5. Pushes(items[s], event, r)
    BY <1>2, <1>3, <1>4, PushFacts DEF Push, DropPolicy
<1>6. /\ items' = [items EXCEPT ![s] = r.queue]
      /\ dropped' = [dropped EXCEPT ![s] = @ + r.drops]
    BY <1>4 DEF Offer
<1>7. /\ items'[s] = r.queue /\ \A t \in Subscriber \ {s} : items'[t] = items[t]
      /\ dropped'[s] = dropped[s] + r.drops
      /\ \A t \in Subscriber \ {s} : dropped'[t] = dropped[t]
    BY <1>3, <1>6 DEF BusInv, BusTypes
<1>8. \A j \in 1..Len(items[s]) : items[s][j].id < event.id /\ items[s][j].id \in Int
    <2>1. \A j \in 1..Len(items[s]) : items[s][j].id \in Int /\ items[s][j].id <= event.id - 1
        BY <1>2, Elements DEF BusInv, UpToNewest
    <2> QED
        BY <1>2, <2>1
<1>9. /\ r.queue \in Seq(Event) /\ Len(r.queue) <= Capacity /\ r.drops \in Nat
      /\ Len(r.queue) \in Nat /\ Len(items[s]) \in Nat
      /\ Len(r.queue) + r.drops = Len(items[s]) + 1
      /\ \A i \in 1..Len(r.queue) : r.queue[i] = event
             \/ \E j \in 1..Len(items[s]) : r.queue[i] = items[s][j]
      /\ Increasing(r.queue)
    <2>1. Increasing(items[s])
        BY DEF BusInv, InOrder
    <2>2. Len(items[s]) \in Nat
        BY Elements DEF BusInv
    <2>3. Increasing(r.queue)
        BY <1>5, <1>8, <2>1 DEF Pushes
    <2>4. Len(r.queue) \in Nat
        BY <1>5 DEF Pushes
    <2> QED
        BY <1>5, <2>2, <2>3, <2>4 DEF Pushes
<1>10. BusTypes'
    <2>1. items' \in [Subscriber -> Seq(Event)] /\ dropped' \in [Subscriber -> Nat]
        BY <1>6, <1>9 DEF BusInv, BusTypes
    <2>2. \A t \in Subscriber : Len(items'[t]) <= Capacity
        BY <1>3, <1>7, <1>9
    <2>3. \A t \in Subscriber : t <= joined' => policy'[t] # "none"
        BY <1>1 DEF BusInv, BusTypes
    <2> QED
        BY <1>1, <1>2, <2>1, <2>2, <2>3 DEF BusInv, BusTypes
<1>11. UpToNewest'
    <2>1. ASSUME NEW t \in Subscriber, NEW i \in 1..Len(items'[t])
          PROVE  items'[t][i].id <= Newest(t)'
        <3>1. CASE t = s
            <4>1. i \in 1..Len(r.queue) /\ items'[t][i] = r.queue[i]
                BY <1>7, <2>1, <3>1
            <4>2. items'[t][i].id <= event.id
                <5>1. CASE r.queue[i] = event
                    BY <1>2, <4>1, <5>1
                <5>2. CASE \E j \in 1..Len(items[s]) : r.queue[i] = items[s][j]
                    <6>1. PICK j \in 1..Len(items[s]) : r.queue[i] = items[s][j]
                        BY <5>2
                    <6>2. items[s][j].id < event.id /\ items[s][j].id \in Int
                        BY <1>8
                    <6>3. items'[t][i].id = items[s][j].id
                        BY <4>1, <6>1
                    <6>4. event.id \in Int
                        BY <1>3 DEF Event
                    <6> QED
                        BY <6>2, <6>3, <6>4
                <5> QED
                    BY <1>9, <4>1, <5>1, <5>2
            <4> QED
                BY <1>2, <3>1, <4>2
        <3>2. CASE t # s
            <4>1. items'[t] = items[t] /\ i \in 1..Len(items[t])
                BY <1>7, <2>1, <3>2
            <4>2. items[t][i].id <= Newest(t) /\ items[t][i].id \in Int
                BY <4>1, Elements DEF BusInv, UpToNewest
            <4> QED
                BY <1>2, <4>1, <4>2
        <3> QED
            BY <3>1, <3>2
    <2>2. ASSUME NEW t \in Subscriber, NEW i \in 1..Len(taken[t])
          PROVE  taken[t][i] <= Newest(t)'
        <3>1. taken[t][i] <= Newest(t) /\ taken[t][i] \in Int
            BY Elements DEF BusInv, UpToNewest
        <3> QED
            BY <1>2, <3>1
    <2>3. ASSUME NEW t \in Subscriber, NEW n \in 0..MaxEvents, <<t, n>> \in refused
          PROVE  n <= Newest(t)'
        <3>1. n <= Newest(t) /\ n \in Int
            BY <2>3 DEF BusInv, UpToNewest
        <3> QED
            BY <1>2, <3>1
    <2> QED
        BY <1>1, <2>1, <2>2, <2>3 DEF UpToNewest
<1>12. InOrder'
    <2>1. ASSUME NEW t \in Subscriber
          PROVE  Increasing(items'[t])
                 /\ \A i \in 1..Len(taken[t]), j \in 1..Len(items'[t]) :
                        taken[t][i] < items'[t][j].id
        <3>1. CASE t = s
            <4>1. ASSUME NEW i \in 1..Len(taken[s]), NEW j \in 1..Len(r.queue)
                  PROVE  taken[s][i] < r.queue[j].id
                <5>1. taken[s][i] <= event.id - 1 /\ taken[s][i] \in Int
                    BY <1>2, Elements DEF BusInv, UpToNewest
                <5>2. CASE r.queue[j] = event
                    <6>1. event.id \in Int /\ r.queue[j].id = event.id
                        BY <1>3, <5>2 DEF Event
                    <6> QED
                        BY <5>1, <6>1
                <5>3. CASE \E k \in 1..Len(items[s]) : r.queue[j] = items[s][k]
                    BY <5>3 DEF BusInv, InOrder
                <5> QED
                    BY <1>9, <5>2, <5>3
            <4> QED
                BY <1>7, <1>9, <3>1, <4>1
        <3>2. CASE t # s
            BY <1>7, <3>2 DEF BusInv, InOrder
        <3> QED
            BY <3>1, <3>2
    <2> QED
        BY <1>1, <2>1 DEF BusInv, InOrder, Increasing
<1>13. Counted'
    <2>1. ASSUME NEW t \in Subscriber
          PROVE  /\ Len(items'[t]) <= Capacity
                 /\ offered'[t] = Len(taken[t]) + Len(items'[t]) + dropped'[t]
                                   + Cardinality(RefusedBy(t))
        <3>1. /\ offered[t] = Len(taken[t]) + Len(items[t]) + dropped[t]
                               + Cardinality(RefusedBy(t))
              /\ Len(taken[t]) \in Nat /\ Len(items[t]) \in Nat
              /\ dropped[t] \in Nat /\ Cardinality(RefusedBy(t)) \in Nat /\ offered[t] \in Nat
            BY CountedBy
        <3>2. CASE t = s
            <4>1. /\ offered'[t] = offered[t] + 1 /\ Len(items'[t]) = Len(r.queue)
                  /\ dropped'[t] = dropped[t] + r.drops /\ Len(items'[t]) <= Capacity
                BY <1>2, <1>7, <1>9, <3>2
            <4>2. Len(r.queue) + r.drops = Len(items[t]) + 1 /\ Len(r.queue) \in Nat /\ r.drops \in Nat
                BY <1>9, <3>2
            <4>3. PICK o, w, q, d, b, q1, k :
                      /\ o = offered[t] /\ w = Len(taken[t]) /\ q = Len(items[t])
                      /\ d = dropped[t] /\ b = Cardinality(RefusedBy(t))
                      /\ q1 = Len(r.queue) /\ k = r.drops
                OBVIOUS
            <4>4. /\ o \in Nat /\ w \in Nat /\ q \in Nat /\ d \in Nat /\ b \in Nat
                  /\ q1 \in Nat /\ k \in Nat
                  /\ o = w + q + d + b /\ q1 + k = q + 1
                BY <3>1, <4>2, <4>3
            <4>5. o + 1 = w + q1 + (d + k) + b
                BY <4>4
            <4> QED
                BY <4>1, <4>3, <4>5
        <3>3. CASE t # s
            BY <1>2, <1>3, <1>7, <3>1, <3>3
        <3> QED
            BY <3>2, <3>3
    <2> QED
        BY <1>1, <2>1 DEF BusInv, Counted, RefusedBy
<1> QED
    BY <1>10, <1>11, <1>12, <1>13 DEF BusInv

LEMMA DropBusyKeeps ==
    ASSUME BusInv, NEW s \in Subscriber, DropBusy(s)
    PROVE  BusInv'
<1>1. /\ next = s /\ Visited(s) /\ busyDrops' = busyDrops + 1
      /\ refused' = refused \cup {<<s, event.id>>}
      /\ items' = items /\ dropped' = dropped
      /\ taken' = taken /\ event' = event /\ joined' = joined
      /\ policy' = policy /\ now' = now /\ clock' = clock
    BY DEF DropBusy, Visited, queues
<1>2. /\ event.id \in Nat /\ s <= joined
      /\ Newest(s) = event.id - 1 /\ Newest(s)' = event.id
      /\ \A t \in Subscriber : Newest(t) \in Int /\ Newest(t)' \in Int
      /\ \A t \in Subscriber : Newest(t) <= Newest(t)'
      /\ next' \in 0..joined'
      /\ \A t \in Subscriber : offered'[t] = IF t = s THEN offered[t] + 1 ELSE offered[t]
      /\ offered' \in [Subscriber -> Nat]
    BY <1>1, VisitFacts
<1>3. /\ \A t \in Subscriber : items[t] \in Seq(Event) /\ taken[t] \in Seq(0..MaxEvents)
      /\ event.id \in 0..MaxEvents /\ dropped \in [Subscriber -> Nat] /\ busyDrops \in Nat
    BY DEF BusInv, BusTypes, Event
<1>4. <<s, event.id>> \notin refused
    BY <1>2, <1>3 DEF BusInv, UpToNewest
<1>5. BusTypes'
    <2>1. refused' \in SUBSET (Subscriber \X (0..MaxEvents)) /\ busyDrops' \in Nat
        BY <1>1, <1>3 DEF BusInv, BusTypes
    <2> QED
        BY <1>1, <1>2, <2>1 DEF BusInv, BusTypes
<1>6. UpToNewest'
    <2>1. ASSUME NEW t \in Subscriber, NEW i \in 1..Len(items[t])
          PROVE  items[t][i].id <= Newest(t)'
        <3>1. items[t][i].id <= Newest(t) /\ items[t][i].id \in Int
            BY Elements DEF BusInv, UpToNewest
        <3> QED
            BY <1>2, <3>1
    <2>2. ASSUME NEW t \in Subscriber, NEW i \in 1..Len(taken[t])
          PROVE  taken[t][i] <= Newest(t)'
        <3>1. taken[t][i] <= Newest(t) /\ taken[t][i] \in Int
            BY Elements DEF BusInv, UpToNewest
        <3> QED
            BY <1>2, <3>1
    <2>3. ASSUME NEW t \in Subscriber, NEW n \in 0..MaxEvents, <<t, n>> \in refused'
          PROVE  n <= Newest(t)'
        <3>1. CASE <<t, n>> \in refused
            <4>1. n <= Newest(t) /\ n \in Int
                BY <3>1 DEF BusInv, UpToNewest
            <4> QED
                BY <1>2, <4>1
        <3>2. CASE t = s /\ n = event.id
            BY <1>2, <3>2
        <3> QED
            BY <1>1, <2>3, <3>1, <3>2
    <2> QED
        BY <1>1, <2>1, <2>2, <2>3 DEF UpToNewest
<1>7. InOrder'
    BY <1>1 DEF BusInv, InOrder, Increasing
<1>8. Counted'
    <2>1. IsFiniteSet(refused) /\ Cardinality(refused') = Cardinality(refused) + 1
        BY <1>1, <1>4, RefusedFinite, FS_AddElement DEF BusInv
    <2>2. ASSUME NEW t \in Subscriber
          PROVE  offered'[t] = Len(taken[t]) + Len(items[t]) + dropped[t]
                                   + Cardinality({d \in refused' : d[1] = t})
        <3>1. /\ offered[t] = Len(taken[t]) + Len(items[t]) + dropped[t]
                               + Cardinality(RefusedBy(t))
              /\ Len(taken[t]) \in Nat /\ Len(items[t]) \in Nat
              /\ dropped[t] \in Nat /\ Cardinality(RefusedBy(t)) \in Nat /\ offered[t] \in Nat
              /\ IsFiniteSet(RefusedBy(t))
            BY CountedBy
        <3>2. CASE t = s
            <4>1. /\ {d \in refused' : d[1] = t} = RefusedBy(t) \cup {<<s, event.id>>}
                  /\ <<s, event.id>> \notin RefusedBy(t)
                BY <1>1, <1>4, <3>2 DEF RefusedBy
            <4>2. Cardinality({d \in refused' : d[1] = t}) = Cardinality(RefusedBy(t)) + 1
                BY <3>1, <4>1, FS_AddElement
            <4>3. PICK o, w, q, d, b :
                      /\ o = offered[t] /\ w = Len(taken[t]) /\ q = Len(items[t])
                      /\ d = dropped[t] /\ b = Cardinality(RefusedBy(t))
                OBVIOUS
            <4>4. /\ o \in Nat /\ w \in Nat /\ q \in Nat /\ d \in Nat /\ b \in Nat
                  /\ o = w + q + d + b
                BY <3>1, <4>3
            <4>5. o + 1 = w + q + d + (b + 1)
                BY <4>4
            <4> QED
                BY <1>2, <3>2, <4>2, <4>3, <4>5
        <3>3. CASE t # s
            <4>1. {d \in refused' : d[1] = t} = RefusedBy(t)
                BY <1>1, <3>3 DEF RefusedBy
            <4> QED
                BY <1>2, <3>1, <3>3, <4>1
        <3> QED
            BY <3>2, <3>3
    <2>3. busyDrops' = Cardinality(refused')
        BY <1>1, <2>1 DEF BusInv, Counted
    <2>4. \A t \in Subscriber : Len(items[t]) <= Capacity
        BY DEF BusInv, BusTypes
    <2> QED
        BY <1>1, <2>2, <2>3, <2>4 DEF Counted
<1> QED
    BY <1>5, <1>6, <1>7, <1>8 DEF BusInv

LEMMA PopKeeps ==
    ASSUME BusInv, NEW s \in Subscriber, Pop(s)
    PROVE  BusInv'
<1>1. /\ items[s] # <<>>
      /\ taken' = [taken EXCEPT ![s] = Append(@, Head(items[s]).id)]
      /\ items' = [items EXCEPT ![s] = Tail(@)]
      /\ UNCHANGED <<joined, policy, dropped, busyDrops, clock, event, now, next, offered, refused>>
    BY DEF Pop, publish
<1>2. /\ \A t \in Subscriber : items[t] \in Seq(Event) /\ taken[t] \in Seq(0..MaxEvents)
      /\ items \in [Subscriber -> Seq(Event)] /\ taken \in [Subscriber -> Seq(0..MaxEvents)]
    BY DEF BusInv, BusTypes
<1> DEFINE q == items[s]
           w == taken[s]
           h == Head(items[s])
<1>3. /\ Tail(q) \in Seq(Event) /\ Len(Tail(q)) = Len(q) - 1 /\ Len(q) \in Nat \ {0}
      /\ \A i \in 1..Len(Tail(q)) : Tail(q)[i] = q[i + 1] /\ i + 1 \in 1..Len(q)
      /\ h = q[1] /\ h \in Event /\ 1 \in 1..Len(q)
      /\ Increasing(q) => Increasing(Tail(q))
    BY <1>1, <1>2, TailFacts
<1>4. h.id \in 0..MaxEvents
    BY <1>3 DEF Event
<1>5. /\ Append(w, h.id) \in Seq(0..MaxEvents) /\ Len(Append(w, h.id)) = Len(w) + 1
      /\ Len(w) \in Nat
      /\ \A i \in 1..Len(w) : Append(w, h.id)[i] = w[i]
      /\ Append(w, h.id)[Len(w) + 1] = h.id
    BY <1>2, <1>4
<1>6. /\ items'[s] = Tail(q) /\ taken'[s] = Append(w, h.id)
      /\ \A t \in Subscriber \ {s} : items'[t] = items[t] /\ taken'[t] = taken[t]
    BY <1>1, <1>2
<1>7. /\ \A i \in 1..Len(q) : q[i].id \in Int /\ q[i].id <= Newest(s)
      /\ \A i \in 1..Len(w) : w[i] \in Int /\ w[i] <= Newest(s)
      /\ Increasing(q)
      /\ \A i, j \in 1..Len(w) : i < j => w[i] < w[j]
      /\ \A i \in 1..Len(w), j \in 1..Len(q) : w[i] < q[j].id
    BY Elements DEF BusInv, UpToNewest, InOrder
<1> HIDE DEF q, w, h
<1>8. \A j \in 1..Len(Tail(q)) : h.id < Tail(q)[j].id
    BY <1>3, <1>7 DEF Increasing
<1>9. \A t \in Subscriber : Newest(t)' = Newest(t)
    BY <1>1 DEF Newest
<1>10. BusTypes'
    <2>1. items' \in [Subscriber -> Seq(Event)] /\ taken' \in [Subscriber -> Seq(0..MaxEvents)]
        BY <1>1, <1>2, <1>3, <1>5 DEF q, w, h
    <2>2. \A t \in Subscriber : Len(items'[t]) <= Capacity
        <3>1. Len(q) <= Capacity /\ Capacity \in Nat
            BY BusAssumption DEF BusInv, BusTypes, q
        <3>2. Len(Tail(q)) <= Capacity
            BY <1>3, <3>1
        <3> QED
            BY <1>6, <3>2 DEF BusInv, BusTypes
    <2> QED
        BY <1>1, <2>1, <2>2 DEF BusInv, BusTypes
<1>11. UpToNewest'
    <2>1. \A i \in 1..Len(items'[s]) : items'[s][i].id <= Newest(s)
        BY <1>3, <1>6, <1>7
    <2>2. \A i \in 1..Len(taken'[s]) : taken'[s][i] <= Newest(s)
        <3> SUFFICES ASSUME NEW i \in 1..(Len(w) + 1)
                     PROVE  Append(w, h.id)[i] <= Newest(s)
            BY <1>5, <1>6
        <3>1. i = Len(w) + 1 \/ i \in 1..Len(w)
            BY <1>5
        <3> QED
            BY <1>3, <1>5, <1>7, <3>1
    <2>3. ASSUME NEW t \in Subscriber
          PROVE  /\ \A i \in 1..Len(items'[t]) : items'[t][i].id <= Newest(t)'
                 /\ \A i \in 1..Len(taken'[t]) : taken'[t][i] <= Newest(t)'
                 /\ \A n \in 0..MaxEvents : <<t, n>> \in refused' => n <= Newest(t)'
        <3>1. \A n \in 0..MaxEvents : <<t, n>> \in refused' => n <= Newest(t)'
            BY <1>1, <1>9 DEF BusInv, UpToNewest
        <3>2. CASE t = s
            BY <1>9, <2>1, <2>2, <3>1, <3>2
        <3>3. CASE t # s
            BY <1>6, <1>9, <3>1, <3>3 DEF BusInv, UpToNewest
        <3> QED
            BY <3>2, <3>3
    <2> QED
        BY <2>3 DEF UpToNewest
<1>12. InOrder'
    <2>1. ASSUME NEW i \in 1..Len(taken'[s]), NEW j \in 1..Len(taken'[s]), i < j
          PROVE  taken'[s][i] < taken'[s][j]
        <3>1. i \in 1..Len(w) /\ (j \in 1..Len(w) \/ j = Len(w) + 1)
            BY <1>5, <1>6, <2>1
        <3> QED
            BY <1>3, <1>5, <1>6, <1>7, <2>1, <3>1
    <2>2. ASSUME NEW i \in 1..Len(taken'[s]), NEW j \in 1..Len(items'[s])
          PROVE  taken'[s][i] < items'[s][j].id
        <3>1. i \in 1..Len(w) \/ i = Len(w) + 1
            BY <1>5, <1>6
        <3>2. j \in 1..Len(Tail(q)) /\ items'[s][j] = Tail(q)[j]
            BY <1>6
        <3> QED
            BY <1>3, <1>5, <1>6, <1>7, <1>8, <3>1, <3>2
    <2>3. Increasing(items'[s])
        BY <1>3, <1>6, <1>7
    <2>4. ASSUME NEW t \in Subscriber
          PROVE  /\ \A i, j \in 1..Len(taken'[t]) : i < j => taken'[t][i] < taken'[t][j]
                 /\ Increasing(items'[t])
                 /\ \A i \in 1..Len(taken'[t]), j \in 1..Len(items'[t]) :
                        taken'[t][i] < items'[t][j].id
        <3>1. CASE t = s
            BY <2>1, <2>2, <2>3, <3>1
        <3>2. CASE t # s
            BY <1>6, <3>2 DEF BusInv, InOrder
        <3> QED
            BY <3>1, <3>2
    <2> QED
        BY <2>4 DEF InOrder, Increasing
<1>13. Counted'
    <2>1. ASSUME NEW t \in Subscriber
          PROVE  /\ Len(items'[t]) <= Capacity
                 /\ offered[t] = Len(taken'[t]) + Len(items'[t]) + dropped[t]
                                   + Cardinality(RefusedBy(t))
        <3>1. /\ offered[t] = Len(taken[t]) + Len(items[t]) + dropped[t]
                               + Cardinality(RefusedBy(t))
              /\ dropped[t] \in Nat /\ Cardinality(RefusedBy(t)) \in Nat /\ offered[t] \in Nat
            BY CountedBy
        <3>2. CASE t = s
            <4>1. Len(items'[t]) = Len(items[t]) - 1 /\ Len(taken'[t]) = Len(taken[t]) + 1
                BY <1>3, <1>5, <1>6, <3>2 DEF q, w
            <4>2. Len(items[t]) \in Nat /\ Len(taken[t]) \in Nat /\ Len(items'[t]) <= Capacity
                BY <1>10, CountedBy DEF BusTypes
            <4>3. PICK o, n, m, d, b :
                      /\ o = offered[t] /\ n = Len(taken[t]) /\ m = Len(items[t])
                      /\ d = dropped[t] /\ b = Cardinality(RefusedBy(t))
                OBVIOUS
            <4>4. /\ o \in Nat /\ n \in Nat /\ m \in Nat /\ d \in Nat /\ b \in Nat
                  /\ o = n + m + d + b
                BY <3>1, <4>2, <4>3
            <4>5. o = (n + 1) + (m - 1) + d + b
                BY <4>4
            <4> QED
                BY <4>1, <4>2, <4>3, <4>5
        <3>3. CASE t # s
            BY <1>6, <1>10, <3>1, <3>3 DEF BusTypes
        <3> QED
            BY <3>2, <3>3
    <2> QED
        BY <1>1, <2>1 DEF BusInv, Counted, RefusedBy
<1> QED
    BY <1>10, <1>11, <1>12, <1>13 DEF BusInv

\* The locks of the consumers and the clock.
LEMMA AroundKeeps ==
    ASSUME BusInv, clock' \in Time,
           UNCHANGED <<joined, policy, items, dropped, busyDrops, event, now, next,
                       offered, refused, taken>>
    PROVE  BusInv'
<1>1. BusTypes'
    BY DEF BusInv, BusTypes
<1>2. \A s \in Subscriber : Newest(s)' = Newest(s) /\ Newest(s) \in Int
    BY DEF Newest, BusInv, BusTypes, Event
<1> QED
    BY <1>1, <1>2, QuietKeeps

LEMMA NextBus == BusInv /\ [Next]_vars => BusInv'
<1> SUFFICES ASSUME BusInv, [Next]_vars PROVE BusInv'
    OBVIOUS
<1>1. ASSUME NEW kind \in DropPolicy, Subscribe(kind) PROVE BusInv'
    BY <1>1, SubscribeKeeps
<1>2. ASSUME NEW ts \in Time, Publish(ts) PROVE BusInv'
    BY <1>2, PublishKeeps
<1>3. ASSUME NEW s \in Subscriber, Offer(s) PROVE BusInv'
    BY <1>3, OfferKeeps
<1>4. ASSUME NEW s \in Subscriber, DropBusy(s) PROVE BusInv'
    BY <1>4, DropBusyKeeps
<1>5. ASSUME NEW s \in Subscriber, Pop(s) PROVE BusInv'
    BY <1>5, PopKeeps
<1>6. ASSUME NEW s \in Subscriber, Lock(s) \/ Unlock(s) \/ Panic(s) PROVE BusInv'
    <2>1. clock \in Time
        BY DEF BusInv, BusTypes
    <2> QED
        BY <1>6, <2>1, AroundKeeps DEF Lock, Unlock, Panic, queues, publish
<1>7. CASE SetClock
    BY <1>7, AroundKeeps DEF SetClock, queues, publish
<1>8. CASE UNCHANGED vars
    <2>1. clock \in Time
        BY DEF BusInv, BusTypes
    <2> QED
        BY <1>8, <2>1, AroundKeeps DEF vars, queues, publish
<1> QED
    BY <1>1, <1>2, <1>3, <1>4, <1>5, <1>6, <1>7, <1>8 DEF Next

LEMMA BusInvariance == Spec => []BusInv
BY InitBus, NextBus, PTL DEF Spec

-----------------------------------------------------------------------------
\* Every event offered to a subscriber is popped, waits within the capacity
\* or is in one of the two drop counters, for every policy and however the
\* clock jumps and consumers hold or poison their locks (queue.rs:96-141).
THEOREM EveryDropCounted == Spec => []Counted
<1>1. BusInv => Counted
    BY DEF BusInv
<1> QED
    BY <1>1, BusInvariance, PTL

\* What a subscriber has popped, and what waits, is in the order of
\* publishing and each event at most once: drops only make gaps.
THEOREM SubscribersSeeOrder == Spec => []AtMostOnceInOrder
<1>1. ASSUME BusInv, NEW s \in Subscriber
      PROVE  LET stream == taken[s] \o [i \in DOMAIN items[s] |-> items[s][i].id]
             IN  \A i \in 1..(Len(stream) - 1) : stream[i] < stream[i + 1]
    <2> DEFINE q == items[s]
               w == taken[s]
               ids == [i \in DOMAIN items[s] |-> items[s][i].id]
               stream == w \o ids
    <2>1. q \in Seq(Event) /\ w \in Seq(0..MaxEvents)
        BY <1>1 DEF BusInv, BusTypes
    <2>2. /\ ids \in Seq(0..MaxEvents) /\ Len(ids) = Len(q)
          /\ \A i \in 1..Len(q) : ids[i] = q[i].id
        <3>1. Len(q) \in Nat /\ DOMAIN q = 1..Len(q) /\ \A i \in 1..Len(q) : q[i].id \in 0..MaxEvents
            BY <1>1, <2>1, Elements DEF BusInv
        <3> QED
            BY <3>1
    <2>3. /\ \A i, j \in 1..Len(w) : i < j => w[i] < w[j]
          /\ \A i, j \in 1..Len(q) : i < j => q[i].id < q[j].id
          /\ \A i \in 1..Len(w), j \in 1..Len(q) : w[i] < q[j].id
        BY <1>1 DEF BusInv, InOrder, Increasing
    <2>4. Len(w) \in Nat /\ Len(q) \in Nat
        BY <2>1
    <2> HIDE DEF q, w, ids
    <2>5. /\ Len(stream) = Len(w) + Len(q)
          /\ \A i \in 1..(Len(w) + Len(q)) :
                 stream[i] = IF i <= Len(w) THEN w[i] ELSE ids[i - Len(w)]
        <3>1. w \in Seq(0..MaxEvents) /\ ids \in Seq(0..MaxEvents) /\ Len(ids) = Len(q)
            BY <2>1, <2>2
        <3> QED
            BY <3>1
    <2> HIDE DEF stream
    <2>6. ASSUME NEW i \in 1..(Len(stream) - 1) PROVE stream[i] < stream[i + 1]
        <3>1. i \in 1..(Len(w) + Len(q)) /\ i + 1 \in 1..(Len(w) + Len(q))
            BY <2>4, <2>5
        <3>2. CASE i + 1 <= Len(w)
            <4>1. i \in 1..Len(w) /\ i + 1 \in 1..Len(w) /\ i < i + 1
                BY <2>4, <3>1, <3>2
            <4> QED
                BY <2>3, <2>4, <2>5, <3>1, <4>1
        <3>3. CASE i = Len(w)
            <4>1. i \in 1..Len(w) /\ (i + 1) - Len(w) = 1 /\ 1 \in 1..Len(q) /\ ~(i + 1 <= Len(w))
                BY <2>4, <2>5, <3>1, <3>3
            <4>2. stream[i] = w[i] /\ stream[i + 1] = ids[1]
                BY <2>4, <2>5, <3>1, <3>3, <4>1
            <4> QED
                BY <2>2, <2>3, <4>1, <4>2
        <3>4. CASE i > Len(w)
            <4>1. /\ i - Len(w) \in 1..Len(q) /\ (i + 1) - Len(w) \in 1..Len(q)
                  /\ i - Len(w) < (i + 1) - Len(w) /\ ~(i <= Len(w)) /\ ~(i + 1 <= Len(w))
                BY <2>4, <2>5, <3>1, <3>4
            <4>2. stream[i] = ids[i - Len(w)] /\ stream[i + 1] = ids[(i + 1) - Len(w)]
                BY <2>5, <3>1, <4>1
            <4> QED
                BY <2>2, <2>3, <4>1, <4>2
        <3> QED
            BY <2>4, <3>1, <3>2, <3>3, <3>4
    <2> QED
        BY <2>6 DEF stream, ids, w
<1>2. BusInv => AtMostOnceInOrder
    BY <1>1 DEF AtMostOnceInOrder
<1> QED
    BY <1>2, BusInvariance, PTL
=============================================================================
