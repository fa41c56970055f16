------------------------ MODULE SequenceTrackerProofs ------------------------
(***************************************************************************)
(* Proofs about the consumer of the event bus, for any set of producers    *)
(* and any bounds.                                                         *)
(*                                                                         *)
(* The inductive invariant says what the tracker takes for granted when it *)
(* subtracts counts and moves the checkpoint: buffered events lie above    *)
(* the checkpoint, the persisted checkpoint lies at or below it, the stage *)
(* of a buffered event tells whether it has been processed since the       *)
(* restart, and everything at or below the checkpoint has been processed   *)
(* or given up at some time, perhaps before a crash.                       *)
(***************************************************************************)
EXTENDS SequenceTracker, FiniteSetTheorems, TLAPS

-----------------------------------------------------------------------------
(* The invariant. *)

\* Buffered events lie above the checkpoint and have been accepted.
Ahead ==
    \A p \in Producer : \A s \in Buffered(p) : s > last[p] /\ s \in got[p]

\* What is on disk, or about to be, never runs ahead of the tracker.
SavedBehind ==
    \A p \in Producer :
        /\ saved[p] <= snapshot[p]
        /\ snapshot[p] <= last[p]
        /\ lost[p] <= last[p]

\* The stage of a buffered event says whether it has been processed.
StagesKnown ==
    \A p \in Producer :
        /\ \A s \in Buffered(p) : pending[p][s] = "Processed" <=> s \in done[p]
        /\ done[p] \subseteq got[p] \cap applied[p]

\* All events at or below the checkpoint are decided.
Decided ==
    \A p \in Producer, s \in Nat :
        s >= 1 /\ s <= last[p] => s \in applied[p] \/ s \in gone[p]

IInv ==
    /\ TypeOK
    /\ Ahead
    /\ SavedBehind
    /\ StagesKnown
    /\ ReceivedNotSkipped
    /\ Decided

-----------------------------------------------------------------------------
(* The buffer as a function. *)

LEMMA WithoutFacts ==
    ASSUME NEW f, NEW s
    PROVE  /\ DOMAIN Without(f, s) = DOMAIN f \ {s}
           /\ \A q \in DOMAIN f : q # s => Without(f, s)[q] = f[q]
BY DEF Without

LEMMA EmptyBuffer == DOMAIN [s \in {} |-> "Received"] = {}
OBVIOUS

LEMMA FiniteBuffer ==
    ASSUME TypeOK, NEW p \in Producer
    PROVE  /\ IsFiniteSet(Buffered(p))
           /\ Cardinality(Buffered(p)) \in Nat
<1>1. Buffered(p) \in SUBSET (1..MaxSeq)
    BY DEF TypeOK, Seq
<1>2. IsFiniteSet(1..MaxSeq)
    BY FS_Interval, SizesAreNat
<1>3. IsFiniteSet(Buffered(p))
    BY <1>1, <1>2, FS_Subset
<1> QED
    BY <1>3, FS_CardinalityType

-----------------------------------------------------------------------------
(* Every action keeps the invariant. *)

LEMMA InitInv == Init => IInv
<1> SUFFICES ASSUME Init PROVE IInv
    OBVIOUS
<1>1. \A p \in Producer : Buffered(p) = {}
    BY EmptyBuffer DEF Init, Buffered
<1>2. Cardinality({}) = 0
    BY FS_EmptySet
<1>3. TypeOK
    <2>1. Zero \in [Producer -> 0..MaxSeq] /\ Nothing \in [Producer -> SUBSET Seq]
        BY SizesAreNat DEF Zero, Nothing
    <2>2. crashes \in 0..MaxCrashes /\ fails \in 0..MaxFails
        BY SizesAreNat DEF Init
    <2>3. DOMAIN pending = Producer
        BY DEF Init
    <2>4. \A p \in Producer :
            /\ Buffered(p) \subseteq Seq
            /\ \A s \in Buffered(p) : pending[p][s] \in Stage
            /\ Cardinality(Buffered(p)) <= MaxPending
        BY <1>1, <1>2, SizesAreNat
    <2> QED
        BY <2>1, <2>2, <2>3, <2>4 DEF Init, TypeOK
<1>4. Ahead /\ SavedBehind /\ StagesKnown /\ ReceivedNotSkipped
    BY <1>1 DEF Init, Ahead, SavedBehind, StagesKnown, ReceivedNotSkipped, Zero, Nothing
<1>5. Decided
    BY DEF Init, Decided, Zero
<1> QED
    BY <1>3, <1>4, <1>5 DEF IInv

LEMMA ReceiveInv ==
    ASSUME IInv, NEW p \in Producer, NEW s \in Seq, Receive(p, s)
    PROVE  IInv'
<1> USE DEF IInv
<1>1. /\ s > last[p]
      /\ s \notin Buffered(p)
      /\ ~(Cardinality(Buffered(p)) >= MaxPending)
    BY SizesAreNat DEF Receive, Answer, TypeOK, Seq
<1>2. /\ DOMAIN pending' = Producer
      /\ pending'[p] = With(pending[p], s, "Received")
      /\ \A q \in Producer : q # p => pending'[q] = pending[q]
    BY DEF Receive, TypeOK
<1>3. /\ Buffered(p)' = Buffered(p) \cup {s}
      /\ pending'[p][s] = "Received"
      /\ \A t \in Buffered(p) : pending'[p][t] = pending[p][t]
      /\ \A q \in Producer : q # p => Buffered(q)' = Buffered(q)
    <2>1. /\ DOMAIN With(pending[p], s, "Received") = DOMAIN pending[p] \cup {s}
          /\ With(pending[p], s, "Received")[s] = "Received"
          /\ \A q \in DOMAIN pending[p] :
                q # s => With(pending[p], s, "Received")[q] = pending[p][q]
        BY DEF With
    <2>2. \A t \in Buffered(p) : t # s
        BY <1>1
    <2> QED
        BY <1>2, <2>1, <2>2 DEF Buffered
<1>4. Cardinality(Buffered(p)') <= MaxPending
    <2>1. Cardinality(Buffered(p) \cup {s}) = Cardinality(Buffered(p)) + 1
        BY <1>1, FiniteBuffer, FS_AddElement
    <2> QED
        BY <2>1, <1>1, <1>3, FiniteBuffer, SizesAreNat
<1>5. /\ got' = [got EXCEPT ![p] = @ \cup {s}]
      /\ got'[p] = got[p] \cup {s}
      /\ \A q \in Producer : q # p => got'[q] = got[q]
      /\ UNCHANGED <<last, lost, snapshot, saved, crashes, fails, done, applied, gone>>
    BY DEF Receive, TypeOK, disk, bounds
<1>6. TypeOK'
    <2>1. got' \in [Producer -> SUBSET Seq]
        BY <1>5 DEF TypeOK
    <2>2. ASSUME NEW q \in Producer
          PROVE  /\ Buffered(q)' \subseteq Seq
                 /\ \A t \in Buffered(q)' : pending'[q][t] \in Stage
                 /\ Cardinality(Buffered(q)') <= MaxPending
        <3>1. /\ Buffered(q) \subseteq Seq
              /\ \A t \in Buffered(q) : pending[q][t] \in Stage
              /\ Cardinality(Buffered(q)) <= MaxPending
              /\ "Received" \in Stage
            BY DEF TypeOK, Stage
        <3>2. CASE q = p
            BY <3>1, <3>2, <1>3, <1>4
        <3>3. CASE q # p
            BY <3>1, <3>3, <1>2, <1>3
        <3> QED
            BY <3>2, <3>3
    <2>3. /\ last' \in [Producer -> 0..MaxSeq]
          /\ lost' \in [Producer -> 0..MaxSeq]
          /\ snapshot' \in [Producer -> 0..MaxSeq]
          /\ saved' \in [Producer -> 0..MaxSeq]
          /\ crashes' \in 0..MaxCrashes
          /\ fails' \in 0..MaxFails
          /\ done' \in [Producer -> SUBSET Seq]
          /\ applied' \in [Producer -> SUBSET Seq]
          /\ gone' \in [Producer -> SUBSET Seq]
        BY <1>5 DEF TypeOK
    <2> QED
        BY <1>2, <2>1, <2>2, <2>3 DEF TypeOK
<1>7. s \notin done[p]
    BY <1>1 DEF StagesKnown, ReceivedNotSkipped, TypeOK, Seq
<1>8. Ahead' /\ SavedBehind' /\ StagesKnown'
    BY <1>1, <1>2, <1>3, <1>5, <1>7 DEF Ahead, SavedBehind, StagesKnown
<1>9. ReceivedNotSkipped'
    BY <1>1, <1>3, <1>5, SizesAreNat DEF ReceivedNotSkipped, TypeOK, Seq
<1>10. Decided'
    BY <1>5 DEF Decided
<1> QED
    BY <1>6, <1>8, <1>9, <1>10

\* What begin, complete and fail do to the buffer.
LEMMA TransitionFacts ==
    ASSUME TypeOK, NEW p \in Producer, NEW s \in Seq, NEW from, NEW to \in Stage,
           Transition(p, s, from, to)
    PROVE  /\ s \in Buffered(p)
           /\ pending[p][s] = from
           /\ pending'[p][s] = to
           /\ DOMAIN pending' = Producer
           /\ \A q \in Producer : /\ Buffered(q)' = Buffered(q)
                                  /\ \A t \in Buffered(q) :
                                        pending'[q][t] \in Stage
           /\ \A q \in Producer : \A t \in Buffered(q) :
                    ~(q = p /\ t = s) => pending'[q][t] = pending[q][t]
<1>1. /\ s \in DOMAIN pending[p]
      /\ pending'[p] = With(pending[p], s, to)
      /\ \A q \in Producer : q # p => pending'[q] = pending[q]
    BY DEF Transition, TypeOK, Buffered
<1>2. \A q \in Producer : \A t \in Buffered(q) : pending[q][t] \in Stage
    BY DEF TypeOK
<1>3. /\ DOMAIN With(pending[p], s, to) = DOMAIN pending[p] \cup {s}
      /\ With(pending[p], s, to)[s] = to
      /\ \A q \in DOMAIN pending[p] : q # s => With(pending[p], s, to)[q] = pending[p][q]
    BY DEF With
<1>4. \A q \in Producer : Buffered(q)' = Buffered(q)
    BY <1>1, <1>3 DEF Buffered
<1>5. \A q \in Producer : \A t \in Buffered(q) :
            ~(q = p /\ t = s) => pending'[q][t] = pending[q][t]
    BY <1>1, <1>3 DEF Buffered
<1>6. pending'[p][s] = to
    BY <1>1, <1>3
<1>7. \A q \in Producer : \A t \in Buffered(q) : pending'[q][t] \in Stage
    BY <1>2, <1>5, <1>6
<1>8. s \in Buffered(p) /\ pending[p][s] = from /\ DOMAIN pending' = Producer
    BY DEF Transition, TypeOK
<1> QED
    BY <1>4, <1>5, <1>6, <1>7, <1>8

LEMMA StartWorkInv ==
    ASSUME IInv, NEW p \in Producer, NEW s \in Seq, StartWork(p, s)
    PROVE  IInv'
<1> USE DEF IInv
<1>1. Transition(p, s, "Received", "InFlight") /\ "InFlight" \in Stage
    BY DEF StartWork, Stage
<1>2. UNCHANGED <<last, lost, snapshot, saved, crashes, fails, got, done, applied, gone>>
    BY DEF StartWork, Transition, disk
<1>3. TypeOK'
    BY <1>1, <1>2, TransitionFacts DEF TypeOK
<1>4. StagesKnown'
    BY <1>1, <1>2, TransitionFacts DEF StagesKnown
<1>5. Ahead' /\ SavedBehind' /\ ReceivedNotSkipped' /\ Decided'
    BY <1>1, <1>2, TransitionFacts DEF Ahead, SavedBehind, ReceivedNotSkipped, Decided
<1> QED
    BY <1>3, <1>4, <1>5

LEMMA FailInv ==
    ASSUME IInv, NEW p \in Producer, NEW s \in Seq, Fail(p, s)
    PROVE  IInv'
<1> USE DEF IInv
<1>1. Transition(p, s, "InFlight", "Received") /\ "Received" \in Stage
    BY DEF Fail, Stage
<1>2. /\ UNCHANGED <<last, lost, snapshot, saved, crashes, got, done, applied, gone>>
      /\ fails' \in 0..MaxFails
    BY SizesAreNat DEF Fail, Transition, disk, TypeOK
<1>3. TypeOK'
    BY <1>1, <1>2, TransitionFacts DEF TypeOK
<1>4. StagesKnown'
    BY <1>1, <1>2, TransitionFacts DEF StagesKnown
<1>5. Ahead' /\ SavedBehind' /\ ReceivedNotSkipped' /\ Decided'
    BY <1>1, <1>2, TransitionFacts DEF Ahead, SavedBehind, ReceivedNotSkipped, Decided
<1> QED
    BY <1>3, <1>4, <1>5

LEMMA CompleteInv ==
    ASSUME IInv, NEW p \in Producer, NEW s \in Seq, Complete(p, s)
    PROVE  IInv'
<1> USE DEF IInv
<1>1. Transition(p, s, "InFlight", "Processed") /\ "Processed" \in Stage
    BY DEF Complete, Stage
<1>2. /\ UNCHANGED <<last, lost, snapshot, saved, crashes, fails, got, gone>>
      /\ done' \in [Producer -> SUBSET Seq]
      /\ applied' \in [Producer -> SUBSET Seq]
      /\ \A q \in Producer : /\ done'[q] = IF q = p THEN done[q] \cup {s} ELSE done[q]
                             /\ applied'[q] = IF q = p THEN applied[q] \cup {s} ELSE applied[q]
    BY DEF Complete, Transition, disk, TypeOK
<1>3. TypeOK'
    BY <1>1, <1>2, TransitionFacts DEF TypeOK
<1>4. s \in Buffered(p) /\ s \in got[p]
    BY <1>1, TransitionFacts DEF Ahead
<1>5. StagesKnown'
    BY <1>1, <1>2, <1>4, TransitionFacts DEF StagesKnown
<1>6. Ahead' /\ SavedBehind' /\ ReceivedNotSkipped'
    BY <1>1, <1>2, TransitionFacts DEF Ahead, SavedBehind, ReceivedNotSkipped
<1>7. Decided'
    BY <1>2 DEF Decided
<1> QED
    BY <1>3, <1>5, <1>6, <1>7

LEMMA CommitInv ==
    ASSUME IInv, NEW p \in Producer, NEW s \in Seq, Commit(p, s)
    PROVE  IInv'
<1> USE DEF IInv
<1>1. s \in Buffered(p) /\ s = last[p] + 1 /\ s \in done[p] /\ s \in applied[p]
    BY DEF Commit, Committable, StagesKnown
<1>2. /\ DOMAIN pending' = Producer
      /\ pending'[p] = Without(pending[p], s)
      /\ \A q \in Producer : q # p => pending'[q] = pending[q]
    BY DEF Commit, TypeOK
<1>3. /\ Buffered(p)' = Buffered(p) \ {s}
      /\ \A t \in Buffered(p)' : pending'[p][t] = pending[p][t]
      /\ \A q \in Producer : q # p => Buffered(q)' = Buffered(q)
    <2>1. /\ DOMAIN Without(pending[p], s) = DOMAIN pending[p] \ {s}
          /\ \A q \in DOMAIN pending[p] :
                q # s => Without(pending[p], s)[q] = pending[p][q]
        BY WithoutFacts
    <2> QED
        BY <1>2, <2>1 DEF Buffered
<1>4. Cardinality(Buffered(p)') <= MaxPending
    <2>1. Cardinality(Buffered(p) \ {s}) = Cardinality(Buffered(p)) - 1
        BY <1>1, FiniteBuffer, FS_RemoveElement
    <2> QED
        BY <2>1, <1>3, FiniteBuffer, SizesAreNat DEF TypeOK
<1>5. /\ last' \in [Producer -> 0..MaxSeq]
      /\ last'[p] = s
      /\ \A q \in Producer : q # p => last'[q] = last[q]
      /\ UNCHANGED <<lost, snapshot, saved, crashes, fails, got, done, applied, gone>>
    BY SizesAreNat DEF Commit, TypeOK, disk, bounds, history, Seq
<1>6. TypeOK'
    <2>1. ASSUME NEW q \in Producer
          PROVE  /\ Buffered(q)' \subseteq Seq
                 /\ \A t \in Buffered(q)' : pending'[q][t] \in Stage
                 /\ Cardinality(Buffered(q)') <= MaxPending
        BY <1>2, <1>3, <1>4 DEF TypeOK
    <2> QED
        BY <1>2, <1>5, <2>1 DEF TypeOK
<1>7. Ahead'
    <2>1. ASSUME NEW q \in Producer, NEW t \in Buffered(q)'
          PROVE  t > last'[q] /\ t \in got[q]
        <3>1. t \in Buffered(q) /\ t \in Int /\ t > last[q] /\ t \in got[q]
            BY <2>1, <1>3 DEF Ahead, TypeOK, Seq
        <3>2. last[p] \in Int /\ last[q] \in Int
            BY DEF TypeOK
        <3>3. CASE q = p
            BY <3>1, <3>2, <3>3, <2>1, <1>1, <1>3, <1>5
        <3>4. CASE q # p
            BY <3>1, <3>4, <1>5
        <3> QED
            BY <3>3, <3>4
    <2> QED
        BY <2>1, <1>5 DEF Ahead
<1>8. SavedBehind'
    BY <1>1, <1>5, SizesAreNat DEF SavedBehind, TypeOK
<1>9. StagesKnown'
    BY <1>2, <1>3, <1>5 DEF StagesKnown
<1>10. ReceivedNotSkipped'
    <2>1. ASSUME NEW q \in Producer, NEW t \in got[q]
          PROVE  IF t <= last'[q] THEN t \in done[q] ELSE t \in Buffered(q)'
        <3>1. t \in Nat /\ last[q] \in Nat
            BY SizesAreNat DEF TypeOK, Seq
        <3>2. CASE q # p
            BY <3>2, <1>3, <1>5 DEF ReceivedNotSkipped
        <3>3. CASE q = p
            BY <3>1, <3>3, <1>1, <1>3, <1>5 DEF ReceivedNotSkipped
        <3> QED
            BY <3>2, <3>3
    <2> QED
        BY <2>1, <1>5 DEF ReceivedNotSkipped
<1>11. Decided'
    <2>1. ASSUME NEW q \in Producer, NEW t \in Nat, t >= 1, t <= last'[q]
          PROVE  t \in applied[q] \/ t \in gone[q]
        <3>1. last[p] \in Nat /\ s \in Nat
            BY DEF TypeOK, Seq
        <3>2. CASE t <= last[q]
            BY <2>1, <3>2 DEF Decided
        <3>3. CASE ~(t <= last[q])
            BY <2>1, <3>1, <3>3, <1>1, <1>5
        <3> QED
            BY <3>2, <3>3
    <2> QED
        BY <2>1, <1>5 DEF Decided
<1> QED
    BY <1>6, <1>7, <1>8, <1>9, <1>10, <1>11

LEMMA DeclareLostInv ==
    ASSUME IInv, NEW p \in Producer, NEW n \in Seq, DeclareLost(p, n)
    PROVE  IInv'
<1> USE DEF IInv
<1>1. n > last[p] /\ \A s \in Buffered(p) : s > n
    BY DEF DeclareLost, Skippable
<1>2. last[p] \in Nat /\ n \in Nat /\ lost[p] \in Nat
    BY SizesAreNat DEF TypeOK, Seq
<1>3. UNCHANGED <<pending, snapshot, saved, crashes, fails, got, done, applied>>
    BY DEF DeclareLost, disk, bounds
<1>4. \A q \in Producer :
        /\ last'[q] = IF q = p THEN n ELSE last[q]
        /\ lost'[q] = IF q = p THEN lost[q] + (n - last[q]) ELSE lost[q]
        /\ gone'[q] = IF q = p THEN gone[q] \cup (last[q] + 1)..n ELSE gone[q]
    BY DEF DeclareLost, TypeOK
<1>4a. last'[p] = n /\ lost'[p] = lost[p] + (n - last[p])
    BY <1>4
<1>5. SavedBehind'
    <2>1. ASSUME NEW q \in Producer
          PROVE  saved'[q] <= snapshot'[q] /\ snapshot'[q] <= last'[q] /\ lost'[q] <= last'[q]
        <3>1. /\ saved'[q] = saved[q] /\ snapshot'[q] = snapshot[q]
              /\ saved[q] \in Nat /\ snapshot[q] \in Nat /\ last[q] \in Nat
              /\ lost[q] \in Nat
            BY <1>3 DEF TypeOK
        <3>2. saved[q] <= snapshot[q] /\ snapshot[q] <= last[q] /\ lost[q] <= last[q]
            BY DEF SavedBehind
        <3>3. CASE q = p
            BY <3>1, <3>2, <3>3, <1>1, <1>2, <1>4a
        <3>4. CASE q # p
            BY <3>1, <3>2, <3>4, <1>4
        <3> QED
            BY <3>3, <3>4
    <2> QED
        BY <2>1 DEF SavedBehind
<1>6. TypeOK'
    <2>1. last' \in [Producer -> 0..MaxSeq]
        BY <1>2 DEF DeclareLost, TypeOK, Seq
    <2>2. lost[p] + (n - last[p]) \in 0..MaxSeq
        BY <1>1, <1>2, SizesAreNat DEF SavedBehind, Seq
    <2>3. lost' \in [Producer -> 0..MaxSeq]
        BY <2>2 DEF DeclareLost, TypeOK
    <2>4. (last[p] + 1)..n \subseteq Seq
        BY <1>2, SizesAreNat DEF Seq
    <2>5. gone' \in [Producer -> SUBSET Seq]
        BY <2>4 DEF DeclareLost, TypeOK
    <2> QED
        BY <1>3, <2>1, <2>3, <2>5 DEF TypeOK, Buffered
<1>7. Ahead'
    BY <1>1, <1>3, <1>4 DEF Ahead, Buffered
<1>8. StagesKnown'
    BY <1>3 DEF StagesKnown, Buffered
<1>9. ReceivedNotSkipped'
    <2>1. ASSUME NEW q \in Producer, NEW t \in got[q]
          PROVE  IF t <= last'[q] THEN t \in done[q] ELSE t \in Buffered(q)
        <3>1. t \in Nat
            BY DEF TypeOK, Seq
        <3>2. CASE q # p
            BY <3>2, <1>4 DEF ReceivedNotSkipped
        <3>3. CASE q = p /\ t <= last[p]
            <4>1. t \in done[q]
                BY <3>3, <2>1 DEF ReceivedNotSkipped
            <4>2. t <= last'[q]
                BY <3>1, <3>3, <1>1, <1>2, <1>4a
            <4> QED
                BY <4>1, <4>2
        <3>4. CASE q = p /\ ~(t <= last[p])
            <4>1. t \in Buffered(q)
                BY <3>4, <2>1 DEF ReceivedNotSkipped
            <4>2. ~(t <= last'[q])
                BY <4>1, <3>1, <3>4, <1>1, <1>2, <1>4a
            <4> QED
                BY <4>1, <4>2
        <3> QED
            BY <3>2, <3>3, <3>4
    <2> QED
        BY <2>1, <1>3 DEF ReceivedNotSkipped, Buffered
<1>10. Decided'
    <2>1. ASSUME NEW q \in Producer, NEW t \in Nat, t >= 1, t <= last'[q]
          PROVE  t \in applied[q] \/ t \in gone'[q]
        <3>1. CASE t <= last[q]
            BY <2>1, <3>1, <1>4 DEF Decided
        <3>2. CASE ~(t <= last[q])
            <4>1. q = p /\ t <= n
                BY <2>1, <3>2, <1>4
            <4>2. t \in (last[q] + 1)..n
                BY <4>1, <3>2, <1>2
            <4> QED
                BY <4>1, <4>2, <1>4
        <3> QED
            BY <3>1, <3>2
    <2> QED
        BY <2>1, <1>3 DEF Decided
<1> QED
    BY <1>5, <1>6, <1>7, <1>8, <1>9, <1>10

LEMMA DiskInv ==
    ASSUME IInv, ReadCheckpoints \/ Persist
    PROVE  IInv'
<1> USE DEF IInv
<1>1. /\ UNCHANGED <<last, pending, lost, crashes, fails, got, done, applied, gone>>
      /\ snapshot' \in {last, snapshot}
      /\ saved' \in {snapshot, saved}
      /\ snapshot' = last => saved' = saved \/ snapshot' = snapshot
    BY DEF ReadCheckpoints, Persist, Checkpoints, tracker, bounds, history
<1>2. TypeOK'
    BY <1>1 DEF TypeOK, Buffered
<1>3. SavedBehind'
    BY <1>1, SizesAreNat DEF SavedBehind, ReadCheckpoints, Persist, Checkpoints, TypeOK
<1>4. Ahead' /\ StagesKnown' /\ ReceivedNotSkipped' /\ Decided'
    BY <1>1 DEF Ahead, StagesKnown, ReceivedNotSkipped, Decided, Buffered
<1> QED
    BY <1>2, <1>3, <1>4

LEMMA CrashInv ==
    ASSUME IInv, Crash
    PROVE  IInv'
<1> USE DEF IInv
<1>1. /\ last' = saved /\ snapshot' = saved /\ saved' = saved
      /\ lost' = Zero /\ got' = Nothing /\ done' = Nothing
      /\ UNCHANGED <<fails, applied, gone>>
      /\ DOMAIN pending' = Producer
    BY DEF Crash
<1>2. \A p \in Producer : Buffered(p)' = {}
    BY EmptyBuffer DEF Crash, Buffered
<1>3. Cardinality({}) = 0
    BY FS_EmptySet
<1>4. crashes' \in 0..MaxCrashes
    BY SizesAreNat DEF Crash, TypeOK
<1>5. TypeOK'
    <2>1. Zero \in [Producer -> 0..MaxSeq] /\ Nothing \in [Producer -> SUBSET Seq]
        BY SizesAreNat DEF Zero, Nothing
    <2> QED
        BY <1>1, <1>2, <1>3, <1>4, <2>1, SizesAreNat DEF TypeOK
<1>6. Ahead' /\ StagesKnown' /\ ReceivedNotSkipped'
    BY <1>1, <1>2 DEF Ahead, StagesKnown, ReceivedNotSkipped, Nothing
<1>7. SavedBehind'
    BY <1>1, SizesAreNat DEF SavedBehind, Zero, TypeOK
<1>8. Decided'
    BY <1>1, SizesAreNat DEF Decided, SavedBehind, TypeOK
<1> QED
    BY <1>5, <1>6, <1>7, <1>8

LEMMA StutterInv ==
    ASSUME IInv, UNCHANGED vars
    PROVE  IInv'
BY DEF IInv, vars, tracker, disk, bounds, history, TypeOK, Ahead, SavedBehind,
       StagesKnown, ReceivedNotSkipped, Decided, Buffered

LEMMA NextInv == IInv /\ [Next]_vars => IInv'
<1> SUFFICES ASSUME IInv, [Next]_vars PROVE IInv'
    OBVIOUS
<1>1. ASSUME NEW p \in Producer, NEW s \in Seq, Receive(p, s) PROVE IInv'
    BY <1>1, ReceiveInv
<1>2. ASSUME NEW p \in Producer, NEW s \in Seq, StartWork(p, s) PROVE IInv'
    BY <1>2, StartWorkInv
<1>3. ASSUME NEW p \in Producer, NEW s \in Seq, Complete(p, s) PROVE IInv'
    BY <1>3, CompleteInv
<1>4. ASSUME NEW p \in Producer, NEW s \in Seq, Fail(p, s) PROVE IInv'
    BY <1>4, FailInv
<1>5. ASSUME NEW p \in Producer, NEW s \in Seq, Commit(p, s) PROVE IInv'
    BY <1>5, CommitInv
<1>6. ASSUME NEW p \in Producer, NEW s \in Seq, DeclareLost(p, s) PROVE IInv'
    BY <1>6, DeclareLostInv
<1>7. CASE ReadCheckpoints \/ Persist
    BY <1>7, DiskInv
<1>8. CASE Crash
    BY <1>8, CrashInv
<1>9. CASE UNCHANGED vars
    BY <1>9, StutterInv
<1> QED
    BY <1>1, <1>2, <1>3, <1>4, <1>5, <1>6, <1>7, <1>8, <1>9 DEF Next

LEMMA Invariance == Spec => []IInv
BY InitInv, NextInv, PTL DEF Spec

-----------------------------------------------------------------------------
(* The theorems. *)

\* Every variable keeps its type, and a tracker never buffers more than
\* max_pending events (sequence.rs:118).
THEOREM TypeCorrect == Spec => []TypeOK
<1>1. IInv => TypeOK
    BY DEF IInv
<1> QED
    BY <1>1, Invariance, PTL

\* No accepted event is skipped by declare_lost, whatever was declared and
\* whenever it was decided (sequence.rs:198-209).
THEOREM NothingSkipped == Spec => []ReceivedNotSkipped
<1>1. IInv => ReceivedNotSkipped
    BY DEF IInv
<1> QED
    BY <1>1, Invariance, PTL

\* The count in AfterGap is exact: no buffered event lies at or below the
\* checkpoint, so the subtraction takes away predecessors only (:122-124).
THEOREM MissingCounts == Spec => []MissingExact
<1>1. ASSUME IInv, NEW p \in Producer, NEW s \in Seq, s > last[p]
      PROVE  Missing(p, s) =
                Cardinality({q \in Seq : q < s /\ q > last[p] /\ q \notin Buffered(p)})
    <2> DEFINE I == (last[p] + 1)..(s - 1)
               B == {q \in Buffered(p) : q < s}
    <2>1. last[p] \in Nat /\ s \in Nat /\ s <= MaxSeq /\ MaxSeq \in Nat
        BY <1>1, SizesAreNat DEF IInv, TypeOK, Seq
    <2>2. B \subseteq I
        BY <1>1, <2>1 DEF IInv, Ahead, TypeOK, Seq
    <2>3. IsFiniteSet(I) /\ Cardinality(I) = s - 1 - last[p]
        <3>1. last[p] + 1 \in Int /\ s - 1 \in Int
            BY <2>1
        <3>2. /\ IsFiniteSet(I)
              /\ Cardinality(I) = IF last[p] + 1 > s - 1 THEN 0 ELSE (s - 1) - (last[p] + 1) + 1
            BY <3>1, FS_Interval
        <3> QED
            BY <1>1, <2>1, <3>2
    <2>4. {q \in Seq : q < s /\ q > last[p] /\ q \notin Buffered(p)} = I \ B
        BY <2>1 DEF Seq
    <2>5. IsFiniteSet(B) /\ Cardinality(B) \in Nat
        BY <2>2, <2>3, FS_Subset, FS_CardinalityType
    <2>6. Cardinality(I \ B) = Cardinality(I) - Cardinality(I \cap B)
        BY <2>3, FS_Difference
    <2>7. I \cap B = B
        BY <2>2
    <2>8. Missing(p, s) = (s - last[p] - 1) - Cardinality(B)
        BY DEF Missing
    <2> HIDE DEF I, B
    <2>9. Cardinality(I \ B) = (s - 1 - last[p]) - Cardinality(B)
        BY <2>3, <2>6, <2>7
    <2> QED
        BY <2>1, <2>4, <2>5, <2>8, <2>9
<1>2. IInv => MissingExact
    BY <1>1 DEF MissingExact
<1> QED
    BY <1>2, Invariance, PTL

(* The least of a set of naturals, from the well-foundedness of the        *)
(* strict subsets among its initial segments.                              *)
LEMMA LeastOf ==
    ASSUME NEW T \in SUBSET Nat, T # {}
    PROVE  \E m \in T : \A k \in T : m <= k
<1> DEFINE R == StrictSubsetOrdering(Nat)
           D == {0..n : n \in T}
<1>1. D \subseteq FiniteSubsetsOf(Nat) /\ D # {}
    <2>1. \A n \in T : 0..n \in SUBSET Nat /\ IsFiniteSet(0..n)
        BY FS_Interval
    <2> QED
        BY <2>1 DEF FiniteSubsetsOf
<1>2. \E x \in D : \A y \in D : <<y, x>> \notin R
    <2> HIDE DEF R, D
    <2> QED
        BY <1>1, FS_StrictSubsetOrderingWellFounded, WFMin DEF R
<1>3. PICK m \in T : \A k \in T : <<0..k, 0..m>> \notin R
    BY <1>2
<1>4. ASSUME NEW k \in T, k < m PROVE FALSE
    <2>1. m \in 0..m /\ m \notin 0..k
        BY <1>4
    <2>2. 0..k \subseteq 0..m /\ 0..k # 0..m /\ 0..k \in SUBSET Nat /\ 0..m \in SUBSET Nat
        BY <1>4, <2>1
    <2> QED
        BY <1>3, <2>2 DEF StrictSubsetOrdering
<1> QED
    BY <1>3, <1>4

\* Next to each place in front of a bound there is a last element before it.
LEMMA GreatestBelow ==
    ASSUME NEW T \in SUBSET Nat, NEW s \in Nat, NEW a \in T, a < s
    PROVE  \E m \in T : m < s /\ \A k \in T : k < s => k <= m
<1> DEFINE D == {s - k : k \in {t \in T : t < s}}
<1>1. D \in SUBSET Nat /\ s - a \in D
    OBVIOUS
<1>2. PICK d \in D : \A e \in D : d <= e
    <2> HIDE DEF D
    <2> QED
        BY <1>1, LeastOf
<1>3. PICK m \in T : m < s /\ d = s - m
    OBVIOUS
<1>4. \A k \in T : k < s => s - m <= s - k
    BY <1>2, <1>3
<1> QED
    BY <1>3, <1>4

\* gaps() names exactly what is missing: each event that is neither settled
\* nor buffered, below a buffered one, lies between two neighbours among the
\* checkpoint and the buffered events (sequence.rs:179-193).
THEOREM GapsCovered == Spec => []GapsExact
<1>1. ASSUME IInv, NEW p \in Producer
      PROVE  UNION {g.first..g.last : g \in Gaps(p)} =
                {s \in Seq : /\ s > last[p] /\ s \notin Buffered(p)
                            /\ \E b \in Buffered(p) : s < b}
    <2> DEFINE Stops == Buffered(p) \cup {last[p]}
    <2>1. /\ last[p] \in Nat /\ MaxSeq \in Nat /\ Buffered(p) \subseteq 1..MaxSeq
          /\ \A s \in Buffered(p) : s > last[p]
        BY <1>1, SizesAreNat DEF IInv, TypeOK, Ahead, Seq
    <2>2. ASSUME NEW g \in Gaps(p), NEW s \in g.first..g.last
          PROVE  s \in Seq /\ s > last[p] /\ s \notin Buffered(p)
                 /\ \E b \in Buffered(p) : s < b
        <3>1. /\ g.first \in 1..MaxSeq /\ g.last \in 1..MaxSeq
              /\ g.last + 1 \in Buffered(p) /\ g.first - 1 \in Stops
              /\ s \notin Buffered(p)
            BY DEF Gaps, Seq
        <3>2. g.first - 1 >= last[p]
            BY <2>1, <3>1
        <3>3. s \in 1..MaxSeq /\ s > last[p] /\ s < g.last + 1
            BY <2>1, <3>1, <3>2
        <3> QED
            BY <3>1, <3>3 DEF Seq
    <2>3. ASSUME NEW s \in Seq, s > last[p], s \notin Buffered(p),
                 NEW c \in Buffered(p), s < c
          PROVE  \E g \in Gaps(p) : s \in g.first..g.last
        <3>1. s \in Nat /\ s <= MaxSeq /\ Stops \in SUBSET Nat /\ last[p] \in Stops
            BY <2>1, <2>3 DEF Seq
        <3>2. PICK a \in Stops : a < s /\ \A k \in Stops : k < s => k <= a
            <4> HIDE DEF Stops
            <4> QED
                BY <2>3, <3>1, GreatestBelow
        <3>3. PICK b \in {k \in Buffered(p) : k > s} :
                  \A k \in {k \in Buffered(p) : k > s} : b <= k
            <4>1. /\ {k \in Buffered(p) : k > s} \in SUBSET Nat
                  /\ {k \in Buffered(p) : k > s} # {}
                BY <2>1, <2>3, <3>1
            <4> QED
                BY <4>1, LeastOf
        <3>4. a \in Nat /\ b \in 1..MaxSeq /\ b \in Buffered(p) /\ a + 1 <= s /\ s <= b - 1
            BY <2>1, <3>1, <3>2, <3>3
        <3>5. a + 1 \in Seq /\ b - 1 \in Seq
            BY <2>1, <3>1, <3>4 DEF Seq
        <3>6. \A t \in (a + 1)..(b - 1) : t \notin Buffered(p)
            <4> SUFFICES ASSUME NEW t \in (a + 1)..(b - 1), t \in Buffered(p)
                         PROVE  FALSE
                OBVIOUS
            <4>1. t \in Stops /\ t \in Int /\ a < t /\ t < b
                BY <3>4
            <4>2. CASE t < s
                BY <3>2, <3>4, <4>1, <4>2
            <4>3. CASE t = s
                BY <2>3, <4>3
            <4>4. CASE t > s
                BY <3>3, <3>4, <4>1, <4>4
            <4> QED
                BY <3>1, <4>1, <4>2, <4>3, <4>4
        <3> DEFINE g == [first |-> a + 1, last |-> b - 1]
        <3>7. g \in Gaps(p)
            <4>1. g.first = a + 1 /\ g.last = b - 1 /\ g \in [first : Seq, last : Seq]
                BY <3>5
            <4>2. g.first - 1 = a /\ g.last + 1 = b /\ g.first <= g.last
                BY <3>1, <3>4, <4>1
            <4> HIDE DEF g
            <4> QED
                BY <3>2, <3>4, <3>6, <4>1, <4>2 DEF Gaps
        <3> QED
            BY <3>1, <3>4, <3>7
    <2> QED
        BY <2>2, <2>3
<1>2. IInv => GapsNamed
    BY <1>1 DEF GapsNamed
<1>3. GapsNamed /\ MissingExact => GapsExact
    BY DEF GapsExact
<1> QED
    BY <1>2, <1>3, Invariance, MissingCounts, PTL

\* An event is processed to success once between two crashes, and never once
\* the persisted checkpoint has passed it (sequence.rs:115, :133-141).
THEOREM Once == Spec => ProcessedOnce
<1>1. ASSUME IInv, NEW p \in Producer, NEW s \in Seq, Complete(p, s)
      PROVE  s \notin done[p] /\ s > saved[p]
    <2>1. s \in Buffered(p) /\ pending[p][s] = "InFlight"
        BY <1>1 DEF Complete, Transition
    <2>2. s \notin done[p]
        BY <1>1, <2>1 DEF IInv, StagesKnown
    <2>3. s > last[p] /\ saved[p] <= snapshot[p] /\ snapshot[p] <= last[p]
        BY <1>1, <2>1 DEF IInv, Ahead, SavedBehind
    <2> QED
        BY <1>1, <2>2, <2>3, SizesAreNat DEF IInv, TypeOK, Seq
<1>2. IInv => \A p \in Producer, s \in Seq : Complete(p, s) => s \notin done[p] /\ s > saved[p]
    BY <1>1
<1> QED
    BY <1>2, Invariance, PTL DEF ProcessedOnce

\* Short of a crash the checkpoint moves in order, over a processed event or
\* over events that are not held (sequence.rs:161-177, :198-209).
THEOREM InOrder == Spec => CheckpointInOrder
<1> DEFINE Moves(p) ==
        last'[p] # last[p] /\ ~Crash =>
            /\ last'[p] > last[p]
            /\ \/ last'[p] = last[p] + 1 /\ last'[p] \in done[p] /\ lost'[p] = lost[p]
               \/ /\ (last[p] + 1)..last'[p] \cap (got[p] \cup done[p]) = {}
                  /\ lost'[p] = lost[p] + (last'[p] - last[p])
<1>1. ASSUME IInv, [Next]_vars, NEW p \in Producer, last'[p] # last[p], ~Crash
      PROVE  Moves(p)
    <2>1. ASSUME NEW q \in Producer, NEW s \in Seq, Commit(q, s)
          PROVE  Moves(p)
        <3>1. q = p
            BY <1>1, <2>1 DEF Commit, IInv, TypeOK
        <3>2. last'[p] = s /\ s = last[p] + 1 /\ s \in done[p] /\ lost' = lost
            BY <1>1, <2>1, <3>1 DEF Commit, Committable, IInv, TypeOK, StagesKnown
        <3>3. last[p] \in Nat
            BY <1>1 DEF IInv, TypeOK
        <3> QED
            BY <3>2, <3>3
    <2>2. ASSUME NEW q \in Producer, NEW n \in Seq, DeclareLost(q, n)
          PROVE  Moves(p)
        <3>1. q = p
            BY <1>1, <2>2 DEF DeclareLost, IInv, TypeOK
        <3>2. /\ last'[p] = n /\ n > last[p]
              /\ lost'[p] = lost[p] + (n - last[p])
              /\ \A s \in Buffered(p) : s > n
            BY <1>1, <2>2, <3>1 DEF DeclareLost, Skippable, IInv, TypeOK
        <3>3. last[p] \in Nat /\ n \in Nat
            BY <1>1 DEF IInv, TypeOK, Seq
        <3>4. ASSUME NEW s \in (last[p] + 1)..n, s \in got[p]
              PROVE  FALSE
            <4>1. s \in Nat /\ s > last[p] /\ s <= n
                BY <3>3
            <4>2. s \in Buffered(p)
                BY <1>1, <3>3, <3>4, <4>1 DEF IInv, ReceivedNotSkipped
            <4> QED
                BY <3>2, <3>3, <4>1, <4>2
        <3>5. done[p] \subseteq got[p]
            BY <1>1 DEF IInv, StagesKnown
        <3> QED
            BY <3>2, <3>4, <3>5
    <2>3. ASSUME NEW q \in Producer, NEW s \in Seq,
                 Receive(q, s) \/ StartWork(q, s) \/ Complete(q, s) \/ Fail(q, s)
          PROVE  last' = last
        BY <2>3 DEF Receive, StartWork, Complete, Fail, Transition
    <2>4. ReadCheckpoints \/ Persist \/ UNCHANGED vars => last' = last
        BY DEF ReadCheckpoints, Persist, vars, tracker
    <2> QED
        BY <1>1, <2>1, <2>2, <2>3, <2>4 DEF Next
<1>2. IInv /\ [Next]_vars => [\A p \in Producer : Moves(p)]_vars
    BY <1>1
<1>3. CheckpointInOrder <=> [][\A p \in Producer : Moves(p)]_vars
    BY DEF CheckpointInOrder
<1> QED
    BY <1>2, <1>3, Invariance, PTL DEF Spec

\* The persisted checkpoint only moves forward, over decided events, and
\* nothing at or below it is processed or given up again.
THEOREM Refinement == Spec => KeepsCheckpoint
<1>1. Init => Promise!Init
    BY DEF Init, Zero, Nothing, Promise!Init
<1>2. IInv /\ [Next]_vars => [Promise!Next]_(Promise!pvars)
    <2> SUFFICES ASSUME IInv, [Next]_vars PROVE [Promise!Next]_(Promise!pvars)
        OBVIOUS
    <2> USE DEF IInv
    <2>1. ASSUME NEW p \in Producer, NEW s \in Seq,
                 Receive(p, s) \/ StartWork(p, s) \/ Fail(p, s) \/ Commit(p, s)
          PROVE  UNCHANGED Promise!pvars
        BY <2>1 DEF Receive, StartWork, Fail, Commit, Transition, disk, history,
                    Promise!pvars
    <2>2. ASSUME NEW p \in Producer, NEW s \in Seq, Complete(p, s)
          PROVE  Promise!Next
        <3>1. s \in Buffered(p)
            BY <2>2 DEF Complete, Transition
        <3>2. s > last[p] /\ saved[p] <= snapshot[p] /\ snapshot[p] <= last[p]
            BY <3>1 DEF Ahead, SavedBehind
        <3>3. s > saved[p]
            BY <3>2 DEF TypeOK, Seq
        <3>4. Promise!Apply(p, s)
            BY <2>2, <3>3 DEF Complete, Transition, disk, Promise!Apply
        <3> QED
            BY <3>4 DEF Promise!Next, Seq
    <2>3. ASSUME NEW p \in Producer, NEW n \in Seq, DeclareLost(p, n)
          PROVE  Promise!Next
        <3>1. last[p] \in Nat /\ saved[p] \in Nat /\ n \in Nat /\ n <= MaxSeq
            BY SizesAreNat DEF TypeOK, Seq
        <3>2. saved[p] <= last[p]
            BY <3>1 DEF SavedBehind, TypeOK
        <3>3. (last[p] + 1)..n \in SUBSET (1..MaxSeq)
            BY <3>1, SizesAreNat
        <3>4. \A s \in (last[p] + 1)..n : s > saved[p]
            BY <3>1, <3>2
        <3>5. Promise!GiveUp(p, (last[p] + 1)..n)
            BY <2>3, <3>4 DEF DeclareLost, disk, Promise!GiveUp
        <3> QED
            BY <3>3, <3>5 DEF Promise!Next
    <2>4. CASE Persist
        <3>1. \A p \in Producer :
                /\ snapshot[p] >= saved[p]
                /\ 1..snapshot[p] \subseteq applied[p] \cup gone[p]
            <4> SUFFICES ASSUME NEW p \in Producer
                         PROVE  /\ snapshot[p] >= saved[p]
                                /\ 1..snapshot[p] \subseteq applied[p] \cup gone[p]
                OBVIOUS
            <4>1. snapshot[p] \in Nat /\ saved[p] \in Nat /\ last[p] \in Nat
                BY DEF TypeOK
            <4>2. saved[p] <= snapshot[p] /\ snapshot[p] <= last[p]
                BY DEF SavedBehind
            <4>3. ASSUME NEW s \in 1..snapshot[p]
                  PROVE  s \in applied[p] \/ s \in gone[p]
                <5>1. s \in Nat /\ s >= 1 /\ s <= last[p]
                    BY <4>1, <4>2
                <5> QED
                    BY <5>1 DEF Decided
            <4> QED
                BY <4>1, <4>2, <4>3
        <3>2. saved' = snapshot /\ UNCHANGED <<applied, gone>>
            BY <2>4 DEF Persist, history
        <3>3. Promise!Advance(snapshot)
            BY <3>1, <3>2 DEF Promise!Advance
        <3>4. snapshot \in [Producer -> 0..MaxSeq]
            BY DEF TypeOK
        <3> QED
            BY <3>3, <3>4 DEF Promise!Next
    <2>5. CASE ReadCheckpoints \/ Crash
        BY <2>5 DEF ReadCheckpoints, Crash, history, Promise!pvars
    <2>6. CASE UNCHANGED vars
        BY <2>6 DEF vars, disk, history, Promise!pvars
    <2> QED
        BY <2>1, <2>2, <2>3, <2>4, <2>5, <2>6 DEF Next
<1> QED
    BY <1>1, <1>2, Invariance, PTL DEF Spec, KeepsCheckpoint, Promise!Spec
=============================================================================
