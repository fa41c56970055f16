-------------------------- MODULE CheckpointPromise --------------------------
(***************************************************************************)
(* What the consumer of an event stream promises to whoever relies on its  *)
(* persisted checkpoint (crates/eira-core/src/ipc/sequence.rs:11-25): the  *)
(* checkpoint of a producer only moves forward, it only passes events      *)
(* whose fate is decided (processed, or explicitly given up as lost), and  *)
(* no event at or below it is ever processed or given up again, whatever   *)
(* crashes and redeliveries happen.                                        *)
(***************************************************************************)
EXTENDS Naturals

CONSTANTS Producer, MaxSeq

VARIABLES
    mark,       \* per producer: the durable checkpoint
    applied,    \* per producer: the events that have been processed
    gone        \* per producer: the events given up as lost

pvars == <<mark, applied, gone>>

Init ==
    /\ mark    = [p \in Producer |-> 0]
    /\ applied = [p \in Producer |-> {}]
    /\ gone    = [p \in Producer |-> {}]

\* An event above the checkpoint is processed, perhaps once more.
Apply(p, s) ==
    /\ s > mark[p]
    /\ applied' = [applied EXCEPT ![p] = @ \cup {s}]
    /\ UNCHANGED <<mark, gone>>

\* Events above the checkpoint are given up.
GiveUp(p, S) ==
    /\ \A s \in S : s > mark[p]
    /\ gone' = [gone EXCEPT ![p] = @ \cup S]
    /\ UNCHANGED <<mark, applied>>

\* The checkpoints move forward over decided events.
Advance(to) ==
    /\ \A p \in Producer :
          /\ to[p] >= mark[p]
          /\ 1..to[p] \subseteq applied[p] \cup gone[p]
    /\ mark' = to
    /\ UNCHANGED <<applied, gone>>

Next ==
    \/ \E p \in Producer, s \in 1..MaxSeq : Apply(p, s)
    \/ \E p \in Producer, S \in SUBSET (1..MaxSeq) : GiveUp(p, S)
    \/ \E to \in [Producer -> 0..MaxSeq] : Advance(to)

Spec == Init /\ [][Next]_pvars
=============================================================================
