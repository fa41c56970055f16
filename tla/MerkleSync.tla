----------------------------- MODULE MerkleSync -----------------------------
(***************************************************************************)
(* The comparison of two state logs by a Merkle root and by the headers    *)
(* (app/fleet/merkle_sync.py), between two peers whose logs grow by        *)
(* appends of their own and by what they copy from each other.             *)
(*                                                                         *)
(* A state is a number that stands for its hash, and the numbers are in    *)
(* the order of (timestamp, id, hash).  A hash covers the id and the       *)
(* parent, so headers with one hash are equal; hashes do not collide.      *)
(***************************************************************************)
EXTENDS Naturals, FiniteSets

CONSTANTS
    State,      \* the states there are
    StateId,    \* the id of each
    StateParent, \* its previous_state_id; 0 when it has none
    Peer        \* two logs

ASSUME MerkleAssumption ==
    /\ State \subseteq Nat \ {0}
    /\ StateId \in [State -> Nat \ {0}] /\ StateParent \in [State -> Nat]
    /\ Cardinality(Peer) = 2

VARIABLES
    logs,       \* the states of each peer
    compared,   \* the two logs last compared
    diff,       \* SyncDiff of that comparison
    resolution  \* ForkResolution of it

merkle == <<logs, compared, diff, resolution>>

NoDiff == [inSync |-> FALSE, missingFromLocal |-> {}, missingFromRemote |-> {}]
NoResolution == [head |-> 0, conflicting |-> {}]

MerkleTypeOK ==
    /\ logs \in [Peer -> SUBSET State]
    /\ compared \in [local : SUBSET State, remote : SUBSET State]
    /\ diff.missingFromLocal \cup diff.missingFromRemote \subseteq State
    /\ resolution.head # 0 => resolution.conflicting = {}

MerkleInit ==
    /\ logs = [p \in Peer |-> {}]
    /\ compared = [local |-> {}, remote |-> {}]
    /\ diff = NoDiff /\ resolution = NoResolution

-----------------------------------------------------------------------------
IdsOf(states) == {StateId[i] : i \in states}
Referenced(states) == {StateParent[i] : i \in states}
Tips(states) == {i \in states : StateId[i] \notin Referenced(states)}

\* _headers raises: two hashes under one id.
TwoOfOneId(states) ==
    \E i, j \in states : i # j /\ StateId[i] = StateId[j]

\* MUTANT: only what a tip leads to is looked at.
NothingToLookAt(states) == states # {} /\ Tips(states) = {}

\* Walks from every state, also those no tip leads to: a set in which each
\* one's parent is at hand never ends.
Cyclic(states) ==
    \E loop \in (SUBSET states) \ {{}} : Referenced(loop) \subseteq IdsOf(loop)

\* snapshot raises.
Malformed(states) == TwoOfOneId(states) \/ Cyclic(states)

\* A header's parent, if it is at hand.
ParentIn(i, states) == {j \in states : StateId[j] = StateParent[i]}

\* _node_commitment, with its cache: a digest of the state and of what its
\* parent commits to.  Its own hash tells a root from a parent not at hand.
Commitments(states) ==
    LET cache[i \in states] == <<i, {cache[j] : j \in ParentIn(i, states)}>>
    IN  cache

Root(states) == {Commitments(states)[i] : i \in Tips(states)}

Difference(local, remote) ==
    [inSync |-> Root(local) = Root(remote),
     missingFromLocal |-> remote \ local, missingFromRemote |-> local \ remote]

\* reconcile: conflicting ids, or the tips of a fork, or the one head.
Reconciled(local, remote) ==
    LET combined == local \cup remote
        clash == {StateId[i] : i \in {k \in combined :
                      \E j \in combined : j # k /\ StateId[j] = StateId[k]}}
        tips == IdsOf(Tips(combined))
    IN  IF clash # {} THEN [head |-> 0, conflicting |-> clash]
        ELSE IF Cyclic(combined) THEN NoResolution
        ELSE IF Cardinality(tips) > 1 THEN [head |-> 0, conflicting |-> tips]
        ELSE [head |-> IF tips = {} THEN 0 ELSE CHOOSE h \in tips : TRUE,
              conflicting |-> {}]

-----------------------------------------------------------------------------
\* An append here, or a block copied after a comparison, in any order; an id
\* is taken once, and no parent is asked for.
Grow(p, i) ==
    /\ StateId[i] \notin IdsOf(logs[p])
    /\ logs' = [logs EXCEPT ![p] = @ \cup {i}]
    /\ UNCHANGED <<compared, diff, resolution>>

\* handshake; malformed headers of either side end it with an error.
CompareLogs(p, q) ==
    /\ ~Malformed(logs[p]) /\ ~Malformed(logs[q])
    /\ compared' = [local |-> logs[p], remote |-> logs[q]]
    /\ diff' = Difference(logs[p], logs[q])
    /\ resolution' = Reconciled(logs[p], logs[q])
    /\ UNCHANGED logs

MerkleNext ==
    \E p, q \in Peer :
        /\ p # q
        /\ CompareLogs(p, q) \/ \E i \in State : Grow(p, i)

MerkleSpec == MerkleInit /\ [][MerkleNext]_merkle

-----------------------------------------------------------------------------
\* Every state lies on the way back from this one.
LeadsToAll(h, states) ==
    \A S \in SUBSET states :
        (\A i \in states : StateId[i] = h => i \in S)
        /\ (\A i \in S : ParentIn(i, states) \subseteq S) => S = states

(* The root of a few tips tells all: two logs that were compared have the  *)
(* same root exactly when no block is missing on either side, with forks,  *)
(* parents nobody has and branches that share their past.  And a head is   *)
(* proposed only if every state of both logs lies on its way back.         *)
RootsTellAll ==
    LET l == compared.local
        r == compared.remote
    IN  /\ diff.inSync =>
             diff.missingFromLocal = {} /\ diff.missingFromRemote = {}
        /\ diff.missingFromLocal \cup diff.missingFromRemote = {} /\ l # {} =>
             diff.inSync
        /\ resolution.head # 0 => LeadsToAll(resolution.head, l \cup r)
=============================================================================
