------------------------------- MODULE MCFleet -------------------------------
(***************************************************************************)
(* The registry and the synchronisation on small instances.  Their product *)
(* is too large to enumerate, so each initial state chooses one of two     *)
(* parts: the registry with all its transactions in any order, or requests *)
(* of a device that is paired already and may be revoked or fall quiet.    *)
(***************************************************************************)
EXTENDS FleetSync

CONSTANTS c1, d1, k1

VARIABLE part

\* 1 is a root, 2 its child, 3 another state under the id of 2.
MCId == <<1, 2, 2>>
MCParent == <<0, 1, 0>>

PairedAlready ==
    /\ code = [c \in Code |-> IF c = c1 THEN "used" ELSE "unmade"]
    /\ status = [d \in Device |-> IF d = d1 THEN "active" ELSE "unpaired"]
    /\ keyOf = [d \in Device |-> IF d = d1 THEN k1 ELSE None]
    /\ quiet = {}
    /\ paidBy = [d \in Device |-> IF d = d1 THEN c1 ELSE None]

MCInit ==
    /\ log = {} /\ pushed = {}
    /\ conn = [s \in Socket |-> None]
    /\ pc = [t \in Worker |-> "idle"]
    /\ req = [t \in Worker |-> NoRequest]
    /\ todo = [t \in Worker |-> {}]
    /\ late = [t \in Worker |-> FALSE]
    /\ \/ part = "registry" /\ RegistryInit
       \/ part = "sync" /\ PairedAlready

MCNext ==
    \/ part = "registry" /\ RegistryNext /\ UNCHANGED <<log, service, part>>
    \/ part = "sync" /\ SyncNext /\ UNCHANGED part
    \/ /\ part = "sync"
       /\ \E d \in Client : Revoke(d) \/ FallQuiet(d)
       /\ UNCHANGED <<log, service, part>>

MCSpec == MCInit /\ [][MCNext]_<<fleet, part>>
=============================================================================
