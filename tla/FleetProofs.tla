----------------------------- MODULE FleetProofs -----------------------------
(***************************************************************************)
(* Theorems of FleetSync, for any devices, threads, sockets, items, window *)
(* and size of a batch.  Every step of the service is one of the registry  *)
(* or leaves it alone, so its theorems carry over; the service's own ones  *)
(* follow from what holds of each worker (Own): its device is gone and     *)
(* stays so if the request came late, and the part of a batch that is      *)
(* still to be stored has its parents in the log or among itself.  The     *)
(* end carries all of it over to MCFleet, the instance that TLC runs.      *)
(***************************************************************************)
EXTENDS MCFleet, TLAPS

-----------------------------------------------------------------------------
(* The registry.  Types and the two uniqueness claims together are         *)
(* inductive: an open code has paid for nothing, so the device it pays for *)
(* is its first one.                                                       *)

RegistryInv == RegistryTypeOK /\ CodePaysForOne /\ KeysApart

LEMMA InitRegistry == RegistryInit => RegistryInv
  BY RegistryAssumption
     DEF RegistryInit, RegistryInv, RegistryTypeOK, CodePaysForOne, KeysApart,
         Paired, Status

-----------------------------------------------------------------------------
(* What each transaction leaves of the invariant. *)

LEMMA CreateKeeps ==
  ASSUME RegistryInv, NEW c \in Code, CreatePairingToken(c)
  PROVE  RegistryInv'
  BY DEF CreatePairingToken, RegistryInv, RegistryTypeOK, CodePaysForOne,
         KeysApart, Paired, Status

LEMMA LapseKeeps ==
  ASSUME RegistryInv, NEW c \in Code, Lapse(c)
  PROVE  RegistryInv'
  BY DEF Lapse, RegistryInv, RegistryTypeOK, CodePaysForOne, KeysApart, Paired,
         Status

LEMMA EnrollKeeps ==
  ASSUME RegistryInv, NEW c \in Code, NEW d \in Device, NEW k \in Key,
         Enroll(c, d, k)
  PROVE  RegistryInv'
<1>1. CASE Insertable(d, k)
  <2>1. /\ code[c] = "open"
        /\ code' = [code EXCEPT ![c] = "used"]
        /\ status' = [status EXCEPT ![d] = "active"]
        /\ keyOf' = [keyOf EXCEPT ![d] = k]
        /\ paidBy' = [paidBy EXCEPT ![d] = c]
        /\ quiet' = quiet
    BY <1>1 DEF Enroll
  <2>2. RegistryTypeOK'
    BY <2>1 DEF RegistryInv, RegistryTypeOK, Status
  <2>3. Paired' = Paired \cup {d} /\ d \notin Paired
    BY <1>1, <2>1 DEF Insertable, Paired, RegistryInv, RegistryTypeOK, Status
  <2>4. \A e \in Paired : paidBy[e] # c
    BY <2>1 DEF RegistryInv, CodePaysForOne
  <2>5. \A e \in Device : e # d => paidBy'[e] = paidBy[e] /\ keyOf'[e] = keyOf[e]
    BY <2>1 DEF RegistryInv, RegistryTypeOK
  <2>6. paidBy'[d] = c /\ keyOf'[d] = k /\ code'[c] = "used"
    BY <2>1 DEF RegistryInv, RegistryTypeOK
  <2>7. Paired \subseteq Device
    BY DEF Paired
  <2>8. ASSUME NEW b \in Code
        PROVE  code'[b] = "used" <=> \E e \in Paired' : paidBy'[e] = b
    <3>1. CASE b = c
      BY <3>1, <2>3, <2>6
    <3>2. CASE b # c
      <4>1. code'[b] = code[b]
        BY <2>1, <3>2 DEF RegistryInv, RegistryTypeOK
      <4>2. code[b] = "used" <=> \E e \in Paired : paidBy[e] = b
        BY DEF RegistryInv, CodePaysForOne
      <4> QED BY <4>1, <4>2, <3>2, <2>3, <2>5, <2>6, <2>7
    <3> QED BY <3>1, <3>2
  <2>9. \A e, f \in Paired' : paidBy'[e] = paidBy'[f] => e = f
    BY <2>3, <2>4, <2>5, <2>6, <2>7 DEF RegistryInv, CodePaysForOne
  <2>10. KeysApart'
    BY <1>1, <2>3, <2>5, <2>6, <2>7 DEF RegistryInv, KeysApart, Insertable
  <2> QED BY <2>2, <2>8, <2>9, <2>10 DEF RegistryInv, CodePaysForOne
<1>2. CASE ~Insertable(d, k)
  BY <1>2 DEF Enroll, AfterFailure, RegistryInv, RegistryTypeOK, CodePaysForOne,
              KeysApart, Paired, Status
<1> QED BY <1>1, <1>2

\* The rest changes the status of paired devices to that of paired devices.
LEMMA StatusKeeps ==
  ASSUME RegistryInv, status' \in [Device -> Status], Paired' = Paired,
         quiet' \subseteq Device, UNCHANGED <<code, keyOf, paidBy>>
  PROVE  RegistryInv'
  BY DEF RegistryInv, RegistryTypeOK, CodePaysForOne, KeysApart

LEMMA FallQuietKeeps ==
  ASSUME RegistryInv, NEW d \in Device, FallQuiet(d)
  PROVE  RegistryInv'
<1>1. status' \in [Device -> Status] /\ Paired' = Paired /\ quiet' \subseteq Device
  BY DEF FallQuiet, RegistryInv, RegistryTypeOK, Paired
<1> QED BY <1>1, StatusKeeps DEF FallQuiet

LEMMA ExpireKeeps ==
  ASSUME RegistryInv, ExpireStaleDevices
  PROVE  RegistryInv'
<1>1. status' \in [Device -> Status] /\ Paired' = Paired /\ quiet' \subseteq Device
  BY DEF ExpireStaleDevices, RegistryInv, RegistryTypeOK, Paired, Status
<1> QED BY <1>1, StatusKeeps DEF ExpireStaleDevices

LEMMA HeartbeatKeeps ==
  ASSUME RegistryInv, NEW d \in Device, WriteHeartbeat(d)
  PROVE  RegistryInv'
<1>1. status' \in [Device -> Status] /\ Paired' = Paired /\ quiet' \subseteq Device
  BY DEF WriteHeartbeat, Beaten, RegistryInv, RegistryTypeOK, Paired
<1> QED BY <1>1, StatusKeeps DEF WriteHeartbeat

LEMMA RevokeKeeps ==
  ASSUME RegistryInv, NEW d \in Device, Revoke(d)
  PROVE  RegistryInv'
<1>1. status' \in [Device -> Status] /\ Paired' = Paired /\ quiet' \subseteq Device
  BY DEF Revoke, RegistryInv, RegistryTypeOK, Paired, Status
<1> QED BY <1>1, StatusKeeps DEF Revoke

LEMMA RegistryStep == RegistryInv /\ [RegistryNext]_registry => RegistryInv'
<1> SUFFICES ASSUME RegistryInv, [RegistryNext]_registry PROVE RegistryInv'
  OBVIOUS
<1>1. CASE UNCHANGED registry
  BY <1>1 DEF registry, RegistryInv, RegistryTypeOK, CodePaysForOne, KeysApart, Paired
<1>2. CASE \E d \in Device : WriteHeartbeat(d)
  BY <1>2, HeartbeatKeeps
<1>3. CASE Administer
  BY <1>3, CreateKeeps, LapseKeeps, EnrollKeeps, RevokeKeeps, FallQuietKeeps,
     ExpireKeeps DEF Administer
<1> QED BY <1>1, <1>2, <1>3 DEF RegistryNext

\* The registry keeps its types, its codes and its keys apart.
LEMMA RegistryInvariant == RegistrySpec => []RegistryInv
  BY InitRegistry, RegistryStep, PTL DEF RegistrySpec

-----------------------------------------------------------------------------
(* Every row has its type. *)
THEOREM RegistryTypeCorrect == RegistrySpec => []RegistryTypeOK
  BY RegistryInvariant, PTL DEF RegistryInv

(* A pairing code is used exactly when it paid for a device, and never for *)
(* two, also after enrolments that failed (enroll).                        *)
THEOREM CodesPayOnce == RegistrySpec => []CodePaysForOne
  BY RegistryInvariant, PTL DEF RegistryInv

(* A public key names one device (the UNIQUE column of the devices table). *)
THEOREM KeysStayApart == RegistrySpec => []KeysApart
  BY RegistryInvariant, PTL DEF RegistryInv

LEMMA GoneStep ==
  ASSUME RegistryTypeOK, [RegistryNext]_registry, NEW d \in Device
  PROVE  /\ status[d] = "revoked" => status'[d] = "revoked"
         /\ status[d] = "expired" => status'[d] \in {"expired", "revoked"}
<1>1. CASE \E e \in Device : WriteHeartbeat(e)
  BY <1>1 DEF WriteHeartbeat, Beaten
<1>2. CASE \E c \in Code, e \in Device, k \in Key : Enroll(c, e, k)
  BY <1>2 DEF Enroll, Insertable, RegistryTypeOK
<1>3. CASE \E e \in Device : Revoke(e)
  BY <1>3 DEF Revoke, RegistryTypeOK
<1>4. CASE ExpireStaleDevices
  BY <1>4 DEF ExpireStaleDevices, RegistryTypeOK
<1>5. CASE \/ \E c \in Code : CreatePairingToken(c) \/ Lapse(c)
           \/ \E e \in Device : FallQuiet(e)
           \/ UNCHANGED registry
  BY <1>5 DEF CreatePairingToken, Lapse, FallQuiet, registry
<1> QED BY <1>1, <1>2, <1>3, <1>4, <1>5 DEF RegistryNext, Administer

(* No transaction, the update of a late heartbeat included, makes a device *)
(* that was revoked or has expired active again.                           *)
THEOREM GoneStaysGone == RegistrySpec => GoneIsFinal
<1>1. RegistryTypeOK /\ [RegistryNext]_registry =>
        [\A d \in Device :
           /\ status[d] = "revoked" => status'[d] = "revoked"
           /\ status[d] = "expired" => status'[d] \in {"expired", "revoked"}]_registry
  BY GoneStep
<1> QED BY <1>1, RegistryTypeCorrect, PTL DEF RegistrySpec, GoneIsFinal

-----------------------------------------------------------------------------
(* The service. *)

Gone == {"expired", "revoked"}
AnyRequest == UNION {Requests(s) : s \in Socket \cup {None}}

FleetTypes ==
  /\ RegistryTypeOK
  /\ log \subseteq Item /\ pushed \subseteq log
  /\ conn \in [Socket -> Device \cup {None, "closed"}]
  /\ pc \in [Worker -> {"idle", "expire", "check", "serve", "beatExpire",
                        "beatCheck", "beat", "store", "accepted"}]
  /\ req \in [Worker -> AnyRequest \cup {NoRequest}]
  /\ todo \in [Worker -> SUBSET Item]
  /\ late \in [Worker -> BOOLEAN]

\* The parent of i is no obstacle where these items are at hand.
ParentIn(i, items) == ParentOf[i] = 0 \/ ParentOf[i] \in Ids(items)

Own(t) ==
  /\ pc[t] # "idle" => req[t] \in AnyRequest
  /\ todo[t] \subseteq req[t].batch
  /\ late[t] => pc[t] \in {"expire", "check"} /\ status[req[t].device] \in Gone
  /\ pc[t] \in {"store", "accepted"} => req[t].batch \subseteq log \cup todo[t]
  /\ pc[t] # "store" => todo[t] = {}
  /\ \A i \in todo[t] : ParentIn(i, log \cup todo[t])

FleetInv ==
  /\ FleetTypes
  /\ \A t \in Worker : Own(t)
  /\ \A i \in pushed : ParentIn(i, log)

-----------------------------------------------------------------------------
(* Requests, items and the registry. *)

LEMMA RequestFields ==
  ASSUME NEW q \in AnyRequest
  PROVE  q.device \in Device /\ q.batch \subseteq Item \cup {Bad}
<1>1. PICK s \in Socket \cup {None} : q \in Requests(s)
  BY DEF AnyRequest
<1>2. q.device \in Client
  BY <1>1 DEF Requests
<1>3. q.batch = {} \/ q.batch \in Batches
  BY <1>1 DEF Requests
<1> QED BY <1>2, <1>3, FleetAssumption DEF Batches

LEMMA MoreItems ==
  ASSUME NEW items, NEW more, items \subseteq more, NEW i, ParentIn(i, items)
  PROVE  ParentIn(i, more)
  BY DEF ParentIn, Ids

\* Every step is one of the registry, or leaves it unchanged.
LEMMA StepOfRegistry ==
  ASSUME FleetTypes, [FleetNext]_fleet, \A t \in Worker : Own(t)
  PROVE  [RegistryNext]_registry
<1>1. CASE UNCHANGED fleet
  BY <1>1 DEF fleet
<1>2. CASE Administer
  BY <1>2 DEF RegistryNext
<1>3. ASSUME NEW t \in Worker, Work(t)
      PROVE  [RegistryNext]_registry
  <2>1. CASE Expire(t, "expire", "check") \/ Expire(t, "beatExpire", "beatCheck")
    BY <2>1 DEF Expire, RegistryNext, Administer
  <2>2. CASE Beat(t)
    <3>1. req[t].device \in Device
      BY <2>2, RequestFields DEF Beat, Step, Own
    <3> QED BY <2>2, <3>1 DEF Beat, RegistryNext
  <2>3. CASE \/ Authorize(t) \/ ServeHandshake(t) \/ BeatCheck(t) \/ ServeBlocks(t)
             \/ Validate(t) \/ Store(t) \/ Accept(t) \/ Reply(t)
    BY <2>3 DEF Authorize, ServeHandshake, BeatCheck, ServeBlocks, Validate, Store,
                Accept, Reply
  <2> QED BY <1>3, <2>1, <2>2, <2>3 DEF Work
<1>4. CASE \/ ReceiveAny \/ \E i \in Item : AppendLocal(i)
           \/ \E s \in Socket : Reconnect(s)
           \/ Restart
  BY <1>4 DEF ReceiveAny, Receive, AppendLocal, Reconnect, Restart
<1> QED BY <1>1, <1>2, <1>3, <1>4 DEF FleetNext, SyncNext

\* Types and finality of the registry over one step of the whole.
LEMMA RegistryTypesStep ==
  ASSUME RegistryTypeOK, [RegistryNext]_registry
  PROVE  RegistryTypeOK' /\ \A d \in Device : status[d] \in Gone => status'[d] \in Gone
<1>1. \A d \in Device : status[d] \in Gone => status'[d] \in Gone
  BY GoneStep DEF Gone
<1>2. RegistryTypeOK'
  BY DEF RegistryNext, Administer, CreatePairingToken, Lapse, Enroll, AfterFailure,
         Revoke, FallQuiet, ExpireStaleDevices, WriteHeartbeat, Beaten,
         RegistryTypeOK, Status, registry
<1> QED BY <1>1, <1>2

-----------------------------------------------------------------------------
(* What the step of one worker, or of nobody, leaves to a worker. *)

Kept(u) ==
  /\ pc'[u] = pc[u] /\ req'[u] = req[u] /\ todo'[u] = todo[u] /\ late'[u] = late[u]

LEMMA OthersKeep ==
  ASSUME NEW u \in Worker, FleetTypes, Own(u), Kept(u), log \subseteq log',
         \A d \in Device : status[d] \in Gone => status'[d] \in Gone
  PROVE  Own(u)'
<1>1. pc'[u] # "idle" => req'[u] \in AnyRequest
  BY DEF Own, Kept
<1>2. late'[u] => status'[req'[u].device] \in Gone /\ pc'[u] \in {"expire", "check"}
  <2>1. late[u] => req[u].device \in Device
    BY RequestFields DEF Own
  <2> QED BY <2>1 DEF Own, Kept
<1>3. \A i \in todo'[u] : ParentIn(i, log' \cup todo'[u])
  <2>1. log \cup todo[u] \subseteq log' \cup todo'[u]
    BY DEF Kept
  <2> QED BY <2>1, MoreItems DEF Own, Kept
<1> QED BY <1>1, <1>2, <1>3 DEF Own, Kept

\* Once the moving worker is dealt with, the rest follows.
LEMMA OneMoves ==
  ASSUME FleetInv, [RegistryNext]_registry, FleetTypes', NEW t \in Worker, Own(t)',
         \A u \in Worker \ {t} : Kept(u), log \subseteq log',
         \A i \in pushed' : ParentIn(i, log')
  PROVE  FleetInv'
<1>1. \A d \in Device : status[d] \in Gone => status'[d] \in Gone
  BY RegistryTypesStep DEF FleetInv, FleetTypes
<1>2. \A u \in Worker \ {t} : Own(u)'
  BY <1>1, OthersKeep DEF FleetInv
<1> QED BY <1>2 DEF FleetInv

LEMMA NoneMoves ==
  ASSUME FleetInv, [RegistryNext]_registry, FleetTypes',
         \A u \in Worker : Kept(u), log \subseteq log',
         \A i \in pushed' : ParentIn(i, log')
  PROVE  FleetInv'
<1>1. \A d \in Device : status[d] \in Gone => status'[d] \in Gone
  BY RegistryTypesStep DEF FleetInv, FleetTypes
<1> QED BY <1>1, OthersKeep DEF FleetInv

LEMMA FinishKeepsAll ==
  ASSUME FleetInv, [RegistryNext]_registry, NEW t \in Worker, NEW from,
         NEW closing \in BOOLEAN, Finish(t, from, closing), log' = log
  PROVE  FleetInv'
<1>1. pc'[t] = "idle" /\ req'[t] = NoRequest /\ todo'[t] = {} /\ late'[t] = FALSE
  BY DEF Finish, Step, FleetInv, FleetTypes
<1>2. \A u \in Worker \ {t} : Kept(u)
  BY DEF Finish, Step, Kept, FleetInv, FleetTypes
<1>3. FleetTypes'
  <2>1. RegistryTypeOK'
    BY RegistryTypesStep DEF FleetInv, FleetTypes
  <2>2. conn' \in [Socket -> Device \cup {None, "closed"}]
    BY DEF Finish, FleetInv, FleetTypes
  <2>3. pc' \in [Worker -> {"idle", "expire", "check", "serve", "beatExpire",
                            "beatCheck", "beat", "store", "accepted"}]
    BY DEF Finish, Step, FleetInv, FleetTypes
  <2>4. /\ req' \in [Worker -> AnyRequest \cup {NoRequest}]
        /\ todo' \in [Worker -> SUBSET Item] /\ late' \in [Worker -> BOOLEAN]
    BY DEF Finish, FleetInv, FleetTypes
  <2> QED BY <2>1, <2>2, <2>3, <2>4 DEF Finish, FleetInv, FleetTypes
<1>4. Own(t)'
  BY <1>1 DEF Own
<1>5. \A i \in pushed' : ParentIn(i, log')
  BY DEF Finish, FleetInv
<1> QED BY <1>2, <1>3, <1>4, <1>5, OneMoves

-----------------------------------------------------------------------------
(* The steps of a worker.  Advance(t, from, to) are those that change      *)
(* nothing of the service but where the worker is.                         *)

Advance(t, from, to) == Step(t, from, to) /\ UNCHANGED <<conn, req, todo, pushed, late>>

LEMMA AdvanceTypes ==
  ASSUME FleetInv, [RegistryNext]_registry, NEW t \in Worker, NEW from,
         NEW to \in {"check", "serve", "beatExpire", "beatCheck", "beat", "accepted"},
         Advance(t, from, to), log' = log
  PROVE  FleetTypes' /\ (\A u \in Worker \ {t} : Kept(u)) /\ pc'[t] = to
<1>1. RegistryTypeOK'
  BY RegistryTypesStep DEF FleetInv, FleetTypes
<1>2. pc' \in [Worker -> {"idle", "expire", "check", "serve", "beatExpire",
                          "beatCheck", "beat", "store", "accepted"}]
  BY DEF Advance, Step, FleetInv, FleetTypes
<1> QED BY <1>1, <1>2 DEF Advance, Step, Kept, FleetInv, FleetTypes

LEMMA AdvanceKeeps ==
  ASSUME FleetInv, [RegistryNext]_registry, NEW t \in Worker, NEW from,
         NEW to \in {"check", "serve", "beatExpire", "beatCheck", "beat", "accepted"},
         from # "idle", Advance(t, from, to), log' = log,
         late[t] => to = "check",
         to = "accepted" => from = "store",
         from = "store" => todo[t] = {}
  PROVE  FleetInv'
<1>1. FleetTypes' /\ (\A u \in Worker \ {t} : Kept(u)) /\ pc'[t] = to
  BY AdvanceTypes
<1>2. Own(t)'
  <2>1. Own(t) /\ pc[t] = from
    BY DEF FleetInv, Advance, Step
  <2>2. late'[t] => status'[req'[t].device] \in Gone
    <3>1. late[t] => req[t].device \in Device /\ status[req[t].device] \in Gone
      BY <2>1, RequestFields DEF Own
    <3> QED BY <3>1, RegistryTypesStep DEF FleetInv, FleetTypes, Advance
  <2> QED BY <1>1, <2>1, <2>2 DEF Own, Advance
<1>3. \A i \in pushed' : ParentIn(i, log')
  BY DEF FleetInv, Advance
<1> QED BY <1>1, <1>2, <1>3, OneMoves

LEMMA ReceiveKeeps ==
  ASSUME FleetInv, [RegistryNext]_registry, NEW t \in Worker, NEW q \in AnyRequest,
         Receive(t, q)
  PROVE  FleetInv'
<1>1. /\ pc'[t] = "expire" /\ req'[t] = q /\ todo'[t] = todo[t]
      /\ late'[t] => status[q.device] \in Gone
  BY DEF Receive, Step, Gone, FleetInv, FleetTypes
<1>2. todo[t] = {}
  <2>1. pc[t] = "idle" /\ Own(t)
    BY DEF Receive, Step, FleetInv
  <2> QED BY <2>1 DEF Own
<1>3. FleetTypes'
  <2>1. pc' \in [Worker -> {"idle", "expire", "check", "serve", "beatExpire",
                            "beatCheck", "beat", "store", "accepted"}]
    BY DEF Receive, Step, FleetInv, FleetTypes
  <2>2. /\ req' \in [Worker -> AnyRequest \cup {NoRequest}]
        /\ late' \in [Worker -> BOOLEAN]
    BY DEF Receive, FleetInv, FleetTypes
  <2>3. RegistryTypeOK'
    BY RegistryTypesStep DEF FleetInv, FleetTypes
  <2> QED BY <2>1, <2>2, <2>3 DEF Receive, FleetInv, FleetTypes
<1>4. \A u \in Worker \ {t} : Kept(u)
  BY DEF Receive, Step, Kept, FleetInv, FleetTypes
<1>5. Own(t)'
  BY <1>1, <1>2 DEF Own, Receive, registry
<1>6. \A i \in pushed' : ParentIn(i, log')
  BY DEF Receive, FleetInv
<1>7. log' = log
  BY DEF Receive
<1> QED BY <1>3, <1>4, <1>5, <1>6, <1>7, OneMoves

LEMMA ExpireSteps ==
  ASSUME FleetInv, [RegistryNext]_registry, NEW t \in Worker,
         Expire(t, "expire", "check") \/ Expire(t, "beatExpire", "beatCheck")
  PROVE  FleetInv'
<1>1. Own(t)
  BY DEF FleetInv
<1>2. CASE Expire(t, "expire", "check")
  <2>1. Advance(t, "expire", "check") /\ log' = log
    BY <1>2 DEF Expire, Advance
  <2> QED BY <2>1, AdvanceKeeps
<1>3. CASE Expire(t, "beatExpire", "beatCheck")
  <2>1. Advance(t, "beatExpire", "beatCheck") /\ log' = log
    BY <1>3 DEF Expire, Advance
  <2>2. ~late[t]
    BY <2>1, <1>1 DEF Advance, Step, Own, FleetInv, FleetTypes
  <2> QED BY <2>1, <2>2, AdvanceKeeps
<1> QED BY <1>2, <1>3

\* Who is admitted is active, so the request did not come late.
LEMMA AuthorizeKeeps ==
  ASSUME FleetInv, [RegistryNext]_registry, NEW t \in Worker, Authorize(t)
  PROVE  FleetInv'
<1>1. log' = log
  BY DEF Authorize
<1>2. CASE Admitted(t) /\ Advance(t, "check", "serve")
  <2>1. ~late[t]
    BY <1>2 DEF Admitted, Authorized, Gone, FleetInv, FleetTypes, Own
  <2> QED BY <1>1, <1>2, <2>1, AdvanceKeeps
<1>3. CASE Finish(t, "check", TRUE)
  BY <1>1, <1>3, FinishKeepsAll
<1> QED BY <1>2, <1>3 DEF Authorize, Advance

LEMMA ServeKeeps ==
  ASSUME FleetInv, [RegistryNext]_registry, NEW t \in Worker,
         ServeHandshake(t) \/ ServeBlocks(t)
  PROVE  FleetInv'
<1>1. log' = log
  BY DEF ServeHandshake, ServeBlocks
<1>2. CASE Advance(t, "serve", "beatExpire")
  <2>1. ~late[t]
    BY <1>2 DEF Advance, Step, Own, FleetInv, FleetTypes
  <2> QED BY <1>1, <1>2, <2>1, AdvanceKeeps
<1>3. CASE Finish(t, "serve", FALSE)
  BY <1>1, <1>3, FinishKeepsAll
<1> QED BY <1>2, <1>3 DEF ServeHandshake, ServeBlocks, Advance

LEMMA BeatCheckKeeps ==
  ASSUME FleetInv, [RegistryNext]_registry, NEW t \in Worker, BeatCheck(t)
  PROVE  FleetInv'
<1>1. log' = log
  BY DEF BeatCheck
<1>2. CASE Advance(t, "beatCheck", "beat")
  <2>1. ~late[t]
    BY <1>2 DEF Advance, Step, Own, FleetInv, FleetTypes
  <2> QED BY <1>1, <1>2, <2>1, AdvanceKeeps
<1>3. CASE Finish(t, "beatCheck", TRUE)
  BY <1>1, <1>3, FinishKeepsAll
<1> QED BY <1>2, <1>3 DEF BeatCheck, Advance

LEMMA BeatKeeps ==
  ASSUME FleetInv, [RegistryNext]_registry, NEW t \in Worker, Beat(t)
  PROVE  FleetInv'
<1>1. pc[t] = "beat" /\ Own(t)
  BY DEF Beat, Step, FleetInv
<1>2. req[t].device \in Device /\ todo[t] = {}
  BY <1>1, RequestFields DEF Own
<1>3. pc'[t] = "idle" /\ todo'[t] = {} /\ late'[t] = FALSE /\ log' = log
  BY <1>2 DEF Beat, Step, FleetInv, FleetTypes
<1>4. FleetTypes'
  <2>1. RegistryTypeOK'
    BY RegistryTypesStep DEF FleetInv, FleetTypes
  <2>2. conn' \in [Socket -> Device \cup {None, "closed"}]
    BY <1>2 DEF Beat, FleetInv, FleetTypes
  <2>3. pc' \in [Worker -> {"idle", "expire", "check", "serve", "beatExpire",
                            "beatCheck", "beat", "store", "accepted"}]
    BY DEF Beat, Step, FleetInv, FleetTypes
  <2>4. req' \in [Worker -> AnyRequest \cup {NoRequest}] /\ late' \in [Worker -> BOOLEAN]
    BY DEF Beat, FleetInv, FleetTypes
  <2> QED BY <2>1, <2>2, <2>3, <2>4 DEF Beat, FleetInv, FleetTypes
<1>5. \A u \in Worker \ {t} : Kept(u)
  BY DEF Beat, Step, Kept, FleetInv, FleetTypes
<1>6. Own(t)'
  BY <1>3 DEF Own
<1>7. \A i \in pushed' : ParentIn(i, log')
  BY DEF Beat, FleetInv
<1> QED BY <1>3, <1>4, <1>5, <1>6, <1>7, OneMoves

-----------------------------------------------------------------------------
(* A push: what is accepted has its parents at hand, and every state that  *)
(* is stored finds its own in the log.                                     *)

LEMMA AcceptableBatch ==
  ASSUME NEW batch, batch \subseteq Item \cup {Bad}, NEW listed,
         Acceptable(batch, listed)
  PROVE  /\ batch \subseteq Item
         /\ \A i \in Fresh(batch, listed) : ParentIn(i, listed \cup Fresh(batch, listed))
<1>1. batch \subseteq Item
  BY DEF Acceptable, Readable
<1>2. ASSUME NEW i \in Fresh(batch, listed)
      PROVE  ParentIn(i, listed \cup Fresh(batch, listed))
  <2> DEFINE fresh == Fresh(batch, listed)
  <2>1. \A rest \in (SUBSET fresh) \ {{}} :
          Blocked(rest, Ids(listed) \cup Ids(fresh \ rest)) # rest
    BY Zenon DEF Acceptable, Orderable
  <2>2. {i} \in (SUBSET fresh) \ {{}}
    BY <1>2
  <2>3. Blocked({i}, Ids(listed) \cup Ids(fresh \ {i})) # {i}
    BY <2>1, <2>2, Zenon
  <2>4. ParentOf[i] = 0 \/ ParentOf[i] \in Ids(listed) \cup Ids(fresh \ {i})
    BY <2>3 DEF Blocked
  <2>5. Ids(listed) \cup Ids(fresh \ {i}) \subseteq Ids(listed \cup fresh)
    BY DEF Ids
  <2> QED BY <2>4, <2>5 DEF ParentIn
<1> QED BY <1>1, <1>2

LEMMA ValidateKeeps ==
  ASSUME FleetInv, [RegistryNext]_registry, NEW t \in Worker, Validate(t)
  PROVE  FleetInv'
<1> DEFINE fresh == Fresh(req[t].batch, Newest(log))
<1>1. log' = log /\ pc[t] = "serve"
  BY DEF Validate
<1>2. CASE Finish(t, "serve", FALSE)
  BY <1>1, <1>2, FinishKeepsAll
<1>3. CASE /\ Acceptable(req[t].batch, Newest(log))
           /\ Step(t, "serve", "store")
           /\ todo' = [todo EXCEPT ![t] = fresh]
           /\ UNCHANGED <<conn, req, pushed, late>>
  <2>1. req[t] \in AnyRequest /\ ~late[t]
    BY <1>1 DEF FleetInv, FleetTypes, Own
  <2>2. req[t].batch \subseteq Item /\ \A i \in fresh : ParentIn(i, Newest(log) \cup fresh)
    BY <1>3, <2>1, RequestFields, AcceptableBatch
  <2>3. Newest(log) \cup fresh \subseteq log \cup fresh
    BY DEF Newest
  <2>4. \A i \in fresh : ParentIn(i, log \cup fresh)
    BY <2>2, <2>3, MoreItems
  <2>5. fresh \subseteq req[t].batch /\ req[t].batch \subseteq log \cup fresh
    BY DEF Fresh, Newest
  <2>6. pc'[t] = "store" /\ todo'[t] = fresh /\ ~late'[t] /\ req'[t] = req[t]
    BY <1>3, <2>1 DEF Step, FleetInv, FleetTypes
  <2>7. FleetTypes'
    <3>1. RegistryTypeOK'
      BY RegistryTypesStep DEF FleetInv, FleetTypes
    <3>2. pc' \in [Worker -> {"idle", "expire", "check", "serve", "beatExpire",
                              "beatCheck", "beat", "store", "accepted"}]
      BY <1>3 DEF Step, FleetInv, FleetTypes
    <3>3. todo' \in [Worker -> SUBSET Item]
      BY <1>3, <2>2, <2>5 DEF FleetInv, FleetTypes
    <3> QED BY <1>1, <1>3, <3>1, <3>2, <3>3 DEF FleetInv, FleetTypes
  <2>8. Own(t)'
    BY <1>1, <2>1, <2>4, <2>5, <2>6 DEF Own
  <2>9. \A u \in Worker \ {t} : Kept(u)
    BY <1>3 DEF Step, Kept, FleetInv, FleetTypes
  <2>10. \A i \in pushed' : ParentIn(i, log')
    BY <1>1, <1>3 DEF FleetInv
  <2> QED BY <1>1, <2>7, <2>8, <2>9, <2>10, OneMoves
<1> QED BY <1>2, <1>3 DEF Validate

LEMMA StoreKeeps ==
  ASSUME FleetInv, [RegistryNext]_registry, NEW t \in Worker, Store(t)
  PROVE  FleetInv'
<1>1. PICK i \in NextUp(t) :
        /\ pc[t] = "store"
        /\ \/ /\ log' = log \cup {i} /\ pushed' = pushed \cup {i}
              /\ todo' = [todo EXCEPT ![t] = @ \ {i}]
              /\ UNCHANGED <<conn, pc, req, late>>
           \/ Finish(t, "store", TRUE) /\ log' = log
  BY DEF Store
<1>2. CASE Finish(t, "store", TRUE) /\ log' = log
  BY <1>2, FinishKeepsAll
<1>3. CASE /\ log' = log \cup {i} /\ pushed' = pushed \cup {i}
           /\ todo' = [todo EXCEPT ![t] = @ \ {i}]
           /\ UNCHANGED <<conn, pc, req, late>>
  <2>1. /\ i \in todo[t] /\ ParentOf[i] \notin Ids(todo[t]) /\ Own(t)
        /\ todo[t] \subseteq Item
    BY <1>1 DEF NextUp, FleetInv, FleetTypes
  <2>2. ParentIn(i, log)
    BY <2>1 DEF Own, ParentIn, Ids
  <2>3. todo'[t] = todo[t] \ {i}
    BY <1>3 DEF FleetInv, FleetTypes
  <2>4. log \cup todo[t] = log' \cup todo'[t]
    BY <1>3, <2>1, <2>3
  <2>5. Own(t)'
    <3>1. \A j \in todo'[t] : ParentIn(j, log' \cup todo'[t])
      BY <2>1, <2>3, <2>4, MoreItems DEF Own
    <3> QED BY <1>1, <1>3, <2>1, <2>3, <2>4, <3>1 DEF Own, FleetInv, FleetTypes
  <2>6. FleetTypes'
    <3>1. RegistryTypeOK'
      BY RegistryTypesStep DEF FleetInv, FleetTypes
    <3>2. todo' \in [Worker -> SUBSET Item]
      BY <1>3 DEF FleetInv, FleetTypes
    <3> QED BY <1>3, <2>1, <3>1, <3>2 DEF FleetInv, FleetTypes
  <2>7. \A u \in Worker \ {t} : Kept(u)
    BY <1>3 DEF Kept, FleetInv, FleetTypes
  <2>8. \A j \in pushed' : ParentIn(j, log')
    BY <1>3, <2>2, MoreItems DEF FleetInv
  <2> QED BY <1>3, <2>5, <2>6, <2>7, <2>8, OneMoves
<1> QED BY <1>1, <1>2, <1>3

LEMMA AnswerKeeps ==
  ASSUME FleetInv, [RegistryNext]_registry, NEW t \in Worker, Accept(t) \/ Reply(t)
  PROVE  FleetInv'
<1>1. log' = log
  BY DEF Accept, Reply
<1>2. CASE Accept(t)
  <2>1. Advance(t, "store", "accepted") /\ todo[t] = {}
    BY <1>2 DEF Accept, Advance
  <2>2. ~late[t]
    BY <2>1 DEF Advance, Step, Own, FleetInv, FleetTypes
  <2> QED BY <1>1, <2>1, <2>2, AdvanceKeeps
<1>3. CASE Reply(t)
  BY <1>1, <1>3, FinishKeepsAll DEF Reply
<1> QED BY <1>2, <1>3

-----------------------------------------------------------------------------
(* The steps of others: the log's other writers, the clients' connections, *)
(* the administrator and a restart.                                        *)

LEMMA OutsideKeeps ==
  ASSUME FleetInv, [RegistryNext]_registry,
         \/ UNCHANGED <<log, service>>
         \/ \E i \in Item : AppendLocal(i)
         \/ \E s \in Socket : Reconnect(s)
  PROVE  FleetInv'
<1>1. UNCHANGED <<pc, req, todo, pushed, late>>
  BY DEF service, AppendLocal, Reconnect
<1>2. log \subseteq log' /\ log' \subseteq Item
  BY DEF AppendLocal, Reconnect, FleetInv, FleetTypes
<1>3. conn' \in [Socket -> Device \cup {None, "closed"}]
  BY DEF service, AppendLocal, Reconnect, FleetInv, FleetTypes
<1>4. RegistryTypeOK'
  BY RegistryTypesStep DEF FleetInv, FleetTypes
<1>5. FleetTypes'
  BY <1>1, <1>2, <1>3, <1>4 DEF FleetInv, FleetTypes
<1>6. \A u \in Worker : Kept(u)
  BY <1>1 DEF Kept
<1>7. \A i \in pushed' : ParentIn(i, log')
  BY <1>1, <1>2, MoreItems DEF FleetInv
<1> QED BY <1>2, <1>5, <1>6, <1>7, NoneMoves

LEMMA RestartKeeps == ASSUME FleetInv, Restart PROVE FleetInv'
<1>1. \A t \in Worker : /\ pc'[t] = "idle" /\ req'[t] = NoRequest
                        /\ todo'[t] = {} /\ late'[t] = FALSE
  BY DEF Restart
<1>2. \A t \in Worker : Own(t)'
  BY <1>1 DEF Own
<1>3. RegistryTypeOK'
  BY DEF Restart, FleetInv, FleetTypes, RegistryTypeOK, registry
<1>4. FleetTypes'
  BY <1>3 DEF Restart, FleetInv, FleetTypes
<1>5. \A i \in pushed' : ParentIn(i, log')
  BY DEF Restart, FleetInv
<1> QED BY <1>2, <1>4, <1>5 DEF FleetInv

LEMMA FleetStep == FleetInv /\ [FleetNext]_fleet => FleetInv'
<1> SUFFICES ASSUME FleetInv, [FleetNext]_fleet PROVE FleetInv'
  OBVIOUS
<1>1. [RegistryNext]_registry
  BY StepOfRegistry DEF FleetInv
<1>2. CASE ReceiveAny
  <2>1. PICK t \in Worker, q \in AnyRequest : Receive(t, q)
    BY <1>2 DEF ReceiveAny, Worker, AnyRequest
  <2> QED BY <1>1, <2>1, ReceiveKeeps
<1>3. CASE \E t \in Worker : Work(t)
  BY <1>1, <1>3, ExpireSteps, AuthorizeKeeps, ServeKeeps, BeatCheckKeeps, BeatKeeps,
     ValidateKeeps, StoreKeeps, AnswerKeeps DEF Work
<1>4. CASE \/ Administer /\ UNCHANGED <<log, service>>
           \/ \E i \in Item : AppendLocal(i)
           \/ \E s \in Socket : Reconnect(s)
           \/ UNCHANGED fleet
  BY <1>1, <1>4, OutsideKeeps DEF fleet, service
<1>5. CASE Restart
  BY <1>5, RestartKeeps
<1> QED BY <1>2, <1>3, <1>4, <1>5 DEF FleetNext, SyncNext

LEMMA InitFleet == FleetInit => FleetInv
<1> SUFFICES ASSUME FleetInit PROVE FleetInv
  OBVIOUS
<1>1. RegistryTypeOK
  BY InitRegistry DEF FleetInit, RegistryInv
<1>2. FleetTypes
  BY <1>1 DEF FleetInit, FleetTypes
<1>3. \A t \in Worker : Own(t)
  BY DEF FleetInit, Own
<1> QED BY <1>2, <1>3 DEF FleetInit, FleetInv

LEMMA FleetInvariant == FleetSpec => []FleetInv
  BY InitFleet, FleetStep, PTL DEF FleetSpec

-----------------------------------------------------------------------------
(* Every request, connection, log and row has its type. *)
THEOREM FleetTypeCorrect == FleetSpec => []FleetTypeOK
<1>1. FleetInv => FleetTypeOK
  <2> SUFFICES ASSUME FleetInv PROVE FleetTypeOK
    OBVIOUS
  <2>1. pushed \subseteq log
    BY DEF FleetInv, FleetTypes
  <2>2. \A t \in Worker : todo[t] \subseteq req[t].batch
    BY DEF FleetInv, Own
  <2> QED BY <2>1, <2>2 DEF FleetInv, FleetTypes, FleetTypeOK
<1> QED BY <1>1, FleetInvariant, PTL

(* A device that was revoked or had expired when its request came in gets  *)
(* no further than the authorisation (handle_message and _authorize).      *)
THEOREM LateStaysOutside == FleetSpec => []LateStoresNothing
<1>1. FleetInv => LateStoresNothing
  BY DEF FleetInv, Own, LateStoresNothing
<1> QED BY <1>1, FleetInvariant, PTL

(* The log holds the parent of every state a push left there, wherever the *)
(* push ended (push_blocks and _append_states).                            *)
THEOREM ParentsAlwaysStored == FleetSpec => []ParentsStored
<1>1. FleetInv => ParentsStored
  BY DEF FleetInv, ParentIn, ParentsStored
<1> QED BY <1>1, FleetInvariant, PTL

(* A push that is answered as accepted has all of its batch in the log.    *)
THEOREM AnswersAreTrue == FleetSpec => []AnswerTrue
<1>1. FleetInv => AnswerTrue
  BY DEF FleetInv, Own, AnswerTrue
<1> QED BY <1>1, FleetInvariant, PTL

(* What requests, pushes and restarts do to the registry is what its own   *)
(* specification allows: FleetSync implements DeviceRegistry.              *)
THEOREM FleetUsesRegistry == FleetSpec => RegistrySpec
<1>1. FleetInit => RegistryInit
  BY DEF FleetInit
<1>2. FleetInv /\ [FleetNext]_fleet => [RegistryNext]_registry
  BY StepOfRegistry DEF FleetInv
<1> QED BY <1>1, <1>2, FleetInvariant, PTL DEF FleetSpec, RegistrySpec

(* So a pairing code pays for one device in the whole service ...          *)
THEOREM FleetCodesPayOnce == FleetSpec => []CodePaysForOne
  BY FleetUsesRegistry, CodesPayOnce, PTL

(* ... and no heartbeat on its way makes a device active again.            *)
THEOREM FleetGoneStaysGone == FleetSpec => GoneIsFinal
  BY FleetUsesRegistry, GoneStaysGone

-----------------------------------------------------------------------------
(* MCFleet begins the synchronisation with a device that is paired, which  *)
(* the registry would have to reach first; whatever holds of the service   *)
(* from its own beginning holds from there.                                *)

MCInv == FleetInv /\ RegistryInv /\ (part = "registry" => \A t \in Worker : pc[t] = "idle")

LEMMA InitMC ==
  ASSUME c1 \in Code, d1 \in Device, k1 \in Key, MCInit
  PROVE  MCInv
<1>1. RegistryInv
  <2>1. CASE RegistryInit
    BY <2>1, InitRegistry
  <2>2. CASE PairedAlready
    <3>1. RegistryTypeOK /\ Paired = {d1}
      BY <2>2 DEF PairedAlready, RegistryTypeOK, Status, Paired
    <3>2. CodePaysForOne /\ KeysApart
      BY <2>2, <3>1, RegistryAssumption DEF PairedAlready, CodePaysForOne, KeysApart
    <3> QED BY <3>1, <3>2 DEF RegistryInv
  <2> QED BY <2>1, <2>2 DEF MCInit
<1>2. FleetTypes
  BY <1>1 DEF MCInit, RegistryInv, FleetTypes
<1>3. \A t \in Worker : Own(t) /\ pc[t] = "idle"
  BY DEF MCInit, Own
<1>4. pushed = {}
  BY DEF MCInit
<1> QED BY <1>1, <1>2, <1>3, <1>4 DEF FleetInv, MCInv

LEMMA StepMC ==
  ASSUME MCInv, [MCNext]_<<fleet, part>>
  PROVE  MCInv' /\ [RegistryNext]_registry
<1> USE DEF MCInv
<1>1. CASE part = "registry" /\ RegistryNext /\ UNCHANGED <<log, service, part>>
  <2>1. FleetInv' /\ UNCHANGED pc
    BY <1>1, OutsideKeeps DEF service
  <2> QED BY <1>1, <2>1, RegistryStep
<1>2. CASE \/ part = "sync" /\ SyncNext /\ UNCHANGED part
           \/ /\ part = "sync"
              /\ \E d \in Client : Revoke(d) \/ FallQuiet(d)
              /\ UNCHANGED <<log, service, part>>
           \/ UNCHANGED <<fleet, part>>
  <2>1. [FleetNext]_fleet
    BY <1>2, FleetAssumption DEF FleetNext, Administer
  <2>2. [RegistryNext]_registry /\ FleetInv'
    BY <2>1, StepOfRegistry, FleetStep DEF FleetInv
  <2>3. part' = part /\ (part = "registry" => UNCHANGED pc)
    BY <1>2 DEF fleet, service
  <2> QED BY <2>2, <2>3, RegistryStep
<1> QED BY <1>1, <1>2 DEF MCNext

(* The instance that TLC enumerates, with any constants, keeps all that    *)
(* its run checks: it starts where the service may be, and takes no step   *)
(* that the registry would not.                                            *)
THEOREM InstanceKeeps ==
  ASSUME c1 \in Code, d1 \in Device, k1 \in Key
  PROVE  MCSpec => /\ [](/\ CodePaysForOne /\ LateStoresNothing
                         /\ ParentsStored /\ AnswerTrue)
                   /\ GoneIsFinal
<1>1. MCInit => MCInv
  BY InitMC
<1>2. MCInv /\ [MCNext]_<<fleet, part>> => MCInv' /\ [RegistryNext]_registry
  BY StepMC
<1>3. MCInv => CodePaysForOne /\ LateStoresNothing /\ ParentsStored /\ AnswerTrue
  BY DEF MCInv, RegistryInv, FleetInv, Own, ParentIn, LateStoresNothing, ParentsStored,
         AnswerTrue
<1>4. MCInv /\ [RegistryNext]_registry =>
        [\A d \in Device :
           /\ status[d] = "revoked" => status'[d] = "revoked"
           /\ status[d] = "expired" => status'[d] \in {"expired", "revoked"}]_registry
  BY GoneStep DEF MCInv, RegistryInv
<1> QED BY <1>1, <1>2, <1>3, <1>4, PTL DEF MCSpec, GoneIsFinal
=============================================================================
