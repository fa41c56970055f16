--------------------------- MODULE StateLogProofs ---------------------------
(***************************************************************************)
(* Theorems of the modules about what enters the state log: AuditTrail,    *)
(* for any threads, events and number of appends, and PolicyGate, for any  *)
(* executors, proposals and rules; of CelEvaluator, for any expressions    *)
(* and contexts; and of MerkleSync, which compares two logs, for any       *)
(* states.  The modules have no state in common; this one continues        *)
(* IdentityProofs so that ToolingProofs can bring them all together.       *)
(***************************************************************************)
EXTENDS IdentityProofs, AuditTrail, PolicyGate, CelEvaluator, MerkleSync

-----------------------------------------------------------------------------
(* AuditTrail: one trail is one lock, so what a thread read under it is    *)
(* still the whole log when it appends, and an event numbered after all    *)
(* the others changes nothing of what precedes them.                       *)

AuditTypes ==
  /\ trails \in Nat /\ appended \in Nat
  /\ using \in [Appender -> Nat]
  /\ at \in [Appender -> {"idle", "make", "take", "lock", "read"}]
  /\ seen \in [Appender -> SUBSET events]

Single == trails <= 1 /\ events \cap Synced = {}

Numbered ==
  /\ IsFiniteSet(events)
  /\ \A e \in events : e.sequence \in Nat /\ e.sequence <= Cardinality(events)

\* A thread has one of the trails made so far ...
Holder(t) ==
  /\ at[t] = "take" => trails >= 1
  /\ at[t] \in {"lock", "read"} => using[t] \in 1..trails

\* ... and its lock is held by one thread at a time.
OneReader ==
  \A t, u \in Appender :
    at[t] = "read" /\ at[u] = "read" /\ using[t] = using[u] => t = u

AuditInv ==
  /\ AuditTypes
  /\ \A t \in Appender : Holder(t)
  /\ OneReader
  /\ Single => /\ Numbered /\ Verified(events)
               /\ \A t \in Appender : at[t] = "read" => seen[t] = events

-----------------------------------------------------------------------------
\* An event numbered after a log that verifies extends it.
LEMMA Extends ==
  ASSUME NEW log, IsFiniteSet(log), Verified(log),
         \A e \in log : e.sequence \in Nat /\ e.sequence <= Cardinality(log),
         NEW n \in Nat, NEW new,
         new = [id |-> n, sequence |-> Cardinality(log) + 1, previous |-> HeadId(log)]
  PROVE  /\ IsFiniteSet(log \cup {new}) /\ Verified(log \cup {new})
         /\ \A e \in log \cup {new} :
              e.sequence \in Nat /\ e.sequence <= Cardinality(log \cup {new})
<1>1. Cardinality(log) \in Nat
  BY FS_CardinalityType
<1>2. new.sequence = Cardinality(log) + 1 /\ new.id = n /\ new.previous = HeadId(log)
  OBVIOUS
<1>3. new \notin log
  BY <1>1, <1>2
<1>4. IsFiniteSet(log \cup {new}) /\ Cardinality(log \cup {new}) = Cardinality(log) + 1
  BY <1>3, FS_AddElement
<1>5. \A e \in log : Before(e, new) /\ ~Before(new, e)
  BY <1>1, <1>2 DEF Before
<1>6. ~Before(new, new)
  BY <1>1, <1>2 DEF Before
<1>7. Preceding(new, log \cup {new}) = log
  BY <1>3, <1>5, <1>6 DEF Preceding
<1>8. \A e \in log : Preceding(e, log \cup {new}) = Preceding(e, log)
  BY <1>5 DEF Preceding
<1>9. Verified(log \cup {new})
  BY <1>2, <1>7, <1>8 DEF Verified
<1>10. new.sequence \in Nat /\ new.sequence <= Cardinality(log \cup {new})
  BY <1>1, <1>2, <1>4
<1>11. \A e \in log : e.sequence <= Cardinality(log \cup {new})
  BY <1>1, <1>4
<1> QED BY <1>4, <1>9, <1>10, <1>11

\* Neither the trails nor the events change: only the thread t moves.
LEMMA AppenderKeeps ==
  ASSUME AuditInv, NEW t \in Appender, NEW to, AuditTypes',
         at' = [at EXCEPT ![t] = to], to # "read",
         \A u \in Appender \ {t} : using'[u] = using[u],
         Holder(t)', trails \in Nat, trails' >= trails,
         UNCHANGED <<seen, events>>
  PROVE  AuditInv'
<1>1. \A u \in Appender \ {t} : at'[u] = at[u]
  BY DEF AuditInv, AuditTypes
<1>2. at'[t] = to
  BY DEF AuditInv, AuditTypes
<1>3. \A u \in Appender : Holder(u)'
  BY <1>1 DEF AuditInv, AuditTypes, Holder
<1>4. OneReader'
  BY <1>1, <1>2 DEF AuditInv, OneReader
<1>5. Single' => Single
  BY DEF Single, AuditInv, AuditTypes
<1> QED BY <1>1, <1>2, <1>3, <1>4, <1>5 DEF AuditInv, Numbered

LEMMA TrailKeeps ==
  ASSUME AuditInv, NEW t \in Appender, Look(t) \/ Make(t) \/ Take(t)
  PROVE  AuditInv'
<1>1. CASE Look(t)
  <2> DEFINE to == IF trails = 0 THEN "make" ELSE "take"
  <2>1. at' = [at EXCEPT ![t] = to] /\ to # "read" /\ UNCHANGED <<trails, using, seen, events>>
    BY <1>1 DEF Look, Go
  <2>2. AuditTypes'
    BY <1>1 DEF Look, Go, AuditInv, AuditTypes
  <2>3. Holder(t)'
    BY <2>1 DEF Holder, AuditInv, AuditTypes
  <2>4. trails \in Nat /\ trails' >= trails
    BY <2>1 DEF AuditInv, AuditTypes
  <2> HIDE DEF to
  <2> QED BY <2>1, <2>2, <2>3, <2>4, AppenderKeeps
<1>2. CASE Make(t)
  <2>1. AuditTypes'
    BY <1>2 DEF Make, Go, AuditInv, AuditTypes
  <2>2. Holder(t)'
    BY <1>2 DEF Make, Go, Holder, AuditInv, AuditTypes
  <2>3. /\ at' = [at EXCEPT ![t] = "take"] /\ UNCHANGED <<using, seen, events>>
        /\ trails \in Nat /\ trails' >= trails
    BY <1>2 DEF Make, Go, AuditInv, AuditTypes
  <2> QED BY <2>1, <2>2, <2>3, AppenderKeeps
<1>3. CASE Take(t)
  <2>1. AuditTypes'
    BY <1>3 DEF Take, Go, AuditInv, AuditTypes
  <2>2. Holder(t)'
    BY <1>3 DEF Take, Go, Holder, AuditInv, AuditTypes
  <2>3. \A u \in Appender \ {t} : using'[u] = using[u]
    BY <1>3 DEF Take, AuditInv, AuditTypes
  <2>4. /\ at' = [at EXCEPT ![t] = "lock"] /\ UNCHANGED <<trails, seen, events>>
        /\ trails \in Nat /\ trails' >= trails
    BY <1>3 DEF Take, Go, AuditInv, AuditTypes
  <2> QED BY <2>1, <2>2, <2>3, <2>4, AppenderKeeps
<1> QED BY <1>1, <1>2, <1>3

LEMMA LogReadKeeps ==
  ASSUME AuditInv, NEW t \in Appender, ReadEvents(t)
  PROVE  AuditInv'
<1>1. /\ at[t] = "lock" /\ at'[t] = "read" /\ seen'[t] = events
      /\ \A u \in Appender \ {t} : at'[u] = at[u] /\ seen'[u] = seen[u]
      /\ UNCHANGED <<trails, using, events, appended>>
  BY DEF ReadEvents, Go, AuditInv, AuditTypes
<1>2. AuditTypes'
  BY DEF ReadEvents, Go, AuditInv, AuditTypes
<1>3. \A u \in Appender : Holder(u)'
  BY <1>1 DEF Holder, AuditInv
<1>4. OneReader'
  <2>1. \A u \in Appender \ {t} : ~(at[u] = "read" /\ using[u] = using[t])
    BY DEF ReadEvents, LockFree
  <2> QED BY <1>1, <2>1 DEF OneReader, AuditInv
<1>5. Single' = Single
  BY <1>1 DEF Single
<1> QED BY <1>1, <1>2, <1>3, <1>4, <1>5 DEF AuditInv, Numbered

\* With one trail the appending thread is the only reader.
LEMMA EventAppendKeeps ==
  ASSUME AuditInv, NEW t \in Appender, AppendEvent(t)
  PROVE  AuditInv'
<1>1. /\ at[t] = "read" /\ at'[t] = "idle" /\ trails' = trails
      /\ \A u \in Appender \ {t} : /\ at'[u] = at[u] /\ seen'[u] = seen[u]
                                   /\ using'[u] = using[u]
  BY DEF AppendEvent, Go, AuditInv, AuditTypes
<1>2. \/ events' = events \cup {NewEvent(t)}
      \/ events' = events
  BY DEF AppendEvent
<1>3. AuditTypes'
  <2>1. appended' \in Nat /\ trails' \in Nat
    BY DEF AppendEvent, AuditInv, AuditTypes
  <2>2. seen' \in [Appender -> SUBSET events']
    BY <1>2 DEF AppendEvent, AuditInv, AuditTypes
  <2> QED BY <2>1, <2>2 DEF AppendEvent, Go, AuditInv, AuditTypes
<1>4. \A u \in Appender : Holder(u)'
  BY <1>1 DEF Holder, AuditInv
<1>5. OneReader'
  BY <1>1 DEF OneReader, AuditInv
<1>6. ASSUME Single'
      PROVE  /\ Numbered' /\ Verified(events')
             /\ \A u \in Appender : at'[u] = "read" => seen'[u] = events'
  <2>1. Single
    BY <1>1, <1>2, <1>6 DEF Single
  <2>2. Numbered /\ Verified(events) /\ seen[t] = events
    BY <1>1, <2>1 DEF AuditInv
  <2>3. \A u \in Appender : at'[u] # "read"
    <3> SUFFICES ASSUME NEW u \in Appender, u # t, at[u] = "read" PROVE FALSE
      BY <1>1
    <3>1. using[u] \in 1..trails /\ using[t] \in 1..trails /\ trails \in Nat /\ trails <= 1
      BY <1>1, <2>1 DEF AuditInv, Holder, Single, AuditTypes
    <3>2. using[u] = using[t]
      BY <3>1
    <3> QED BY <1>1, <3>2 DEF AuditInv, OneReader
  <2>4. CASE events' = events
    BY <2>2, <2>3, <2>4 DEF Numbered
  <2>5. CASE events' = events \cup {NewEvent(t)}
    <3>1. NewEvent(t) = [id |-> appended + 1, sequence |-> Cardinality(events) + 1,
                         previous |-> HeadId(events)]
      BY <2>2 DEF NewEvent
    <3>2. appended + 1 \in Nat
      BY DEF AuditInv, AuditTypes
    <3> QED BY <2>2, <2>3, <2>5, <3>1, <3>2, Extends DEF Numbered
  <2> QED BY <1>2, <2>4, <2>5
<1> QED BY <1>3, <1>4, <1>5, <1>6 DEF AuditInv

\* After a foreign event there is nothing left to show.
LEMMA SyncKeeps ==
  ASSUME AuditInv, NEW e \in Synced, SyncEvent(e)
  PROVE  AuditInv'
<1>1. AuditTypes'
  BY DEF SyncEvent, AuditInv, AuditTypes
<1>2. ~Single'
  BY DEF SyncEvent, Single
<1> QED BY <1>1, <1>2 DEF SyncEvent, AuditInv, Holder, OneReader

LEMMA AuditStep == AuditInv /\ [AuditNext]_audit => AuditInv'
<1> SUFFICES ASSUME AuditInv, [AuditNext]_audit PROVE AuditInv'
  OBVIOUS
<1>1. CASE UNCHANGED audit
  BY <1>1 DEF audit, AuditInv, AuditTypes, Holder, OneReader, Single, Numbered
<1>2. CASE AuditNext
  BY <1>2, TrailKeeps, LogReadKeeps, EventAppendKeeps, SyncKeeps DEF AuditNext
<1> QED BY <1>1, <1>2

LEMMA InitAudit == AuditInit => AuditInv
<1> SUFFICES ASSUME AuditInit PROVE AuditInv
  OBVIOUS
<1>1. Numbered /\ Verified(events)
  BY FS_EmptySet DEF AuditInit, Numbered, Verified
<1> QED BY <1>1 DEF AuditInit, AuditInv, AuditTypes, Holder, OneReader

(* As long as one trail was made and no event came in from elsewhere, the  *)
(* log of audit events verifies, however many threads append and whichever *)
(* appends fail (StateAuditTrail.append under its lock, and verify).       *)
THEOREM OneTrailAlwaysVerifies == AuditSpec => []OneTrailVerifies
<1>1. AuditInv => OneTrailVerifies
  BY DEF AuditInv, Single, OneTrailVerifies
<1>2. AuditSpec => []AuditInv
  BY InitAudit, AuditStep, PTL DEF AuditSpec
<1> QED BY <1>1, <1>2, PTL

\* A thread that found no trail makes one, and none of them looks twice
\* before there is one: so a trail is made by a thread of its own.
Makers == {t \in Appender : at[t] = "make"}

TrailsCounted ==
  /\ AuditInv
  /\ trails + Cardinality(Makers) <= Cardinality(Appender)
  /\ \A t \in Appender : using[t] <= trails /\ seen[t] \subseteq events
  /\ appended <= MaxEvents

LEMMA MakersFinite ==
  ASSUME NEW S \in SUBSET Appender
  PROVE  /\ IsFiniteSet(S) /\ Cardinality(S) \in Nat
         /\ Cardinality(S) <= Cardinality(Appender) /\ Cardinality(Appender) \in Nat
BY AuditAssumption, FS_Subset, FS_CardinalityType

LEMMA MakersStep ==
  ASSUME TrailsCounted, [AuditNext]_audit, AuditInv'
  PROVE  trails' + Cardinality(Makers') <= Cardinality(Appender)
<1> USE DEF TrailsCounted
<1>1. /\ Makers \in SUBSET Appender /\ Makers' \in SUBSET Appender
      /\ at \in [Appender -> {"idle", "make", "take", "lock", "read"}] /\ trails \in Nat
  BY DEF Makers, AuditInv, AuditTypes
<1>2. IsFiniteSet(Makers) /\ Cardinality(Makers) \in Nat
  BY <1>1, MakersFinite
<1>3. ASSUME NEW t \in Appender, Look(t)
      PROVE  trails' + Cardinality(Makers') <= Cardinality(Appender)
  <2>1. CASE trails = 0
    <3>1. trails' = 0
      BY <1>3, <2>1 DEF Look
    <3>2. Cardinality(Makers') <= Cardinality(Appender) /\ Cardinality(Makers') \in Nat
      BY <1>1, MakersFinite
    <3> QED BY <3>1, <3>2
  <2>2. CASE trails # 0
    <3>1. at' = [at EXCEPT ![t] = "take"] /\ at[t] = "idle" /\ trails' = trails
      BY <1>3, <2>2 DEF Look, Go
    <3>2. Makers' = Makers
      BY <1>1, <3>1 DEF Makers
    <3> QED BY <3>1, <3>2
  <2> QED BY <2>1, <2>2
<1>4. ASSUME NEW t \in Appender, Make(t)
      PROVE  trails' + Cardinality(Makers') <= Cardinality(Appender)
  <2>1. at' = [at EXCEPT ![t] = "take"] /\ at[t] = "make" /\ trails' = trails + 1
    BY <1>4 DEF Make, Go
  <2>2. Makers' = Makers \ {t} /\ t \in Makers
    BY <1>1, <2>1 DEF Makers
  <2>3. Cardinality(Makers') = Cardinality(Makers) - 1
    BY <1>2, <2>2, FS_RemoveElement
  <2>4. Cardinality(Appender) \in Nat
    BY <1>1, MakersFinite
  <2> QED BY <1>1, <1>2, <2>1, <2>3, <2>4
<1>5. ASSUME NEW t \in Appender, Take(t) \/ ReadEvents(t) \/ AppendEvent(t)
      PROVE  trails' + Cardinality(Makers') <= Cardinality(Appender)
  <2>1. \E to \in {"lock", "read", "idle"} : at' = [at EXCEPT ![t] = to]
    BY <1>5 DEF Take, ReadEvents, AppendEvent, Go
  <2>2. at[t] # "make" /\ trails' = trails
    BY <1>5 DEF Take, ReadEvents, AppendEvent, Go
  <2>3. Makers' = Makers
    BY <1>1, <2>1, <2>2 DEF Makers
  <2> QED BY <2>2, <2>3
<1>6. ASSUME UNCHANGED <<at, trails>>
      PROVE  trails' + Cardinality(Makers') <= Cardinality(Appender)
  BY <1>6 DEF Makers
<1>7. CASE UNCHANGED audit
  BY <1>6, <1>7 DEF audit
<1>8. CASE \E e \in Synced : SyncEvent(e)
  BY <1>6, <1>8 DEF SyncEvent
<1> QED BY <1>3, <1>4, <1>5, <1>7, <1>8 DEF AuditNext

LEMMA CountsStep ==
  ASSUME TrailsCounted, [AuditNext]_audit, AuditInv'
  PROVE  /\ \A t \in Appender : using'[t] <= trails' /\ seen'[t] \subseteq events'
         /\ appended' <= MaxEvents
<1> USE DEF TrailsCounted
<1>1. /\ trails \in Nat /\ appended \in Nat /\ MaxEvents \in Nat
      /\ using \in [Appender -> Nat] /\ seen \in [Appender -> SUBSET events]
  BY AuditAssumption DEF AuditInv, AuditTypes
<1>2. ASSUME NEW t \in Appender, Look(t) \/ Make(t) \/ Take(t)
      PROVE  /\ \A u \in Appender : using'[u] <= trails' /\ seen'[u] \subseteq events'
             /\ appended' <= MaxEvents
  BY <1>1, <1>2 DEF Look, Make, Take
<1>3. ASSUME NEW t \in Appender, ReadEvents(t)
      PROVE  /\ \A u \in Appender : using'[u] <= trails' /\ seen'[u] \subseteq events'
             /\ appended' <= MaxEvents
  BY <1>1, <1>3 DEF ReadEvents
<1>4. ASSUME NEW t \in Appender, AppendEvent(t)
      PROVE  /\ \A u \in Appender : using'[u] <= trails' /\ seen'[u] \subseteq events'
             /\ appended' <= MaxEvents
  <2>1. events \subseteq events' /\ appended' <= MaxEvents
    BY <1>1, <1>4 DEF AppendEvent
  <2> QED BY <1>1, <1>4, <2>1 DEF AppendEvent
<1>5. ASSUME NEW e \in Synced, SyncEvent(e)
      PROVE  /\ \A u \in Appender : using'[u] <= trails' /\ seen'[u] \subseteq events'
             /\ appended' <= MaxEvents
  BY <1>1, <1>5 DEF SyncEvent
<1>6. CASE UNCHANGED audit
  BY <1>6 DEF audit
<1> QED BY <1>2, <1>3, <1>4, <1>5, <1>6 DEF AuditNext

(* The state of the audit trail has its type: there are never more trails  *)
(* than threads, since a thread makes one only when it finds none, and     *)
(* what a thread has read stays in the log.                                *)
THEOREM AuditTypeCorrect == AuditSpec => []AuditTypeOK
<1>1. AuditInit => TrailsCounted
  <2> SUFFICES ASSUME AuditInit PROVE TrailsCounted
    OBVIOUS
  <2>1. Makers = {}
    BY DEF AuditInit, Makers
  <2>2. trails = 0 /\ Cardinality(Makers) = 0 /\ Cardinality(Appender) \in Nat
    BY <2>1, FS_EmptySet, MakersFinite DEF AuditInit
  <2> QED BY <2>2, InitAudit, AuditAssumption DEF AuditInit, TrailsCounted
<1>2. TrailsCounted /\ [AuditNext]_audit => TrailsCounted'
  <2> SUFFICES ASSUME TrailsCounted, [AuditNext]_audit PROVE TrailsCounted'
    OBVIOUS
  <2>1. AuditInv'
    BY AuditStep DEF TrailsCounted
  <2> QED BY <2>1, MakersStep, CountsStep DEF TrailsCounted
<1>3. TrailsCounted => AuditTypeOK
  <2> SUFFICES ASSUME TrailsCounted PROVE AuditTypeOK
    OBVIOUS
  <2>1. Cardinality(Makers) \in Nat /\ Cardinality(Appender) \in Nat
    BY MakersFinite DEF Makers
  <2>2. trails \in 0..Cardinality(Appender)
    BY <2>1 DEF TrailsCounted, AuditInv, AuditTypes
  <2> QED BY <2>2, AuditAssumption DEF TrailsCounted, AuditInv, AuditTypes, AuditTypeOK
<1> QED BY <1>1, <1>2, <1>3, PTL DEF AuditSpec

-----------------------------------------------------------------------------
(* PolicyGate: what a request read stays what it was, because a version is *)
(* never written again, and the newest version of a rule is the rule that  *)
(* was last administered; so the request is judged by the rules of the     *)
(* moment it read them, whatever happens to them until its append.         *)

VersionRef == [rule : Rule, version : 1..MaxVersions]

PolicyTypes ==
  /\ rules \in [Rule -> Seq(Version)]
  /\ \A r \in Rule : Len(rules[r]) \in 1..MaxVersions
  /\ doing \in [Executor -> {"idle", "read", "gate", "apply", "append",
                             "publish", "learn"}]
  /\ proposal \in [Executor -> Proposal]
  /\ read \in [Executor -> SUBSET VersionRef]
  /\ told \subseteq known /\ known \subseteq stored
  /\ inForce \in [Rule -> SUBSET Proposal]
  /\ demand \in [Executor -> [Rule -> SUBSET Proposal]]

\* What a version demands of a proposal.
Demands(v) == IF v.enabled THEN v.allows ELSE Proposal

NewestInForce == \A r \in Rule : inForce[r] = Demands(rules[r][Len(rules[r])])

Allowed(t) == {p \in Proposal : \A c \in read[t] : Evaluates(c, p)}

Judged(t) ==
  /\ \A c \in read[t] : c.version <= Len(rules[c.rule])
  /\ doing[t] \in {"gate", "apply", "append"} =>
       Allowed(t) = {p \in Proposal : \A r \in Rule : p \in demand[t][r]}
  /\ doing[t] = "append" => proposal[t] \in Allowed(t)
  /\ doing[t] \in {"publish", "learn"} => proposal[t] \in stored

PolicyInv == PolicyTypes /\ NewestInForce /\ \A t \in Executor : Judged(t)

-----------------------------------------------------------------------------
LEMMA InitPolicy == PolicyInit => PolicyInv
<1> SUFFICES ASSUME PolicyInit PROVE PolicyInv
  OBVIOUS
<1>1. Seeded \in Version /\ Seeded.enabled /\ Seeded.allows = Proposal
  BY DEF Seeded, Version
<1>2. \A r \in Rule : rules[r] = <<Seeded>> /\ Len(rules[r]) = 1 /\ rules[r][1] = Seeded
  BY DEF PolicyInit
<1>3. PolicyTypes
  <2>1. rules \in [Rule -> Seq(Version)]
    BY <1>1 DEF PolicyInit
  <2>2. \A r \in Rule : Len(rules[r]) \in 1..MaxVersions
    <3>1. 1 \in 1..MaxVersions
      BY PolicyAssumption
    <3> QED BY <1>2, <3>1
  <2>3. inForce \in [Rule -> SUBSET Proposal]
    BY DEF PolicyInit
  <2> QED BY <2>1, <2>2, <2>3 DEF PolicyInit, PolicyTypes
<1>4. NewestInForce
  BY <1>1, <1>2 DEF PolicyInit, NewestInForce, Demands
<1>5. \A t \in Executor : Judged(t)
  BY DEF PolicyInit, Judged
<1> QED BY <1>3, <1>4, <1>5 DEF PolicyInv

-----------------------------------------------------------------------------
(* A new version leaves the older ones as they are. *)

LEMMA AppendKeeps ==
  ASSUME NEW versions \in Seq(Version), NEW v \in Version
  PROVE  /\ Append(versions, v) \in Seq(Version)
         /\ Len(Append(versions, v)) = Len(versions) + 1
         /\ Append(versions, v)[Len(versions) + 1] = v
         /\ \A n \in 1..Len(versions) : Append(versions, v)[n] = versions[n]
  OBVIOUS

LEMMA AddRuleKeeps ==
  ASSUME PolicyInv, NEW r \in Rule, NEW v \in Version, AddRule(r, v)
  PROVE  PolicyInv'
<1>1. rules[r] \in Seq(Version) /\ Len(rules[r]) < MaxVersions /\ Len(rules[r]) \in Nat
  BY DEF AddRule, PolicyInv, PolicyTypes
<1>2. /\ rules'[r] = Append(rules[r], v)
      /\ \A s \in Rule \ {r} : rules'[s] = rules[s]
  BY DEF AddRule, PolicyInv, PolicyTypes
<1>3. /\ rules'[r] \in Seq(Version) /\ Len(rules'[r]) = Len(rules[r]) + 1
      /\ rules'[r][Len(rules'[r])] = v
      /\ \A n \in 1..Len(rules[r]) : rules'[r][n] = rules[r][n]
  BY <1>1, <1>2, AppendKeeps
<1>4. \A s \in Rule : /\ Len(rules[s]) <= Len(rules'[s])
                      /\ \A n \in 1..Len(rules[s]) : rules'[s][n] = rules[s][n]
  <2> SUFFICES ASSUME NEW s \in Rule
               PROVE  /\ Len(rules[s]) <= Len(rules'[s])
                      /\ \A n \in 1..Len(rules[s]) : rules'[s][n] = rules[s][n]
    OBVIOUS
  <2>1. CASE s = r
    BY <1>1, <1>3, <2>1
  <2>2. CASE s # r
    <3>1. rules'[s] = rules[s] /\ Len(rules[s]) \in Nat
      BY <1>2, <2>2 DEF PolicyInv, PolicyTypes
    <3> QED BY <3>1
  <2> QED BY <2>1, <2>2
<1>5. v.allows \in SUBSET Proposal /\ v.enabled \in BOOLEAN
  BY DEF Version
<1>6. PolicyTypes'
  <2>1. rules' \in [Rule -> Seq(Version)]
    BY <1>2, <1>3 DEF AddRule, PolicyInv, PolicyTypes
  <2>2. \A s \in Rule : Len(rules'[s]) \in 1..MaxVersions
    <3>1. Len(rules'[r]) \in 1..MaxVersions
      BY <1>1, <1>3, PolicyAssumption
    <3> QED BY <1>2, <3>1 DEF PolicyInv, PolicyTypes
  <2>3. inForce' \in [Rule -> SUBSET Proposal]
    BY <1>5 DEF AddRule, PolicyInv, PolicyTypes
  <2> QED BY <2>1, <2>2, <2>3 DEF AddRule, PolicyInv, PolicyTypes
<1>7. NewestInForce'
  BY <1>2, <1>3 DEF AddRule, PolicyInv, PolicyTypes, NewestInForce, Demands
<1>8. ASSUME NEW t \in Executor PROVE Judged(t)'
  <2>1. read[t] \subseteq VersionRef /\ read'[t] = read[t]
    BY DEF AddRule, PolicyInv, PolicyTypes
  <2>2. \A c \in read[t] : /\ c.version <= Len(rules'[c.rule])
                           /\ rules'[c.rule][c.version] = rules[c.rule][c.version]
    <3> SUFFICES ASSUME NEW c \in read[t]
                 PROVE  /\ c.version <= Len(rules'[c.rule])
                        /\ rules'[c.rule][c.version] = rules[c.rule][c.version]
      OBVIOUS
    <3>1. c.rule \in Rule /\ c.version \in 1..MaxVersions
      BY <2>1 DEF VersionRef
    <3>2. c.version <= Len(rules[c.rule])
      BY DEF PolicyInv, Judged
    <3>3. Len(rules[c.rule]) \in Nat /\ Len(rules'[c.rule]) \in Nat
      BY <3>1, <1>6 DEF PolicyInv, PolicyTypes
    <3> QED BY <1>4, <3>1, <3>2, <3>3, PolicyAssumption
  <2>3. \A c \in read[t], p \in Proposal : Evaluates(c, p)' = Evaluates(c, p)
    BY <2>2 DEF Evaluates
  <2>4. Allowed(t)' = Allowed(t)
    BY <2>1, <2>3 DEF Allowed
  <2> QED BY <2>1, <2>2, <2>4 DEF Judged, AddRule, PolicyInv
<1> QED BY <1>6, <1>7, <1>8 DEF PolicyInv

-----------------------------------------------------------------------------
(* The steps of a request leave the rules alone. *)

LEMMA OthersKeep ==
  ASSUME PolicyInv, PolicyTypes', UNCHANGED <<rules, inForce>>, NEW t \in Executor,
         Judged(t)', stored \subseteq stored',
         \A u \in Executor \ {t} : /\ doing'[u] = doing[u] /\ read'[u] = read[u]
                                   /\ proposal'[u] = proposal[u]
                                   /\ demand'[u] = demand[u]
  PROVE  PolicyInv'
<1>1. NewestInForce'
  BY DEF PolicyInv, NewestInForce
<1>2. ASSUME NEW u \in Executor, u # t PROVE Judged(u)'
  <2>1. Allowed(u)' = Allowed(u)
    BY <1>2 DEF Allowed, Evaluates
  <2> QED BY <1>2, <2>1 DEF Judged, PolicyInv
<1> QED BY <1>1, <1>2 DEF PolicyInv

\* A request that ended, whatever it left in the log.
LEMMA EndKeeps ==
  ASSUME PolicyInv, NEW t \in Executor, NEW from, Now(t, from, "idle"),
         read' = [read EXCEPT ![t] = {}], stored \subseteq stored',
         told' \subseteq known', known' \subseteq stored',
         UNCHANGED <<rules, proposal, inForce, demand>>
  PROVE  PolicyInv'
<1>1. PolicyTypes'
  BY DEF PolicyInv, PolicyTypes, Now
<1>2. Judged(t)'
  <2>1. doing'[t] = "idle" /\ read'[t] = {}
    BY DEF PolicyInv, PolicyTypes, Now
  <2> QED BY <2>1 DEF Judged
<1>3. \A u \in Executor \ {t} : doing'[u] = doing[u] /\ read'[u] = read[u]
  BY DEF PolicyInv, PolicyTypes, Now
<1> QED BY <1>1, <1>2, <1>3, OthersKeep

LEMMA AbandonKeeps ==
  ASSUME PolicyInv, NEW t \in Executor, NEW from, Abandon(t, from)
  PROVE  PolicyInv'
<1>1. told' \subseteq known' /\ known' \subseteq stored' /\ stored' = stored
  BY DEF Abandon, PolicyInv, PolicyTypes
<1> QED BY <1>1, EndKeeps DEF Abandon

LEMMA ParseKeeps ==
  ASSUME PolicyInv, NEW t \in Executor, NEW p \in Proposal, Parse(t, p)
  PROVE  PolicyInv'
<1>1. PolicyTypes'
  BY DEF Parse, Now, PolicyInv, PolicyTypes
<1>2. doing'[t] = "read" /\ read'[t] = read[t]
  BY DEF Parse, Now, PolicyInv, PolicyTypes
<1>3. Judged(t)'
  BY <1>2 DEF Judged, Parse, PolicyInv
<1>4. \A u \in Executor \ {t} : doing'[u] = doing[u] /\ proposal'[u] = proposal[u]
  BY DEF Parse, Now, PolicyInv, PolicyTypes
<1> QED BY <1>1, <1>3, <1>4, OthersKeep DEF Parse

\* The newest versions say what is in force.
LEMMA ReadKeeps ==
  ASSUME PolicyInv, NEW t \in Executor, GetConstraints(t)
  PROVE  PolicyInv'
<1>1. CASE Abandon(t, "read")
  BY <1>1, AbandonKeeps
<1>2. CASE /\ Now(t, "read", "gate")
           /\ read' = [read EXCEPT ![t] = UNION {Latest(r) : r \in Rule}]
           /\ demand' = [demand EXCEPT ![t] = inForce]
           /\ UNCHANGED <<rules, proposal, stored, told, known, inForce>>
  <2> DEFINE latest == UNION {Latest(r) : r \in Rule}
  <2>1. \A r \in Rule : Len(rules[r]) \in 1..MaxVersions
    BY DEF PolicyInv, PolicyTypes
  <2>2. \A r \in Rule :
          Latest(r) = IF rules[r][Len(rules[r])].enabled
                      THEN {[rule |-> r, version |-> Len(rules[r])]} ELSE {}
    BY DEF Latest
  <2>3. latest \subseteq VersionRef
    BY <2>1, <2>2 DEF VersionRef
  <2>4. \A c \in latest : c.version <= Len(rules[c.rule])
    BY <2>1, <2>2
  <2>5. ASSUME NEW p \in Proposal
        PROVE  (\A c \in latest : Evaluates(c, p)) <=> \A r \in Rule : p \in inForce[r]
    <3>1. ASSUME NEW r \in Rule
          PROVE  (\A c \in Latest(r) : Evaluates(c, p)) <=> p \in inForce[r]
      <4>1. inForce[r] = Demands(rules[r][Len(rules[r])])
        BY DEF PolicyInv, NewestInForce
      <4>2. CASE rules[r][Len(rules[r])].enabled
        <5> DEFINE c == [rule |-> r, version |-> Len(rules[r])]
        <5>1. Latest(r) = {c}
          BY <4>2 DEF Latest
        <5>2. c.rule = r /\ c.version = Len(rules[r])
          OBVIOUS
        <5> HIDE DEF c
        <5> QED BY <4>1, <4>2, <5>1, <5>2 DEF Demands, Evaluates
      <4>3. CASE ~rules[r][Len(rules[r])].enabled
        BY <4>1, <4>3 DEF Latest, Demands
      <4> QED BY <4>2, <4>3
    <3>2. (\A c \in latest : Evaluates(c, p))
            <=> \A r \in Rule : \A c \in Latest(r) : Evaluates(c, p)
      OBVIOUS
    <3> QED BY <3>1, <3>2
  <2>6. /\ doing'[t] = "gate" /\ read'[t] = latest /\ demand'[t] = inForce
        /\ \A u \in Executor \ {t} : /\ doing'[u] = doing[u] /\ read'[u] = read[u]
                                     /\ demand'[u] = demand[u]
    BY <1>2 DEF Now, PolicyInv, PolicyTypes
  <2>7. PolicyTypes'
    <3>1. read' \in [Executor -> SUBSET VersionRef]
      BY <1>2, <2>3 DEF PolicyInv, PolicyTypes
    <3>2. demand' \in [Executor -> [Rule -> SUBSET Proposal]]
      BY <1>2 DEF PolicyInv, PolicyTypes
    <3> QED BY <1>2, <3>1, <3>2 DEF Now, PolicyInv, PolicyTypes
  <2> HIDE DEF latest
  <2>8. Allowed(t)' = {p \in Proposal : \A r \in Rule : p \in inForce[r]}
    BY <1>2, <2>5, <2>6 DEF Allowed, Evaluates
  <2>9. Judged(t)'
    BY <1>2, <2>4, <2>6, <2>8 DEF Judged
  <2> QED BY <1>2, <2>6, <2>7, <2>9, OthersKeep
<1> QED BY <1>1, <1>2 DEF GetConstraints

\* Gate, Apply and Publish either end the request or only move on.
LEMMA MoveKeeps ==
  ASSUME PolicyInv, NEW t \in Executor, NEW from,
         NEW to \in {"apply", "append", "learn"}, Now(t, from, to),
         to = "apply" => from = "gate",
         to = "append" => from = "apply" /\ proposal[t] \in Allowed(t),
         to = "learn" => from = "publish",
         UNCHANGED <<rules, proposal, read, stored, told, known, inForce, demand>>
  PROVE  PolicyInv'
<1>1. PolicyTypes'
  BY DEF Now, PolicyInv, PolicyTypes
<1>2. doing[t] = from /\ doing'[t] = to
  BY DEF Now, PolicyInv, PolicyTypes
<1>3. Allowed(t)' = Allowed(t)
  BY DEF Allowed, Evaluates
<1>4. Judged(t)'
  BY <1>2, <1>3 DEF Judged, PolicyInv
<1>5. \A u \in Executor \ {t} : doing'[u] = doing[u]
  BY DEF Now, PolicyInv, PolicyTypes
<1> QED BY <1>1, <1>4, <1>5, OthersKeep

LEMMA RequestKeeps ==
  ASSUME PolicyInv, NEW t \in Executor, Gate(t) \/ Apply(t) \/ Publish(t)
  PROVE  PolicyInv'
<1>1. (\A c \in read[t] : Evaluates(c, proposal[t])) => proposal[t] \in Allowed(t)
  BY DEF Allowed, PolicyInv, PolicyTypes
<1>2. CASE Gate(t)
  BY <1>2, AbandonKeeps, MoveKeeps DEF Gate
<1>3. CASE Apply(t)
  BY <1>1, <1>3, AbandonKeeps, MoveKeeps DEF Apply
<1>4. CASE Publish(t)
  BY <1>4, AbandonKeeps, MoveKeeps DEF Publish
<1> QED BY <1>2, <1>3, <1>4

LEMMA AppendStateKeeps ==
  ASSUME PolicyInv, NEW t \in Executor, AppendState(t)
  PROVE  PolicyInv'
<1>1. CASE Abandon(t, "append")
  BY <1>1, AbandonKeeps
<1>2. CASE /\ stored' = stored \cup {proposal[t]}
           /\ Now(t, "append", "publish") /\ UNCHANGED read
           /\ UNCHANGED <<rules, proposal, told, known, inForce, demand>>
  <2>1. PolicyTypes'
    BY <1>2 DEF Now, PolicyInv, PolicyTypes
  <2>2. doing'[t] = "publish" /\ \A u \in Executor \ {t} : doing'[u] = doing[u]
    BY <1>2 DEF Now, PolicyInv, PolicyTypes
  <2>3. Judged(t)'
    BY <1>2, <2>2 DEF Judged, PolicyInv
  <2> QED BY <1>2, <2>1, <2>2, <2>3, OthersKeep
<1>3. CASE /\ stored' = stored \cup {proposal[t]}
           /\ Now(t, "append", "idle") /\ read' = [read EXCEPT ![t] = {}]
           /\ UNCHANGED <<rules, proposal, told, known, inForce, demand>>
  <2>1. told' \subseteq known' /\ known' \subseteq stored' /\ stored \subseteq stored'
    BY <1>3 DEF PolicyInv, PolicyTypes
  <2> QED BY <1>3, <2>1, EndKeeps
<1> QED BY <1>1, <1>2, <1>3 DEF AppendState

LEMMA LearnKeeps ==
  ASSUME PolicyInv, NEW t \in Executor, Learn(t)
  PROVE  PolicyInv'
<1>1. proposal[t] \in stored
  BY DEF Learn, Now, PolicyInv, Judged
<1>2. told' \subseteq known' /\ known' \subseteq stored' /\ stored \subseteq stored'
  BY <1>1 DEF Learn, PolicyInv, PolicyTypes
<1> QED BY <1>2, EndKeeps DEF Learn

LEMMA PolicyStep == PolicyInv /\ [PolicyNext]_policy => PolicyInv'
<1> SUFFICES ASSUME PolicyInv, [PolicyNext]_policy PROVE PolicyInv'
  OBVIOUS
<1>1. CASE UNCHANGED policy
  <2>1. \A t \in Executor : Allowed(t)' = Allowed(t)
    BY <1>1 DEF policy, Allowed, Evaluates
  <2> QED BY <1>1, <2>1 DEF policy, PolicyInv, PolicyTypes, NewestInForce, Judged
<1>2. CASE PolicyNext
  BY <1>2, AddRuleKeeps, ParseKeeps, ReadKeeps, RequestKeeps, AppendStateKeeps,
     LearnKeeps DEF PolicyNext
<1> QED BY <1>1, <1>2

LEMMA PolicyInvariant == PolicySpec => []PolicyInv
  BY InitPolicy, PolicyStep, PTL DEF PolicySpec

-----------------------------------------------------------------------------
(* Versions, requests and the log have their types, and what was answered  *)
(* as executed is in the knowledge repository and in the log.              *)
THEOREM PolicyTypeCorrect == PolicySpec => []PolicyTypeOK
<1>1. PolicyInv => PolicyTypeOK
  <2> SUFFICES ASSUME PolicyInv PROVE PolicyTypeOK
    OBVIOUS
  <2>1. \A r \in Rule : /\ Len(rules[r]) \in 1..MaxVersions
                        /\ \A n \in DOMAIN rules[r] : rules[r][n] \in Version
    BY DEF PolicyInv, PolicyTypes
  <2> QED BY <2>1 DEF PolicyInv, PolicyTypes, PolicyTypeOK, VersionRef
<1> QED BY <1>1, PolicyInvariant, PTL

(* A proposal reaches the append only if every rule allowed it as the rule *)
(* stood when the request read it, for any number of versions that         *)
(* administrators add meanwhile (get_constraints, apply_proposal).         *)
THEOREM AppendsAreUnderRules == PolicySpec => []AppendsUnderRules
<1>1. PolicyInv => AppendsUnderRules
  <2> SUFFICES ASSUME PolicyInv PROVE AppendsUnderRules
    OBVIOUS
  <2>1. \A t \in Executor : Judged(t)
    BY DEF PolicyInv
  <2> QED BY <2>1 DEF Judged, Allowed, AppendsUnderRules
<1> QED BY <1>1, PolicyInvariant, PTL

-----------------------------------------------------------------------------
(* CelEvaluator: by the height of a tree, whatever has a value for the     *)
(* evaluator has it for the meaning.                                       *)

\* What a recursion over the trees yields, on a part that it is closed on.
EvaluatesOn(names, yields, part) == yields = [e \in part |-> Method(names, yields, e)]
MeansOn(evaluates, means, part) == means = [e \in part |-> Sense(evaluates, means, e)]

Whole(part) == \A e \in part : Operands(e) \subseteq part

\* Some tree outside a part has all of its operands in it.
LEMMA NextTree ==
  ASSUME NEW part \in SUBSET Expr, part # Expr
  PROVE  \E e \in Expr \ part : Operands(e) \subseteq part
<1> DEFINE H == {Height[e] : e \in Expr \ part}
<1>1. H \in SUBSET Nat /\ H # {}
  BY CelAssumption
<1>2. PICK m \in H : \A k \in H : m <= k
  <2> HIDE DEF H
  <2> QED BY <1>1, LeastOf
<1>3. PICK e \in Expr \ part : m = Height[e]
  BY <1>2
<1>4. ASSUME NEW x \in Operands(e) PROVE x \in part
  <2>1. x \in Expr /\ Height[x] \in Nat /\ Height[e] \in Nat /\ Height[x] < Height[e]
    BY CelAssumption
  <2>2. x \notin part => Height[x] \in H
    BY <2>1
  <2>3. ~(m <= Height[x])
    BY <1>3, <2>1
  <2> QED BY <1>2, <2>2, <2>3
<1> QED BY <1>4

\* A method asks only what the operands yield.
LEMMA OperandsOnly ==
  ASSUME NEW f, NEW g, NEW e, \A x \in Operands(e) : f[x] = g[x]
  PROVE  /\ \A names : Method(names, f, e) = Method(names, g, e)
         /\ \A evaluates : Sense(evaluates, f, e) = Sense(evaluates, g, e)
<1>1. CASE e.op \in {"value", "path"}
  BY <1>1 DEF Method, Sense
<1>2. CASE e.op \in {"has", "not"}
  <2>1. f[e.of] = g[e.of]
    BY <1>2 DEF Operands
  <2> QED BY <1>2, <2>1 DEF Method, Sense
<1>3. CASE e.op = "if"
  <2>1. f[e.test] = g[e.test] /\ f[e.l] = g[e.l] /\ f[e.r] = g[e.r]
    BY <1>3 DEF Operands
  <2> QED BY <1>3, <2>1 DEF Method, Sense
<1>4. CASE e.op = "chain"
  <2>1. f[e.m] = g[e.m] /\ f[e.l] = g[e.l] /\ f[e.r] = g[e.r]
    BY <1>4 DEF Operands
  <2> QED BY <1>4, <2>1 DEF Method, Sense
<1>5. CASE e.op \notin {"value", "path", "has", "not", "if", "chain"}
  <2>1. f[e.l] = g[e.l] /\ f[e.r] = g[e.r]
    BY <1>5 DEF Operands
  <2> QED BY <1>5, <2>1 DEF Method, Sense
<1> QED BY <1>1, <1>2, <1>3, <1>4, <1>5

\* A part that lacks nothing but what a recursion has not reached is all.
LEMMA LargestPart ==
  ASSUME NEW Good, Good \subseteq SUBSET Expr, {} \in Good,
         \A part \in Good : part # Expr => \E e \in Expr \ part : part \cup {e} \in Good
  PROVE  Expr \in Good
<1> DEFINE D == {Expr \ part : part \in Good}
           R == StrictSubsetOrdering(Expr)
<1>1. D \subseteq FiniteSubsetsOf(Expr) /\ D # {}
  <2>1. \A part \in SUBSET Expr : Expr \ part \in SUBSET Expr /\ IsFiniteSet(Expr \ part)
    BY CelAssumption, FS_Subset
  <2>2. \A part \in Good : part \in SUBSET Expr
    OBVIOUS
  <2>3. ASSUME NEW W \in D PROVE W \in FiniteSubsetsOf(Expr)
    <3>1. PICK part \in Good : W = Expr \ part
      OBVIOUS
    <3>2. W \in SUBSET Expr /\ IsFiniteSet(W)
      BY <2>1, <2>2, <3>1
    <3> QED BY <3>2 DEF FiniteSubsetsOf
  <2>4. Expr \ {} \in D
    OBVIOUS
  <2> HIDE DEF D
  <2> QED BY <2>3, <2>4
<1>2. PICK V \in D : \A W \in D : <<W, V>> \notin R
  <2>1. IsWellFoundedOn(R, FiniteSubsetsOf(Expr))
    BY FS_StrictSubsetOrderingWellFounded
  <2> HIDE DEF R, D
  <2> QED BY <1>1, <2>1, WFMin
<1>3. PICK part \in Good : V = Expr \ part
  OBVIOUS
<1>4. ASSUME part # Expr PROVE FALSE
  <2>1. PICK e \in Expr \ part : part \cup {e} \in Good
    BY <1>4
  <2>2. Expr \ (part \cup {e}) \in D
    BY <2>1
  <2>3. /\ Expr \ (part \cup {e}) \subseteq V /\ Expr \ (part \cup {e}) # V
        /\ V \in SUBSET Expr
    BY <1>3, <2>1
  <2> QED BY <1>2, <2>2, <2>3 DEF StrictSubsetOrdering
<1> QED BY <1>4

LEMMA EvaluatorIs ==
  ASSUME NEW names, NEW e \in Expr
  PROVE  Evaluator(names)[e] = Method(names, Evaluator(names), e)
<1> DEFINE Good == {part \in SUBSET Expr : Whole(part) /\ \E y : EvaluatesOn(names, y, part)}
<1>1. {} \in Good
  <2>1. EvaluatesOn(names, [i \in {} |-> i], {})
    BY DEF EvaluatesOn
  <2> QED BY <2>1 DEF Whole
<1>2. ASSUME NEW part \in Good, part # Expr
      PROVE  \E x \in Expr \ part : part \cup {x} \in Good
  <2>1. PICK y : EvaluatesOn(names, y, part)
    OBVIOUS
  <2>2. PICK x \in Expr \ part : Operands(x) \subseteq part
    BY <1>2, NextTree
  <2> DEFINE more == part \cup {x}
             z == [k \in more |-> IF k = x THEN Method(names, y, x) ELSE y[k]]
  <2>3. Whole(more)
    BY <2>2 DEF Whole
  <2>4. \A k \in more : \A o \in Operands(k) : z[o] = y[o]
    BY <2>2 DEF Whole
  <2>5. \A k \in more : z[k] = Method(names, y, k)
    <3>1. \A k \in part : y[k] = Method(names, y, k)
      <4>1. y = [k \in part |-> Method(names, y, k)]
        BY <2>1 DEF EvaluatesOn
      <4> QED BY <4>1
    <3> QED BY <3>1
  <2>6. \A k \in more : z[k] = Method(names, z, k)
    <3> HIDE DEF z, more
    <3> QED BY <2>4, <2>5, OperandsOnly
  <2>7. EvaluatesOn(names, z, more)
    <3>1. z = [k \in more |-> z[k]]
      OBVIOUS
    <3> HIDE DEF z, more
    <3> QED BY <2>6, <3>1 DEF EvaluatesOn
  <2> QED BY <2>2, <2>3, <2>7
<1>3. Expr \in Good
  <2>1. Good \subseteq SUBSET Expr
    OBVIOUS
  <2> HIDE DEF Good
  <2> QED BY <1>1, <1>2, <2>1, LargestPart
<1>4. \E y : y = [k \in Expr |-> Method(names, y, k)]
  BY <1>3 DEF EvaluatesOn
<1> DEFINE v == Evaluator(names)
<1>5. v = CHOOSE y : y = [k \in Expr |-> Method(names, y, k)]
  BY DEF Evaluator
<1> HIDE DEF v
<1>6. v = [k \in Expr |-> Method(names, v, k)]
  BY <1>4, <1>5
<1>7. v[e] = Method(names, v, e)
  BY <1>6
<1> QED BY <1>7 DEF v

LEMMA SensesIs ==
  ASSUME NEW evaluates, NEW e \in Expr
  PROVE  Senses(evaluates)[e] = Sense(evaluates, Senses(evaluates), e)
<1> DEFINE Good == {part \in SUBSET Expr : Whole(part) /\ \E y : MeansOn(evaluates, y, part)}
<1>1. {} \in Good
  <2>1. MeansOn(evaluates, [i \in {} |-> i], {})
    BY DEF MeansOn
  <2> QED BY <2>1 DEF Whole
<1>2. ASSUME NEW part \in Good, part # Expr
      PROVE  \E x \in Expr \ part : part \cup {x} \in Good
  <2>1. PICK y : MeansOn(evaluates, y, part)
    OBVIOUS
  <2>2. PICK x \in Expr \ part : Operands(x) \subseteq part
    BY <1>2, NextTree
  <2> DEFINE more == part \cup {x}
             z == [k \in more |-> IF k = x THEN Sense(evaluates, y, x) ELSE y[k]]
  <2>3. Whole(more)
    BY <2>2 DEF Whole
  <2>4. \A k \in more : \A o \in Operands(k) : z[o] = y[o]
    BY <2>2 DEF Whole
  <2>5. \A k \in more : z[k] = Sense(evaluates, y, k)
    <3>1. \A k \in part : y[k] = Sense(evaluates, y, k)
      <4>1. y = [k \in part |-> Sense(evaluates, y, k)]
        BY <2>1 DEF MeansOn
      <4> QED BY <4>1
    <3> QED BY <3>1
  <2>6. \A k \in more : z[k] = Sense(evaluates, z, k)
    <3> HIDE DEF z, more
    <3> QED BY <2>4, <2>5, OperandsOnly
  <2>7. MeansOn(evaluates, z, more)
    <3>1. z = [k \in more |-> z[k]]
      OBVIOUS
    <3> HIDE DEF z, more
    <3> QED BY <2>6, <3>1 DEF MeansOn
  <2> QED BY <2>2, <2>3, <2>7
<1>3. Expr \in Good
  <2>1. Good \subseteq SUBSET Expr
    OBVIOUS
  <2> HIDE DEF Good
  <2> QED BY <1>1, <1>2, <2>1, LargestPart
<1>4. \E y : y = [k \in Expr |-> Sense(evaluates, y, k)]
  BY <1>3 DEF MeansOn
<1> DEFINE v == Senses(evaluates)
<1>5. v = CHOOSE y : y = [k \in Expr |-> Sense(evaluates, y, k)]
  BY DEF Senses
<1> HIDE DEF v
<1>6. v = [k \in Expr |-> Sense(evaluates, v, k)]
  BY <1>4, <1>5
<1>7. v[e] = Sense(evaluates, v, e)
  BY <1>6
<1> QED BY <1>7 DEF v

-----------------------------------------------------------------------------
(* A value of the evaluator is the meaning. *)

Agrees(evaluates, means, e) == evaluates[e] # Error => means[e] = evaluates[e]

LEMMA Truths ==
  /\ Truth(TRUE) # Error /\ Truth(FALSE) # Error
  /\ Truthy(Truth(TRUE)) /\ ~Truthy(Truth(FALSE))
  BY DEF Truth, Error, Value, Truthy, Number

\* A comparison that does not raise is true or false.
LEMMA CompareAnswers ==
  ASSUME NEW op, NEW l, NEW r
  PROVE  Compare(op, l, r) \in {Error, Truth(TRUE), Truth(FALSE)}
<1> DEFINE p == NormalisePair(l, r)[1]
           q == NormalisePair(l, r)[2]
           same == Same(p, q) /\ ~({p.type, q.type} = Number)
           Answers == {Error, Truth(TRUE), Truth(FALSE)}
<1>1. Compare(op, l, r) =
        CASE op = "==" -> Truth(same)
          [] op = "!=" -> Truth(~same)
          [] op = "<" /\ Comparable(p, q) -> Truth(Less(p, q))
          [] op = "<=" /\ Comparable(p, q) -> Truth(~Less(q, p))
          [] OTHER -> Error
  BY DEF Compare
<1>2. /\ Truth(same) \in Answers /\ Truth(~same) \in Answers /\ Error \in Answers
      /\ Truth(Less(p, q)) \in Answers /\ Truth(~Less(q, p)) \in Answers
  <2> HIDE DEF p, q, same
  <2> QED BY DEF Truth
<1> HIDE DEF p, q, same, Answers
<1>3. Compare(op, l, r) \in Answers
  <2>1. CASE op = "=="
    BY <1>1, <1>2, <2>1
  <2>2. CASE op = "!="
    BY <1>1, <1>2, <2>2
  <2>3. CASE op = "<"
    BY <1>1, <1>2, <2>3
  <2>4. CASE op = "<="
    BY <1>1, <1>2, <2>4
  <2>5. CASE op \notin {"==", "!=", "<", "<="}
    BY <1>1, <1>2, <2>5
  <2> QED BY <2>1, <2>2, <2>3, <2>4, <2>5
<1> QED BY <1>3 DEF Answers

LEMMA JunctionMeans ==
  ASSUME NEW l, NEW r
  PROVE  /\ Junction("and", l, r) # Error => Both(l, r) = Junction("and", l, r)
         /\ Junction("or", l, r) # Error =>
              Negation(Both(Negation(l), Negation(r))) = Junction("or", l, r)
         /\ l = Error => Junction("and", l, r) = Error /\ Junction("or", l, r) = Error
<1>1. \A b \in BOOLEAN : Truth(b) # Error /\ (Truthy(Truth(b)) <=> b)
  BY Truths
<1>2. l = Error => Junction("and", l, r) = Error /\ Junction("or", l, r) = Error
  BY DEF Junction, Operand
<1>3. Junction("and", l, r) # Error => Both(l, r) = Junction("and", l, r)
  <2> SUFFICES ASSUME l # Error PROVE Junction("and", l, r) # Error
                                        => Both(l, r) = Junction("and", l, r)
    BY <1>2
  <2>1. CASE ~Truthy(l)
    <3>1. Junction("and", l, r) = Truth(FALSE)
      BY <2>1 DEF Junction, Operand, Truthy
    <3>2. Both(l, r) = Truth(FALSE)
      BY <2>1 DEF Both
    <3> QED BY <3>1, <3>2
  <2>2. CASE Truthy(l) /\ r # Error
    <3>1. Junction("and", l, r) = Truth(Truthy(r))
      BY <2>2 DEF Junction, Operand
    <3>2. Both(l, r) = IF Truthy(r) THEN Truth(TRUE) ELSE Truth(FALSE)
      BY <2>2 DEF Both
    <3>3. Truth(Truthy(r)) = IF Truthy(r) THEN Truth(TRUE) ELSE Truth(FALSE)
      BY DEF Truth
    <3> QED BY <3>1, <3>2, <3>3
  <2>3. CASE Truthy(l) /\ r = Error
    BY <2>3 DEF Junction, Operand
  <2> QED BY <2>1, <2>2, <2>3
<1>4. Junction("or", l, r) # Error =>
        Negation(Both(Negation(l), Negation(r))) = Junction("or", l, r)
  <2> SUFFICES ASSUME l # Error
               PROVE  Junction("or", l, r) # Error =>
                        Negation(Both(Negation(l), Negation(r))) = Junction("or", l, r)
    BY <1>2
  <2>1. \A x : x # Error => Negation(x) = IF Truthy(x) THEN Truth(FALSE) ELSE Truth(TRUE)
    BY DEF Negation, Truth
  <2>2. CASE Truthy(l)
    <3>1. Junction("or", l, r) = Truth(TRUE)
      BY <2>2 DEF Junction, Operand
    <3>2. Negation(l) = Truth(FALSE)
      BY <2>1, <2>2
    <3>3. Both(Negation(l), Negation(r)) = Truth(FALSE)
      BY <3>2, Truths DEF Both
    <3> QED BY <2>1, <3>1, <3>3, Truths
  <2>3. CASE ~Truthy(l) /\ r # Error
    <3>1. Junction("or", l, r) = IF Truthy(r) THEN Truth(TRUE) ELSE Truth(FALSE)
      BY <2>3 DEF Junction, Operand, Truth
    <3>2. Negation(l) = Truth(TRUE)
          /\ Negation(r) = IF Truthy(r) THEN Truth(FALSE) ELSE Truth(TRUE)
      BY <2>1, <2>3
    <3>3. Both(Negation(l), Negation(r)) = IF Truthy(r) THEN Truth(FALSE) ELSE Truth(TRUE)
      <4> HIDE DEF Truthy
      <4> QED BY <3>2, Truths DEF Both
    <3> QED BY <2>1, <3>1, <3>3, Truths
  <2>4. CASE ~Truthy(l) /\ r = Error
    BY <2>4 DEF Junction, Operand
  <2> QED BY <2>2, <2>3, <2>4
<1> QED BY <1>2, <1>3, <1>4

LEMMA ChainMeans ==
  ASSUME NEW o1, NEW o2, NEW l, NEW m, NEW r, Chain(o1, o2, l, m, r) # Error
  PROVE  Both(Comparison(o1, l, m), Comparison(o2, m, r)) = Chain(o1, o2, l, m, r)
<1>1. l # Error /\ m # Error /\ Compare(o1, l, m) # Error
  BY DEF Chain
<1>2. Comparison(o1, l, m) = Compare(o1, l, m)
      /\ Compare(o1, l, m) \in {Truth(TRUE), Truth(FALSE)}
  BY <1>1, CompareAnswers DEF Comparison
<1>3. CASE Compare(o1, l, m) = Truth(FALSE)
  <2>1. Chain(o1, o2, l, m, r) = Truth(FALSE)
    BY <1>1, <1>3, Truths DEF Chain
  <2> QED BY <1>2, <1>3, <2>1, Truths DEF Both
<1>4. CASE Compare(o1, l, m) = Truth(TRUE)
  <2>1. r # Error /\ Chain(o1, o2, l, m, r) = Compare(o2, m, r)
    BY <1>1, <1>4, Truths DEF Chain
  <2>2. Comparison(o2, m, r) = Compare(o2, m, r)
        /\ Compare(o2, m, r) \in {Truth(TRUE), Truth(FALSE)}
    BY <1>1, <2>1, CompareAnswers DEF Comparison
  <2> QED BY <1>2, <1>4, <2>1, <2>2, Truths DEF Both
<1> QED BY <1>2, <1>3, <1>4

LEMMA TreeAgrees ==
  ASSUME NEW names, NEW e \in Expr,
         \A x \in Operands(e) : Agrees(Evaluator(names), Senses(Evaluator(names)), x)
  PROVE  Agrees(Evaluator(names), Senses(Evaluator(names)), e)
<1> DEFINE v == Evaluator(names)
           w == Senses(v)
<1>1. v[e] = Method(names, v, e) /\ w[e] = Sense(v, w, e)
  BY EvaluatorIs, SensesIs
<1> HIDE DEF v
<1> HIDE DEF w
<1>2. \A x \in Operands(e) : v[x] # Error => w[x] = v[x]
  BY DEF Agrees, v, w
<1> SUFFICES ASSUME v[e] # Error PROVE w[e] = v[e]
  BY DEF Agrees, v, w
<1>3. CASE e.op = "not"
  <2>1. v[e] = Negation(v[e.of]) /\ w[e] = Negation(w[e.of])
    BY <1>1, <1>3 DEF Method, Sense
  <2>2. v[e.of] # Error
    BY <2>1 DEF Negation
  <2>3. e.of \in Operands(e)
    BY <1>3 DEF Operands
  <2> QED BY <1>2, <2>1, <2>2, <2>3
<1>4. CASE e.op = "and"
  <2>1. v[e] = Junction("and", v[e.l], v[e.r]) /\ w[e] = Both(w[e.l], w[e.r])
    BY <1>1, <1>4 DEF Method, Sense
  <2>2. e.l \in Operands(e) /\ e.r \in Operands(e)
    BY <1>4 DEF Operands
  <2>3. v[e.l] # Error /\ w[e.l] = v[e.l]
    BY <1>2, <2>1, <2>2, JunctionMeans
  <2>4. CASE v[e.r] # Error
    BY <1>2, <2>1, <2>2, <2>3, <2>4, JunctionMeans
  <2>5. CASE v[e.r] = Error
    <3>1. ~Truthy(v[e.l]) /\ v[e] = Truth(FALSE)
      BY <2>1, <2>3, <2>5 DEF Junction, Operand
    <3>2. Both(w[e.l], w[e.r]) = Truth(FALSE)
      BY <2>3, <3>1 DEF Both
    <3> QED BY <2>1, <3>1, <3>2
  <2> QED BY <2>4, <2>5
<1>5. CASE e.op = "or"
  <2>1. v[e] = Junction("or", v[e.l], v[e.r])
        /\ w[e] = Negation(Both(Negation(w[e.l]), Negation(w[e.r])))
    BY <1>1, <1>5 DEF Method, Sense
  <2>2. e.l \in Operands(e) /\ e.r \in Operands(e)
    BY <1>5 DEF Operands
  <2>3. v[e.l] # Error /\ w[e.l] = v[e.l]
    BY <1>2, <2>1, <2>2, JunctionMeans
  <2>4. CASE v[e.r] # Error
    BY <1>2, <2>1, <2>2, <2>3, <2>4, JunctionMeans
  <2>5. CASE v[e.r] = Error
    <3>1. Truthy(v[e.l]) /\ \A x : Junction("or", v[e.l], x) = Truth(TRUE)
      BY <2>1, <2>3, <2>5 DEF Junction, Operand
    <3>2. Junction("or", v[e.l], w[e.r]) = v[e]
      BY <2>1, <3>1
    <3> QED BY <2>1, <2>3, <3>2, JunctionMeans
  <2> QED BY <2>4, <2>5
<1>6. CASE e.op = "chain"
  <2>1. /\ v[e] = Chain(e.o1, e.o2, v[e.l], v[e.m], v[e.r])
        /\ w[e] = Both(Comparison(e.o1, w[e.l], w[e.m]), Comparison(e.o2, w[e.m], w[e.r]))
    BY <1>1, <1>6 DEF Method, Sense
  <2>2. e.l \in Operands(e) /\ e.m \in Operands(e) /\ e.r \in Operands(e)
    BY <1>6 DEF Operands
  <2>3. v[e.l] # Error /\ v[e.m] # Error /\ w[e.l] = v[e.l] /\ w[e.m] = v[e.m]
    BY <1>2, <2>1, <2>2 DEF Chain
  <2>4. CASE v[e.r] # Error
    BY <1>2, <2>1, <2>2, <2>3, <2>4, ChainMeans
  <2>5. CASE v[e.r] = Error
    <3>1. v[e] = Compare(e.o1, v[e.l], v[e.m]) /\ ~Truthy(v[e])
      BY <2>1, <2>3, <2>5 DEF Chain
    <3>2. v[e] = Truth(FALSE) /\ Comparison(e.o1, w[e.l], w[e.m]) = v[e]
      BY <2>3, <3>1, CompareAnswers, Truths DEF Comparison
    <3> QED BY <2>1, <3>2, Truths DEF Both
  <2> QED BY <2>4, <2>5
<1>7. CASE e.op \notin {"not", "and", "or", "chain"}
  BY <1>1, <1>7 DEF Sense
<1> QED BY <1>3, <1>4, <1>5, <1>6, <1>7

LEMMA AllAgree ==
  ASSUME NEW names, NEW e \in Expr
  PROVE  Agrees(Evaluator(names), Senses(Evaluator(names)), e)
<1> DEFINE Ok(x) == Agrees(Evaluator(names), Senses(Evaluator(names)), x)
           Good == {part \in SUBSET Expr : \A x \in part : Ok(x)}
<1>1. {} \in Good /\ Good \subseteq SUBSET Expr
  OBVIOUS
<1>2. ASSUME NEW part \in Good, part # Expr
      PROVE  \E x \in Expr \ part : part \cup {x} \in Good
  <2>1. PICK x \in Expr \ part : Operands(x) \subseteq part
    BY <1>2, NextTree
  <2>2. Ok(x)
    BY <2>1, TreeAgrees
  <2> HIDE DEF Ok
  <2> QED BY <2>1, <2>2
<1>3. Expr \in Good
  <2> HIDE DEF Good
  <2> QED BY <1>1, <1>2, LargestPart
<1> QED BY <1>3

-----------------------------------------------------------------------------
CelInv ==
  /\ expr \in Expr
  /\ allowed \in {"none", "yes", "no"}
  /\ allowed = "yes" => Evaluate(expr) # Error /\ Truthy(Evaluate(expr))
  /\ allowed = "no" /\ flag = "none" => Evaluate(expr) # Error /\ ~Truthy(Evaluate(expr))
  /\ allowed = "no" => Evaluate(expr) = Error \/ ~Truthy(Evaluate(expr))

LEMMA CelStep == CelInv /\ [CelNext]_cel => CelInv'
<1> SUFFICES ASSUME CelInv, [CelNext]_cel PROVE CelInv'
  OBVIOUS
<1>1. CASE UNCHANGED cel
  BY <1>1 DEF cel, CelInv, Evaluate
<1>2. CASE CelNext
  <2>1. /\ expr' = expr /\ context' = context
        /\ allowed' = IF Evaluate(expr) # Error /\ Truthy(Evaluate(expr)) THEN "yes" ELSE "no"
        /\ flag' = IF Evaluate(expr) = Error THEN "cel_rejected" ELSE "none"
    BY <1>2 DEF CelNext, AnswerExpression
  <2>2. Evaluate(expr)' = Evaluate(expr)
    BY <2>1 DEF Evaluate
  <2>3. /\ expr' \in Expr /\ allowed' \in {"yes", "no"}
        /\ allowed' = "yes" => Evaluate(expr) # Error /\ Truthy(Evaluate(expr))
        /\ allowed' = "no" /\ flag' = "none" =>
             Evaluate(expr) # Error /\ ~Truthy(Evaluate(expr))
        /\ allowed' = "no" => Evaluate(expr) = Error \/ ~Truthy(Evaluate(expr))
    BY <2>1 DEF CelInv
  <2> QED BY <2>2, <2>3 DEF CelInv
<1> QED BY <1>1, <1>2

LEMMA CelInvMeans == CelInv => AllowsOnlyMeaning
<1> SUFFICES ASSUME CelInv PROVE AllowsOnlyMeaning
  OBVIOUS
<1>1. expr \in Expr
  BY DEF CelInv
<1>2. Evaluate(expr) # Error => Meaning(expr) = Evaluate(expr)
  BY <1>1, AllAgree DEF Agrees, Meaning, Evaluate
<1> QED BY <1>2 DEF CelInv, AllowsOnlyMeaning

(* A policy allows only what its expression means, for expressions of any  *)
(* depth and any context: no exception, under however many negations and   *)
(* connectives, becomes a yes (cel_evaluator.py).                          *)
THEOREM AllowsMeaning == CelSpec => []AllowsOnlyMeaning
<1>1. CelInit => CelInv
  BY DEF CelInit, CelInv
<1> QED BY <1>1, CelInvMeans, CelStep, PTL DEF CelSpec

\* What _normalise_pair leaves of a day and a time, or of two of a kind, if
\* they are not the two texts of a day and a time.
LEMMA PairOfDays ==
  ASSUME NEW l, NEW r,
         {ParsedTemporal(l).type, ParsedTemporal(r).type} \subseteq {"date", "time"},
         {l.type, r.type} # {"dateText", "timeText"}
  PROVE  LET pair == NormalisePair(l, r)
         IN  /\ pair[1].v = l.v /\ pair[2].v = r.v
             /\ pair[1].type = pair[2].type /\ pair[1].type \in {"date", "time"}
<1> DEFINE pl == ParsedTemporal(l)
           pr == ParsedTemporal(r)
<1>1. \A x : ParsedTemporal(x).type \in {"date", "time"} =>
        /\ ParsedTemporal(x).v = x.v
        /\ \/ x.type = "dateText" /\ ParsedTemporal(x).type = "date"
           \/ x.type = "timeText" /\ ParsedTemporal(x).type = "time"
           \/ x.type \in {"date", "time"} /\ ParsedTemporal(x) = x
  BY DEF ParsedTemporal, Value
<1>2. pl.v = l.v /\ pr.v = r.v /\ pl.type \in {"date", "time"} /\ pr.type \in {"date", "time"}
  BY <1>1
<1>3. \A x, y : LET m == AtMidnight(x, y) IN
        x.type \in {"date", "time"} /\ y.type \in {"date", "time"} =>
          /\ m[1].v = x.v /\ m[2].v = y.v /\ m[1].type = m[2].type
          /\ m[1].type \in {"date", "time"}
  BY DEF AtMidnight, Value
<1>4. CASE l.type \in Text /\ r.type \in Text
  <2>1. NormalisePair(l, r) = <<pl, pr>>
    BY <1>2, <1>4 DEF NormalisePair
  <2>2. pl.type = pr.type
    BY <1>1, <1>4 DEF Text
  <2> QED BY <1>2, <2>1, <2>2
<1>5. CASE ~(l.type \in Text /\ r.type \in Text)
  <2>1. NormalisePair(l, r) = AtMidnight(pl, pr)
    <3>1. r.type \in {"date", "time"} \/ pl = l
      BY <1>1, <1>5 DEF Text
    <3>2. l.type \in {"date", "time"} \/ pr = r
      BY <1>1, <1>5 DEF Text
    <3> QED BY <1>5, <3>1, <3>2 DEF NormalisePair
  <2> HIDE DEF pl, pr
  <2> QED BY <1>2, <1>3, <2>1
<1> QED BY <1>4, <1>5

\* The case in which the seeded policy goes wrong (cel_dates) is the only one:
\* in every other <= of days and times, two of a kind or one of them an object,
\* a day is its midnight, and the answer is no exactly if the right one is first.
DaysCompare ==
    expr.op = "<=" /\ allowed # "none" =>
        LET l == Evaluate(expr.l)
            r == Evaluate(expr.r)
        IN  /\ {ParsedTemporal(l).type, ParsedTemporal(r).type} \subseteq {"date", "time"}
            /\ {l.type, r.type} # {"dateText", "timeText"}
            => (allowed = "yes") = ~(r.v < l.v)

THEOREM DaysAreCompared == CelSpec => []DaysCompare
<1>1. CelInit => CelInv
  BY DEF CelInit, CelInv
<1>2. ASSUME CelInv PROVE DaysCompare
  <2> DEFINE l == Evaluate(expr.l)
             r == Evaluate(expr.r)
  <2> SUFFICES ASSUME expr.op = "<=", allowed # "none",
                      {ParsedTemporal(l).type, ParsedTemporal(r).type} \subseteq {"date", "time"},
                      {l.type, r.type} # {"dateText", "timeText"}
               PROVE  (allowed = "yes") = ~(r.v < l.v)
    BY DEF DaysCompare
  <2>1. Evaluate(expr) = Comparison("<=", l, r)
    BY <1>2, EvaluatorIs DEF CelInv, Evaluate, Method
  <2>2. l # Error /\ r # Error
    BY DEF Error, Value, ParsedTemporal
  <2> HIDE DEF l, r
  <2> DEFINE p == NormalisePair(l, r)[1]
             q == NormalisePair(l, r)[2]
  <2>3. /\ p.v = l.v /\ q.v = r.v /\ p.type = q.type /\ p.type \in {"date", "time"}
    BY PairOfDays
  <2>4. Compare("<=", l, r) = IF Comparable(p, q) THEN Truth(~Less(q, p)) ELSE Error
    BY DEF Compare
  <2> HIDE DEF p, q
  <2>5. Comparable(p, q) /\ (Less(q, p) <=> r.v < l.v)
    BY <2>3 DEF Comparable, Less, Text
  <2>6. Evaluate(expr) = Truth(~Less(q, p))
    BY <2>1, <2>2, <2>4, <2>5 DEF Comparison
  <2>7. Evaluate(expr) # Error /\ (Truthy(Evaluate(expr)) <=> ~(r.v < l.v))
    BY <2>5, <2>6, Truths
  <2>8. (allowed = "yes") <=> Truthy(Evaluate(expr))
    BY <1>2, <2>7 DEF CelInv
  <2> QED BY <2>7, <2>8
<1> QED BY <1>1, <1>2, CelStep, PTL DEF CelSpec

-----------------------------------------------------------------------------
(* MerkleSync: in a finite log without a cycle the way forward from every  *)
(* state ends at a tip, so whatever holds the tips and, with each state,   *)
(* its parent, holds the log.                                              *)

MerkleInv ==
  /\ logs \in [Peer -> SUBSET State]
  /\ \A p \in Peer : IsFiniteSet(logs[p])
  /\ MerkleTypeOK /\ RootsTellAll

\* A set without a tip is a loop, or holds one.
LEMMA TipsLeadToAll ==
  ASSUME NEW states, IsFiniteSet(states), ~TwoOfOneId(states), ~Cyclic(states),
         NEW S \in SUBSET states, Tips(states) \subseteq S,
         \A i \in S : ParentIn(i, states) \subseteq S
  PROVE  S = states
<1> DEFINE U == states \ S
           D == {i \in U : StateParent[i] \in IdsOf(U)}
           up == [i \in D |-> CHOOSE j \in U : StateId[j] = StateParent[i]]
<1> SUFFICES ASSUME U # {} PROVE FALSE
  OBVIOUS
<1>1. IsFiniteSet(U) /\ IsFiniteSet(D) /\ D \subseteq U /\ U \in (SUBSET states) \ {{}}
  BY FS_Subset
<1>2. \A i \in D : up[i] \in U /\ StateId[up[i]] = StateParent[i]
  <2>1. ASSUME NEW i \in D PROVE \E j \in U : StateId[j] = StateParent[i]
    BY DEF IdsOf
  <2> HIDE DEF D, U
  <2> QED BY <2>1
<1>3. ASSUME NEW j \in U PROVE \E i \in D : up[i] = j
  <2>1. j \in states /\ StateId[j] \in Referenced(states)
    BY DEF Tips
  <2>2. PICK i \in states : StateParent[i] = StateId[j]
    BY <2>1 DEF Referenced
  <2>3. i \in U
    BY <2>1, <2>2 DEF ParentIn
  <2>4. i \in D
    BY <2>2, <2>3 DEF IdsOf
  <2>5. up[i] \in states /\ StateId[up[i]] = StateId[j]
    BY <1>2, <2>2, <2>4
  <2>6. up[i] = j
    <3> HIDE DEF up, D, U
    <3> QED BY <2>1, <2>5 DEF TwoOfOneId
  <2> QED BY <2>4, <2>6
<1>4. up \in Surjection(D, U)
  <2>1. up \in [D -> U]
    BY <1>2
  <2> HIDE DEF up, D, U
  <2> QED BY <1>3, <2>1 DEF Surjection
<1>5. D = U
  <2> HIDE DEF up, D, U
  <2>1. Cardinality(U) <= Cardinality(D)
    BY <1>1, <1>4, FS_Surjection
  <2>2. /\ Cardinality(D) <= Cardinality(U) /\ Cardinality(D) \in Nat /\ Cardinality(U) \in Nat
        /\ Cardinality(D) = Cardinality(U) => D = U
    BY <1>1, FS_Subset, FS_CardinalityType
  <2>3. PICK m, n : m = Cardinality(D) /\ n = Cardinality(U)
    OBVIOUS
  <2>4. m \in Nat /\ n \in Nat /\ m <= n /\ n <= m
    BY <2>1, <2>2, <2>3
  <2>5. m = n
    BY <2>4
  <2> QED BY <2>2, <2>3, <2>5
<1>6. Referenced(U) \subseteq IdsOf(U)
  BY <1>5 DEF Referenced
<1> QED BY <1>1, <1>6 DEF Cyclic

\* What _node_commitment computes, on a part of the log that it is closed on.
Computes(cache, part, states) ==
  cache = [i \in part |-> <<i, {cache[j] : j \in ParentIn(i, states)}>>]

Closed(part, states) == \A i \in part : ParentIn(i, states) \subseteq part

\* The recursion ends on every state.
LEMMA CommitmentsExist ==
  ASSUME NEW states, IsFiniteSet(states), ~Cyclic(states)
  PROVE  \E cache : Computes(cache, states, states)
<1> DEFINE Done(part) == Closed(part, states) /\ \E cache : Computes(cache, part, states)
           D == {states \ part : part \in {p \in SUBSET states : Done(p)}}
           R == StrictSubsetOrdering(states)
<1>1. Done({})
  <2>1. Computes([i \in {} |-> {}], {}, states)
    BY DEF Computes
  <2> QED BY <2>1 DEF Closed
<1>2. D \subseteq FiniteSubsetsOf(states) /\ D # {}
  <2>1. \A part \in SUBSET states : states \ part \in SUBSET states /\ IsFiniteSet(states \ part)
    BY FS_Subset
  <2>2. {} \in {p \in SUBSET states : Done(p)}
    <3> HIDE DEF Done
    <3> QED BY <1>1
  <2> QED BY <2>1, <2>2 DEF FiniteSubsetsOf
<1>3. PICK V \in D : \A W \in D : <<W, V>> \notin R
  <2>1. IsWellFoundedOn(R, FiniteSubsetsOf(states))
    BY FS_StrictSubsetOrderingWellFounded
  <2> HIDE DEF R, D
  <2> QED BY <1>2, <2>1, WFMin
<1>4. PICK part \in SUBSET states : V = states \ part /\ Done(part)
  <2> HIDE DEF Done
  <2> QED OBVIOUS
<1>5. PICK cache : Computes(cache, part, states)
  BY <1>4
<1>6. ASSUME V # {} PROVE FALSE
  <2>1. PICK x \in V : StateParent[x] \notin IdsOf(V)
    BY <1>4, <1>6 DEF Cyclic, Referenced
  <2>2. ParentIn(x, states) \subseteq part
    BY <1>4, <2>1 DEF ParentIn, IdsOf
  <2> DEFINE more == part \cup {x}
             longer == [i \in more |-> IF i = x THEN <<x, {cache[j] : j \in ParentIn(x, states)}>>
                                       ELSE cache[i]]
  <2>3. x \notin part /\ more \in SUBSET states /\ Closed(part, states)
    BY <1>4, <2>1
  <2>4. Closed(more, states)
    BY <2>2, <2>3 DEF Closed
  <2>5. \A i \in more : \A j \in ParentIn(i, states) : longer[j] = cache[j]
    BY <2>2, <2>3 DEF Closed
  <2>6. \A i \in more : longer[i] = <<i, {longer[j] : j \in ParentIn(i, states)}>>
    <3>1. ASSUME NEW i \in more
          PROVE  {longer[j] : j \in ParentIn(i, states)} = {cache[j] : j \in ParentIn(i, states)}
      BY <2>5
    <3>2. \A i \in part : cache[i] = <<i, {cache[j] : j \in ParentIn(i, states)}>>
      <4>1. cache = [i \in part |-> <<i, {cache[j] : j \in ParentIn(i, states)}>>]
        BY <1>5 DEF Computes
      <4> QED BY <4>1
    <3>3. \A i \in more : longer[i] = <<i, {cache[j] : j \in ParentIn(i, states)}>>
      BY <2>3, <3>2
    <3> HIDE DEF longer, more
    <3> QED BY <3>1, <3>3
  <2>7. Computes(longer, more, states)
    <3>1. longer = [i \in more |-> longer[i]]
      OBVIOUS
    <3> HIDE DEF longer, more
    <3> QED BY <2>6, <3>1 DEF Computes
  <2>8. Done(more)
    BY <2>4, <2>7
  <2>9. states \ more \in D
    <3> HIDE DEF Done, more
    <3> QED BY <2>3, <2>8
  <2>10. states \ more \subseteq V /\ states \ more # V /\ V \in SUBSET states
    BY <1>4, <2>1
  <2> QED BY <1>3, <2>9, <2>10 DEF StrictSubsetOrdering
<1>7. part = states
  BY <1>4, <1>6
<1> QED BY <1>5, <1>7

LEMMA CommitmentOf ==
  ASSUME NEW states, IsFiniteSet(states), ~Cyclic(states), NEW i \in states
  PROVE  Commitments(states)[i] =
           <<i, {Commitments(states)[j] : j \in ParentIn(i, states)}>>
<1> DEFINE c == Commitments(states)
<1>1. c = CHOOSE cache :
            cache = [k \in states |-> <<k, {cache[j] : j \in ParentIn(k, states)}>>]
  BY DEF Commitments
<1>2. \E cache : cache = [k \in states |-> <<k, {cache[j] : j \in ParentIn(k, states)}>>]
  BY CommitmentsExist DEF Computes
<1> HIDE DEF c
<1>3. c = [k \in states |-> <<k, {c[j] : j \in ParentIn(k, states)}>>]
  BY <1>1, <1>2
<1>4. c[i] = <<i, {c[j] : j \in ParentIn(i, states)}>>
  BY <1>3
<1> QED BY <1>4 DEF c

-----------------------------------------------------------------------------
\* Whatever one of two logs with one root holds, the other holds, too.
LEMMA OneRootHolds ==
  ASSUME NEW l, IsFiniteSet(l), ~Malformed(l),
         NEW r, IsFiniteSet(r), ~Malformed(r), Root(l) = Root(r)
  PROVE  l \subseteq r
<1> DEFINE S == {i \in l : i \in r /\ Commitments(l)[i] = Commitments(r)[i]}
<1>1. ~TwoOfOneId(l) /\ ~Cyclic(l) /\ ~Cyclic(r)
  BY DEF Malformed
<1>2. /\ \A i \in l : Commitments(l)[i] = <<i, {Commitments(l)[j] : j \in ParentIn(i, l)}>>
      /\ \A i \in r : Commitments(r)[i] = <<i, {Commitments(r)[j] : j \in ParentIn(i, r)}>>
  BY <1>1, CommitmentOf
<1>3. ASSUME NEW i \in l, NEW j \in r, Commitments(l)[i] = Commitments(r)[j]
      PROVE  i = j /\ {Commitments(l)[k] : k \in ParentIn(i, l)}
                        = {Commitments(r)[k] : k \in ParentIn(j, r)}
  <2> DEFINE a == {Commitments(l)[k] : k \in ParentIn(i, l)}
             b == {Commitments(r)[k] : k \in ParentIn(j, r)}
  <2>1. Commitments(l)[i] = <<i, a>> /\ Commitments(r)[j] = <<j, b>>
    BY <1>2
  <2>2. <<i, a>> = <<j, b>>
    BY <1>3, <2>1
  <2> HIDE DEF a, b
  <2>3. i = j /\ a = b
    BY <2>2
  <2> QED BY <2>3 DEF a, b
<1>4. Tips(l) \subseteq S
  <2>1. ASSUME NEW i \in Tips(l) PROVE i \in S
    <3>1. i \in l /\ Commitments(l)[i] \in Root(r)
      BY DEF Root, Tips
    <3>2. PICK j \in Tips(r) : Commitments(l)[i] = Commitments(r)[j]
      BY <3>1 DEF Root
    <3>3. j \in r
      BY DEF Tips
    <3>4. i = j
      BY <1>3, <3>1, <3>2, <3>3
    <3> QED BY <3>1, <3>2, <3>3, <3>4
  <2> QED BY <2>1
<1>5. ASSUME NEW i \in S, NEW p \in ParentIn(i, l) PROVE p \in S
  <2>1. p \in l /\ i \in l /\ i \in r /\ Commitments(l)[i] = Commitments(r)[i]
    BY DEF ParentIn
  <2>2. Commitments(l)[p] \in {Commitments(r)[k] : k \in ParentIn(i, r)}
    BY <1>3, <2>1
  <2>3. PICK q \in ParentIn(i, r) : Commitments(l)[p] = Commitments(r)[q]
    BY <2>2
  <2>4. q \in r
    BY DEF ParentIn
  <2>5. p = q
    BY <1>3, <2>1, <2>3, <2>4
  <2> QED BY <2>1, <2>3, <2>4, <2>5
<1>6. S = l
  <2>1. S \in SUBSET l
    OBVIOUS
  <2>2. \A i \in S : ParentIn(i, l) \subseteq S
    BY <1>5
  <2> HIDE DEF S
  <2> QED BY <1>1, <1>4, <2>1, <2>2, TipsLeadToAll
<1> QED BY <1>6

LEMMA SameRootSameLog ==
  ASSUME NEW l, IsFiniteSet(l), ~Malformed(l),
         NEW r, IsFiniteSet(r), ~Malformed(r), Root(l) = Root(r)
  PROVE  l = r
<1>1. l \subseteq r
  BY OneRootHolds
<1>2. r \subseteq l
  BY OneRootHolds
<1> QED BY <1>1, <1>2

\* reconcile proposes the one head, and only of logs that fit together.
LEMMA HeadLeadsToAll ==
  ASSUME NEW l, IsFiniteSet(l), NEW r, IsFiniteSet(r), Reconciled(l, r).head # 0
  PROVE  /\ LeadsToAll(Reconciled(l, r).head, l \cup r)
         /\ Reconciled(l, r).conflicting = {}
<1> DEFINE combined == l \cup r
           clash == {StateId[i] : i \in {k \in combined :
                        \E j \in combined : j # k /\ StateId[j] = StateId[k]}}
           tips == IdsOf(Tips(combined))
           head == IF tips = {} THEN 0 ELSE CHOOSE h \in tips : TRUE
<1>1. Reconciled(l, r) =
        IF clash # {} THEN [head |-> 0, conflicting |-> clash]
        ELSE IF Cyclic(combined) THEN NoResolution
        ELSE IF Cardinality(tips) > 1 THEN [head |-> 0, conflicting |-> tips]
        ELSE [head |-> head, conflicting |-> {}]
  BY DEF Reconciled
<1>2. /\ clash = {} /\ ~Cyclic(combined) /\ ~(Cardinality(tips) > 1)
      /\ Reconciled(l, r) = [head |-> head, conflicting |-> {}]
  <2> HIDE DEF clash, combined, tips, head
  <2> QED BY <1>1 DEF NoResolution
<1>3. Reconciled(l, r).head = head /\ Reconciled(l, r).conflicting = {} /\ head # 0
  <2> HIDE DEF clash, combined, tips, head
  <2> QED BY <1>2
<1>4. head \in tips
  <2> HIDE DEF tips
  <2> QED BY <1>3
<1>5. IsFiniteSet(combined) /\ ~TwoOfOneId(combined)
  <2>1. IsFiniteSet(combined)
    BY FS_Union
  <2>2. ~TwoOfOneId(combined)
    <3> HIDE DEF combined
    <3> QED BY <1>2 DEF TwoOfOneId
  <2> QED BY <2>1, <2>2
<1>6. ASSUME NEW h \in tips PROVE h = head
  <2>1. IsFiniteSet(Tips(combined)) /\ IsFiniteSet(tips)
    <3>1. IsFiniteSet(Tips(combined))
      BY <1>5, FS_Subset DEF Tips
    <3>2. ASSUME NEW T, IsFiniteSet(T) PROVE IsFiniteSet(IdsOf(T))
      <4> DEFINE f == [i \in T |-> StateId[i]]
      <4>1. f \in Surjection(T, IdsOf(T))
        BY DEF IdsOf, Surjection
      <4> QED BY <3>2, <4>1, FS_Surjection
    <3> QED BY <3>1, <3>2
  <2> HIDE DEF tips, head
  <2>2. IsFiniteSet({h, head}) /\ Cardinality({h, head}) <= Cardinality(tips)
        /\ Cardinality(tips) \in Nat
    BY <1>4, <2>1, FS_Subset, FS_CardinalityType
  <2>3. h # head => Cardinality({h, head}) = 2
    <3>1. IsFiniteSet({h}) /\ Cardinality({h}) = 1
      BY FS_Singleton
    <3>2. h # head => Cardinality({h} \cup {head}) = Cardinality({h}) + 1
      BY <3>1, FS_AddElement
    <3>3. {h} \cup {head} = {h, head}
      OBVIOUS
    <3> QED BY <3>1, <3>2, <3>3
  <2>4. PICK n : n = Cardinality(tips)
    OBVIOUS
  <2>5. n \in Nat /\ ~(n > 1)
    BY <1>2, <2>2, <2>4
  <2>6. h # head => 2 <= n
    BY <2>2, <2>3, <2>4
  <2> QED BY <2>5, <2>6
<1>7. LeadsToAll(head, combined)
  <2> SUFFICES ASSUME NEW S \in SUBSET combined,
                      \A i \in combined : StateId[i] = head => i \in S,
                      \A i \in S : ParentIn(i, combined) \subseteq S
               PROVE  S = combined
    BY DEF LeadsToAll
  <2>1. ASSUME NEW i \in Tips(combined) PROVE i \in S
    <3>1. i \in combined /\ StateId[i] \in tips
      BY DEF Tips, IdsOf
    <3> HIDE DEF combined, tips, head
    <3> QED BY <1>6, <3>1
  <2> HIDE DEF combined, head
  <2> QED BY <1>2, <1>5, <2>1, TipsLeadToAll
<1> QED BY <1>3, <1>7

LEMMA CompareKeeps ==
  ASSUME MerkleInv, NEW p \in Peer, NEW q \in Peer, CompareLogs(p, q)
  PROVE  MerkleInv'
<1> DEFINE l == logs[p]
           r == logs[q]
<1>1. /\ l \in SUBSET State /\ r \in SUBSET State /\ IsFiniteSet(l) /\ IsFiniteSet(r)
      /\ ~Malformed(l) /\ ~Malformed(r)
      /\ compared' = [local |-> l, remote |-> r]
      /\ diff' = Difference(l, r) /\ resolution' = Reconciled(l, r) /\ logs' = logs
  BY DEF MerkleInv, CompareLogs
<1> HIDE DEF l, r
<1>2. /\ compared' \in [local : SUBSET State, remote : SUBSET State]
      /\ compared'.local = l /\ compared'.remote = r
  BY <1>1
<1>3. /\ diff'.inSync <=> Root(l) = Root(r)
      /\ diff'.missingFromLocal = r \ l /\ diff'.missingFromRemote = l \ r
  BY <1>1 DEF Difference
<1>4. Root(l) = Root(r) <=> l = r
  BY <1>1, SameRootSameLog
<1>5. resolution'.head # 0 =>
        LeadsToAll(resolution'.head, l \cup r) /\ resolution'.conflicting = {}
  BY <1>1, HeadLeadsToAll
<1>6. MerkleTypeOK'
  BY <1>1, <1>2, <1>3, <1>5 DEF MerkleTypeOK, MerkleInv
<1>7. RootsTellAll'
  <2>1. \A h, states : LeadsToAll(h, states)' <=> LeadsToAll(h, states)
    BY DEF LeadsToAll
  <2> QED BY <1>2, <1>3, <1>4, <1>5, <2>1 DEF RootsTellAll
<1> QED BY <1>1, <1>6, <1>7 DEF MerkleInv

LEMMA GrowKeeps ==
  ASSUME MerkleInv, NEW p \in Peer, NEW i \in State, Grow(p, i)
  PROVE  MerkleInv'
<1>1. /\ logs' = [logs EXCEPT ![p] = @ \cup {i}] /\ logs \in [Peer -> SUBSET State]
      /\ UNCHANGED <<compared, diff, resolution>>
  BY DEF MerkleInv, Grow
<1>2. logs' \in [Peer -> SUBSET State]
  BY <1>1
<1>3. \A q \in Peer : IsFiniteSet(logs'[q])
  <2>1. IsFiniteSet(logs[p] \cup {i})
    BY FS_AddElement DEF MerkleInv
  <2> QED BY <1>1, <2>1 DEF MerkleInv
<1>4. MerkleTypeOK' /\ RootsTellAll'
  BY <1>1, <1>2 DEF MerkleInv, MerkleTypeOK, RootsTellAll, LeadsToAll
<1> QED BY <1>2, <1>3, <1>4 DEF MerkleInv

LEMMA MerkleStep == MerkleInv /\ [MerkleNext]_merkle => MerkleInv'
<1> SUFFICES ASSUME MerkleInv, [MerkleNext]_merkle PROVE MerkleInv'
  OBVIOUS
<1>1. CASE UNCHANGED merkle
  BY <1>1 DEF merkle, MerkleInv, MerkleTypeOK, RootsTellAll, LeadsToAll
<1> QED BY <1>1, CompareKeeps, GrowKeeps DEF MerkleNext

LEMMA InitMerkle == MerkleInit => MerkleInv
<1> SUFFICES ASSUME MerkleInit PROVE MerkleInv
  OBVIOUS
<1>1. \A p \in Peer : logs[p] = {} /\ IsFiniteSet(logs[p])
  BY FS_EmptySet DEF MerkleInit
<1>2. MerkleTypeOK
  BY DEF MerkleInit, MerkleTypeOK, NoDiff, NoResolution
<1>3. RootsTellAll
  BY DEF MerkleInit, RootsTellAll, NoDiff, NoResolution
<1> QED BY <1>1, <1>2, <1>3 DEF MerkleInit, MerkleInv

(* The comparison of a few digests finds every difference, and a proposed  *)
(* head has the whole of both logs behind it: for any states, forks and    *)
(* gaps, and logs of any length (merkle_sync.py).                          *)
THEOREM RootsAlwaysTellAll == MerkleSpec => []RootsTellAll
<1>1. MerkleInv => RootsTellAll
  BY DEF MerkleInv
<1> QED BY <1>1, InitMerkle, MerkleStep, PTL DEF MerkleSpec

(* Both logs and what a comparison says of them have their types; a head   *)
(* is never proposed beside a conflict.                                    *)
THEOREM MerkleTypeCorrect == MerkleSpec => []MerkleTypeOK
<1>1. MerkleInv => MerkleTypeOK
  BY DEF MerkleInv
<1> QED BY <1>1, InitMerkle, MerkleStep, PTL DEF MerkleSpec
=============================================================================
