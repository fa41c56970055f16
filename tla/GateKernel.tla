----------------------------- MODULE GateKernel -----------------------------
(***************************************************************************)
(* The Gate of intentd (app/gate/kernel.py): the only way to a protected   *)
(* action.  Concurrent IPC calls (one thread per connection) propose an    *)
(* action, consent to it and confirm it.  Every call to the SQLite store   *)
(* is a transaction of its own, so the calls interleave between any two of *)
(* them; here each thread takes one step per store transaction.  Around    *)
(* the threads live the process (a crash loses the threads and the tickets *)
(* in memory, a restart runs recover() before it serves) and the           *)
(* environment (sessions, rights, the clock that expires consents, a new   *)
(* policy that a restart may bring).                                       *)
(*                                                                         *)
(* A Content stands for everything the content hash and the rendering hash *)
(* cover (participants, action type, parameters, language).  The layers    *)
(* 1 to 3, which only read the input, are taken as passed.                 *)
(***************************************************************************)
EXTENDS Naturals

CONSTANTS
  Thread,        \* IPC threads of intentd
  Action,        \* action ids
  Session,       \* session ids
  Identity,      \* identities a session can be bound to
  Content,       \* what an envelope says, as far as the hashes tell apart
  IdentityOf,    \* [Session -> Identity]: gate_identities behind the session
  Members,       \* identities that are members of the conversation
  Acting,        \* [Content -> SUBSET Identity]: participants with role member
  KindOf,        \* [Content -> Kind]: which executor the action type has
  NeedsConsent,  \* [Content -> BOOLEAN]: the type is irreversible in REGISTRY
  Required,      \* [Content -> {"weak", "strong"}]: required_assurance
  MaxClaims,     \* bound: claims of one action
  MaxCrashes,    \* bound: crashes of the process
  MaxErrors,     \* bound: store calls that raise
  MaxPolicy      \* bound: policies the restarts bring

\* "outbox": ConversationOutboxExecutor; "power": PowerExecutor, family
\* eira_system; "missing": a type of REGISTRY without an executor.
Kind == {"outbox", "power", "missing"}

ASSUME ConstantsAssumption ==
  /\ IdentityOf \in [Session -> Identity]
  /\ Members \subseteq Identity
  /\ Acting \in [Content -> SUBSET Identity]
  /\ KindOf \in [Content -> Kind]
  /\ NeedsConsent \in [Content -> BOOLEAN]
  /\ Required \in [Content -> {"weak", "strong"}]
  /\ MaxClaims \in Nat /\ MaxCrashes \in Nat
  /\ MaxErrors \in Nat /\ MaxPolicy \in Nat

ASSUME NonEmptyAssumption ==
  Action # {} /\ Session # {} /\ Content # {} /\ Identity # {}

\* Rows of REGISTRY that have an executor are all irreversible.
ASSUME RegistryAssumption ==
  \A c \in Content : KindOf[c] # "missing" => NeedsConsent[c]

VARIABLES
  \* the database
  row,       \* gate_actions: [Action -> Row]
  consents,  \* gate_consents: [Action -> [Session -> ConsentState]]
  rights,    \* gate_grants: the grants in force, SUBSET (Identity \X Action)
  audit,     \* gate_audit: the entries that report an outcome, a set
  level,     \* sessions: [Session -> Level], the assurance level
  \* the world outside
  effects,   \* [Action -> SUBSET Nat]: the executions that took effect
  \* the process
  mode,      \* "up", "down" or "recovering"
  owed,      \* actions recover() has resolved and not yet audited
  policy,    \* fingerprint of the policy in force
  call,      \* [Thread -> Call]: what each thread is doing
  crashes,   \* crashes so far
  errors,    \* store calls that raised so far
  \* history
  claims,    \* [Action -> Nat]: execution ids handed out
  answered   \* SUBSET (Action \X Outcome): outcomes told to a caller

vars == <<row, consents, rights, audit, level, effects, mode, owed, policy,
          call, crashes, errors, claims, answered>>

State == {"absent", "pending", "executing", "executed", "failed", "unknown",
          "cancelled"}
\* FINISHED_STATES has "partial" too, which no registered executor reports.
Finished     == {"executed", "failed", "unknown"}
Outcome      == {"PASS", "E_PARTIAL", "recover"}
Level        == {"none", "weak", "strong"}   \* no session, default, stepped up
ConsentState == {"none", "live", "expired"}
Report       == {"nothing", "succeeded", "failed", "raised", "unavailable"}

\* execution is the execution_id (0 for NULL), bound the policy_fingerprint.
Row == [state : State, execution : Nat, content : Content,
        proposer : Identity, bound : Nat]

\* Where a thread stands: p_ in propose, g_ in grant_consent, c_ in confirm.
Label == {"idle", "p_insert", "p_find", "p_consent", "p_right", "p_cancel",
          "g_find", "g_insert", "c_find", "c_consent", "c_right", "c_claim",
          "c_lost", "c_recheck", "c_run", "c_finish", "c_audit"}

\* A call in progress: its arguments, the session level and the action state
\* it read, its execution id and the executor's report.  lacking is history:
\* the caller had no authority when it claimed and none was granted since.
Call == [pc : Label, target : Action, sess : Session, arg : Content,
         actor : Level, seen : State, exec : Nat, report : Report,
         lacking : BOOLEAN]

AnyAction   == CHOOSE a \in Action : TRUE
AnySession  == CHOOSE s \in Session : TRUE
AnyContent  == CHOOSE c \in Content : TRUE
AnyIdentity == CHOOSE i \in Identity : TRUE

NoCall == [pc |-> "idle", target |-> AnyAction, sess |-> AnySession,
           arg |-> AnyContent, actor |-> "none", seen |-> "absent",
           exec |-> 0, report |-> "nothing", lacking |-> FALSE]

NoRow == [state |-> "absent", execution |-> 0, content |-> AnyContent,
          proposer |-> AnyIdentity, bound |-> 0]

Init ==
  /\ row = [a \in Action |-> NoRow]
  /\ consents = [a \in Action |-> [s \in Session |-> "none"]]
  /\ rights = {} /\ audit = {} /\ answered = {}
  /\ level = [s \in Session |-> "none"]
  /\ effects = [a \in Action |-> {}]
  /\ mode = "up" /\ owed = {} /\ policy = 0
  /\ crashes = 0 /\ errors = 0
  /\ call = [t \in Thread |-> NoCall]
  /\ claims = [a \in Action |-> 0]

----------------------------------------------------------------------------
(* What the layers ask.                                                    *)

At(t, label)   == call[t].pc = label
Goto(t, label) == call' = [call EXCEPT ![t].pc = label]
\* The call answers; with a rejection, _fail has audited it before.
Return(t)      == call' = [call EXCEPT ![t] = NoCall]

Target(t) == call[t].target
RowOf(t)  == row[call[t].target]
Who(t)    == IdentityOf[call[t].sess]

\* Layer 4: an authenticated actor inside the conversation.
InDomain(t) == call[t].actor # "none" /\ Who(t) \in Members

\* Layer 7: the input, read for this caller, has the hash the record has.
\* The participant of a power request is the session's user, so its hash is.
HashMatches(t) ==
  /\ call[t].arg = RowOf(t).content
  /\ KindOf[RowOf(t).content] = "power" => Who(t) = RowOf(t).proposer

\* Mutant: a consent counts in any session.
ConsentedAnywhere(t) ==
  \/ ~NeedsConsent[RowOf(t).content]
  \/ \E s \in Session : consents[Target(t)][s] = "live"

\* Layer 5: an unexpired consent to this content, given in this session.
Consented(t) ==
  \/ ~NeedsConsent[RowOf(t).content]
  \/ consents[Target(t)][call[t].sess] = "live"

\* Layer 6 without the step-up: an acting participant with a right in force.
IsActing(t) == \/ KindOf[RowOf(t).content] = "power"
               \/ Who(t) \in Acting[RowOf(t).content]
HasRight(t) == IsActing(t) /\ <<Who(t), Target(t)>> \in rights

\* Layer 6: assurance_rank of the session against required_assurance.
Assured(t, lv) == lv \in {Required[RowOf(t).content], "strong"}

\* All of layer 6 against the sessions lv and the grants rs.
Authority(t, lv, rs) ==
  /\ Assured(t, lv[call[t].sess])
  /\ IsActing(t)
  /\ <<Who(t), Target(t)>> \in rs

\* _existing: the outcome that is already recorded, told and not audited.
VerdictOf(state) == CASE state = "executed"             -> {"PASS"}
                      [] state \in {"failed", "unknown"} -> {"E_PARTIAL"}
                      [] OTHER                          -> {}

Existing(t, state) ==
  answered' = answered \cup {<<Target(t), o>> : o \in VerdictOf(state)}

database == <<row, consents, rights, audit, level, effects, claims>>
process  == <<mode, owed, policy, crashes, errors>>

----------------------------------------------------------------------------
(* A call enters a handler: _actor reads the session behind it.            *)

Begin(t, a, s, c, label) ==
  /\ mode = "up" /\ At(t, "idle")
  /\ call' = [call EXCEPT ![t] = [NoCall EXCEPT !.pc = label, !.target = a,
                !.sess = s, !.arg = c, !.actor = level[s]]]
  /\ UNCHANGED <<database, process, answered>>

Propose(t, a, s, c)      == Begin(t, a, s, c, "p_insert")
GrantConsent(t, a, s, c) == Begin(t, a, s, c, "g_find")
Confirm(t, a, s, c)      == claims[a] < MaxClaims /\ Begin(t, a, s, c, "c_find")

----------------------------------------------------------------------------
(* propose: layers 1 to 4, _store_pending, layers 5 and 6.                 *)

ProposeInsert(t) ==
  /\ At(t, "p_insert")
  /\ \/ ~InDomain(t) /\ Return(t) /\ UNCHANGED row
     \/ /\ InDomain(t) /\ RowOf(t).state = "absent"
        /\ Goto(t, "p_find")
        /\ row' = [row EXCEPT ![Target(t)] =
                     [state |-> "pending", execution |-> 0, content |-> call[t].arg,
                      proposer |-> Who(t), bound |-> policy]]
     \/ InDomain(t) /\ RowOf(t).state # "absent" /\ Goto(t, "p_find") /\ UNCHANGED row
  /\ UNCHANGED <<consents, rights, audit, level, effects, claims, process, answered>>

ProposeFind(t) ==
  /\ At(t, "p_find")
  /\ LET same == call[t].arg = RowOf(t).content /\ Who(t) = RowOf(t).proposer IN
     \/ ~same /\ Return(t) /\ UNCHANGED answered
     \/ same /\ RowOf(t).state # "pending" /\ Existing(t, RowOf(t).state) /\ Return(t)
     \/ same /\ RowOf(t).state = "pending" /\ Goto(t, "p_consent") /\ UNCHANGED answered
  /\ UNCHANGED <<database, process>>

ProposeConsent(t) ==
  /\ At(t, "p_consent")
  /\ IF Consented(t) THEN Goto(t, "p_right") ELSE Return(t)
  /\ UNCHANGED <<database, process, answered>>

\* With a right, propose answers: ready for confirmation, or a step-up needed.
ProposeRight(t) ==
  /\ At(t, "p_right")
  /\ IF HasRight(t) THEN Return(t) ELSE Goto(t, "p_cancel")
  /\ UNCHANGED <<database, process, answered>>

\* Mutant: cancel without WHERE state = 'pending'.
CancelWhatever(t) ==
  /\ At(t, "p_cancel") /\ Return(t)
  /\ row' = [row EXCEPT ![Target(t)].state = "cancelled"]
  /\ UNCHANGED <<consents, rights, audit, level, effects, claims, process, answered>>

ProposeCancel(t) ==
  /\ At(t, "p_cancel") /\ Return(t)
  /\ row' = IF RowOf(t).state = "pending"
            THEN [row EXCEPT ![Target(t)].state = "cancelled"] ELSE row
  /\ UNCHANGED <<consents, rights, audit, level, effects, claims, process, answered>>

----------------------------------------------------------------------------
(* grant_consent: the record is read, then the consent is inserted.        *)

ConsentFind(t) ==
  /\ At(t, "g_find")
  /\ IF /\ RowOf(t).state = "pending"
        /\ call[t].actor # "none" /\ Who(t) = RowOf(t).proposer
        /\ call[t].arg = RowOf(t).content
     THEN Goto(t, "g_insert") ELSE Return(t)
  /\ UNCHANGED <<database, process, answered>>

ConsentInsert(t) ==
  /\ At(t, "g_insert") /\ Return(t)
  /\ consents' = [consents EXCEPT ![Target(t)][call[t].sess] = "live"]
  /\ UNCHANGED <<row, rights, audit, level, effects, claims, process, answered>>

----------------------------------------------------------------------------
(* confirm.                                                                *)

\* The record is read once; of what later steps use only its state can change.
\* Layers 1 to 4 run again, and the policy must be the one of the proposal.
ConfirmFind(t) ==
  /\ At(t, "c_find")
  /\ IF RowOf(t).state # "absent" /\ InDomain(t) /\ RowOf(t).bound = policy
     THEN call' = [call EXCEPT ![t].pc = "c_consent", ![t].seen = RowOf(t).state]
     ELSE Return(t)
  /\ UNCHANGED <<database, process, answered>>

ConfirmConsent(t) ==
  /\ At(t, "c_consent")
  /\ IF Consented(t) THEN Goto(t, "c_right") ELSE Return(t)
  /\ UNCHANGED <<database, process, answered>>

\* The level read at the start is not used again.
ConfirmRight(t) ==
  /\ At(t, "c_right")
  /\ IF HasRight(t) /\ Assured(t, call[t].actor)
     THEN call' = [call EXCEPT ![t].pc = "c_claim", ![t].actor = "none"]
     ELSE Return(t)
  /\ UNCHANGED <<database, process, answered>>

\* Mutant: the claim does not ask for the state.
ClaimWithoutState(t) ==
  /\ claims' = [claims EXCEPT ![Target(t)] = @ + 1]
  /\ row' = [row EXCEPT ![Target(t)].state = "executing",
                        ![Target(t)].execution = claims[Target(t)] + 1]
  /\ call' = [call EXCEPT ![t].pc = "c_recheck", ![t].exec = claims[Target(t)] + 1,
                          ![t].lacking = ~Authority(t, level, rights)]

\* Layer 7.  The claim is one UPDATE ... WHERE state = 'pending'.
Claim(t) ==
  /\ RowOf(t).state = "pending"
  /\ claims' = [claims EXCEPT ![Target(t)] = @ + 1]
  /\ row' = [row EXCEPT ![Target(t)].state = "executing",
                        ![Target(t)].execution = claims[Target(t)] + 1]
  /\ call' = [call EXCEPT ![t].pc = "c_recheck",
                          ![t].exec = claims[Target(t)] + 1,
                          ![t].lacking = ~Authority(t, level, rights)]

ConfirmClaim(t) ==
  LET asked == call[t].seen = "pending" /\ HashMatches(t) IN
  /\ At(t, "c_claim")
  /\ \/ /\ call[t].seen \in Finished
        /\ Existing(t, call[t].seen) /\ Return(t)
        /\ UNCHANGED <<row, claims>>
     \/ /\ call[t].seen \notin Finished /\ ~asked /\ Return(t)
        /\ UNCHANGED <<row, claims, answered>>
     \/ asked /\ Claim(t) /\ UNCHANGED answered
     \/ /\ asked /\ RowOf(t).state # "pending" /\ Goto(t, "c_lost")
        /\ UNCHANGED <<row, claims, answered>>
  /\ UNCHANGED <<consents, rights, audit, level, effects, process>>

\* Mutant: who lost the claim waits for the winner's result.
LostWaits(t) ==
  /\ At(t, "c_lost") /\ RowOf(t).state \in Finished /\ Return(t)
  /\ Existing(t, RowOf(t).state)
  /\ UNCHANGED <<database, process>>

\* The claim was lost: the record is read again.
ConfirmLost(t) ==
  /\ At(t, "c_lost") /\ Return(t)
  /\ Existing(t, RowOf(t).state)
  /\ UNCHANGED <<database, process>>

\* UPDATE ... WHERE execution_id = ? AND state = 'executing'
Release(t) ==
  row' = IF RowOf(t).state = "executing" /\ RowOf(t).execution = call[t].exec
         THEN [row EXCEPT ![Target(t)].state = "pending", ![Target(t)].execution = 0]
         ELSE row

\* Mutant: a rejection after the claim does not release it.
RecheckKeepsClaim(t) ==
  /\ At(t, "c_recheck")
  /\ IF Authority(t, level, rights) /\ KindOf[RowOf(t).content] # "missing"
     THEN Goto(t, "c_run") ELSE Return(t)
  /\ UNCHANGED <<database, process, answered>>

\* Layer 8 begins with layer 6 again, on the session as it stands now, and
\* issues the ticket, if the type has an executor at all.
ConfirmRecheck(t) ==
  /\ At(t, "c_recheck")
  /\ IF Authority(t, level, rights) /\ KindOf[RowOf(t).content] # "missing"
     THEN Goto(t, "c_run") /\ UNCHANGED row
     ELSE Release(t) /\ Return(t)
  /\ UNCHANGED <<consents, rights, audit, level, effects, claims, process, answered>>

\* What an executor may do: <<did it take effect, what it reports>>.
\* The outbox row and its execution id are one transaction; a second row for
\* the id violates the primary key, and a locked database raises as well.
OutboxRuns(a) == {<<FALSE, "raised">>} \cup
                 IF effects[a] = {} THEN {<<TRUE, "succeeded">>} ELSE {}

\* logind may refuse, be unreachable, or accept and answer too late: then the
\* exit code of busctl is not zero although the request is under way.
PowerRuns == {<<FALSE, "unavailable">>, <<TRUE, "succeeded">>}
               \cup (BOOLEAN \X {"failed", "raised"})

Runs(a) == IF KindOf[row[a].content] = "outbox" THEN OutboxRuns(a) ELSE PowerRuns

ConfirmRun(t) ==
  /\ At(t, "c_run")
  /\ \E r \in Runs(Target(t)) :
       /\ effects' = IF r[1] THEN [effects EXCEPT ![Target(t)] = @ \cup {call[t].exec}]
                             ELSE effects
       /\ call' = [call EXCEPT ![t].pc = "c_finish", ![t].report = r[2]]
  /\ UNCHANGED <<row, consents, rights, audit, level, claims, process, answered>>

\* Mutant: the executor's own word is recorded.
RecordedVerbatim(report) == report

\* The state the gate records for a report; an exception is never a success.
Recorded(report) == CASE report = "succeeded" -> "executed"
                      [] report = "failed"    -> "failed"
                      [] OTHER                -> "unknown"

\* UPDATE ... WHERE execution_id = ?, whatever the state
Finish(a, execution, state) ==
  row' = IF row[a].execution = execution
         THEN [row EXCEPT ![a].state = state] ELSE row

\* Mutant: any exception of the executor releases the claim.
FinishReleases(t) ==
  /\ At(t, "c_finish")
  /\ IF call[t].report \in {"unavailable", "raised"}
     THEN Release(t) /\ Return(t)
     ELSE Finish(Target(t), call[t].exec, Recorded(call[t].report)) /\ Goto(t, "c_audit")
  /\ UNCHANGED <<consents, rights, audit, level, effects, claims, process, answered>>

ConfirmFinish(t) ==
  /\ At(t, "c_finish")
  /\ IF call[t].report = "unavailable"
     THEN Release(t) /\ Return(t)
     ELSE Finish(Target(t), call[t].exec, Recorded(call[t].report)) /\ Goto(t, "c_audit")
  /\ UNCHANGED <<consents, rights, audit, level, effects, claims, process, answered>>

ConfirmAudit(t) ==
  LET verdict == IF call[t].report = "succeeded" THEN "PASS" ELSE "E_PARTIAL" IN
  /\ At(t, "c_audit") /\ Return(t)
  /\ audit' = audit \cup {<<Target(t), verdict>>}
  /\ answered' = answered \cup {<<Target(t), verdict>>}
  /\ UNCHANGED <<row, consents, rights, level, effects, claims, process>>

----------------------------------------------------------------------------
(* A call of the store raises (the database stayed locked for 10 seconds).  *)
(* Only the executor's exceptions are caught: the handler ends where it is. *)

StoreRaises(t) ==
  /\ ~At(t, "idle") /\ ~At(t, "c_run") /\ errors < MaxErrors
  /\ errors' = errors + 1 /\ Return(t)
  /\ UNCHANGED <<database, mode, owed, policy, crashes, answered>>

----------------------------------------------------------------------------
(* The process.  A crash loses the threads; __init__ runs recover().       *)

Crash ==
  /\ mode # "down" /\ crashes < MaxCrashes
  /\ mode' = "down" /\ owed' = {} /\ crashes' = crashes + 1
  /\ call' = [t \in Thread |-> NoCall]
  /\ UNCHANGED <<database, policy, errors, answered>>

Restart ==
  /\ mode = "down" /\ mode' = "recovering"
  /\ policy' \in {p \in policy .. policy + 1 : p <= MaxPolicy}
  /\ UNCHANGED <<database, owed, crashes, errors, call, answered>>

\* Mutant: no proof of the effect is taken for a proof of none.
ReconcileGuesses(a) ==
  IF KindOf[row[a].content] = "outbox" /\ row[a].execution \in effects[a]
  THEN "true" ELSE "false"

\* reconcile: TRUE, FALSE or None; the outbox row is proof both ways.
Reconcile(a) ==
  IF KindOf[row[a].content] # "outbox" THEN "none"
  ELSE IF effects[a] = {} THEN "false"
  ELSE IF row[a].execution \in effects[a] THEN "true" ELSE "none"

\* Mutant: what cannot be told stays executing.
RecoverSkips(a) ==
  /\ mode = "recovering" /\ owed = {} /\ row[a].state = "executing"
  /\ Reconcile(a) # "none"
  /\ row' = [row EXCEPT ![a] =
       IF Reconcile(a) = "true" THEN [@ EXCEPT !.state = "executed"]
       ELSE [@ EXCEPT !.state = "pending", !.execution = 0]]
  /\ owed' = {a}
  /\ UNCHANGED <<consents, rights, audit, level, effects, claims, mode, policy,
                 crashes, errors, call, answered>>

RecoverOne(a) ==
  /\ mode = "recovering" /\ owed = {} /\ row[a].state = "executing"
  /\ row' = [row EXCEPT ![a] =
       CASE Reconcile(a) = "true"  -> [@ EXCEPT !.state = "executed"]
         [] Reconcile(a) = "false" -> [@ EXCEPT !.state = "pending", !.execution = 0]
         [] OTHER                  -> [@ EXCEPT !.state = "unknown"]]
  /\ owed' = {a}
  /\ UNCHANGED <<consents, rights, audit, level, effects, claims, mode, policy,
                 crashes, errors, call, answered>>

RecoverAudit(a) ==
  /\ mode = "recovering" /\ a \in owed /\ owed' = {}
  /\ audit' = audit \cup {<<a, "recover">>}
  /\ UNCHANGED <<row, consents, rights, level, effects, claims, mode, policy,
                 crashes, errors, call, answered>>

Serve ==
  /\ mode = "recovering" /\ owed = {}
  /\ \A a \in Action : row[a].state # "executing"
  /\ mode' = "up"
  /\ UNCHANGED <<database, owed, policy, crashes, errors, call, answered>>

----------------------------------------------------------------------------
(* The environment.                                                        *)

\* History: who lacked authority when claiming has it again under lv and rs.
Regain(lv, rs) ==
  call' = [t \in Thread |->
             [call[t] EXCEPT !.lacking = @ /\ ~Authority(t, lv, rs)]]

\* ensure_session and update_assurance; no code deletes a session.
SetLevel(s, l) ==
  /\ l \in {"weak", "strong"} /\ l # level[s]
  /\ level' = [level EXCEPT ![s] = l]
  /\ Regain(level', rights)
  /\ UNCHANGED <<row, consents, rights, audit, effects, claims, process, answered>>

GrantRight(i, a) ==
  /\ rights' = rights \cup {<<i, a>>} /\ rights' # rights
  /\ Regain(level, rights')
  /\ UNCHANGED <<row, consents, audit, level, effects, claims, process, answered>>

\* revoke_right, or the grant's expires_at passes.
RevokeRight(i, a) ==
  /\ <<i, a>> \in rights
  /\ rights' = rights \ {<<i, a>>}
  /\ UNCHANGED <<row, consents, audit, level, effects, claims, process, call, answered>>

\* DEFAULT_CONSENT_TTL passes.
ConsentExpires(a, s) ==
  /\ consents[a][s] = "live"
  /\ consents' = [consents EXCEPT ![a][s] = "expired"]
  /\ UNCHANGED <<row, rights, audit, level, effects, claims, process, call, answered>>

----------------------------------------------------------------------------

Step(t) ==
  \/ ProposeInsert(t) \/ ProposeFind(t) \/ ProposeConsent(t)
  \/ ProposeRight(t) \/ ProposeCancel(t)
  \/ ConsentFind(t) \/ ConsentInsert(t)
  \/ ConfirmFind(t) \/ ConfirmConsent(t) \/ ConfirmRight(t)
  \/ ConfirmClaim(t) \/ ConfirmLost(t) \/ ConfirmRecheck(t)
  \/ ConfirmRun(t) \/ ConfirmFinish(t) \/ ConfirmAudit(t)

Enter(t) == \E a \in Action, s \in Session, c \in Content :
              Propose(t, a, s, c) \/ GrantConsent(t, a, s, c) \/ Confirm(t, a, s, c)

Recover == \/ Serve
           \/ \E a \in Action : RecoverOne(a) \/ RecoverAudit(a)

Environment ==
  \/ \E s \in Session, l \in Level : SetLevel(s, l)
  \/ \E i \in Identity, a \in Action : GrantRight(i, a) \/ RevokeRight(i, a)
  \/ \E a \in Action, s \in Session : ConsentExpires(a, s)

Next == \/ \E t \in Thread : Enter(t) \/ Step(t) \/ StoreRaises(t)
        \/ Crash \/ Restart \/ Recover \/ Environment

Spec == Init /\ [][Next]_vars

\* A thread is an OS thread and every wait of it is bounded (the database by
\* timeout=10, busctl by timeout=15), systemd restarts a service that died,
\* and recover() is a loop over the rows it selected.
FairSpec == /\ Spec
            /\ \A t \in Thread : WF_vars(Step(t))
            /\ WF_vars(Restart) /\ WF_vars(Recover)

----------------------------------------------------------------------------
(* Properties.                                                             *)

\* Every variable keeps its type.
TypeOK ==
  /\ row \in [Action -> Row]
  /\ consents \in [Action -> [Session -> ConsentState]]
  /\ rights \subseteq Identity \X Action
  /\ audit \subseteq Action \X Outcome
  /\ answered \subseteq Action \X {"PASS", "E_PARTIAL"}
  /\ level \in [Session -> Level]
  /\ effects \in [Action -> SUBSET Nat]
  /\ mode \in {"up", "down", "recovering"}
  /\ owed \subseteq Action
  /\ call \in [Thread -> Call]
  /\ policy \in Nat /\ crashes \in Nat /\ errors \in Nat
  /\ claims \in [Action -> Nat]

\* The state of an action is honest about the world: an action that can still
\* be confirmed (or never will be) has not happened, an executed one has, once
\* and by the execution on record, and any other has happened by no other
\* execution.  recover() and every release() in confirm rest on this.
HonestState ==
  \A a \in Action :
    /\ row[a].state \in {"absent", "pending", "cancelled"} => effects[a] = {}
    /\ row[a].state \in {"executing", "failed", "unknown"}
         => effects[a] \subseteq {row[a].execution}
    /\ row[a].state = "executed" => effects[a] = {row[a].execution}

\* What a caller was told, and what the audit says, is the recorded outcome:
\* nobody is told PASS of an action another is told E_PARTIAL of, however the
\* answers of confirm, a lost claim and an idempotent repeat interleave.
OneVerdict ==
  \A a \in Action :
    /\ <<a, "PASS">> \in answered \cup audit => row[a].state = "executed"
    /\ <<a, "E_PARTIAL">> \in answered \cup audit
         => row[a].state \in {"failed", "unknown"}

Holds(t, a) == call[t].target = a /\ call[t].pc \in {"c_recheck", "c_run", "c_finish"}

\* While the process serves, an executing action has exactly one confirm call
\* behind it, with the execution id on record; only a store call that raised
\* may leave it with none, and then it stays so until a restart.
OneHolder ==
  /\ \A t \in Thread, a \in Action : Holds(t, a) =>
       /\ row[a].state = "executing" /\ row[a].execution = call[t].exec
       /\ \A u \in Thread : Holds(u, a) => u = t
  /\ \A a \in Action :
       (mode = "up" /\ row[a].state = "executing" /\ errors = 0)
         => \E t \in Thread : Holds(t, a)

\* An effect is authorised when it happens: the thread that brings it about
\* runs what was approved, for a member of the conversation, under the policy
\* of the proposal, had authority at some moment since it claimed, and, for an
\* irreversible action, in a session of the proposer that consented to it.
AuthorisedEffect ==
  [][\A a \in Action : effects'[a] # effects[a] =>
       \E t \in Thread :
         /\ At(t, "c_run") /\ Target(t) = a /\ call[t].arg = row[a].content
         /\ Who(t) \in Members /\ row[a].bound = policy
         /\ ~call[t].lacking
         /\ NeedsConsent[row[a].content] =>
              /\ consents[a][call[t].sess] # "none"
              /\ Who(t) = row[a].proposer]_vars

\* A verdict is final, and so is a cancellation: no later call, crash or
\* recovery changes the state or makes the action happen after all.
Finality ==
  [][\A a \in Action : row[a].state \in Finished \cup {"cancelled"} =>
       row'[a].state = row[a].state /\ effects'[a] = effects[a]]_vars

\* The Gate implements its promise.
Promise == INSTANCE GatePromise WITH
  phase <- [a \in Action |-> row[a].state], done <- effects, told <- answered
KeepsPromise == Promise!Spec

\* An executing action is resolved, by its thread or by the recovery after a
\* crash, unless a store call raised and left it to the next restart.
Stranded(a) == /\ mode = "up" /\ row[a].state = "executing" /\ errors > 0
               /\ \A t \in Thread : ~Holds(t, a)
Settles ==
  \A a \in Action :
    row[a].state = "executing" ~> row[a].state # "executing" \/ Stranded(a)

\* Every call returns, also one that lost the race for the claim.
CallsReturn == \A t \in Thread : ~At(t, "idle") ~> At(t, "idle")

\* specs/GATE-KERNEL-1.0.md section 8: every decision is logged.  In a process
\* that serves, an action with a verdict has its outcome in the audit, unless
\* a thread is about to write it.  (Refuted by a crash between finish and
\* append_audit: recover() looks at executing rows only.)
ExecutedIsAudited ==
  \A a \in Action :
    (/\ mode = "up" /\ row[a].state \in Finished
     /\ \A t \in Thread : At(t, "c_audit") => Target(t) # a)
      => \E o \in Outcome : <<a, o>> \in audit

\* specs/GATE-KERNEL-1.0.md, appendix A: a timeout in the executor gives the
\* state unknown; so failed means that nothing happened.  (Refuted by
\* a reply of logind that busctl gave up waiting for.)
FailedMeansNoEffect ==
  \A a \in Action : row[a].state = "failed" => effects[a] = {}
=============================================================================
