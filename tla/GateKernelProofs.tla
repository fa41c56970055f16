-------------------------- MODULE GateKernelProofs --------------------------
(***************************************************************************)
(* Proofs about GateKernel for every number of threads, actions, sessions  *)
(* and identities, and every bound: first what the runs check, then what   *)
(* holds of the verdicts where two runs refute a stronger claim.           *)
(***************************************************************************)
EXTENDS GateKernel, TLAPS

----------------------------------------------------------------------------
(* The inductive invariant.                                                *)

\* Calls live in a serving process only.
IdleUnlessUp == mode # "up" => \A t \in Thread : call[t].pc = "idle"

\* The thread that holds an action is alone ...
SoleHolder ==
  \A t, u \in Thread, a \in Action : Holds(t, a) /\ Holds(u, a) => t = u

\* ... and knows what has happened.
HolderKnows ==
  \A t \in Thread, a \in Action : Holds(t, a) =>
    /\ row[a].state = "executing" /\ row[a].execution = call[t].exec
    /\ call[t].pc \in {"c_recheck", "c_run"} => effects[a] = {}
    /\ call[t].pc = "c_finish" =>
         /\ call[t].report = "succeeded" => effects[a] = {call[t].exec}
         /\ call[t].report = "unavailable" => effects[a] = {}

\* A finished state that a call has read, or is about to report, still stands.
ReadStands ==
  \A t \in Thread :
    /\ (/\ call[t].pc \in {"c_consent", "c_right", "c_claim"}
        /\ call[t].seen \in Finished) => row[call[t].target].state = call[t].seen
    /\ call[t].pc = "c_audit" =>
         IF call[t].report = "succeeded" THEN row[call[t].target].state = "executed"
         ELSE row[call[t].target].state \in {"failed", "unknown"}

HeldUnlessError ==
  \A a \in Action :
    (mode = "up" /\ row[a].state = "executing" /\ errors = 0)
      => \E t \in Thread : Holds(t, a)

IInv == /\ TypeOK /\ IdleUnlessUp /\ SoleHolder /\ HolderKnows
        /\ ReadStands /\ HeldUnlessError /\ HonestState /\ OneVerdict
----------------------------------------------------------------------------
(* Types.                                                                  *)

USE ConstantsAssumption, NonEmptyAssumption

\* The defaults of a call and of a row have their types.
LEMMA DefaultTypes == NoCall \in Call /\ NoRow \in Row
<1>1. /\ AnyAction \in Action /\ AnySession \in Session
      /\ AnyContent \in Content /\ AnyIdentity \in Identity
  BY DEF AnyAction, AnySession, AnyContent, AnyIdentity
<1> QED BY <1>1 DEF NoCall, NoRow, Call, Row, State, Label, Level, Report

\* What the fields of a call and of a row range over.
LEMMA CallFields ==
  ASSUME NEW c \in Call
  PROVE  /\ c.target \in Action /\ c.sess \in Session /\ c.arg \in Content
         /\ c.exec \in Nat /\ c.report \in Report /\ c.seen \in State
         /\ c.actor \in Level /\ c.pc \in Label
BY DEF Call

\* The updates of a call that the actions make.
LEMMA CallUpdates ==
  ASSUME NEW c \in Call, NEW l \in Label
  PROVE  /\ [c EXCEPT !.pc = l] \in Call
         /\ [c EXCEPT !.pc = l, !.actor = "none"] \in Call
         /\ \A s \in State : [c EXCEPT !.pc = l, !.seen = s] \in Call
         /\ \A r \in Report : [c EXCEPT !.pc = l, !.report = r] \in Call
         /\ \A n \in Nat, b \in BOOLEAN :
              [c EXCEPT !.pc = l, !.exec = n, !.lacking = b] \in Call
         /\ \A b \in BOOLEAN : [c EXCEPT !.lacking = b] \in Call
         /\ \A a \in Action, s \in Session, x \in Content, v \in Level :
              [NoCall EXCEPT !.pc = l, !.target = a, !.sess = s, !.arg = x,
                             !.actor = v] \in Call
BY DefaultTypes DEF Call, Level

\* The updates of a row that the actions make.
LEMMA RowUpdates ==
  ASSUME NEW r \in Row, NEW s \in State, NEW n \in Nat
  PROVE  /\ [r EXCEPT !.state = s] \in Row
         /\ [r EXCEPT !.state = s, !.execution = n] \in Row
BY DEF Row

\* Moving on and returning keep the calls well typed.
LEMMA CallMoves ==
  ASSUME call \in [Thread -> Call], NEW t \in Thread,
         Return(t) \/ \E l \in Label : Goto(t, l)
  PROVE  call' \in [Thread -> Call]
<1>1. CASE Return(t)
  BY <1>1, DefaultTypes DEF Return
<1>2. ASSUME NEW l \in Label, Goto(t, l) PROVE call' \in [Thread -> Call]
  BY <1>2, CallUpdates DEF Goto
<1> QED BY <1>1, <1>2

\* So does what finish() and release() write.
LEMMA RowWrites ==
  ASSUME TypeOK, NEW t \in Thread, NEW s \in State,
         Release(t) \/ Finish(Target(t), call[t].exec, s)
  PROVE  row' \in [Action -> Row]
<1>1. call[t].target \in Action
  BY CallFields DEF TypeOK
<1>2. /\ "pending" \in State /\ 0 \in Nat
  BY DEF State
<1>3. CASE Release(t)
  BY <1>1, <1>2, <1>3, RowUpdates DEF TypeOK, Release, Target, RowOf
<1>4. CASE Finish(Target(t), call[t].exec, s)
  BY <1>1, <1>4, RowUpdates DEF TypeOK, Finish, Target
<1> QED BY <1>3, <1>4

\* A step of propose or grant_consent keeps the types.
LEMMA RequestTypes ==
  ASSUME TypeOK, NEW t \in Thread,
         \/ ProposeInsert(t) \/ ProposeFind(t) \/ ProposeConsent(t)
         \/ ProposeRight(t) \/ ProposeCancel(t) \/ ConsentFind(t) \/ ConsentInsert(t)
  PROVE  TypeOK'
<1> DEFINE a == call[t].target
<1>a. call[t] \in Call /\ a \in Action /\ call[t].sess \in Session /\ call[t].arg \in Content
  BY CallFields DEF TypeOK
<1>b. Who(t) \in Identity
  BY <1>a DEF Who
<1>1. CASE ProposeInsert(t)
  <2>1. call' \in [Thread -> Call]
    BY <1>1, CallMoves DEF ProposeInsert, TypeOK, Label
  <2>2. row' \in [Action -> Row]
    <3>1. [state |-> "pending", execution |-> 0, content |-> call[t].arg,
           proposer |-> Who(t), bound |-> policy] \in Row
      BY <1>a, <1>b DEF Row, State, TypeOK
    <3> QED BY <1>1, <3>1 DEF ProposeInsert, TypeOK, Target
  <2> QED BY <1>1, <2>1, <2>2 DEF ProposeInsert, TypeOK, process
<1>2. CASE ProposeFind(t)
  <2>1. call' \in [Thread -> Call]
    BY <1>2, CallMoves DEF ProposeFind, TypeOK, Label
  <2>2. answered' \subseteq Action \X {"PASS", "E_PARTIAL"}
    BY <1>2, <1>a DEF ProposeFind, Existing, VerdictOf, TypeOK, Target
  <2> QED BY <1>2, <2>1, <2>2 DEF ProposeFind, TypeOK, process, database
<1>3. CASE ProposeConsent(t)
  <2>1. call' \in [Thread -> Call]
    BY <1>3, CallMoves DEF ProposeConsent, TypeOK, Label
  <2> QED BY <1>3, <2>1 DEF ProposeConsent, TypeOK, process, database
<1>4. CASE ProposeRight(t)
  <2>1. call' \in [Thread -> Call]
    BY <1>4, CallMoves DEF ProposeRight, TypeOK, Label
  <2> QED BY <1>4, <2>1 DEF ProposeRight, TypeOK, process, database
<1>5. CASE ProposeCancel(t)
  <2>1. call' \in [Thread -> Call]
    BY <1>5, CallMoves DEF ProposeCancel, TypeOK
  <2>2. row' \in [Action -> Row]
    <3>1. "cancelled" \in State /\ 0 \in Nat
      BY DEF State
    <3> QED BY <1>5, <1>a, <3>1, RowUpdates DEF ProposeCancel, TypeOK, Target
  <2> QED BY <1>5, <2>1, <2>2 DEF ProposeCancel, TypeOK, process
<1>6. CASE ConsentFind(t)
  <2>1. call' \in [Thread -> Call]
    BY <1>6, CallMoves DEF ConsentFind, TypeOK, Label
  <2> QED BY <1>6, <2>1 DEF ConsentFind, TypeOK, process, database
<1>7. CASE ConsentInsert(t)
  <2>1. call' \in [Thread -> Call]
    BY <1>7, CallMoves DEF ConsentInsert, TypeOK
  <2>2. consents' \in [Action -> [Session -> ConsentState]]
    BY <1>7, <1>a DEF ConsentInsert, TypeOK, ConsentState, Target
  <2> QED BY <1>7, <2>1, <2>2 DEF ConsentInsert, TypeOK, process
<1> QED BY <1>1, <1>2, <1>3, <1>4, <1>5, <1>6, <1>7

\* What an executor may do: an effect or none, and a report.
LEMMA RunsTypes ==
  \A a \in Action : \A r \in Runs(a) :
    /\ r[1] \in BOOLEAN /\ r[2] \in Report
    /\ r[2] = "succeeded" => r[1] = TRUE
    /\ r[2] = "unavailable" => r[1] = FALSE
<1>1. ASSUME NEW a \in Action, NEW r \in Runs(a)
      PROVE  \/ r \in BOOLEAN \X {"failed", "raised"}
             \/ r = <<FALSE, "unavailable">> \/ r = <<TRUE, "succeeded">>
  <2>1. <<FALSE, "raised">> \in BOOLEAN \X {"failed", "raised"}
    OBVIOUS
  <2>2. OutboxRuns(a) \subseteq {<<FALSE, "raised">>, <<TRUE, "succeeded">>}
    BY Zenon DEF OutboxRuns
  <2> QED BY <2>1, <2>2, Zenon DEF Runs, PowerRuns
<1>2. \A r \in BOOLEAN \X {"failed", "raised"} :
        r[1] \in BOOLEAN /\ r[2] \in {"failed", "raised"}
  OBVIOUS
<1>3. /\ <<FALSE, "unavailable">>[1] = FALSE /\ <<FALSE, "unavailable">>[2] = "unavailable"
      /\ <<TRUE, "succeeded">>[1] = TRUE /\ <<TRUE, "succeeded">>[2] = "succeeded"
  OBVIOUS
<1>4. {"failed", "raised", "unavailable", "succeeded"} \subseteq Report
  BY DEF Report
<1>5. ASSUME NEW a \in Action, NEW r \in Runs(a)
      PROVE  /\ r[1] \in BOOLEAN /\ r[2] \in Report
             /\ r[2] = "succeeded" => r[1] = TRUE
             /\ r[2] = "unavailable" => r[1] = FALSE
  <2>1. CASE r \in BOOLEAN \X {"failed", "raised"}
    BY <2>1, <1>2, <1>4
  <2>2. CASE r = <<FALSE, "unavailable">>
    BY <2>2, <1>3, <1>4, Zenon
  <2>3. CASE r = <<TRUE, "succeeded">>
    BY <2>3, <1>3, <1>4, Zenon
  <2> QED BY <1>1, <2>1, <2>2, <2>3
<1> QED BY <1>5

\* A step of confirm keeps the types.
LEMMA ConfirmTypes ==
  ASSUME TypeOK, NEW t \in Thread,
         \/ ConfirmFind(t) \/ ConfirmConsent(t) \/ ConfirmRight(t)
         \/ ConfirmClaim(t) \/ ConfirmLost(t) \/ ConfirmRecheck(t)
         \/ ConfirmRun(t) \/ ConfirmFinish(t) \/ ConfirmAudit(t)
  PROVE  TypeOK'
<1> DEFINE a == call[t].target
<1>a. call[t] \in Call /\ a \in Action /\ call[t].exec \in Nat
  BY CallFields DEF TypeOK
<1>b. row[a] \in Row /\ row[a].state \in State
  BY <1>a DEF TypeOK, Row
<1>1. CASE ConfirmFind(t)
  <2>1. call' \in [Thread -> Call]
    <3>1. CASE Return(t)
      BY <3>1, CallMoves DEF TypeOK
    <3>2. CASE call' = [call EXCEPT ![t].pc = "c_consent", ![t].seen = RowOf(t).state]
      <4>1. [call[t] EXCEPT !.pc = "c_consent", !.seen = RowOf(t).state] \in Call
        BY <1>a, <1>b, CallUpdates DEF RowOf, Label
      <4> QED BY <3>2, <4>1 DEF TypeOK
    <3> QED BY <1>1, <3>1, <3>2 DEF ConfirmFind
  <2> QED BY <1>1, <2>1 DEF ConfirmFind, TypeOK, process, database
<1>2. CASE ConfirmConsent(t)
  <2>1. call' \in [Thread -> Call]
    BY <1>2, CallMoves DEF ConfirmConsent, TypeOK, Label
  <2> QED BY <1>2, <2>1 DEF ConfirmConsent, TypeOK, process, database
<1>3. CASE ConfirmRight(t)
  <2>1. call' \in [Thread -> Call]
    <3>1. CASE Return(t)
      BY <3>1, CallMoves DEF TypeOK
    <3>2. CASE call' = [call EXCEPT ![t].pc = "c_claim", ![t].actor = "none"]
      <4>1. [call[t] EXCEPT !.pc = "c_claim", !.actor = "none"] \in Call
        BY <1>a, CallUpdates DEF Label
      <4> QED BY <3>2, <4>1 DEF TypeOK
    <3> QED BY <1>3, <3>1, <3>2 DEF ConfirmRight
  <2> QED BY <1>3, <2>1 DEF ConfirmRight, TypeOK, process, database
<1>4. CASE ConfirmClaim(t)
  <2>1. CASE Claim(t)
    <3> DEFINE n == claims[a] + 1
    <3>1. n \in Nat /\ "executing" \in State /\ Authority(t, level, rights) \in BOOLEAN
      BY <1>a DEF TypeOK, State, Authority
    <3>2. call' \in [Thread -> Call]
      <4>1. "c_recheck" \in Label
        BY DEF Label
      <4>2. \A b \in BOOLEAN :
              [call[t] EXCEPT !.pc = "c_recheck", !.exec = n, !.lacking = b] \in Call
        BY <1>a, <3>1, <4>1, CallUpdates
      <4>3. PICK b \in BOOLEAN : call' = [call EXCEPT ![t] =
              [call[t] EXCEPT !.pc = "c_recheck", !.exec = n, !.lacking = b]]
        BY <2>1 DEF Claim, Target
      <4> QED BY <4>2, <4>3 DEF TypeOK
    <3>3. row' \in [Action -> Row]
      <4>1. [row[a] EXCEPT !.state = "executing", !.execution = n] \in Row
        BY <1>b, <3>1, RowUpdates
      <4> QED BY <2>1, <4>1 DEF Claim, TypeOK, Target
    <3>4. claims' \in [Action -> Nat] /\ answered' \subseteq Action \X {"PASS", "E_PARTIAL"}
      BY <1>4, <2>1, <1>a, <3>1 DEF ConfirmClaim, Claim, Existing, VerdictOf, TypeOK, Target
    <3> QED BY <1>4, <3>2, <3>3, <3>4 DEF ConfirmClaim, TypeOK, process
  <2>2. CASE UNCHANGED <<row, claims>> /\ (Return(t) \/ Goto(t, "c_lost"))
    <3>1. call' \in [Thread -> Call]
      BY <2>2, CallMoves DEF TypeOK, Label
    <3>2. answered' \subseteq Action \X {"PASS", "E_PARTIAL"}
      BY <1>4, <1>a DEF ConfirmClaim, Existing, VerdictOf, TypeOK, Target
    <3> QED BY <1>4, <2>2, <3>1, <3>2 DEF ConfirmClaim, TypeOK, process
  <2> QED BY <1>4, <2>1, <2>2 DEF ConfirmClaim
<1>5. CASE ConfirmLost(t)
  <2>1. call' \in [Thread -> Call]
    BY <1>5, CallMoves DEF ConfirmLost, TypeOK
  <2>2. answered' \subseteq Action \X {"PASS", "E_PARTIAL"}
    BY <1>5, <1>a DEF ConfirmLost, Existing, VerdictOf, TypeOK, Target
  <2> QED BY <1>5, <2>1, <2>2 DEF ConfirmLost, TypeOK, process, database
<1>6. CASE ConfirmRecheck(t)
  <2>1. call' \in [Thread -> Call]
    BY <1>6, CallMoves DEF ConfirmRecheck, TypeOK, Label
  <2>2. row' \in [Action -> Row]
    BY <1>6, RowWrites DEF ConfirmRecheck, TypeOK, State
  <2> QED BY <1>6, <2>1, <2>2 DEF ConfirmRecheck, TypeOK, process
<1>7. CASE ConfirmRun(t)
  <2>1. PICK r \in Runs(a) :
          /\ effects' = IF r[1] THEN [effects EXCEPT ![a] = @ \cup {call[t].exec}] ELSE effects
          /\ call' = [call EXCEPT ![t].pc = "c_finish", ![t].report = r[2]]
    BY <1>7 DEF ConfirmRun, Target
  <2>2. r[2] \in Report
    BY <1>a, RunsTypes
  <2>3. call' \in [Thread -> Call]
    <3>0. "c_finish" \in Label
      BY DEF Label
    <3>1. [call[t] EXCEPT !.pc = "c_finish", !.report = r[2]] \in Call
      BY <1>a, <2>2, <3>0, CallUpdates
    <3> QED BY <2>1, <3>1 DEF TypeOK
  <2>4. effects' \in [Action -> SUBSET Nat]
    BY <2>1, <1>a DEF TypeOK
  <2> QED BY <1>7, <2>3, <2>4 DEF ConfirmRun, TypeOK, process
<1>8. CASE ConfirmFinish(t)
  <2>1. call' \in [Thread -> Call]
    BY <1>8, CallMoves DEF ConfirmFinish, TypeOK, Label
  <2>2. row' \in [Action -> Row]
    <3>1. Recorded(call[t].report) \in State
      BY DEF Recorded, State
    <3> QED BY <1>8, <3>1, RowWrites DEF ConfirmFinish
  <2> QED BY <1>8, <2>1, <2>2 DEF ConfirmFinish, TypeOK, process
<1>9. CASE ConfirmAudit(t)
  <2>1. call' \in [Thread -> Call]
    BY <1>9, CallMoves DEF ConfirmAudit, TypeOK
  <2>2. /\ answered' \subseteq Action \X {"PASS", "E_PARTIAL"}
        /\ audit' \subseteq Action \X Outcome
    BY <1>9, <1>a DEF ConfirmAudit, Outcome, TypeOK, Target
  <2> QED BY <1>9, <2>1, <2>2 DEF ConfirmAudit, TypeOK, process
<1> QED BY <1>1, <1>2, <1>3, <1>4, <1>5, <1>6, <1>7, <1>8, <1>9

\* Nor does the history variable disturb them.
LEMMA RegainTypes ==
  ASSUME call \in [Thread -> Call], NEW lv, NEW rs, Regain(lv, rs)
  PROVE  call' \in [Thread -> Call]
<1>1. ASSUME NEW t \in Thread PROVE call'[t] \in Call
  <2>1. \A b \in BOOLEAN : [call[t] EXCEPT !.lacking = b] \in Call
    BY DEF Call
  <2>2. PICK b \in BOOLEAN : call'[t] = [call[t] EXCEPT !.lacking = b]
    BY DEF Regain
  <2> QED BY <2>1, <2>2
<1> QED BY <1>1 DEF Regain

\* Every step keeps the types.
LEMMA StepTypes == TypeOK /\ [Next]_vars => TypeOK'
<1> SUFFICES ASSUME TypeOK, [Next]_vars PROVE TypeOK'
  OBVIOUS
<1> USE DefaultTypes
<1>1. ASSUME NEW t \in Thread, Step(t) PROVE TypeOK'
  BY <1>1, RequestTypes, ConfirmTypes DEF Step
<1>2. ASSUME NEW t \in Thread, Enter(t) PROVE TypeOK'
  <2>1. PICK a \in Action, s \in Session, c \in Content, l \in Label : Begin(t, a, s, c, l)
    BY <1>2 DEF Enter, Propose, GrantConsent, Confirm, Label
  <2>2. [NoCall EXCEPT !.pc = l, !.target = a, !.sess = s, !.arg = c,
                       !.actor = level[s]] \in Call
    BY CallUpdates DEF TypeOK
  <2> QED BY <2>1, <2>2 DEF Begin, TypeOK, database, process
<1>3. ASSUME NEW t \in Thread, StoreRaises(t) PROVE TypeOK'
  BY <1>3 DEF StoreRaises, Return, TypeOK, Call, database
<1>4. CASE Crash
  BY <1>4 DEF Crash, TypeOK, Call, database
<1>5. CASE Restart
  BY <1>5 DEF Restart, TypeOK, database
<1>6. CASE Recover
  <2>1. CASE Serve
    BY <2>1 DEF Serve, TypeOK, database
  <2>2. ASSUME NEW a \in Action, RecoverOne(a) PROVE TypeOK'
    BY <2>2 DEF RecoverOne, TypeOK, Row, State
  <2>3. ASSUME NEW a \in Action, RecoverAudit(a) PROVE TypeOK'
    BY <2>3 DEF RecoverAudit, TypeOK, Outcome
  <2> QED BY <1>6, <2>1, <2>2, <2>3 DEF Recover
<1>7. CASE Environment
  <2>1. ASSUME NEW s \in Session, NEW l \in Level, SetLevel(s, l) PROVE TypeOK'
    BY <2>1, RegainTypes DEF SetLevel, TypeOK, Level, process
  <2>2. ASSUME NEW i \in Identity, NEW a \in Action, GrantRight(i, a) PROVE TypeOK'
    BY <2>2, RegainTypes DEF GrantRight, TypeOK, process
  <2>3. ASSUME NEW i \in Identity, NEW a \in Action, RevokeRight(i, a) PROVE TypeOK'
    BY <2>3 DEF RevokeRight, TypeOK, process
  <2>4. ASSUME NEW a \in Action, NEW s \in Session, ConsentExpires(a, s) PROVE TypeOK'
    BY <2>4 DEF ConsentExpires, TypeOK, ConsentState, process
  <2> QED BY <1>7, <2>1, <2>2, <2>3, <2>4 DEF Environment
<1>8. CASE UNCHANGED vars
  BY <1>8 DEF vars, TypeOK
<1> QED BY <1>1, <1>2, <1>3, <1>4, <1>5, <1>6, <1>7, <1>8 DEF Next

\* Every variable keeps its type, whatever the instance.
THEOREM TypeCorrect == Spec => []TypeOK
<1>1. Init => TypeOK
  BY DefaultTypes DEF Init, TypeOK, ConsentState, Level
<1> QED BY <1>1, StepTypes, PTL DEF Spec

----------------------------------------------------------------------------
(* The inductive invariant is inductive.                                   *)

Holding == {"c_recheck", "c_run", "c_finish"}
Reading == {"c_consent", "c_right", "c_claim"}

\* Only t moves.
Others(t) == \A u \in Thread \ {t} : call'[u] = call[u]

\* Returning and moving on, seen from the outside.
LEMMA Returned ==
  ASSUME TypeOK, NEW t \in Thread, Return(t)
  PROVE  call'[t].pc = "idle" /\ Others(t)
BY DEF TypeOK, Return, NoCall, Others

LEMMA Moved ==
  ASSUME TypeOK, NEW t \in Thread, NEW l \in Label, Goto(t, l)
  PROVE  /\ call'[t].pc = l /\ Others(t)
         /\ call'[t].target = call[t].target /\ call'[t].seen = call[t].seen
         /\ call'[t].exec = call[t].exec /\ call'[t].report = call[t].report
         /\ call'[t].sess = call[t].sess /\ call'[t].arg = call[t].arg
         /\ call'[t].lacking = call[t].lacking
BY DEF TypeOK, Goto, Call, Others

\* A step of a thread that holds nothing and writes nothing keeps the
\* invariant, if what it has read and what it tells still stands.
LEMMA QuietStep ==
  ASSUME IInv, NEW t \in Thread, TypeOK', OneVerdict', Others(t),
         mode = "up", UNCHANGED <<row, effects, mode, errors>>,
         call[t].pc \notin Holding, call'[t].pc \notin Holding \cup {"c_audit"},
         (call'[t].pc \in Reading /\ call'[t].seen \in Finished)
           => row[call'[t].target].state = call'[t].seen
  PROVE  IInv'
<1> USE DEF IInv, Holding, Reading
<1>1. IdleUnlessUp'
  BY DEF IdleUnlessUp
<1>2. \A u \in Thread, a \in Action : Holds(u, a)' => Holds(u, a) /\ call'[u] = call[u]
  BY DEF Holds, Others
<1>3. SoleHolder' /\ HolderKnows'
  BY <1>2 DEF SoleHolder, HolderKnows
<1>4. ReadStands'
  BY DEF ReadStands, Others
<1>5. HeldUnlessError'
  BY DEF HeldUnlessError, Holds, Others
<1>6. HonestState'
  BY DEF HonestState
<1> QED BY <1>1, <1>3, <1>4, <1>5, <1>6

\* A call in progress means a process that serves.
LEMMA BusyMeansUp ==
  ASSUME IInv, NEW t \in Thread, call[t].pc # "idle"
  PROVE  mode = "up"
BY DEF IInv, IdleUnlessUp

\* A thread that only moves on or returns is quiet.
LEMMA QuietMove ==
  ASSUME IInv, TypeOK', NEW t \in Thread, UNCHANGED <<row, effects, mode, errors>>,
         call[t].pc \notin Holding \cup {"idle"}, OneVerdict',
         \/ Return(t)
         \/ \E l \in Label \ (Holding \cup {"c_audit"}) :
              Goto(t, l) /\ (l \in Reading => call[t].pc \in Reading)
  PROVE  IInv'
<1>1. mode = "up"
  BY BusyMeansUp
<1>2. CASE Return(t)
  BY <1>1, <1>2, Returned, QuietStep DEF IInv, Holding, Reading
<1>3. ASSUME NEW l \in Label \ (Holding \cup {"c_audit"}), Goto(t, l),
             l \in Reading => call[t].pc \in Reading
      PROVE  IInv'
  <2>1. (l \in Reading /\ call[t].seen \in Finished)
          => row[call[t].target].state = call[t].seen
    BY <1>3 DEF IInv, ReadStands, Reading
  <2> QED BY <1>1, <1>3, <2>1, Moved, QuietStep DEF IInv
<1> QED BY <1>2, <1>3

\* Telling what is recorded keeps OneVerdict.
LEMMA TellRecorded ==
  ASSUME IInv, NEW t \in Thread, NEW state \in State,
         Existing(t, state), UNCHANGED <<row, audit>>,
         state \in Finished => row[Target(t)].state = state
  PROVE  OneVerdict'
<1>1. ASSUME NEW o \in VerdictOf(state)
      PROVE  IF o = "PASS" THEN row[Target(t)].state = "executed"
             ELSE row[Target(t)].state \in {"failed", "unknown"} /\ o = "E_PARTIAL"
  BY <1>1 DEF VerdictOf, Finished
<1> QED BY <1>1 DEF Existing, OneVerdict, IInv

\* What others have read stands when an unfinished action changes.
LEMMA ReadFrame ==
  ASSUME TypeOK, ReadStands, NEW t \in Thread, NEW a \in Action, Others(t),
         row[a].state \notin Finished, \A b \in Action \ {a} : row'[b] = row[b],
         \/ call'[t].pc \notin Reading \cup {"c_audit"}
         \/ /\ call'[t].pc = "c_audit" /\ call'[t].target = a
            /\ IF call'[t].report = "succeeded" THEN row'[a].state = "executed"
               ELSE row'[a].state \in {"failed", "unknown"}
  PROVE  ReadStands'
<1>1. ASSUME NEW u \in Thread \ {t}
      PROVE  /\ call'[u] = call[u] /\ call[u].target \in Action
             /\ call[u].pc = "c_audit" => call[u].target # a
             /\ call[u].pc \in Reading /\ call[u].seen \in Finished => call[u].target # a
  BY CallFields DEF Others, TypeOK, ReadStands, Finished, Reading
<1>2. ASSUME NEW u \in Thread
      PROVE  /\ (/\ call'[u].pc \in Reading
                 /\ call'[u].seen \in Finished) => row'[call'[u].target].state = call'[u].seen
             /\ call'[u].pc = "c_audit" =>
                  IF call'[u].report = "succeeded" THEN row'[call'[u].target].state = "executed"
                  ELSE row'[call'[u].target].state \in {"failed", "unknown"}
  <2>1. CASE u = t
    BY <2>1 DEF Reading
  <2>2. CASE u # t
    BY <1>1, <2>2 DEF ReadStands, Reading
  <2> QED BY <2>1, <2>2
<1> QED BY <1>2 DEF ReadStands, Reading

\* Opening or withdrawing an action that nobody executes is quiet, too.
LEMMA OpenOrWithdraw ==
  ASSUME IInv, TypeOK', NEW t \in Thread, NEW a \in Action, Others(t), mode = "up",
         UNCHANGED <<effects, mode, errors, audit, answered>>,
         call[t].pc \notin Holding, call'[t].pc \notin Holding \cup Reading \cup {"c_audit"},
         row[a].state \in {"absent", "pending"}, row'[a].state \in {"pending", "cancelled"},
         \A b \in Action \ {a} : row'[b] = row[b]
  PROVE  IInv'
<1> USE DEF IInv, Holding, Reading
<1>1. \A u \in Thread, b \in Action : Holds(u, b)' => Holds(u, b) /\ call'[u] = call[u]
  BY DEF Holds, Others
<1>2. \A u \in Thread : ~Holds(u, a)
  BY DEF HolderKnows
<1>3. SoleHolder' /\ HolderKnows'
  BY <1>1, <1>2 DEF SoleHolder, HolderKnows
<1>4. IdleUnlessUp'
  BY DEF IdleUnlessUp
<1>5. ReadStands'
  BY ReadFrame DEF Finished
<1>6. HeldUnlessError'
  BY DEF HeldUnlessError, Holds, Others
<1>7. HonestState'
  BY DEF HonestState
<1>8. OneVerdict'
  BY DEF OneVerdict
<1> QED BY <1>3, <1>4, <1>5, <1>6, <1>7, <1>8

\* The steps of propose and grant_consent.
LEMMA RequestSteps ==
  ASSUME IInv, TypeOK', NEW t \in Thread,
         \/ ProposeInsert(t) \/ ProposeFind(t) \/ ProposeConsent(t)
         \/ ProposeRight(t) \/ ProposeCancel(t) \/ ConsentFind(t) \/ ConsentInsert(t)
  PROVE  IInv'
<1> USE DEF At, Holding, Reading
<1>a. TypeOK /\ call[t].target \in Action /\ row[call[t].target].state \in State
  BY CallFields DEF IInv, TypeOK, Row
<1>b. UNCHANGED <<row, answered, audit>> => OneVerdict'
  BY DEF OneVerdict, IInv
<1>1. CASE ProposeInsert(t)
  <2>1. CASE UNCHANGED row
    BY <1>1, <1>b, <2>1, QuietMove DEF ProposeInsert, process, Label
  <2>2. CASE row[call[t].target].state = "absent" /\ Goto(t, "p_find")
             /\ row' = [row EXCEPT ![Target(t)] =
                  [state |-> "pending", execution |-> 0, content |-> call[t].arg,
                   proposer |-> Who(t), bound |-> policy]]
    <3>1. /\ row'[call[t].target].state = "pending"
          /\ \A b \in Action \ {call[t].target} : row'[b] = row[b]
      BY <1>a, <2>2 DEF TypeOK, Target
    <3>2. call'[t].pc = "p_find" /\ Others(t)
      BY <1>a, <2>2, Moved DEF Label
    <3> QED BY <1>1, <1>a, <2>2, <3>1, <3>2, BusyMeansUp, OpenOrWithdraw
            DEF ProposeInsert, process
  <2> QED BY <1>1, <2>1, <2>2 DEF ProposeInsert, RowOf
<1>2. CASE ProposeFind(t)
  <2>1. OneVerdict'
    <3>1. CASE UNCHANGED answered
      BY <1>2, <1>b, <3>1 DEF ProposeFind, database
    <3>2. CASE Existing(t, RowOf(t).state)
      BY <1>2, <1>a, <3>2, TellRecorded DEF ProposeFind, database, RowOf, Target
    <3> QED BY <1>2, <3>1, <3>2 DEF ProposeFind
  <2> QED BY <1>2, <2>1, QuietMove DEF ProposeFind, process, database, Label
<1>3. CASE ProposeConsent(t)
  BY <1>3, <1>b, QuietMove DEF ProposeConsent, process, database, Label
<1>4. CASE ProposeRight(t)
  BY <1>4, <1>b, QuietMove DEF ProposeRight, process, database, Label
<1>5. CASE ProposeCancel(t)
  <2>1. CASE UNCHANGED row
    BY <1>5, <1>b, <2>1, QuietMove DEF ProposeCancel, process
  <2>2. CASE row[call[t].target].state = "pending"
             /\ row' = [row EXCEPT ![Target(t)].state = "cancelled"]
    <3>1. /\ row'[call[t].target].state = "cancelled"
          /\ \A b \in Action \ {call[t].target} : row'[b] = row[b]
      BY <1>a, <2>2 DEF TypeOK, Target, Row
    <3>2. call'[t].pc = "idle" /\ Others(t)
      BY <1>5, <1>a, Returned DEF ProposeCancel
    <3> QED BY <1>5, <1>a, <2>2, <3>1, <3>2, BusyMeansUp, OpenOrWithdraw
            DEF ProposeCancel, process
  <2> QED BY <1>5, <2>1, <2>2 DEF ProposeCancel, RowOf
<1>6. CASE ConsentFind(t)
  BY <1>6, <1>b, QuietMove DEF ConsentFind, process, database, Label
<1>7. CASE ConsentInsert(t)
  BY <1>7, <1>b, QuietMove DEF ConsentInsert, process
<1> QED BY <1>1, <1>2, <1>3, <1>4, <1>5, <1>6, <1>7

\* The claim: nobody held the action, and nothing had happened.
LEMMA ClaimStep ==
  ASSUME IInv, TypeOK', NEW t \in Thread, At(t, "c_claim"), Claim(t),
         UNCHANGED <<effects, mode, errors, audit, answered>>
  PROVE  IInv'
<1> DEFINE a == call[t].target
<1> USE DEF IInv
<1>1. /\ a \in Action /\ row[a].state = "pending" /\ mode = "up"
  BY CallFields, BusyMeansUp DEF TypeOK, Claim, RowOf, At
<1>2. /\ Others(t) /\ call'[t].pc = "c_recheck" /\ call'[t].target = a
      /\ call'[t].exec = claims[a] + 1
  BY DEF Claim, Others, TypeOK, Call, Target
<1>3. /\ row'[a].state = "executing" /\ row'[a].execution = claims[a] + 1
      /\ \A b \in Action \ {a} : row'[b] = row[b]
  BY <1>1 DEF Claim, TypeOK, Row, Target
<1>4. effects[a] = {} /\ \A u \in Thread : ~Holds(u, a)
  BY <1>1 DEF HonestState, HolderKnows
<1>5. \A u \in Thread, b \in Action : Holds(u, b)' =>
        \/ u # t /\ b # a /\ Holds(u, b) /\ call'[u] = call[u]
        \/ u = t /\ b = a
  BY <1>2, <1>4 DEF Holds, Others
<1>6. SoleHolder'
  BY <1>5 DEF SoleHolder
<1>7. HolderKnows'
  BY <1>2, <1>3, <1>4, <1>5 DEF HolderKnows
<1>8. IdleUnlessUp' /\ HeldUnlessError'
  BY <1>1, <1>2, <1>3 DEF IdleUnlessUp, HeldUnlessError, Holds, Others
<1>9. ReadStands'
  BY <1>1, <1>2, <1>3, ReadFrame DEF Finished, Reading
<1>10. HonestState'
  BY <1>3, <1>4 DEF HonestState
<1>11. OneVerdict'
  BY <1>1, <1>3 DEF OneVerdict
<1> QED BY <1>6, <1>7, <1>8, <1>9, <1>10, <1>11

\* A holder that gives the action back, or records how the execution ended,
\* leaves it in a state that fits what happened.
LEMMA HolderLeaves ==
  ASSUME IInv, TypeOK', NEW t \in Thread, NEW a \in Action, Holds(t, a),
         Others(t), call'[t].target = a \/ call'[t].pc = "idle",
         UNCHANGED <<effects, mode, errors, audit, answered>>,
         \A b \in Action \ {a} : row'[b] = row[b],
         \/ /\ row'[a].state = "pending" /\ effects[a] = {} /\ call'[t].pc = "idle"
         \/ /\ row'[a].state \in Finished /\ row'[a].execution = row[a].execution
            /\ row'[a].state = "executed" => effects[a] = {row[a].execution}
            /\ call'[t].pc = "c_audit"
            /\ IF call'[t].report = "succeeded" THEN row'[a].state = "executed"
               ELSE row'[a].state \in {"failed", "unknown"}
  PROVE  IInv'
<1> USE DEF IInv
<1>1. mode = "up" /\ row[a].state = "executing"
  BY BusyMeansUp DEF Holds, HolderKnows
<1>2. \A u \in Thread, b \in Action : Holds(u, b)' =>
        u # t /\ b # a /\ Holds(u, b) /\ call'[u] = call[u]
  BY DEF Holds, Others, SoleHolder
<1>3. SoleHolder' /\ HolderKnows'
  BY <1>2 DEF SoleHolder, HolderKnows
<1>4. IdleUnlessUp' /\ HeldUnlessError'
  BY <1>1 DEF IdleUnlessUp, HeldUnlessError, Holds, Others, Finished
<1>5. ReadStands'
  BY <1>1, ReadFrame DEF Finished, Reading
<1>6. HonestState'
  BY <1>1 DEF HonestState, Finished
<1>7. OneVerdict'
  BY <1>1 DEF OneVerdict
<1> QED BY <1>3, <1>4, <1>5, <1>6, <1>7

\* A holder that goes on holding.
LEMMA HolderStays ==
  ASSUME IInv, TypeOK', NEW t \in Thread, NEW a \in Action, Holds(t, a), Others(t),
         UNCHANGED <<row, mode, errors, audit, answered>>,
         \A b \in Action \ {a} : effects'[b] = effects[b],
         call'[t].target = a, call'[t].exec = call[t].exec, effects[a] = {},
         \/ call'[t].pc = "c_run" /\ effects'[a] = {}
         \/ /\ call'[t].pc = "c_finish" /\ effects'[a] \subseteq {call[t].exec}
            /\ call'[t].report = "succeeded" => effects'[a] = {call[t].exec}
            /\ call'[t].report = "unavailable" => effects'[a] = {}
  PROVE  IInv'
<1> USE DEF IInv
<1>1. mode = "up" /\ row[a].state = "executing" /\ row[a].execution = call[t].exec
  BY BusyMeansUp DEF Holds, HolderKnows
<1>2. \A u \in Thread, b \in Action : Holds(u, b)' =>
        \/ u # t /\ b # a /\ Holds(u, b) /\ call'[u] = call[u]
        \/ u = t /\ b = a
  BY DEF Holds, Others, SoleHolder
<1>3. SoleHolder' /\ HolderKnows'
  BY <1>1, <1>2 DEF SoleHolder, HolderKnows
<1>4. IdleUnlessUp' /\ HeldUnlessError'
  BY <1>1 DEF IdleUnlessUp, HeldUnlessError, Holds, Others
<1>5. ReadStands'
  BY <1>1, CallFields DEF ReadStands, Others, Finished, TypeOK
<1>6. HonestState'
  BY <1>1 DEF HonestState
<1>7. OneVerdict'
  BY <1>1 DEF OneVerdict
<1> QED BY <1>3, <1>4, <1>5, <1>6, <1>7

\* What release() does for the holder, and what finish() does.
LEMMA Released ==
  ASSUME IInv, NEW t \in Thread, NEW a \in Action, Holds(t, a), Release(t)
  PROVE  row'[a].state = "pending" /\ \A b \in Action \ {a} : row'[b] = row[b]
BY DEF IInv, HolderKnows, Holds, Release, RowOf, Target, TypeOK, Row

LEMMA Finishes ==
  ASSUME IInv, NEW t \in Thread, NEW a \in Action, Holds(t, a), NEW s \in State,
         Finish(a, call[t].exec, s)
  PROVE  /\ row'[a].state = s /\ row'[a].execution = row[a].execution
         /\ \A b \in Action \ {a} : row'[b] = row[b]
BY DEF IInv, HolderKnows, Finish, TypeOK, Row

\* The steps of confirm before and after the execution.
LEMMA ConfirmSteps ==
  ASSUME IInv, TypeOK', NEW t \in Thread,
         \/ ConfirmFind(t) \/ ConfirmConsent(t) \/ ConfirmRight(t)
         \/ ConfirmClaim(t) \/ ConfirmLost(t) \/ ConfirmAudit(t)
  PROVE  IInv'
<1> USE DEF At, Holding, Reading
<1>a. /\ TypeOK /\ call[t].target \in Action /\ row[call[t].target].state \in State
      /\ call[t].seen \in State
  BY CallFields DEF IInv, TypeOK, Row
<1>b. UNCHANGED <<row, answered, audit>> => OneVerdict'
  BY DEF OneVerdict, IInv
<1>1. CASE ConfirmFind(t)
  <2>1. CASE Return(t)
    BY <1>1, <1>b, <2>1, QuietMove DEF ConfirmFind, process, database
  <2>2. CASE call' = [call EXCEPT ![t].pc = "c_consent", ![t].seen = RowOf(t).state]
    <3>1. /\ Others(t) /\ call'[t].pc = "c_consent" /\ call'[t].target = call[t].target
          /\ call'[t].seen = row[call[t].target].state
      BY <1>a, <2>2 DEF Others, RowOf, TypeOK, Call
    <3> QED BY <1>1, <1>b, <3>1, BusyMeansUp, QuietStep DEF ConfirmFind, process, database
  <2> QED BY <1>1, <2>1, <2>2 DEF ConfirmFind
<1>2. CASE ConfirmConsent(t)
  BY <1>2, <1>b, QuietMove DEF ConfirmConsent, process, database, Label
<1>3. CASE ConfirmRight(t)
  <2>1. CASE Return(t)
    BY <1>3, <1>b, <2>1, QuietMove DEF ConfirmRight, process, database
  <2>2. CASE call' = [call EXCEPT ![t].pc = "c_claim", ![t].actor = "none"]
    <3>1. /\ Others(t) /\ call'[t].pc = "c_claim" /\ call'[t].target = call[t].target
          /\ call'[t].seen = call[t].seen
      BY <1>a, <2>2 DEF Others, TypeOK, Call
    <3>2. call[t].seen \in Finished => row[call[t].target].state = call[t].seen
      BY <1>3 DEF ConfirmRight, IInv, ReadStands
    <3> QED BY <1>3, <1>b, <3>1, <3>2, BusyMeansUp, QuietStep DEF ConfirmRight, process, database
  <2> QED BY <1>3, <2>1, <2>2 DEF ConfirmRight
<1>4. CASE ConfirmClaim(t)
  <2>1. CASE Claim(t) /\ UNCHANGED answered
    BY <1>4, <2>1, ClaimStep DEF ConfirmClaim, process
  <2>2. CASE UNCHANGED <<row, answered>> /\ (Return(t) \/ Goto(t, "c_lost"))
    BY <1>4, <1>b, <2>2, QuietMove DEF ConfirmClaim, process, Label
  <2>3. CASE UNCHANGED row /\ Return(t) /\ Existing(t, call[t].seen)
    <3>1. call[t].seen \in Finished => row[Target(t)].state = call[t].seen
      BY <1>4 DEF ConfirmClaim, IInv, ReadStands, Target
    <3>2. OneVerdict'
      BY <1>4, <1>a, <2>3, <3>1, TellRecorded DEF ConfirmClaim
    <3> QED BY <1>4, <2>3, <3>2, QuietMove DEF ConfirmClaim, process
  <2> QED BY <1>4, <2>1, <2>2, <2>3 DEF ConfirmClaim
<1>5. CASE ConfirmLost(t)
  <2>1. OneVerdict'
    BY <1>5, <1>a, TellRecorded DEF ConfirmLost, database, RowOf, Target
  <2> QED BY <1>5, <2>1, QuietMove DEF ConfirmLost, process, database
<1>6. CASE ConfirmAudit(t)
  <2>1. IF call[t].report = "succeeded" THEN row[Target(t)].state = "executed"
        ELSE row[Target(t)].state \in {"failed", "unknown"}
    BY <1>6 DEF ConfirmAudit, IInv, ReadStands, Target
  <2>2. OneVerdict'
    BY <1>6, <2>1 DEF ConfirmAudit, OneVerdict, IInv
  <2> QED BY <1>6, <2>2, QuietMove DEF ConfirmAudit, process
<1> QED BY <1>1, <1>2, <1>3, <1>4, <1>5, <1>6

\* The steps of the thread that holds the action.
LEMMA HolderSteps ==
  ASSUME IInv, TypeOK', NEW t \in Thread,
         ConfirmRecheck(t) \/ ConfirmRun(t) \/ ConfirmFinish(t)
  PROVE  IInv'
<1> DEFINE a == call[t].target
<1> USE DEF At
<1>a. TypeOK /\ a \in Action /\ Holds(t, a)
  BY CallFields DEF IInv, TypeOK, Holds, ConfirmRecheck, ConfirmRun, ConfirmFinish
<1>b. /\ row[a].execution = call[t].exec
      /\ call[t].pc \in {"c_recheck", "c_run"} => effects[a] = {}
      /\ call[t].pc = "c_finish" =>
           /\ call[t].report = "succeeded" => effects[a] = {call[t].exec}
           /\ call[t].report = "unavailable" => effects[a] = {}
  BY <1>a DEF IInv, HolderKnows
<1>1. CASE ConfirmRecheck(t)
  <2>1. CASE Goto(t, "c_run") /\ UNCHANGED row
    BY <1>1, <1>a, <1>b, <2>1, Moved, HolderStays DEF ConfirmRecheck, process, Label
  <2>2. CASE Release(t) /\ Return(t)
    BY <1>1, <1>a, <1>b, <2>2, Returned, Released, HolderLeaves DEF ConfirmRecheck, process
  <2> QED BY <1>1, <2>1, <2>2 DEF ConfirmRecheck
<1>2. CASE ConfirmRun(t)
  <2>1. PICK r \in Runs(a) :
          /\ effects' = IF r[1] THEN [effects EXCEPT ![a] = @ \cup {call[t].exec}] ELSE effects
          /\ call' = [call EXCEPT ![t].pc = "c_finish", ![t].report = r[2]]
    BY <1>2 DEF ConfirmRun, Target
  <2>2. /\ Others(t) /\ call'[t].pc = "c_finish" /\ call'[t].target = a
        /\ call'[t].exec = call[t].exec /\ call'[t].report = r[2]
    BY <1>a, <2>1 DEF Others, TypeOK, Call
  <2>3. /\ r[2] = "succeeded" => r[1] = TRUE
        /\ r[2] = "unavailable" => r[1] = FALSE
    BY <1>a, RunsTypes
  <2>4. /\ \A b \in Action \ {a} : effects'[b] = effects[b]
        /\ effects'[a] \subseteq {call[t].exec}
        /\ r[2] = "succeeded" => effects'[a] = {call[t].exec}
        /\ r[2] = "unavailable" => effects'[a] = {}
    BY <1>2, <1>a, <1>b, <2>1, <2>3 DEF TypeOK, ConfirmRun
  <2> QED BY <1>2, <1>a, <1>b, <2>2, <2>4, HolderStays DEF ConfirmRun, process
<1>3. CASE ConfirmFinish(t)
  <2>1. CASE call[t].report = "unavailable"
    BY <1>3, <1>a, <1>b, <2>1, Returned, Released, HolderLeaves DEF ConfirmFinish, process
  <2>2. CASE call[t].report # "unavailable"
    <3> DEFINE s == Recorded(call[t].report)
    <3>1. /\ s \in State /\ s \in Finished
          /\ s = "executed" => call[t].report = "succeeded"
          /\ IF call[t].report = "succeeded" THEN s = "executed" ELSE s \in {"failed", "unknown"}
      BY DEF Recorded, State, Finished
    <3>2. Finish(a, call[t].exec, s) /\ Goto(t, "c_audit")
      BY <1>3, <2>2 DEF ConfirmFinish, Target
    <3> HIDE DEF s
    <3>3. /\ row'[a].state = s /\ row'[a].execution = row[a].execution
          /\ \A b \in Action \ {a} : row'[b] = row[b]
      BY <1>a, <3>1, <3>2, Finishes
    <3>4. /\ Others(t) /\ call'[t].pc = "c_audit" /\ call'[t].target = a
          /\ call'[t].report = call[t].report
      BY <1>a, <3>2, Moved DEF Label
    <3> QED BY <1>3, <1>a, <1>b, <3>1, <3>3, <3>4, HolderLeaves DEF ConfirmFinish, process
  <2> QED BY <2>1, <2>2
<1> QED BY <1>1, <1>2, <1>3

\* A call that begins, or that the store makes end.
LEMMA BeginOrRaise ==
  ASSUME IInv, TypeOK', NEW t \in Thread, Enter(t) \/ StoreRaises(t)
  PROVE  IInv'
<1>1. CASE Enter(t)
  <2>1. PICK a \in Action, s \in Session, c \in Content,
             l \in {"p_insert", "g_find", "c_find"} : Begin(t, a, s, c, l)
    BY <1>1 DEF Enter, Propose, GrantConsent, Confirm
  <2>2. Others(t) /\ call'[t].pc = l /\ call[t].pc = "idle"
    BY <2>1 DEF Begin, NoCall, Others, IInv, TypeOK, At
  <2>3. OneVerdict'
    BY <2>1 DEF Begin, database, OneVerdict, IInv
  <2> QED BY <2>1, <2>2, <2>3, QuietStep DEF Begin, database, process, Holding, Reading
<1>2. CASE StoreRaises(t)
  <2> USE DEF IInv
  <2>1. /\ mode = "up" /\ errors' > 0 /\ Others(t) /\ call'[t].pc = "idle"
        /\ UNCHANGED <<row, effects, mode, audit, answered>>
    BY <1>2, BusyMeansUp, Returned DEF StoreRaises, At, database, TypeOK
  <2>2. \A u \in Thread, a \in Action : Holds(u, a)' => Holds(u, a) /\ call'[u] = call[u]
    BY <2>1 DEF Holds, Others
  <2>3. SoleHolder' /\ HolderKnows'
    BY <2>1, <2>2 DEF SoleHolder, HolderKnows
  <2>4. IdleUnlessUp' /\ HeldUnlessError'
    BY <2>1 DEF IdleUnlessUp, HeldUnlessError
  <2>5. ReadStands'
    BY <2>1 DEF ReadStands, Others
  <2>6. HonestState' /\ OneVerdict'
    BY <2>1 DEF HonestState, OneVerdict
  <2> QED BY <2>3, <2>4, <2>5, <2>6
<1> QED BY <1>1, <1>2

\* Crash, restart and recovery.
LEMMA ProcessSteps ==
  ASSUME IInv, TypeOK', Crash \/ Restart \/ Recover
  PROVE  IInv'
<1> USE DEF IInv
<1>1. CASE Crash
  <2>1. \A t \in Thread : call'[t].pc = "idle"
    BY <1>1 DEF Crash, NoCall
  <2>2. UNCHANGED <<row, effects, audit, answered>> /\ mode' = "down"
    BY <1>1 DEF Crash, database
  <2>3. IdleUnlessUp' /\ SoleHolder' /\ HolderKnows' /\ ReadStands' /\ HeldUnlessError'
    BY <2>1, <2>2 DEF IdleUnlessUp, SoleHolder, HolderKnows, ReadStands, HeldUnlessError, Holds
  <2>4. HonestState' /\ OneVerdict'
    BY <2>2 DEF HonestState, OneVerdict
  <2> QED BY <2>3, <2>4
<1>2. ASSUME mode # "up", UNCHANGED <<call, effects, answered>>,
             \A a \in Action : <<a, "PASS">> \in audit' => <<a, "PASS">> \in audit,
             \A a \in Action : <<a, "E_PARTIAL">> \in audit' => <<a, "E_PARTIAL">> \in audit,
             HonestState', mode' = "up" => \A a \in Action : row'[a].state # "executing",
             \A a \in Action : row[a].state # "executing" => row'[a] = row[a]
      PROVE  IInv'
  <2>1. \A t \in Thread : call[t].pc = "idle"
    BY <1>2 DEF IdleUnlessUp
  <2>2. IdleUnlessUp' /\ SoleHolder' /\ HolderKnows' /\ ReadStands' /\ HeldUnlessError'
    BY <1>2, <2>1 DEF IdleUnlessUp, SoleHolder, HolderKnows, ReadStands, HeldUnlessError, Holds
  <2>3. OneVerdict'
    BY <1>2 DEF OneVerdict
  <2> QED BY <1>2, <2>2, <2>3
<1>3. CASE Restart
  <2>1. HonestState'
    BY <1>3 DEF Restart, database, HonestState
  <2> QED BY <1>2, <1>3, <2>1 DEF Restart, database
<1>4. CASE Serve
  <2>1. HonestState'
    BY <1>4 DEF Serve, database, HonestState
  <2> QED BY <1>2, <1>4, <2>1 DEF Serve, database
<1>5. ASSUME NEW a \in Action, RecoverOne(a) PROVE IInv'
  <2>1. /\ row[a].state = "executing" /\ mode = "recovering" /\ mode' = "recovering"
        /\ UNCHANGED <<call, effects, answered, audit>>
        /\ \A b \in Action \ {a} : row'[b] = row[b]
    BY <1>5 DEF RecoverOne, TypeOK
  <2>2. \/ /\ row'[a].state = "executed" /\ row'[a].execution = row[a].execution
           /\ row[a].execution \in effects[a]
        \/ row'[a].state = "pending" /\ effects[a] = {}
        \/ row'[a].state = "unknown" /\ row'[a].execution = row[a].execution
    <3>1. CASE Reconcile(a) = "true"
      BY <1>5, <3>1 DEF RecoverOne, Reconcile, TypeOK, Row
    <3>2. CASE Reconcile(a) = "false"
      BY <1>5, <3>2 DEF RecoverOne, Reconcile, TypeOK, Row
    <3>3. CASE Reconcile(a) \notin {"true", "false"}
      BY <1>5, <3>3 DEF RecoverOne, TypeOK, Row
    <3> QED BY <3>1, <3>2, <3>3
  <2>3. HonestState'
    BY <2>1, <2>2 DEF HonestState
  <2> QED BY <1>2, <2>1, <2>3
<1>6. ASSUME NEW a \in Action, RecoverAudit(a) PROVE IInv'
  <2>1. HonestState'
    BY <1>6 DEF RecoverAudit, HonestState
  <2> QED BY <1>2, <1>6, <2>1 DEF RecoverAudit
<1> QED BY <1>1, <1>3, <1>4, <1>5, <1>6 DEF Recover

\* Sessions, rights and the clock.
LEMMA EnvironmentSteps ==
  ASSUME IInv, TypeOK', Environment \/ UNCHANGED vars
  PROVE  IInv'
<1>1. /\ UNCHANGED <<row, effects, audit, answered, mode, errors>>
      /\ \A t \in Thread :
           /\ call'[t].pc = call[t].pc /\ call'[t].target = call[t].target
           /\ call'[t].seen = call[t].seen /\ call'[t].exec = call[t].exec
           /\ call'[t].report = call[t].report
  <2>1. CASE UNCHANGED vars
    BY <2>1 DEF vars
  <2>2. ASSUME NEW lv, NEW rs, Regain(lv, rs)
        PROVE  \A t \in Thread :
           /\ call'[t].pc = call[t].pc /\ call'[t].target = call[t].target
           /\ call'[t].seen = call[t].seen /\ call'[t].exec = call[t].exec
           /\ call'[t].report = call[t].report
    BY <2>2 DEF Regain, IInv, TypeOK, Call
  <2>3. ASSUME NEW s \in Session, NEW l \in Level, SetLevel(s, l)
        PROVE  UNCHANGED <<row, effects, audit, answered, mode, errors>> /\ Regain(level', rights)
    BY <2>3 DEF SetLevel, process
  <2>4. ASSUME NEW i \in Identity, NEW a \in Action, GrantRight(i, a)
        PROVE  UNCHANGED <<row, effects, audit, answered, mode, errors>> /\ Regain(level, rights')
    BY <2>4 DEF GrantRight, process
  <2>5. ASSUME NEW i \in Identity, NEW a \in Action, RevokeRight(i, a)
        PROVE  UNCHANGED <<row, effects, audit, answered, mode, errors, call>>
    BY <2>5 DEF RevokeRight, process
  <2>6. ASSUME NEW a \in Action, NEW s \in Session, ConsentExpires(a, s)
        PROVE  UNCHANGED <<row, effects, audit, answered, mode, errors, call>>
    BY <2>6 DEF ConsentExpires, process
  <2> QED BY <2>1, <2>2, <2>3, <2>4, <2>5, <2>6 DEF Environment
<1> USE DEF IInv
<1>2. \A t \in Thread, a \in Action : Holds(t, a)' <=> Holds(t, a)
  BY <1>1 DEF Holds
<1>3. IdleUnlessUp' /\ SoleHolder' /\ HeldUnlessError'
  BY <1>1, <1>2 DEF IdleUnlessUp, SoleHolder, HeldUnlessError
<1>4. HolderKnows' /\ ReadStands'
  BY <1>1, <1>2 DEF HolderKnows, ReadStands
<1>5. HonestState' /\ OneVerdict'
  BY <1>1 DEF HonestState, OneVerdict
<1> QED BY <1>3, <1>4, <1>5

\* It holds initially, ...
LEMMA IInvInit == Init => IInv
<1> SUFFICES ASSUME Init PROVE IInv
  OBVIOUS
<1>1. TypeOK
  BY DefaultTypes DEF Init, TypeOK, ConsentState, Level
<1>2. \A t \in Thread : call[t].pc = "idle"
  BY DEF Init, NoCall
<1>3. \A a \in Action : row[a].state = "absent"
  BY DEF Init, NoRow
<1>4. /\ IdleUnlessUp /\ SoleHolder /\ HolderKnows /\ ReadStands /\ HeldUnlessError
      /\ HonestState /\ OneVerdict
  BY <1>2, <1>3 DEF Init, IdleUnlessUp, SoleHolder, HolderKnows, ReadStands,
                    HeldUnlessError, HonestState, OneVerdict, Holds
<1> QED BY <1>1, <1>4 DEF IInv

\* ... and every step keeps it.
LEMMA IInvStep == IInv /\ [Next]_vars => IInv'
<1> SUFFICES ASSUME IInv, [Next]_vars PROVE IInv'
  OBVIOUS
<1>1. TypeOK'
  BY StepTypes DEF IInv
<1>2. ASSUME NEW t \in Thread, Step(t) PROVE IInv'
  BY <1>1, <1>2, RequestSteps, ConfirmSteps, HolderSteps DEF Step
<1>3. ASSUME NEW t \in Thread, Enter(t) \/ StoreRaises(t) PROVE IInv'
  BY <1>1, <1>3, BeginOrRaise
<1>4. CASE Crash \/ Restart \/ Recover
  BY <1>1, <1>4, ProcessSteps
<1>5. CASE Environment \/ UNCHANGED vars
  BY <1>1, <1>5, EnvironmentSteps
<1> QED BY <1>2, <1>3, <1>4, <1>5 DEF Next

LEMMA Inductive == Spec => []IInv
BY IInvInit, IInvStep, PTL DEF Spec

----------------------------------------------------------------------------
(* The theorems.                                                           *)

\* An action can be confirmed again only if nothing happened, and never runs
\* twice: what gate_actions says of an execution is true of the world.
THEOREM Honest == Spec => []HonestState
<1>1. IInv => HonestState
  BY DEF IInv
<1> QED BY <1>1, Inductive, PTL

\* No two callers, and no audit entry, are ever told different outcomes.
THEOREM OneVerdictHolds == Spec => []OneVerdict
<1>1. IInv => OneVerdict
  BY DEF IInv
<1> QED BY <1>1, Inductive, PTL

\* One confirm call stands behind an executing action of a serving process,
\* unless the store raised.
THEOREM OneHolderHolds == Spec => []OneHolder
<1>1. IInv => OneHolder
  BY DEF IInv, OneHolder, SoleHolder, HolderKnows, HeldUnlessError
<1> QED BY <1>1, Inductive, PTL

----------------------------------------------------------------------------
(* Refinement.                                                             *)

Phases == [a \in Action |-> row[a].state]
Abstract == Promise!Next \/ UNCHANGED Promise!vars

\* A change of one row, as the promise sees it.
LEMMA PhaseMove ==
  ASSUME NEW a \in Action, \A b \in Action \ {a} : row'[b] = row[b]
  PROVE  Phases' = [Phases EXCEPT ![a] = row'[a].state]
BY DEF Phases

LEMMA MoveStep ==
  ASSUME NEW a \in Action, \A b \in Action \ {a} : row'[b] = row[b],
         UNCHANGED <<effects, answered>>,
         \/ row[a].state = "absent" /\ row'[a].state = "pending"
         \/ row[a].state = "pending" /\ row'[a].state \in {"cancelled", "executing"}
         \/ row[a].state = "executing" /\ row'[a].state = "pending" /\ effects[a] = {}
         \/ row[a].state = "executing" /\ row'[a].state = "executed" /\ effects[a] # {}
         \/ row[a].state = "executing" /\ row'[a].state \in {"failed", "unknown"}
  PROVE  Promise!Next
<1>1. Phases' = [Phases EXCEPT ![a] = row'[a].state] /\ Phases[a] = row[a].state
  BY PhaseMove DEF Phases
<1>2. \/ Promise!Open(a) \/ Promise!Withdraw(a) \/ Promise!Start(a) \/ Promise!Undo(a)
      \/ Promise!Succeed(a) \/ Promise!Doubt(a)
  BY <1>1 DEF Phases, Promise!Open, Promise!Withdraw, Promise!Start, Promise!Undo,
              Promise!Succeed, Promise!Doubt, Promise!Move
<1> QED BY <1>2 DEF Promise!Next

\* A step that leaves rows, effects and answers alone is a stutter.
LEMMA Stutter ==
  ASSUME UNCHANGED <<row, effects, answered>>
  PROVE  Abstract
BY DEF Abstract, Promise!vars

\* An answer is a step of the promise, or repeats an answer.
LEMMA TellStep ==
  ASSUME NEW a \in Action, UNCHANGED <<row, effects>>,
         \/ UNCHANGED answered
         \/ row[a].state = "executed" /\ answered' = answered \cup {<<a, "PASS">>}
         \/ /\ row[a].state \in {"failed", "unknown"}
            /\ answered' = answered \cup {<<a, "E_PARTIAL">>}
  PROVE  Abstract
<1>1. CASE UNCHANGED answered
  BY <1>1, Stutter
<1>2. CASE ~UNCHANGED answered
  <2>1. Promise!Tell(a)
    BY <1>2 DEF Promise!Tell
  <2> QED BY <2>1 DEF Promise!Next, Abstract
<1> QED BY <1>1, <1>2

\* What _existing tells.
LEMMA ExistingTells ==
  ASSUME NEW t \in Thread, call[t].target \in Action, NEW state \in State, Existing(t, state)
  PROVE  \/ UNCHANGED answered
         \/ /\ state = "executed"
            /\ answered' = answered \cup {<<call[t].target, "PASS">>}
         \/ /\ state \in {"failed", "unknown"}
            /\ answered' = answered \cup {<<call[t].target, "E_PARTIAL">>}
<1>1. CASE state = "executed"
  BY <1>1 DEF Existing, VerdictOf, Target
<1>2. CASE state \in {"failed", "unknown"}
  BY <1>2 DEF Existing, VerdictOf, Target
<1>3. CASE state \notin {"executed", "failed", "unknown"}
  BY <1>3 DEF Existing, VerdictOf, Target
<1> QED BY <1>1, <1>2, <1>3

\* Every step of a request is a step of the promise or a stutter.
LEMMA RequestImplements ==
  ASSUME IInv, NEW t \in Thread,
         \/ ProposeInsert(t) \/ ProposeFind(t) \/ ProposeConsent(t)
         \/ ProposeRight(t) \/ ProposeCancel(t) \/ ConsentFind(t) \/ ConsentInsert(t)
  PROVE  Abstract
<1> DEFINE a == call[t].target
<1>a. a \in Action /\ row[a].state \in State /\ row \in [Action -> Row]
  BY CallFields DEF IInv, TypeOK, Row
<1>1. CASE ProposeInsert(t)
  <2>1. CASE UNCHANGED row
    BY <1>1, <2>1, Stutter DEF ProposeInsert
  <2>2. CASE ~UNCHANGED row
    <3>1. /\ row[a].state = "absent" /\ row'[a].state = "pending"
          /\ \A b \in Action \ {a} : row'[b] = row[b]
          /\ UNCHANGED <<effects, answered>>
      BY <1>1, <1>a, <2>2 DEF ProposeInsert, RowOf, Target
    <3> QED BY <1>a, <3>1, MoveStep DEF Abstract
  <2> QED BY <2>1, <2>2
<1>2. CASE ProposeFind(t)
  <2>1. CASE UNCHANGED answered
    BY <1>2, <2>1, Stutter DEF ProposeFind, database
  <2>2. CASE Existing(t, RowOf(t).state)
    BY <1>2, <1>a, <2>2, ExistingTells, TellStep DEF ProposeFind, database, RowOf
  <2> QED BY <1>2, <2>1, <2>2 DEF ProposeFind
<1>3. CASE ProposeConsent(t) \/ ProposeRight(t) \/ ConsentFind(t) \/ ConsentInsert(t)
  BY <1>3, Stutter DEF ProposeConsent, ProposeRight, ConsentFind, ConsentInsert, database
<1>4. CASE ProposeCancel(t)
  <2>1. CASE UNCHANGED row
    BY <1>4, <2>1, Stutter DEF ProposeCancel
  <2>2. CASE ~UNCHANGED row
    <3>1. /\ row[a].state = "pending" /\ row'[a].state = "cancelled"
          /\ \A b \in Action \ {a} : row'[b] = row[b]
          /\ UNCHANGED <<effects, answered>>
      BY <1>4, <1>a, <2>2 DEF ProposeCancel, RowOf, Target, Row
    <3> QED BY <1>a, <3>1, MoveStep DEF Abstract
  <2> QED BY <2>1, <2>2
<1> QED BY <1>1, <1>2, <1>3, <1>4

\* So is every step of confirm.
LEMMA ConfirmImplements ==
  ASSUME IInv, NEW t \in Thread,
         \/ ConfirmFind(t) \/ ConfirmConsent(t) \/ ConfirmRight(t)
         \/ ConfirmClaim(t) \/ ConfirmLost(t) \/ ConfirmRecheck(t)
         \/ ConfirmRun(t) \/ ConfirmFinish(t) \/ ConfirmAudit(t)
  PROVE  Abstract
<1> DEFINE a == call[t].target
<1>a. /\ a \in Action /\ row[a].state \in State /\ call[t].seen \in State
      /\ row \in [Action -> Row] /\ effects \in [Action -> SUBSET Nat]
  BY CallFields DEF IInv, TypeOK, Row
<1>b. ASSUME At(t, "c_recheck") \/ At(t, "c_run") \/ At(t, "c_finish")
      PROVE  /\ Holds(t, a) /\ row[a].state = "executing"
             /\ ~At(t, "c_finish") => effects[a] = {}
             /\ At(t, "c_finish") =>
                  /\ call[t].report = "succeeded" => effects[a] # {}
                  /\ call[t].report = "unavailable" => effects[a] = {}
  <2>1. Holds(t, a)
    BY <1>b DEF Holds, At
  <2> QED BY <1>a, <1>b, <2>1 DEF At, IInv, HolderKnows
<1>1. CASE ConfirmFind(t) \/ ConfirmConsent(t) \/ ConfirmRight(t)
  BY <1>1, Stutter DEF ConfirmFind, ConfirmConsent, ConfirmRight, database
<1>2. CASE ConfirmClaim(t)
  <2>1. CASE Claim(t) /\ UNCHANGED answered
    <3>1. /\ row[a].state = "pending"
          /\ row' = [row EXCEPT ![a].state = "executing",
                                ![a].execution = claims[a] + 1]
      BY <2>1 DEF Claim, RowOf, Target
    <3>2. row'[a].state = "executing" /\ \A b \in Action \ {a} : row'[b] = row[b]
      BY <1>a, <3>1 DEF Row
    <3>3. UNCHANGED <<effects, answered>>
      BY <1>2, <2>1 DEF ConfirmClaim
    <3> QED BY <1>a, <3>1, <3>2, <3>3, MoveStep DEF Abstract
  <2>2. CASE UNCHANGED <<row, answered>>
    BY <1>2, <2>2, Stutter DEF ConfirmClaim
  <2>3. CASE call[t].seen \in Finished /\ Existing(t, call[t].seen) /\ UNCHANGED row
    <3>1. row[a].state = call[t].seen
      BY <1>2, <2>3 DEF ConfirmClaim, At, IInv, ReadStands
    <3> QED BY <1>2, <1>a, <2>3, <3>1, ExistingTells, TellStep DEF ConfirmClaim
  <2> QED BY <1>2, <2>1, <2>2, <2>3 DEF ConfirmClaim
<1>3. CASE ConfirmLost(t)
  BY <1>3, <1>a, ExistingTells, TellStep DEF ConfirmLost, database, RowOf, Target
<1>4. CASE ConfirmRecheck(t)
  <2>1. CASE UNCHANGED row
    BY <1>4, <2>1, Stutter DEF ConfirmRecheck
  <2>2. CASE Release(t)
    <3>1. /\ row'[a].state = "pending" /\ \A b \in Action \ {a} : row'[b] = row[b]
      BY <1>4, <1>a, <1>b, <2>2, Released DEF ConfirmRecheck
    <3>2. row[a].state = "executing" /\ effects[a] = {}
      BY <1>4, <1>b DEF ConfirmRecheck, At
    <3> QED BY <1>4, <1>a, <3>1, <3>2, MoveStep DEF ConfirmRecheck, Abstract
  <2> QED BY <1>4, <2>1, <2>2 DEF ConfirmRecheck
<1>5. CASE ConfirmRun(t)
  <2>1. CASE UNCHANGED effects
    BY <1>5, <2>1, Stutter DEF ConfirmRun
  <2>2. CASE effects' = [effects EXCEPT ![a] = @ \cup {call[t].exec}]
    <3>1. row[a].state = "executing" /\ effects[a] = {}
      BY <1>5, <1>b DEF ConfirmRun, At
    <3>2. effects' = [effects EXCEPT ![a] = {call[t].exec}] /\ call[t].exec \in effects'[a]
      BY <1>a, <2>2, <3>1
    <3>3. Promise!Happen(a)
      BY <1>5, <1>a, <3>1, <3>2 DEF Promise!Happen, ConfirmRun
    <3> QED BY <1>a, <3>3 DEF Promise!Next, Abstract
  <2> QED BY <1>5, <2>1, <2>2 DEF ConfirmRun, Target
<1>6. CASE ConfirmFinish(t)
  <2>1. CASE call[t].report = "unavailable"
    <3>1. /\ row'[a].state = "pending" /\ \A b \in Action \ {a} : row'[b] = row[b]
      BY <1>6, <1>a, <1>b, <2>1, Released DEF ConfirmFinish
    <3>2. row[a].state = "executing" /\ effects[a] = {}
      BY <1>6, <1>b, <2>1 DEF ConfirmFinish
    <3> QED BY <1>6, <1>a, <3>1, <3>2, MoveStep DEF ConfirmFinish, Abstract
  <2>2. CASE call[t].report # "unavailable"
    <3> DEFINE s == Recorded(call[t].report)
    <3>1. /\ s \in State /\ s \in {"executed", "failed", "unknown"}
          /\ s = "executed" => call[t].report = "succeeded"
      BY DEF Recorded, State
    <3>2. Finish(a, call[t].exec, s) /\ UNCHANGED <<effects, answered>>
      BY <1>6, <2>2 DEF ConfirmFinish, Target
    <3> HIDE DEF s
    <3>3. /\ row'[a].state = s /\ \A b \in Action \ {a} : row'[b] = row[b]
      BY <1>6, <1>a, <1>b, <3>1, <3>2, Finishes DEF ConfirmFinish
    <3>4. row[a].state = "executing" /\ (s = "executed" => effects[a] # {})
      BY <1>6, <1>b, <3>1 DEF ConfirmFinish
    <3> QED BY <1>a, <3>1, <3>2, <3>3, <3>4, MoveStep DEF Abstract
  <2> QED BY <2>1, <2>2
<1>7. CASE ConfirmAudit(t)
  <2>1. IF call[t].report = "succeeded" THEN row[a].state = "executed"
        ELSE row[a].state \in {"failed", "unknown"}
    BY <1>7 DEF ConfirmAudit, At, IInv, ReadStands
  <2> QED BY <1>7, <1>a, <2>1, TellStep DEF ConfirmAudit, Target
<1> QED BY <1>1, <1>2, <1>3, <1>4, <1>5, <1>6, <1>7

\* So is every step of recover(); the rest stutters.
LEMMA StepImplements == IInv /\ [Next]_vars => Abstract
<1> SUFFICES ASSUME IInv, [Next]_vars PROVE Abstract
  OBVIOUS
<1>1. ASSUME NEW t \in Thread, Step(t) PROVE Abstract
  BY <1>1, RequestImplements, ConfirmImplements DEF Step
<1>2. ASSUME NEW t \in Thread, Enter(t) \/ StoreRaises(t) PROVE Abstract
  BY <1>2, Stutter DEF Enter, StoreRaises, Propose, GrantConsent, Confirm, Begin, database
<1>3. CASE Crash \/ Restart \/ Serve \/ UNCHANGED vars
  BY <1>3, Stutter DEF Crash, Restart, Serve, vars, database
<1>4. ASSUME NEW a \in Action, RecoverOne(a) PROVE Abstract
  <2>1. /\ row[a].state = "executing" /\ \A b \in Action \ {a} : row'[b] = row[b]
        /\ UNCHANGED <<effects, answered>> /\ row \in [Action -> Row]
    BY <1>4 DEF RecoverOne, IInv, TypeOK
  <2>2. \/ row'[a].state = "executed" /\ effects[a] # {}
        \/ row'[a].state = "pending" /\ effects[a] = {}
        \/ row'[a].state = "unknown"
    <3>1. CASE Reconcile(a) = "true"
      BY <1>4, <2>1, <3>1 DEF RecoverOne, Reconcile, Row
    <3>2. CASE Reconcile(a) = "false"
      BY <1>4, <2>1, <3>2 DEF RecoverOne, Reconcile, Row
    <3>3. CASE Reconcile(a) \notin {"true", "false"}
      BY <1>4, <2>1, <3>3 DEF RecoverOne, Row
    <3> QED BY <3>1, <3>2, <3>3
  <2> QED BY <2>1, <2>2, MoveStep DEF Abstract
<1>5. ASSUME NEW a \in Action, RecoverAudit(a) PROVE Abstract
  BY <1>5, Stutter DEF RecoverAudit
<1>6. CASE Environment
  BY <1>6, Stutter DEF Environment, SetLevel, GrantRight, RevokeRight, ConsentExpires
<1> QED BY <1>1, <1>2, <1>3, <1>4, <1>5, <1>6 DEF Next, Recover

\* The Gate keeps its promise: it implements GatePromise, whatever the number
\* of threads, actions, sessions, crashes and failing store calls.
THEOREM Refinement == Spec => KeepsPromise
<1>1. Init => Promise!Init
  BY DEF Init, Promise!Init, NoRow
<1>2. IInv /\ [Next]_vars => [Promise!Next]_Promise!vars
  BY StepImplements DEF Abstract
<1> QED BY <1>1, <1>2, Inductive, PTL DEF Spec, Promise!Spec, KeepsPromise

\* No step touches the state or the effects of an action with a verdict.
LEMMA FinalStep ==
  IInv /\ [Next]_vars =>
    \A a \in Action : row[a].state \in Finished \cup {"cancelled"} =>
      row'[a].state = row[a].state /\ effects'[a] = effects[a]
<1> SUFFICES ASSUME IInv, [Next]_vars, NEW a \in Action,
                    row[a].state \in Finished \cup {"cancelled"}
             PROVE  row'[a].state = row[a].state /\ effects'[a] = effects[a]
  OBVIOUS
<1>1. Abstract /\ TypeOK /\ TypeOK'
  BY StepImplements, StepTypes DEF IInv
<1>2. CASE UNCHANGED Promise!vars
  <2>1. Phases' = Phases /\ effects' = effects
    BY <1>2 DEF Promise!vars, Phases
  <2> QED BY <2>1 DEF Phases
<1>3. ASSUME NEW b \in Action,
             \/ Promise!Open(b) \/ Promise!Withdraw(b) \/ Promise!Start(b)
             \/ Promise!Undo(b) \/ Promise!Succeed(b) \/ Promise!Doubt(b)
      PROVE  row'[a].state = row[a].state /\ effects'[a] = effects[a]
  <2>1. PICK to \in State : /\ Phases' = [Phases EXCEPT ![b] = to] /\ effects' = effects
                            /\ Phases[b] \in {"absent", "pending", "executing"}
    BY <1>3 DEF Phases, State, Promise!Open, Promise!Withdraw, Promise!Start, Promise!Undo,
                Promise!Succeed, Promise!Doubt, Promise!Move
  <2> QED BY <2>1 DEF Phases, Finished
<1>4. ASSUME NEW b \in Action, Promise!Happen(b) \/ Promise!Tell(b)
      PROVE  row'[a].state = row[a].state /\ effects'[a] = effects[a]
  <2>1. /\ Phases' = Phases /\ \A c \in Action : c # b => effects'[c] = effects[c]
        /\ Phases[b] = "executing" \/ effects' = effects
    BY <1>4, <1>1 DEF Promise!Happen, Promise!Tell, Phases, TypeOK
  <2> QED BY <2>1 DEF Phases, Finished
<1> QED BY <1>1, <1>2, <1>3, <1>4 DEF Abstract, Promise!Next

\* A verdict and a cancellation are final.
THEOREM FinalityHolds == Spec => Finality
  BY FinalStep, Inductive, PTL DEF Spec, Finality

----------------------------------------------------------------------------
(* Authorisation.  What each layer found when it was asked is still true,  *)
(* in the part that nobody can take away, when the executor runs.          *)

\* Only the proposer consents.
ConsentByProposer ==
  \A a \in Action, s \in Session : consents[a][s] # "none" =>
    row[a].state # "absent" /\ IdentityOf[s] = row[a].proposer

MayInsert(t) == row[call[t].target].state # "absent" /\ Who(t) = row[call[t].target].proposer

PassedFour(t) == /\ row[call[t].target].state # "absent"
                 /\ Who(t) \in Members /\ row[call[t].target].bound = policy

PassedFive(t) == NeedsConsent[row[call[t].target].content] =>
                   consents[call[t].target][call[t].sess] # "none"

LackingKnown(t) == call[t].lacking => ~Authority(t, level, rights)

Passed(t) ==
  /\ call[t].pc = "g_insert" => MayInsert(t)
  /\ call[t].pc \in {"c_consent", "c_right", "c_claim", "c_recheck", "c_run"} => PassedFour(t)
  /\ call[t].pc \in {"c_right", "c_claim", "c_recheck", "c_run"} => PassedFive(t)
  /\ call[t].pc \in {"c_recheck", "c_run"} => call[t].arg = row[call[t].target].content
  /\ call[t].pc = "c_recheck" => LackingKnown(t)
  /\ call[t].pc = "c_run" => ~call[t].lacking

LayersPassed == \A t \in Thread : Passed(t)

AInv == IInv /\ ConsentByProposer /\ LayersPassed

\* What is never taken back: the content, the proposer and the policy of a
\* record, and that a session consented.
RowsPersist ==
  \A a \in Action : row[a].state # "absent" =>
    /\ row'[a].state # "absent" /\ row'[a].content = row[a].content
    /\ row'[a].proposer = row[a].proposer /\ row'[a].bound = row[a].bound
ConsentsPersist ==
  \A a \in Action, s \in Session : consents[a][s] # "none" => consents'[a][s] # "none"

LEMMA RowWritesPersist ==
  ASSUME TypeOK, NEW a \in Action, NEW s \in State \ {"absent"}, NEW n \in Nat,
         \/ UNCHANGED row
         \/ row' = [row EXCEPT ![a].state = s]
         \/ row' = [row EXCEPT ![a].state = s, ![a].execution = n]
  PROVE  RowsPersist
<1>1. CASE UNCHANGED row
  BY <1>1 DEF RowsPersist
<1>2. CASE row' = [row EXCEPT ![a].state = s]
  BY <1>2 DEF RowsPersist, TypeOK, Row
<1>3. CASE row' = [row EXCEPT ![a].state = s, ![a].execution = n]
  <2>1. row[a] \in Row /\ row'[a] = [row[a] EXCEPT !.state = s, !.execution = n]
    BY <1>3 DEF TypeOK
  <2>2. /\ row'[a].state = s /\ row'[a].content = row[a].content
        /\ row'[a].proposer = row[a].proposer /\ row'[a].bound = row[a].bound
    BY <2>1 DEF Row
  <2>3. \A b \in Action \ {a} : row'[b] = row[b]
    BY <1>3 DEF TypeOK
  <2> QED BY <2>2, <2>3 DEF RowsPersist
<1> QED BY <1>1, <1>2, <1>3

LEMMA RowsPersistStep == IInv /\ [Next]_vars => RowsPersist
<1> SUFFICES ASSUME IInv, [Next]_vars PROVE RowsPersist
  OBVIOUS
<1>0. TypeOK
  BY DEF IInv
<1>a. UNCHANGED row => RowsPersist
  BY DEF RowsPersist
<1>s. /\ 0 \in Nat
      /\ {"pending", "executing", "executed", "failed", "unknown", "cancelled"}
           \subseteq State \ {"absent"}
  BY DEF State
<1>1. ASSUME NEW t \in Thread, Step(t) PROVE RowsPersist
  <2>1. call[t].target \in Action /\ claims[call[t].target] + 1 \in Nat
    BY <1>0, CallFields DEF TypeOK
  <2>2. CASE ProposeInsert(t)
    BY <2>1, <2>2, <1>0 DEF ProposeInsert, RowsPersist, RowOf, Target, TypeOK, Row
  <2>3. CASE ProposeCancel(t)
    BY <2>1, <2>3, <1>0, <1>a, <1>s, RowWritesPersist DEF ProposeCancel, Target
  <2>4. CASE Claim(t)
    BY <2>1, <2>4, <1>0, <1>s, RowWritesPersist DEF Claim, Target
  <2>5. CASE Release(t)
    BY <2>1, <2>5, <1>0, <1>a, <1>s, RowWritesPersist DEF Release, Target
  <2>6. CASE Finish(Target(t), call[t].exec, Recorded(call[t].report))
    <3>1. Recorded(call[t].report) \in State \ {"absent"}
      BY DEF Recorded, State
    <3> QED BY <2>1, <2>6, <3>1, <1>0, <1>a, <1>s, RowWritesPersist DEF Finish, Target
  <2> QED BY <1>1, <1>a, <2>2, <2>3, <2>4, <2>5, <2>6
          DEF Step, ProposeFind, ProposeConsent, ProposeRight, ConsentFind, ConsentInsert,
              ConfirmFind, ConfirmConsent, ConfirmRight, ConfirmClaim, ConfirmLost,
              ConfirmRecheck, ConfirmRun, ConfirmFinish, ConfirmAudit, database
<1>2. ASSUME NEW t \in Thread, Enter(t) \/ StoreRaises(t) PROVE RowsPersist
  BY <1>2, <1>a DEF Enter, StoreRaises, Propose, GrantConsent, Confirm, Begin, database
<1>3. CASE Crash \/ Restart \/ Serve \/ UNCHANGED vars \/ Environment
  BY <1>3, <1>a DEF Crash, Restart, Serve, vars, database, Environment, SetLevel, GrantRight,
                    RevokeRight, ConsentExpires
<1>4. ASSUME NEW a \in Action, RecoverOne(a) \/ RecoverAudit(a) PROVE RowsPersist
  <2>1. CASE RecoverAudit(a)
    BY <2>1, <1>a DEF RecoverAudit
  <2>2. CASE RecoverOne(a)
    <3>1. CASE Reconcile(a) = "true"
      BY <2>2, <3>1, <1>0, <1>s, RowWritesPersist DEF RecoverOne
    <3>2. CASE Reconcile(a) = "false"
      <4>1. row' = [row EXCEPT ![a].state = "pending", ![a].execution = 0]
        BY <2>2, <3>2, <1>0 DEF RecoverOne, TypeOK, Row
      <4> QED BY <4>1, <1>0, <1>s, RowWritesPersist
    <3>3. CASE Reconcile(a) \notin {"true", "false"}
      BY <2>2, <3>3, <1>0, <1>s, RowWritesPersist DEF RecoverOne
    <3> QED BY <3>1, <3>2, <3>3
  <2> QED BY <1>4, <2>1, <2>2
<1> QED BY <1>1, <1>2, <1>3, <1>4 DEF Next, Recover

LEMMA ConsentsPersistStep == TypeOK /\ [Next]_vars => ConsentsPersist
<1> SUFFICES ASSUME TypeOK, [Next]_vars PROVE ConsentsPersist
  OBVIOUS
<1>a. UNCHANGED consents => ConsentsPersist
  BY DEF ConsentsPersist
<1>1. ASSUME NEW t \in Thread, ConsentInsert(t) PROVE ConsentsPersist
  BY <1>1 DEF ConsentInsert, ConsentsPersist, TypeOK
<1>2. ASSUME NEW a \in Action, NEW s \in Session, ConsentExpires(a, s) PROVE ConsentsPersist
  BY <1>2 DEF ConsentExpires, ConsentsPersist, TypeOK
<1>3. ASSUME NEW t \in Thread, Step(t), ~ConsentInsert(t) PROVE ConsentsPersist
  BY <1>3, <1>a DEF Step, ProposeInsert, ProposeFind, ProposeConsent, ProposeRight,
     ProposeCancel, ConsentFind, ConfirmFind, ConfirmConsent, ConfirmRight, ConfirmClaim,
     ConfirmLost, ConfirmRecheck, ConfirmRun, ConfirmFinish, ConfirmAudit, database
<1>4. ASSUME NEW t \in Thread, Enter(t) \/ StoreRaises(t) PROVE ConsentsPersist
  BY <1>4, <1>a DEF Enter, StoreRaises, Propose, GrantConsent, Confirm, Begin, database
<1>5. CASE Crash \/ Restart \/ Recover \/ UNCHANGED vars
  BY <1>5, <1>a DEF Crash, Restart, Recover, Serve, RecoverOne, RecoverAudit, vars, database
<1>6. CASE Environment
  BY <1>6, <1>2, <1>a DEF Environment, SetLevel, GrantRight, RevokeRight
<1> QED BY <1>1, <1>3, <1>4, <1>5, <1>6 DEF Next

\* What a call has passed stays passed while it stands still and no authority
\* is given.
LEMMA KeepPassed ==
  ASSUME AInv, RowsPersist, ConsentsPersist, NEW t \in Thread, call'[t] = call[t],
         policy' = policy, level' = level, rights' \subseteq rights
  PROVE  Passed(t)'
<1>1. /\ Passed(t) /\ call[t].target \in Action /\ call[t].sess \in Session
  BY CallFields DEF AInv, IInv, TypeOK, LayersPassed
<1>2. MayInsert(t) => MayInsert(t)'
  BY <1>1 DEF MayInsert, RowsPersist, Who
<1>3. PassedFour(t) => /\ PassedFour(t)'
                       /\ row'[call[t].target].content = row[call[t].target].content
  BY <1>1 DEF PassedFour, RowsPersist, Who
<1>4. PassedFour(t) /\ PassedFive(t) => PassedFive(t)'
  BY <1>1, <1>3 DEF PassedFive, ConsentsPersist
<1>5. PassedFour(t) /\ LackingKnown(t) => LackingKnown(t)'
  BY <1>1, <1>3 DEF LackingKnown, Authority, Assured, IsActing, RowOf, Target, Who
<1> QED BY <1>1, <1>2, <1>3, <1>4, <1>5 DEF Passed

\* One thread moves.
LEMMA ThreadPasses ==
  ASSUME AInv, RowsPersist, ConsentsPersist, NEW t \in Thread, Step(t)
  PROVE  Others(t) /\ Passed(t)' /\ UNCHANGED <<policy, level, rights>>
<1> USE DEF At
<1>a. /\ Passed(t) /\ call[t].target \in Action /\ call[t].sess \in Session /\ TypeOK
      /\ row[call[t].target] \in Row
  BY CallFields DEF AInv, IInv, TypeOK, LayersPassed
<1>b. Return(t) => Others(t) /\ Passed(t)'
  BY <1>a, Returned DEF Passed
<1>c. UNCHANGED <<policy, level, rights>>
  BY DEF Step, ProposeInsert, ProposeFind, ProposeConsent, ProposeRight, ProposeCancel,
         ConsentFind, ConsentInsert, ConfirmFind, ConfirmConsent, ConfirmRight, ConfirmClaim,
         ConfirmLost, ConfirmRecheck, ConfirmRun, ConfirmFinish, ConfirmAudit, database, process
<1>d. ASSUME NEW l \in {"p_find", "p_consent", "p_right", "p_cancel", "c_lost", "c_audit"}, Goto(t, l)
      PROVE  Others(t) /\ Passed(t)'
  BY <1>a, <1>d, Moved DEF Passed, Label
<1>e. (UNCHANGED row /\ PassedFour(t) /\ call'[t].target = call[t].target
        /\ call'[t].sess = call[t].sess) => PassedFour(t)'
  BY <1>c DEF PassedFour, Who
<1>f. (UNCHANGED <<row, consents>> /\ PassedFive(t) /\ call'[t].target = call[t].target
        /\ call'[t].sess = call[t].sess) => PassedFive(t)'
  BY DEF PassedFive
<1>1. CASE \/ ProposeInsert(t) \/ ProposeFind(t) \/ ProposeConsent(t) \/ ProposeRight(t)
           \/ ProposeCancel(t) \/ ConsentInsert(t) \/ ConfirmLost(t) \/ ConfirmFinish(t)
           \/ ConfirmAudit(t)
  BY <1>1, <1>b, <1>c, <1>d DEF ProposeInsert, ProposeFind, ProposeConsent, ProposeRight,
     ProposeCancel, ConsentInsert, ConfirmLost, ConfirmFinish, ConfirmAudit
<1>2. CASE ConsentFind(t)
  <2>1. CASE Goto(t, "g_insert")
    <3>1. /\ call'[t].pc = "g_insert" /\ Others(t)
          /\ call'[t].target = call[t].target /\ call'[t].sess = call[t].sess
      BY <1>a, <2>1, Moved DEF Label
    <3>2. MayInsert(t)
      BY <1>2, <2>1, <1>a, <3>1, Returned DEF ConsentFind, MayInsert, RowOf, Target
    <3>3. MayInsert(t)'
      BY <1>2, <3>1, <3>2 DEF ConsentFind, database, MayInsert, Who
    <3> QED BY <1>c, <3>1, <3>3 DEF Passed
  <2> QED BY <1>2, <1>b, <1>c, <2>1 DEF ConsentFind
<1>3. CASE ConfirmFind(t)
  <2>1. CASE ~Return(t)
    <3>1. /\ call' = [call EXCEPT ![t].pc = "c_consent", ![t].seen = RowOf(t).state]
          /\ PassedFour(t) /\ UNCHANGED <<row, consents>>
      BY <1>3, <2>1 DEF ConfirmFind, PassedFour, InDomain, RowOf, Target, database
    <3>2. /\ call'[t].pc = "c_consent" /\ Others(t)
          /\ call'[t].target = call[t].target /\ call'[t].sess = call[t].sess
      BY <1>a, <3>1 DEF TypeOK, Call, Others
    <3> QED BY <1>c, <1>e, <3>1, <3>2 DEF Passed
  <2> QED BY <1>b, <1>c, <2>1
<1>4. CASE ConfirmConsent(t)
  <2>1. CASE Goto(t, "c_right") /\ Consented(t)
    <3>1. /\ call'[t].pc = "c_right" /\ Others(t)
          /\ call'[t].target = call[t].target /\ call'[t].sess = call[t].sess
      BY <1>a, <2>1, Moved DEF Label
    <3>2. /\ PassedFour(t) /\ PassedFive(t) /\ UNCHANGED <<row, consents>>
      BY <1>4, <1>a, <2>1 DEF ConfirmConsent, Passed, PassedFive, Consented, RowOf, Target, database
    <3> QED BY <1>c, <1>e, <1>f, <3>1, <3>2 DEF Passed
  <2> QED BY <1>4, <1>b, <1>c, <2>1 DEF ConfirmConsent
<1>5. CASE ConfirmRight(t)
  <2>1. CASE ~Return(t)
    <3>1. /\ call' = [call EXCEPT ![t].pc = "c_claim", ![t].actor = "none"]
          /\ PassedFour(t) /\ PassedFive(t) /\ UNCHANGED <<row, consents>>
      BY <1>5, <1>a, <2>1 DEF ConfirmRight, Passed, database
    <3>2. /\ call'[t].pc = "c_claim" /\ Others(t)
          /\ call'[t].target = call[t].target /\ call'[t].sess = call[t].sess
      BY <1>a, <3>1 DEF TypeOK, Call, Others
    <3> QED BY <1>c, <1>e, <1>f, <3>1, <3>2 DEF Passed
  <2> QED BY <1>b, <1>c, <2>1
<1>6. CASE ConfirmClaim(t)
  <2>1. CASE Claim(t) /\ HashMatches(t)
    <3>1. /\ PassedFour(t) /\ PassedFive(t) /\ UNCHANGED consents
          /\ call[t].arg = row[call[t].target].content
      BY <1>6, <1>a, <2>1 DEF ConfirmClaim, Passed, HashMatches, RowOf, Target
    <3>2. /\ call'[t].pc = "c_recheck" /\ Others(t)
          /\ call'[t].target = call[t].target /\ call'[t].sess = call[t].sess
          /\ call'[t].arg = call[t].arg
          /\ call'[t].lacking <=> ~Authority(t, level, rights)
      BY <1>a, <2>1, ZenonT(40) DEF Claim, TypeOK, Call, Others, Authority
    <3>3. /\ row'[call[t].target].state # "absent"
          /\ row'[call[t].target].content = row[call[t].target].content
          /\ row'[call[t].target].bound = row[call[t].target].bound
      BY <1>a, <3>1 DEF RowsPersist, PassedFour
    <3>4. PassedFour(t)' /\ PassedFive(t)'
      BY <1>c, <3>1, <3>2, <3>3 DEF PassedFour, PassedFive, Who
    <3>5. Authority(t, level, rights)' => Authority(t, level, rights)
      BY <1>c, <3>2, <3>3 DEF Authority, Assured, IsActing, RowOf, Target, Who
    <3>6. LackingKnown(t)'
      BY <3>2, <3>5 DEF LackingKnown
    <3> QED BY <1>c, <3>1, <3>2, <3>3, <3>4, <3>6 DEF Passed
  <2> QED BY <1>6, <1>b, <1>c, <1>d, <2>1 DEF ConfirmClaim
<1>7. CASE ConfirmRecheck(t)
  <2>1. CASE Goto(t, "c_run") /\ Authority(t, level, rights) /\ UNCHANGED row
    <3>1. /\ PassedFour(t) /\ PassedFive(t) /\ UNCHANGED <<row, consents>> /\ ~call[t].lacking
          /\ call[t].arg = row[call[t].target].content
      BY <1>7, <1>a, <2>1 DEF ConfirmRecheck, Passed, LackingKnown
    <3>2. /\ call'[t].pc = "c_run" /\ Others(t)
          /\ call'[t].target = call[t].target /\ call'[t].sess = call[t].sess
          /\ call'[t].arg = call[t].arg /\ call'[t].lacking = call[t].lacking
      BY <1>a, <2>1, Moved DEF Label
    <3> QED BY <1>c, <1>e, <1>f, <3>1, <3>2 DEF Passed
  <2> QED BY <1>7, <1>b, <1>c, <2>1 DEF ConfirmRecheck
<1>8. CASE ConfirmRun(t)
  <2>1. call'[t].pc = "c_finish" /\ Others(t)
    BY <1>8, <1>a DEF ConfirmRun, TypeOK, Call, Others
  <2> QED BY <1>c, <2>1 DEF Passed
<1> QED BY <1>1, <1>2, <1>3, <1>4, <1>5, <1>6, <1>7, <1>8 DEF Step

\* The steps that no thread takes.
LEMMA OutsidePasses ==
  ASSUME AInv, RowsPersist, ConsentsPersist, Crash \/ Restart \/ Recover \/ Environment
  PROVE  LayersPassed'
<1>0. TypeOK
  BY DEF AInv, IInv
<1>1. CASE \A t \in Thread : call'[t].pc = "idle"
  BY <1>1 DEF LayersPassed, Passed
<1>2. CASE Crash
  BY <1>2, <1>1 DEF Crash, NoCall
<1>3. CASE Restart \/ Recover
  <2>1. mode # "up" /\ UNCHANGED call
    BY <1>3 DEF Restart, Recover, Serve, RecoverOne, RecoverAudit
  <2> QED BY <1>1, <2>1 DEF AInv, IInv, IdleUnlessUp
<1>4. ASSUME NEW i \in Identity, NEW a \in Action, RevokeRight(i, a) PROVE LayersPassed'
  BY <1>4, KeepPassed DEF RevokeRight, process, LayersPassed
<1>5. ASSUME NEW a \in Action, NEW s \in Session, ConsentExpires(a, s) PROVE LayersPassed'
  BY <1>5, KeepPassed DEF ConsentExpires, process, LayersPassed
<1>6. ASSUME Regain(level', rights'), UNCHANGED <<row, consents, policy>>
      PROVE  LayersPassed'
  <2>1. ASSUME NEW t \in Thread PROVE Passed(t)'
    <3>1. /\ call'[t].pc = call[t].pc /\ call'[t].target = call[t].target
          /\ call'[t].sess = call[t].sess /\ call'[t].arg = call[t].arg
          /\ call'[t].lacking => call[t].lacking /\ ~Authority(t, level', rights')
      BY <1>0, <1>6 DEF Regain, TypeOK, Call, Authority
    <3>2. Authority(t, level, rights)' => Authority(t, level', rights')
      BY <1>6, <3>1 DEF Authority, Assured, IsActing, RowOf, Target, Who
    <3>3. LackingKnown(t)'
      BY <3>1, <3>2 DEF LackingKnown
    <3>4. Passed(t)
      BY DEF AInv, LayersPassed
    <3> QED BY <1>6, <3>1, <3>3, <3>4 DEF Passed, MayInsert, PassedFour, PassedFive, Who
  <2> QED BY <2>1 DEF LayersPassed
<1>7. ASSUME NEW s \in Session, NEW l \in Level, SetLevel(s, l) PROVE LayersPassed'
  <2>1. UNCHANGED <<row, consents, policy, rights>> /\ Regain(level', rights')
    BY <1>7 DEF SetLevel, process, Regain, Authority
  <2> QED BY <1>6, <2>1
<1>8. ASSUME NEW i \in Identity, NEW a \in Action, GrantRight(i, a) PROVE LayersPassed'
  <2>1. UNCHANGED <<row, consents, policy, level>> /\ Regain(level', rights')
    BY <1>8 DEF GrantRight, process, Regain, Authority
  <2> QED BY <1>6, <2>1
<1> QED BY <1>2, <1>3, <1>4, <1>5, <1>7, <1>8 DEF Environment

\* Only the proposer's session gains a consent.
LEMMA ConsentStep ==
  ASSUME AInv, RowsPersist, [Next]_vars
  PROVE  ConsentByProposer'
<1>1. CASE UNCHANGED consents
  BY <1>1 DEF AInv, ConsentByProposer, RowsPersist
<1>2. ASSUME NEW t \in Thread, ConsentInsert(t) PROVE ConsentByProposer'
  <2>1. /\ call[t].target \in Action /\ call[t].sess \in Session /\ MayInsert(t)
        /\ consents \in [Action -> [Session -> ConsentState]]
    BY <1>2, CallFields DEF AInv, IInv, TypeOK, LayersPassed, Passed, ConsentInsert, At
  <2>2. UNCHANGED row
    BY <1>2 DEF ConsentInsert
  <2>3. \A a \in Action, s \in Session :
          (a # call[t].target \/ s # call[t].sess) => consents'[a][s] = consents[a][s]
    BY <1>2, <2>1 DEF ConsentInsert, Target
  <2> QED BY <2>1, <2>2, <2>3 DEF AInv, ConsentByProposer, MayInsert, Who
<1>3. ASSUME NEW a \in Action, NEW s \in Session, ConsentExpires(a, s) PROVE ConsentByProposer'
  <2>1. \A b \in Action, z \in Session : consents'[b][z] # "none" => consents[b][z] # "none"
    BY <1>3 DEF ConsentExpires, AInv, IInv, TypeOK
  <2> QED BY <1>3, <2>1 DEF ConsentExpires, AInv, ConsentByProposer
<1>4. ASSUME NEW t \in Thread, Step(t), ~ConsentInsert(t) PROVE UNCHANGED consents
  BY <1>4 DEF Step, ProposeInsert, ProposeFind, ProposeConsent, ProposeRight,
     ProposeCancel, ConsentFind, ConfirmFind, ConfirmConsent, ConfirmRight, ConfirmClaim,
     ConfirmLost, ConfirmRecheck, ConfirmRun, ConfirmFinish, ConfirmAudit, database
<1>5. ASSUME NEW t \in Thread, Enter(t) \/ StoreRaises(t) PROVE UNCHANGED consents
  BY <1>5 DEF Enter, StoreRaises, Propose, GrantConsent, Confirm, Begin, database
<1>6. CASE Crash \/ Restart \/ Recover \/ UNCHANGED vars
  BY <1>6, <1>1 DEF Crash, Restart, Recover, Serve, RecoverOne, RecoverAudit, vars, database
<1>7. CASE Environment
  BY <1>7, <1>1, <1>3 DEF Environment, SetLevel, GrantRight, RevokeRight
<1> QED BY <1>1, <1>2, <1>4, <1>5, <1>6, <1>7 DEF Next

LEMMA AInvStep == AInv /\ [Next]_vars => AInv'
<1> SUFFICES ASSUME AInv, [Next]_vars PROVE AInv'
  OBVIOUS
<1>1. IInv' /\ RowsPersist /\ ConsentsPersist /\ ConsentByProposer'
  BY IInvStep, RowsPersistStep, ConsentsPersistStep, ConsentStep DEF AInv, IInv
<1>2. ASSUME NEW t \in Thread, Step(t) PROVE LayersPassed'
  <2>1. Others(t) /\ Passed(t)' /\ UNCHANGED <<policy, level, rights>>
    BY <1>1, <1>2, ThreadPasses
  <2> QED BY <1>1, <2>1, KeepPassed DEF LayersPassed, Others
<1>3. ASSUME NEW t \in Thread, Enter(t) \/ StoreRaises(t) PROVE LayersPassed'
  <2>1. /\ Others(t) /\ call'[t].pc \in {"idle", "p_insert", "g_find", "c_find"}
        /\ UNCHANGED <<policy, level, rights>>
    <3>1. CASE StoreRaises(t)
      BY <3>1, Returned DEF StoreRaises, database, AInv, IInv
    <3>2. CASE Enter(t)
      <4>1. PICK a \in Action, s \in Session, c \in Content,
                 l \in {"p_insert", "g_find", "c_find"} : Begin(t, a, s, c, l)
        BY <3>2 DEF Enter, Propose, GrantConsent, Confirm
      <4> QED BY <4>1 DEF Begin, NoCall, Others, AInv, IInv, TypeOK, database, process
    <3> QED BY <1>3, <3>1, <3>2
  <2>2. Passed(t)'
    BY <2>1 DEF Passed
  <2> QED BY <1>1, <2>1, <2>2, KeepPassed DEF LayersPassed, Others
<1>4. ASSUME Crash \/ Restart \/ Recover \/ Environment PROVE LayersPassed'
  BY <1>1, <1>4, OutsidePasses
<1>5. ASSUME UNCHANGED vars PROVE LayersPassed'
  BY <1>1, <1>5, KeepPassed DEF vars, LayersPassed
<1>6. LayersPassed'
  BY <1>2, <1>3, <1>4, <1>5 DEF Next
<1> QED BY <1>1, <1>6 DEF AInv

LEMMA AInvInit == Init => AInv
<1> SUFFICES ASSUME Init PROVE AInv
  OBVIOUS
<1>1. ConsentByProposer /\ LayersPassed
  BY DEF Init, ConsentByProposer, LayersPassed, Passed, NoCall
<1> QED BY <1>1, IInvInit DEF AInv

\* Nothing happens that was not approved: by a member, under the policy of
\* the proposal, with an authority that was there after the claim, and, for an
\* irreversible action, by its proposer in a session that consented.
THEOREM Authorised == Spec => AuthorisedEffect
<1>1. AInv /\ [Next]_vars =>
        \A a \in Action : effects'[a] # effects[a] =>
          \E t \in Thread :
            /\ At(t, "c_run") /\ Target(t) = a /\ call[t].arg = row[a].content
            /\ Who(t) \in Members /\ row[a].bound = policy
            /\ ~call[t].lacking
            /\ NeedsConsent[row[a].content] =>
                 /\ consents[a][call[t].sess] # "none"
                 /\ Who(t) = row[a].proposer
  <2> SUFFICES ASSUME AInv, [Next]_vars, NEW a \in Action, effects'[a] # effects[a]
               PROVE  \E t \in Thread :
                        /\ At(t, "c_run") /\ Target(t) = a /\ call[t].arg = row[a].content
                        /\ Who(t) \in Members /\ row[a].bound = policy
                        /\ ~call[t].lacking
                        /\ NeedsConsent[row[a].content] =>
                             /\ consents[a][call[t].sess] # "none"
                             /\ Who(t) = row[a].proposer
    OBVIOUS
  <2>1. PICK t \in Thread : ConfirmRun(t)
    <3>1. ASSUME NEW t \in Thread, Step(t), ~ConfirmRun(t) PROVE UNCHANGED effects
      BY <3>1 DEF Step, ProposeInsert, ProposeFind, ProposeConsent, ProposeRight, ProposeCancel,
         ConsentFind, ConsentInsert, ConfirmFind, ConfirmConsent, ConfirmRight, ConfirmClaim,
         ConfirmLost, ConfirmRecheck, ConfirmFinish, ConfirmAudit, database
    <3>2. ASSUME NEW t \in Thread, Enter(t) \/ StoreRaises(t) PROVE UNCHANGED effects
      BY <3>2 DEF Enter, StoreRaises, Propose, GrantConsent, Confirm, Begin, database
    <3>3. ASSUME Crash \/ Restart \/ Recover \/ Environment \/ UNCHANGED vars
          PROVE  UNCHANGED effects
      BY <3>3 DEF Crash, Restart, Recover, Serve, RecoverOne, RecoverAudit, Environment, SetLevel,
                  GrantRight, RevokeRight, ConsentExpires, vars, database
    <3> QED BY <3>1, <3>2, <3>3 DEF Next
  <2>2. At(t, "c_run") /\ Target(t) = a
    BY <2>1 DEF ConfirmRun, AInv, IInv, TypeOK
  <2>3. /\ PassedFour(t) /\ PassedFive(t) /\ ~call[t].lacking
        /\ call[t].arg = row[call[t].target].content /\ call[t].sess \in Session
    BY <2>2, CallFields DEF At, AInv, LayersPassed, Passed, IInv, TypeOK
  <2>4. consents[a][call[t].sess] # "none" => Who(t) = row[a].proposer
    BY <2>3 DEF AInv, ConsentByProposer, Who
  <2> QED BY <2>2, <2>3, <2>4 DEF PassedFour, PassedFive, Target
<1> QED BY <1>1, AInvInit, AInvStep, PTL DEF Spec, AuthorisedEffect

----------------------------------------------------------------------------
(* Verdicts.  Where a verdict comes from, what it says of an action that   *)
(* goes to the outbox, and when it stays without an entry in the audit.    *)

Audited(a) == \E o \in Outcome : <<a, o>> \in audit
Writing(t, a) == call[t].pc = "c_audit" /\ call[t].target = a

\* The audit has the verdict of an action, or it will unless something fails.
Covered(a) ==
  row[a].state \in Finished =>
    Audited(a) \/ a \in owed \/ \E t \in Thread : Writing(t, a)

\* In a thread only the end of confirm gives a verdict.
LEMMA ThreadVerdict ==
  ASSUME IInv, NEW t \in Thread, Step(t), NEW a \in Action,
         row[a].state \notin Finished, row'[a].state \in Finished
  PROVE  /\ Holds(t, a) /\ call[t].pc = "c_finish" /\ call[t].report # "unavailable"
         /\ row'[a].state = Recorded(call[t].report)
         /\ Writing(t, a)' /\ UNCHANGED effects
<1>a. /\ call[t].target \in Action /\ row \in [Action -> Row] /\ TypeOK
  BY CallFields DEF IInv, TypeOK
<1>b. row' # row
  OBVIOUS
<1>1. CASE ProposeInsert(t) \/ ProposeCancel(t)
  <2>1. CASE ProposeInsert(t)
    <3>1. PICK r : r.state = "pending" /\ row' = [row EXCEPT ![Target(t)] = r]
      BY <1>b, <2>1 DEF ProposeInsert
    <3>2. row'[a].state \in {row[a].state, "pending"}
      BY <1>a, <3>1 DEF Target
    <3> QED BY <3>2 DEF Finished
  <2>2. CASE ProposeCancel(t)
    <3>1. row' = [row EXCEPT ![Target(t)].state = "cancelled"]
      BY <1>b, <2>2 DEF ProposeCancel
    <3>2. row'[a].state \in {row[a].state, "cancelled"}
      BY <1>a, <3>1 DEF Target, Row
    <3> QED BY <3>2 DEF Finished
  <2> QED BY <1>1, <2>1, <2>2
<1>2. CASE \/ ProposeFind(t) \/ ProposeConsent(t) \/ ProposeRight(t)
           \/ ConsentFind(t) \/ ConsentInsert(t) \/ ConfirmFind(t)
           \/ ConfirmConsent(t) \/ ConfirmRight(t) \/ ConfirmLost(t)
           \/ ConfirmRun(t) \/ ConfirmAudit(t)
  BY <1>b, <1>2 DEF ProposeFind, ProposeConsent, ProposeRight, ConsentFind, ConsentInsert,
     ConfirmFind, ConfirmConsent, ConfirmRight, ConfirmLost, ConfirmRun, ConfirmAudit, database
<1>3. CASE ConfirmClaim(t)
  <2>1. Claim(t) => row'[a].state \in {row[a].state, "executing"}
    BY <1>a DEF Claim, Row, Target
  <2> QED BY <1>b, <1>3, <2>1 DEF ConfirmClaim, Finished
<1>4. Release(t) => row'[a].state \in {row[a].state, "pending"}
  BY <1>a DEF Release, Row, Target, RowOf
<1>5. CASE ConfirmRecheck(t)
  BY <1>b, <1>4, <1>5 DEF ConfirmRecheck, Finished
<1>6. CASE ConfirmFinish(t)
  <2>1. call[t].report # "unavailable"
    BY <1>4, <1>6 DEF ConfirmFinish, Finished
  <2>2. /\ Finish(Target(t), call[t].exec, Recorded(call[t].report))
        /\ Goto(t, "c_audit") /\ call[t].pc = "c_finish"
    BY <1>6, <2>1 DEF ConfirmFinish, At
  <2>3. a = call[t].target
    BY <1>a, <2>2 DEF Finish, Target
  <2>4. Holds(t, a)
    BY <2>2, <2>3 DEF Holds
  <2>5. row'[a].state = Recorded(call[t].report)
    BY <2>2, <2>3, <2>4, Finishes DEF Recorded, State, Target
  <2>6. Writing(t, a)'
    BY <1>a, <2>2, <2>3, Moved DEF Writing, Label
  <2> QED BY <1>6, <2>1, <2>2, <2>4, <2>5, <2>6 DEF ConfirmFinish
<1> QED BY <1>1, <1>2, <1>3, <1>5, <1>6 DEF Step

\* recover() gives one when it cannot tell that nothing happened.
LEMMA RecoveredVerdict ==
  ASSUME TypeOK, NEW b \in Action, RecoverOne(b), NEW a \in Action,
         row[a].state \notin Finished, row'[a].state \in Finished
  PROVE  /\ a = b /\ row[a].state = "executing" /\ Reconcile(a) # "false"
         /\ row'[a].state = IF Reconcile(a) = "true" THEN "executed" ELSE "unknown"
<1>1. a = b
  BY DEF RecoverOne, TypeOK
<1>2. CASE Reconcile(b) = "true"
  BY <1>1, <1>2 DEF RecoverOne, TypeOK, Row
<1>3. CASE Reconcile(b) = "false"
  BY <1>1, <1>3 DEF RecoverOne, TypeOK, Row, Finished
<1>4. CASE Reconcile(b) \notin {"true", "false"}
  BY <1>1, <1>4 DEF RecoverOne, TypeOK, Row
<1> QED BY <1>1, <1>2, <1>3, <1>4 DEF RecoverOne

\* Nobody else gives verdicts.
LEMMA VerdictGiven ==
  ASSUME IInv, [Next]_vars, NEW a \in Action,
         row[a].state \notin Finished, row'[a].state \in Finished
  PROVE  (\E t \in Thread : Step(t)) \/ RecoverOne(a)
<1>0. TypeOK /\ row' # row
  BY DEF IInv
<1>1. ASSUME NEW t \in Thread, Enter(t) \/ StoreRaises(t) PROVE UNCHANGED row
  BY <1>1 DEF Enter, StoreRaises, Propose, GrantConsent, Confirm, Begin, database
<1>2. Crash \/ Restart \/ Serve \/ Environment \/ UNCHANGED vars => UNCHANGED row
  BY DEF Crash, Restart, Serve, Environment, SetLevel, GrantRight, RevokeRight,
         ConsentExpires, vars, database
<1>3. \A b \in Action : RecoverAudit(b) => UNCHANGED row
  BY DEF RecoverAudit
<1>4. \A b \in Action : RecoverOne(b) => b = a
  BY <1>0, RecoveredVerdict
<1> QED BY <1>0, <1>1, <1>2, <1>3, <1>4 DEF Next, Recover

\* The recovery owes one entry at a time, and none before the first crash.
OwesOne == /\ \A a, b \in owed : a = b
           /\ crashes = 0 => mode = "up" /\ owed = {}

LEMMA OwesOneInit == Init => OwesOne
BY DEF Init, OwesOne

LEMMA OwesOneStep == TypeOK /\ OwesOne /\ [Next]_vars => OwesOne'
<1> SUFFICES ASSUME TypeOK, OwesOne, [Next]_vars PROVE OwesOne'
  OBVIOUS
<1>1. UNCHANGED <<owed, crashes, mode>> => OwesOne'
  BY DEF OwesOne
<1>2. ASSUME NEW t \in Thread, Step(t) PROVE UNCHANGED <<owed, crashes, mode>>
  BY <1>2 DEF Step, ProposeInsert, ProposeFind, ProposeConsent, ProposeRight, ProposeCancel,
     ConsentFind, ConsentInsert, ConfirmFind, ConfirmConsent, ConfirmRight, ConfirmClaim,
     ConfirmLost, ConfirmRecheck, ConfirmRun, ConfirmFinish, ConfirmAudit, process
<1>3. ASSUME NEW t \in Thread, Enter(t) \/ StoreRaises(t) PROVE UNCHANGED <<owed, crashes, mode>>
  BY <1>3 DEF Enter, StoreRaises, Propose, GrantConsent, Confirm, Begin, process
<1>4. CASE Crash
  BY <1>4 DEF Crash, OwesOne, TypeOK
<1>5. CASE Restart
  BY <1>5 DEF Restart, OwesOne
<1>6. ASSUME NEW a \in Action, RecoverOne(a) \/ RecoverAudit(a) PROVE OwesOne'
  BY <1>6 DEF RecoverOne, RecoverAudit, OwesOne
<1>7. CASE Serve
  BY <1>7 DEF Serve, OwesOne
<1>8. CASE Environment \/ UNCHANGED vars
  BY <1>1, <1>8 DEF Environment, SetLevel, GrantRight, RevokeRight, ConsentExpires, vars, process
<1> QED BY <1>1, <1>2, <1>3, <1>4, <1>5, <1>6, <1>7, <1>8 DEF Next, Recover

VInv == AInv /\ OwesOne

LEMMA VInvInductive == Spec => []VInv
<1>1. Init => VInv
  BY AInvInit, OwesOneInit DEF VInv
<1>2. VInv /\ [Next]_vars => VInv'
  BY AInvStep, OwesOneStep DEF VInv, AInv, IInv
<1> QED BY <1>1, <1>2, PTL DEF Spec

\* A covered action stays covered when no entry is taken back, nobody drops
\* the entry it was about to write, and a new verdict comes with its writer.
LEMMA CoverKeeps ==
  ASSUME NEW a \in Action, Covered(a), audit \subseteq audit',
         row[a].state \notin Finished /\ row'[a].state \in Finished
           => a \in owed' \/ \E t \in Thread : Writing(t, a)',
         a \in owed => a \in owed' \/ Audited(a)',
         \A t \in Thread : Writing(t, a) => Writing(t, a)' \/ Audited(a)'
  PROVE  Covered(a)'
<1>1. Audited(a) => Audited(a)'
  BY DEF Audited
<1> QED BY <1>1 DEF Covered

LEMMA ThreadCovers ==
  ASSUME AInv, AInv', [Next]_vars, NEW t \in Thread, Step(t),
         NEW a \in Action, Covered(a)
  PROVE  Covered(a)'
<1>1. Others(t)
  BY RowsPersistStep, ConsentsPersistStep, ThreadPasses DEF AInv, IInv
<1>2. UNCHANGED owed /\ (~ConfirmAudit(t) => UNCHANGED audit)
  BY DEF Step, ProposeInsert, ProposeFind, ProposeConsent, ProposeRight, ProposeCancel,
     ConsentFind, ConsentInsert, ConfirmFind, ConfirmConsent, ConfirmRight, ConfirmClaim,
     ConfirmLost, ConfirmRecheck, ConfirmRun, ConfirmFinish, ConfirmAudit, process, database
<1>3. ConfirmAudit(t) => /\ audit \subseteq audit'
                         /\ Writing(t, a) => Audited(a)'
  BY DEF ConfirmAudit, Writing, Audited, Target, Outcome
<1>4. Writing(t, a) => ConfirmAudit(t)
  BY DEF Writing, Step, At, ProposeInsert, ProposeFind, ProposeConsent, ProposeRight,
     ProposeCancel, ConsentFind, ConsentInsert, ConfirmFind, ConfirmConsent, ConfirmRight,
     ConfirmClaim, ConfirmLost, ConfirmRecheck, ConfirmRun, ConfirmFinish
<1>5. \A u \in Thread \ {t} : Writing(u, a) => Writing(u, a)'
  BY <1>1 DEF Others, Writing
<1>6. row[a].state \notin Finished /\ row'[a].state \in Finished => Writing(t, a)'
  BY ThreadVerdict DEF AInv
<1> QED BY <1>2, <1>3, <1>4, <1>5, <1>6, CoverKeeps

\* A verdict that the audit has, or will have, is lost for it in two ways: the
\* process crashes, or the call that was to write the entry raises.
LEMMA CoverStep ==
  ASSUME VInv, [Next]_vars, NEW a \in Action, Covered(a), ~Crash,
         \A t \in Thread : Writing(t, a) => ~StoreRaises(t)
  PROVE  Covered(a)'
<1>0. AInv /\ IInv /\ OwesOne /\ AInv' /\ TypeOK
  BY AInvStep DEF VInv, AInv, IInv
<1>1. ASSUME NEW t \in Thread, Step(t) PROVE Covered(a)'
  BY <1>0, <1>1, ThreadCovers
<1>2. ASSUME NEW t \in Thread, Enter(t) \/ StoreRaises(t) PROVE Covered(a)'
  <2>1. UNCHANGED <<row, owed, audit>>
    BY <1>2 DEF Enter, StoreRaises, Propose, GrantConsent, Confirm, Begin, process, database
  <2>2. CASE Enter(t)
    <3>1. PICK b \in Action, s \in Session, c \in Content,
               l \in {"p_insert", "g_find", "c_find"} : Begin(t, b, s, c, l)
      BY <2>2 DEF Enter, Propose, GrantConsent, Confirm
    <3>2. Others(t) /\ call[t].pc = "idle"
      BY <1>0, <3>1 DEF Begin, Others, At, TypeOK
    <3>3. \A u \in Thread : Writing(u, a) => Writing(u, a)'
      BY <3>2 DEF Others, Writing
    <3> QED BY <2>1, <3>3, CoverKeeps
  <2>3. CASE StoreRaises(t)
    <3>1. Others(t) /\ ~Writing(t, a)
      BY <1>0, <2>3, Returned DEF StoreRaises
    <3>2. \A u \in Thread : Writing(u, a) => Writing(u, a)'
      BY <3>1 DEF Others, Writing
    <3> QED BY <2>1, <3>2, CoverKeeps
  <2> QED BY <1>2, <2>2, <2>3
<1>3. CASE Restart \/ Serve \/ UNCHANGED vars
  <2>1. UNCHANGED <<row, owed, audit, call>>
    BY <1>3 DEF Restart, Serve, vars, database
  <2> QED BY <2>1 DEF Covered, Audited, Writing
<1>4. ASSUME NEW b \in Action, RecoverOne(b) PROVE Covered(a)'
  <2>1. UNCHANGED <<audit, call>> /\ owed = {} /\ owed' = {b}
    BY <1>4 DEF RecoverOne
  <2>2. row[a].state \notin Finished /\ row'[a].state \in Finished => a = b
    BY <1>0, <1>4, RecoveredVerdict
  <2> QED BY <2>1, <2>2, CoverKeeps DEF Writing
<1>5. ASSUME NEW b \in Action, RecoverAudit(b) PROVE Covered(a)'
  <2>1. UNCHANGED <<row, call>> /\ b \in owed /\ audit' = audit \cup {<<b, "recover">>}
    BY <1>5 DEF RecoverAudit
  <2>2. a \in owed => Audited(a)'
    BY <1>0, <2>1 DEF OwesOne, Audited, Outcome
  <2> QED BY <2>1, <2>2, CoverKeeps DEF Writing
<1>6. CASE Environment
  <2>1. UNCHANGED <<row, owed, audit>> /\ \A t \in Thread : Writing(t, a) => Writing(t, a)'
    <3>1. ASSUME NEW lv, NEW rs, Regain(lv, rs), NEW t \in Thread
          PROVE  Writing(t, a) => Writing(t, a)'
      BY <1>0, <3>1 DEF Regain, TypeOK, Call, Writing
    <3>2. UNCHANGED call => \A t \in Thread : Writing(t, a) => Writing(t, a)'
      BY DEF Writing
    <3> QED BY <1>6, <3>1, <3>2 DEF Environment, SetLevel, GrantRight, RevokeRight,
                                   ConsentExpires, process
  <2> QED BY <2>1, CoverKeeps
<1> QED BY <1>1, <1>2, <1>3, <1>4, <1>5, <1>6 DEF Next, Recover

\* The only ways out of the audit (finish() and append_audit() are two
\* transactions): a verdict that has its entry, or somebody to write it, keeps
\* it through every step but a crash and a raised call of that very writer.
OnlyFaultsUncover ==
  [][\A a \in Action : Covered(a) /\ ~Covered(a)' =>
       Crash \/ \E t \in Thread : Writing(t, a) /\ StoreRaises(t)]_vars

THEOREM VerdictsStayCovered == Spec => OnlyFaultsUncover
<1>1. VInv /\ [Next]_vars =>
        \A a \in Action : Covered(a) /\ ~Covered(a)' =>
          Crash \/ \E t \in Thread : Writing(t, a) /\ StoreRaises(t)
  BY CoverStep
<1> QED BY <1>1, VInvInductive, PTL DEF Spec, OnlyFaultsUncover

\* Nothing undoes a crash or a raised call.
LEMMA CountsGrow ==
  ASSUME [Next]_vars
  PROVE  crashes' \in {crashes, crashes + 1} /\ errors' \in {errors, errors + 1}
<1>1. ASSUME NEW t \in Thread, Step(t) PROVE UNCHANGED <<crashes, errors>>
  BY <1>1 DEF Step, ProposeInsert, ProposeFind, ProposeConsent, ProposeRight, ProposeCancel,
     ConsentFind, ConsentInsert, ConfirmFind, ConfirmConsent, ConfirmRight, ConfirmClaim,
     ConfirmLost, ConfirmRecheck, ConfirmRun, ConfirmFinish, ConfirmAudit, process
<1>2. ASSUME NEW t \in Thread, Enter(t) PROVE UNCHANGED <<crashes, errors>>
  BY <1>2 DEF Enter, Propose, GrantConsent, Confirm, Begin, process
<1>3. ASSUME NEW t \in Thread, StoreRaises(t) PROVE crashes' = crashes /\ errors' = errors + 1
  BY <1>3 DEF StoreRaises
<1>4. Crash => crashes' = crashes + 1 /\ errors' = errors
  BY DEF Crash
<1>5. Restart \/ Recover \/ Environment \/ UNCHANGED vars => UNCHANGED <<crashes, errors>>
  BY DEF Restart, Recover, Serve, RecoverOne, RecoverAudit, Environment, SetLevel, GrantRight,
         RevokeRight, ConsentExpires, vars, process
<1> QED BY <1>1, <1>2, <1>3, <1>4, <1>5 DEF Next

\* So what the run gate_audit refutes holds as long as nothing fails: every
\* verdict is in the audit of a process that never crashed and whose store
\* never raised, or a thread is about to write it there.
AuditedUnlessFault == crashes = 0 /\ errors = 0 => ExecutedIsAudited

THEOREM AuditedWithoutFaults == Spec => []AuditedUnlessFault
<1> DEFINE Clean == crashes = 0 /\ errors = 0 => \A a \in Action : Covered(a)
<1>1. Init => Clean
  BY DEF Init, NoRow, Covered, Finished
<1>2. ASSUME VInv, VInv', Clean, [Next]_vars PROVE Clean'
  <2> SUFFICES ASSUME crashes' = 0, errors' = 0, NEW a \in Action PROVE Covered(a)'
    OBVIOUS
  <2>1. crashes \in Nat /\ errors \in Nat
    BY <1>2 DEF VInv, AInv, IInv, TypeOK
  <2>2. ~Crash /\ \A t \in Thread : ~StoreRaises(t)
    BY <2>1 DEF Crash, StoreRaises
  <2>3. crashes = 0 /\ errors = 0
    <3>1. crashes' \in {crashes, crashes + 1} /\ errors' \in {errors, errors + 1}
      BY <1>2, CountsGrow
    <3> QED BY <2>1, <3>1
  <2> QED BY <1>2, <2>2, <2>3, CoverStep
<1>3. VInv /\ Clean => AuditedUnlessFault
  <2> SUFFICES ASSUME VInv, Clean, crashes = 0, errors = 0 PROVE ExecutedIsAudited
    BY DEF AuditedUnlessFault
  <2>1. owed = {} /\ \A a \in Action : Covered(a)
    BY DEF VInv, OwesOne
  <2> QED BY <2>1 DEF Covered, Audited, Writing, ExecutedIsAudited, At, Target
<1> QED BY <1>1, <1>2, <1>3, VInvInductive, PTL DEF Spec

\* What the outbox can be told of: its row and its execution id are written in
\* one transaction, so neither its executor nor reconcile() ever says failed,
\* and unknown it is only when nothing was written.
OutboxKnown ==
  \A a \in Action : KindOf[row[a].content] = "outbox" =>
    /\ row[a].state # "failed" /\ (row[a].state = "unknown" => effects[a] = {})
    /\ \A t \in Thread : Holds(t, a) /\ call[t].pc = "c_finish" =>
         \/ call[t].report = "succeeded"
         \/ call[t].report = "raised" /\ effects[a] = {}

\* A thread that reports on an action has held it, and has just run it or
\* reports what it already did.
LEMMA Reporting ==
  ASSUME AInv, [Next]_vars, NEW t \in Thread, NEW a \in Action,
         Holds(t, a)', call'[t].pc = "c_finish"
  PROVE  /\ Holds(t, a)
         /\ \/ ConfirmRun(t)
            \/ /\ call[t].pc = "c_finish" /\ call'[t].report = call[t].report
               /\ effects'[a] = effects[a]
<1> USE DEF Holds
<1>0. IInv /\ TypeOK
  BY DEF AInv, IInv
<1>1. ASSUME NEW u \in Thread, Step(u)
      PROVE  Others(u) /\ (effects' # effects => ConfirmRun(u))
  <2>1. Others(u)
    BY <1>0, <1>1, RowsPersistStep, ConsentsPersistStep, ThreadPasses
  <2>2. effects' # effects => ConfirmRun(u)
    BY <1>1 DEF Step, ProposeInsert, ProposeFind, ProposeConsent, ProposeRight, ProposeCancel,
       ConsentFind, ConsentInsert, ConfirmFind, ConfirmConsent, ConfirmRight, ConfirmClaim,
       ConfirmLost, ConfirmRecheck, ConfirmFinish, ConfirmAudit, database
  <2> QED BY <2>1, <2>2
<1>2. ASSUME NEW u \in Thread \ {t}, Step(u)
      PROVE  Holds(t, a) /\ call'[t] = call[t] /\ effects'[a] = effects[a]
  <2>1. call'[t] = call[t]
    BY <1>1, <1>2 DEF Others
  <2>2. Holds(t, a) /\ call[u].target \in Action
    BY <1>0, <2>1, CallFields DEF TypeOK
  <2>3. ASSUME ConfirmRun(u) PROVE call[u].target # a
    BY <1>0, <2>2, <2>3 DEF ConfirmRun, At, IInv, SoleHolder
  <2>4. ConfirmRun(u) => effects'[a] = effects[a]
    BY <1>0, <2>3 DEF ConfirmRun, Target, TypeOK
  <2> QED BY <1>1, <1>2, <2>1, <2>2, <2>4
<1>3. ASSUME Step(t) PROVE ConfirmRun(t) /\ Holds(t, a)
  <2>1. ASSUME NEW l \in Label \ {"c_finish"}, Goto(t, l) PROVE FALSE
    BY <1>0, <2>1, Moved
  <2>2. ~Return(t)
    BY <1>0, Returned
  <2>3. CASE \/ ProposeInsert(t) \/ ProposeFind(t) \/ ProposeConsent(t) \/ ProposeRight(t)
             \/ ProposeCancel(t) \/ ConsentFind(t) \/ ConsentInsert(t)
             \/ ConfirmConsent(t) \/ ConfirmLost(t)
             \/ ConfirmRecheck(t) \/ ConfirmFinish(t) \/ ConfirmAudit(t)
    BY <2>1, <2>2, <2>3 DEF ProposeInsert, ProposeFind, ProposeConsent, ProposeRight,
       ProposeCancel, ConsentFind, ConsentInsert, ConfirmConsent,
       ConfirmLost, ConfirmRecheck, ConfirmFinish, ConfirmAudit, Label
  <2>4. CASE ConfirmFind(t) \/ ConfirmRight(t)
    BY <1>0, <2>2, <2>4 DEF ConfirmFind, ConfirmRight, TypeOK, Call
  <2>5. CASE ConfirmClaim(t)
    <3>1. ~Claim(t)
      BY <1>0 DEF Claim, TypeOK, Call
    <3> QED BY <2>1, <2>2, <2>5, <3>1 DEF ConfirmClaim, Label
  <2>6. CASE ConfirmRun(t)
    <3>1. call[t].pc = "c_run" /\ call'[t].target = call[t].target
      BY <1>0, <2>6 DEF ConfirmRun, At, TypeOK, Call
    <3> QED BY <2>6, <3>1
  <2> QED BY <1>3, <2>3, <2>4, <2>5, <2>6 DEF Step
<1>4. ASSUME NEW u \in Thread, Enter(u) \/ StoreRaises(u)
      PROVE  call'[t] = call[t] /\ UNCHANGED effects
  <2>1. UNCHANGED effects
    BY <1>4 DEF Enter, StoreRaises, Propose, GrantConsent, Confirm, Begin, database
  <2>2. CASE StoreRaises(u)
    BY <1>0, <2>1, <2>2, Returned DEF StoreRaises, Others
  <2>3. CASE Enter(u)
    <3>1. PICK b \in Action, s \in Session, c \in Content,
               l \in {"p_insert", "g_find", "c_find"} : Begin(u, b, s, c, l)
      BY <2>3 DEF Enter, Propose, GrantConsent, Confirm
    <3>2. Others(u) /\ call'[u].pc = l
      BY <1>0, <3>1 DEF Begin, NoCall, Others, TypeOK
    <3> QED BY <2>1, <3>2 DEF Others
  <2> QED BY <1>4, <2>2, <2>3
<1>5. ~Crash
  BY DEF Crash, NoCall
<1>6. CASE Restart \/ Recover \/ Environment \/ UNCHANGED vars
  <2>1. UNCHANGED effects
    BY <1>6 DEF Restart, Recover, Serve, RecoverOne, RecoverAudit, Environment, SetLevel,
                GrantRight, RevokeRight, ConsentExpires, vars, database
  <2>2. ASSUME NEW lv, NEW rs, Regain(lv, rs)
        PROVE  /\ call'[t].pc = call[t].pc /\ call'[t].target = call[t].target
               /\ call'[t].report = call[t].report
    BY <1>0, <2>2 DEF Regain, TypeOK, Call
  <2> QED BY <1>6, <2>1, <2>2 DEF Restart, Recover, Serve, RecoverOne, RecoverAudit,
             Environment, SetLevel, GrantRight, RevokeRight, ConsentExpires, vars
<1> QED BY <1>2, <1>3, <1>4, <1>5, <1>6 DEF Next

LEMMA OutboxStep ==
  ASSUME AInv, OutboxKnown, [Next]_vars
  PROVE  OutboxKnown'
<1>0. IInv /\ TypeOK /\ RowsPersist
  BY RowsPersistStep DEF AInv, IInv
<1> SUFFICES ASSUME NEW a \in Action, KindOf[row'[a].content] = "outbox"
             PROVE  /\ row'[a].state # "failed" /\ (row'[a].state = "unknown" => effects'[a] = {})
                    /\ \A t \in Thread : Holds(t, a)' /\ call'[t].pc = "c_finish" =>
                         \/ call'[t].report = "succeeded"
                         \/ call'[t].report = "raised" /\ effects'[a] = {}
  BY DEF OutboxKnown
<1>1. ASSUME row[a].state # "absent"
      PROVE  /\ KindOf[row[a].content] = "outbox"
             /\ row[a].state # "failed" /\ (row[a].state = "unknown" => effects[a] = {})
             /\ \A t \in Thread : Holds(t, a) /\ call[t].pc = "c_finish" =>
                  \/ call[t].report = "succeeded"
                  \/ call[t].report = "raised" /\ effects[a] = {}
  BY <1>0, <1>1 DEF RowsPersist, OutboxKnown
<1>2. ASSUME NEW t \in Thread, Holds(t, a)', call'[t].pc = "c_finish"
      PROVE  \/ call'[t].report = "succeeded"
             \/ call'[t].report = "raised" /\ effects'[a] = {}
  <2>1. Holds(t, a) /\ row[a].state = "executing"
    BY <1>0, <1>2, Reporting DEF IInv, HolderKnows
  <2>2. CASE ConfirmRun(t)
    <3>1. Target(t) = a /\ effects[a] = {}
      BY <1>0, <2>1, <2>2 DEF ConfirmRun, At, Holds, Target, IInv, HolderKnows
    <3>2. PICK r \in Runs(a) :
            /\ effects' = IF r[1] THEN [effects EXCEPT ![a] = @ \cup {call[t].exec}]
                                  ELSE effects
            /\ call' = [call EXCEPT ![t].pc = "c_finish", ![t].report = r[2]]
      BY <2>2, <3>1 DEF ConfirmRun
    <3>3. r = <<FALSE, "raised">> \/ r = <<TRUE, "succeeded">>
      BY <1>1, <2>1, <3>1 DEF Runs, OutboxRuns
    <3>4. call'[t].report = r[2] /\ (~r[1] => effects' = effects)
      BY <1>0, <3>2 DEF TypeOK, Call
    <3>5. CASE r = <<TRUE, "succeeded">>
      BY <3>4, <3>5
    <3>6. CASE r = <<FALSE, "raised">>
      BY <3>1, <3>4, <3>6
    <3> QED BY <3>3, <3>5, <3>6
  <2> QED BY <1>0, <1>1, <1>2, <2>1, <2>2, Reporting
<1>3. CASE row'[a].state \notin Finished
  BY <1>2, <1>3 DEF Finished
<1>4. CASE row[a].state \in Finished
  <2>1. row'[a].state = row[a].state /\ effects'[a] = effects[a]
    BY <1>0, <1>4, FinalStep
  <2> QED BY <1>1, <1>2, <1>4, <2>1 DEF Finished
<1>5. CASE row[a].state \notin Finished /\ row'[a].state \in Finished
  <2>1. ASSUME NEW t \in Thread, Step(t)
        PROVE  row'[a].state \in {"executed", "unknown"}
               /\ (row'[a].state = "unknown" => effects'[a] = {})
    <3>1. /\ Holds(t, a) /\ call[t].pc = "c_finish"
          /\ row'[a].state = Recorded(call[t].report) /\ UNCHANGED effects
      BY <1>0, <1>5, <2>1, ThreadVerdict
    <3>2. row[a].state = "executing"
      BY <1>0, <3>1 DEF IInv, HolderKnows
    <3> QED BY <1>1, <3>1, <3>2 DEF Recorded
  <2>2. ASSUME RecoverOne(a) PROVE row'[a].state = "executed"
    <3>1. /\ row[a].state = "executing" /\ Reconcile(a) # "false"
          /\ row'[a].state = IF Reconcile(a) = "true" THEN "executed" ELSE "unknown"
      BY <1>0, <1>5, <2>2, RecoveredVerdict
    <3>2. effects[a] \subseteq {row[a].execution} /\ KindOf[row[a].content] = "outbox"
      BY <1>0, <1>1, <3>1 DEF IInv, HonestState
    <3>3. Reconcile(a) = "true"
      BY <3>1, <3>2 DEF Reconcile
    <3> QED BY <3>1, <3>3
  <2> QED BY <1>0, <1>2, <1>5, <2>1, <2>2, VerdictGiven
<1> QED BY <1>3, <1>4, <1>5

\* A verdict on an action for the outbox tells exactly whether it happened:
\* it is never failed, executed if and only if the row was written, and
\* unknown is then a cautious no.  (Only a reply of logind that came too late
\* makes the state failed of an action that happened, as gate_failed shows.)
OutboxExact ==
  \A a \in Action : KindOf[row[a].content] = "outbox" =>
    /\ row[a].state # "failed"
    /\ row[a].state \in Finished => (row[a].state = "executed") = (effects[a] # {})

THEOREM OutboxTellsExactly == Spec => []OutboxExact
<1>1. Init => OutboxKnown
  BY DEF Init, OutboxKnown, NoRow, NoCall, Holds
<1>2. AInv /\ OutboxKnown => OutboxExact
  BY DEF AInv, IInv, HonestState, OutboxKnown, OutboxExact, Finished
<1> QED BY <1>1, <1>2, OutboxStep, AInvInit, AInvStep, PTL DEF Spec

\* However often an action is proposed and confirmed, and whatever crashes or
\* raises in between, it takes effect at most once.
AtMostOnce == \A a \in Action : \A m, n \in effects[a] : m = n

THEOREM HappensAtMostOnce == Spec => []AtMostOnce
<1>1. IInv => AtMostOnce
  <2> SUFFICES ASSUME IInv, NEW a \in Action PROVE \A m, n \in effects[a] : m = n
    BY DEF AtMostOnce
  <2>1. row[a].state \in State
    BY DEF IInv, TypeOK, Row
  <2> QED BY <2>1 DEF IInv, HonestState, State
<1> QED BY <1>1, Inductive, PTL
=============================================================================
