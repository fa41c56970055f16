----------------------------- MODULE MCServices -----------------------------
(* The services around the gate, each on an instance of its own.  They     *)
(* share no variable: a behaviour is one of some part, chosen at first,    *)
(* while the others stay as they began.                                    *)
EXTENDS Login, PolicyGate, AuditTrail, MCCel, RedmineTools,
        DaemonRuntime, MerkleSync, Trust, Recovery

VARIABLE part

\* AuditTrail: an event of another device that claims to be the first.
Foreign == {[id |-> MaxEvents + 1, sequence |-> 1, previous |-> 0]}

\* CelEvaluator: a Boolean, an integer, a day and a time, half a day apart.
Values == {Value("bool", 0), Value("int", 1), Value("dateText", 2), Value("timeText", 3)}

\* RedmineTools: the plan has both contracts be A's and free to start; by its
\* prompt, the second is B's and waits for the first.
Work(owner, after) == [owner |-> owner, after |-> after]
InPlan == <<Work("A", {}), Work("A", {})>>
InPrompts == <<Work("A", {}), Work("B", {1})>>

\* DaemonRuntime
Daemons == <<"stated", "fleetd">>

\* MerkleSync: 2 and 5 hang on 1, 2 and 3 share an id, 4 hangs on it, 6 on itself.
Ids == <<1, 2, 2, 3, 4, 5>>
ParentIds == <<0, 1, 0, 2, 1, 5>>

\* Trust: a root that expires, an intermediate of its, a false one of the
\* same name, a leaf of each with the same serial, and an OCSP responder.
Certificate(name, issuer, signer, serial, until, ca, ocsp) ==
    [name |-> name, issuer |-> issuer, signer |-> signer, serial |-> serial,
     from |-> 0, until |-> until, ca |-> ca, ocsp |-> ocsp]
Certificates ==
    <<Certificate("R", "R", 1, 1, 2, TRUE, FALSE),
      Certificate("I", "R", 1, 3, 6, TRUE, FALSE),
      Certificate("I", "I", 3, 1, 6, TRUE, FALSE),
      Certificate("L", "I", 2, 2, 6, FALSE, FALSE),
      Certificate("M", "I", 3, 2, 6, FALSE, FALSE),
      Certificate("O", "I", 2, 3, 6, FALSE, TRUE)>>
Shown == {<<4>>, <<4, 2>>, <<4, 2, 1>>, <<4, 3>>, <<5, 2>>, <<5, 3, 2>>, <<6, 2, 1>>}
TrustedLists == {{}, {4}}

-----------------------------------------------------------------------------
Quiet == [op |-> "none"]
CelIdle ==
    /\ expr = Quiet /\ context = [p \in Path |-> Error]
    /\ allowed = "none" /\ flag = "none"

\* Where a part may begin in several ways, one of them does for its rest.
Init ==
    /\ part \in {"login", "policy", "audit", "cel", "redmine", "daemons",
                 "merkle", "trust", "recovery"}
    /\ LoginInit /\ (part # "login" => mock)
    /\ PolicyInit
    /\ part # "policy" =>
         \A t \in Executor : proposal[t] = CHOOSE p \in Proposal : TRUE
    /\ AuditInit
    /\ (part = "cel" /\ CelInit) \/ (part # "cel" /\ CelIdle)
    /\ RedmineInit
    /\ fields \in IF part = "redmine" THEN {{}, {"Owner", "Depends on"}} ELSE {{}}
    /\ RuntimeInit /\ MerkleInit
    /\ TrustInit /\ (part # "trust" => list = Never)
    /\ RecoveryInit

Next ==
    \/ part = "login" /\ LoginNext
         /\ UNCHANGED <<part, policy, audit, cel, redmine, runtime, merkle, trust, recovery>>
    \/ part = "policy" /\ PolicyNext
         /\ UNCHANGED <<part, login, audit, cel, redmine, runtime, merkle, trust, recovery>>
    \/ part = "audit" /\ AuditNext
         /\ UNCHANGED <<part, login, policy, cel, redmine, runtime, merkle, trust, recovery>>
    \/ part = "cel" /\ CelNext
         /\ UNCHANGED <<part, login, policy, audit, redmine, runtime, merkle, trust, recovery>>
    \/ part = "redmine" /\ RedmineNext
         /\ UNCHANGED <<part, login, policy, audit, cel, runtime, merkle, trust, recovery>>
    \/ part = "daemons" /\ RuntimeNext
         /\ UNCHANGED <<part, login, policy, audit, cel, redmine, merkle, trust, recovery>>
    \/ part = "merkle" /\ MerkleNext
         /\ UNCHANGED <<part, login, policy, audit, cel, redmine, runtime, trust, recovery>>
    \/ part = "trust" /\ TrustNext
         /\ UNCHANGED <<part, login, policy, audit, cel, redmine, runtime, merkle, recovery>>
    \/ part = "recovery" /\ RecoveryNext
         /\ UNCHANGED <<part, login, policy, audit, cel, redmine, runtime, merkle, trust>>

Spec == Init /\ [][Next]_<<part, login, policy, audit, cel, redmine, runtime,
                          merkle, trust, recovery>>

\* The types of all parts, with the few facts each adds to its own.
ServicesTypeOK ==
    /\ LoginTypeOK /\ PolicyTypeOK /\ AuditTypeOK /\ RedmineTypeOK
    /\ RuntimeTypeOK /\ MerkleTypeOK /\ TrustTypeOK /\ RecoveryTypeOK
=============================================================================
