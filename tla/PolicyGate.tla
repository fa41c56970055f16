----------------------------- MODULE PolicyGate -----------------------------
(***************************************************************************)
(* The versioned rule store (app/core/policy_store.py) and the execution   *)
(* of a proposal behind it (app/daemons/intentd.py, transformation.py,     *)
(* constraint.py): every version of a rule stays, the newest one counts,   *)
(* and the rules are read once, evaluated, evaluated again and followed by *)
(* the append.  Rules change while proposals are under way.                *)
(*                                                                         *)
(* A rule's expression is the set of proposals it evaluates to true for;   *)
(* CelEvaluator shows that an error in it counts as false.                 *)
(***************************************************************************)
EXTENDS Naturals, Sequences, FiniteSets

CONSTANTS
    Executor,       \* threads inside IntentDaemonService.execute
    Proposal,       \* what the parser may propose, all of one type
    Rule,           \* rule ids for that type or for "*"
    MaxVersions     \* bound: versions of a rule

ASSUME PolicyAssumption == MaxVersions \in Nat \ {0}

VARIABLES
    rules,      \* of each rule: its versions, oldest first
    doing,      \* where each executor is
    proposal,   \* what it executes
    read,       \* the constraints it read
    stored,     \* proposals that were appended to the state log
    told,       \* proposals answered as executed
    known,      \* those with an entry in the knowledge repository
    inForce,    \* history: what each rule demands now, as last administered
    demand      \* history: inForce when the executor read the rules

policy == <<rules, doing, proposal, read, stored, told, known, inForce, demand>>

Version == [enabled : BOOLEAN, allows : SUBSET Proposal]
Seeded == [enabled |-> TRUE, allows |-> Proposal]

PolicyTypeOK ==
    /\ \A r \in Rule : /\ Len(rules[r]) \in 1..MaxVersions
                       /\ \A n \in DOMAIN rules[r] : rules[r][n] \in Version
    /\ doing \in [Executor -> {"idle", "read", "gate", "apply", "append",
                               "publish", "learn"}]
    /\ \A t \in Executor : read[t] \subseteq [rule : Rule, version : 1..MaxVersions]
    /\ told \subseteq known /\ known \subseteq stored

\* The defaults were seeded when the store was made.
PolicyInit ==
    /\ rules = [r \in Rule |-> <<Seeded>>]
    /\ doing = [t \in Executor |-> "idle"]
    /\ proposal \in [Executor -> Proposal]
    /\ read = [t \in Executor |-> {}]
    /\ stored = {} /\ told = {} /\ known = {}
    /\ inForce = [r \in Rule |-> Proposal]
    /\ demand = [t \in Executor |-> inForce]

-----------------------------------------------------------------------------
\* add_rule, which is update_rule too: under the lock, MAX(version) + 1.
AddRule(r, v) ==
    /\ Len(rules[r]) < MaxVersions
    /\ rules' = [rules EXCEPT ![r] = Append(@, v)]
    /\ inForce' = [inForce EXCEPT ![r] = IF v.enabled THEN v.allows ELSE Proposal]
    /\ UNCHANGED <<doing, proposal, read, stored, told, known, demand>>

Now(t, from, to) == doing[t] = from /\ doing' = [doing EXCEPT ![t] = to]

\* Every error of the request; nothing is undone.
Abandon(t, from) ==
    /\ Now(t, from, "idle")
    /\ read' = [read EXCEPT ![t] = {}]
    /\ UNCHANGED <<rules, proposal, stored, told, known, inForce, demand>>

\* parse; a proposal that needs clarification ends here.
Parse(t, p) ==
    /\ Now(t, "idle", "read")
    /\ proposal' = [proposal EXCEPT ![t] = p]
    /\ UNCHANGED <<rules, read, stored, told, known, inForce, demand>>

\* MUTANT: disabled rows are left out before the newest version is chosen.
NewestEnabled(r) ==
    {[rule |-> r, version |-> n] :
        n \in {m \in DOMAIN rules[r] :
                 /\ rules[r][m].enabled
                 /\ \A k \in DOMAIN rules[r] : rules[r][k].enabled => k <= m}}

\* get_constraints: the newest version, if it is enabled.
Latest(r) ==
    LET n == Len(rules[r])
    IN  IF rules[r][n].enabled THEN {[rule |-> r, version |-> n]} ELSE {}

GetConstraints(t) ==
    \/ /\ Now(t, "read", "gate")
       /\ read' = [read EXCEPT ![t] = UNION {Latest(r) : r \in Rule}]
       /\ demand' = [demand EXCEPT ![t] = inForce]
       /\ UNCHANGED <<rules, proposal, stored, told, known, inForce>>
    \/ Abandon(t, "read")

Evaluates(c, p) == p \in rules[c.rule][c.version].allows

\* The gate evaluates all of them; a failure or an error ends the request.
Gate(t) ==
    \/ /\ \A c \in read[t] : Evaluates(c, proposal[t])
       /\ Now(t, "gate", "apply")
       /\ UNCHANGED <<rules, proposal, read, stored, told, known, inForce, demand>>
    \/ Abandon(t, "gate")

\* apply_proposal evaluates what was read once more, then appends; the call
\* to stated may fail before or after the state is stored.
Apply(t) ==
    \/ /\ \A c \in read[t] : Evaluates(c, proposal[t])
       /\ Now(t, "apply", "append")
       /\ UNCHANGED <<rules, proposal, read, stored, told, known, inForce, demand>>
    \/ Abandon(t, "apply")

AppendState(t) ==
    /\ doing[t] = "append"
    /\ \/ /\ stored' = stored \cup {proposal[t]}
          /\ \/ Now(t, "append", "publish") /\ UNCHANGED read
             \/ Now(t, "append", "idle") /\ read' = [read EXCEPT ![t] = {}]
          /\ UNCHANGED <<rules, proposal, told, known, inForce, demand>>
       \/ Abandon(t, "append")

\* A subscriber of state.transformed may raise: the answer is a failure.
Publish(t) ==
    \/ /\ Now(t, "publish", "learn")
       /\ UNCHANGED <<rules, proposal, read, stored, told, known, inForce, demand>>
    \/ Abandon(t, "publish")

Learn(t) ==
    /\ Now(t, "learn", "idle")
    /\ known' = known \cup {proposal[t]}
    /\ told' = told \cup {proposal[t]}
    /\ read' = [read EXCEPT ![t] = {}]
    /\ UNCHANGED <<rules, proposal, stored, inForce, demand>>

PolicyNext ==
    \/ \E r \in Rule, v \in Version : AddRule(r, v)
    \/ \E t \in Executor :
         \/ \E p \in Proposal : Parse(t, p)
         \/ GetConstraints(t) \/ Gate(t) \/ Apply(t)
         \/ AppendState(t) \/ Publish(t) \/ Learn(t)

PolicySpec == PolicyInit /\ [][PolicyNext]_policy

-----------------------------------------------------------------------------
(* Whoever reaches the append was allowed by every rule as it stood when   *)
(* this request read them, and no rule that had been switched off by then  *)
(* still counts through an older version: what is read from the versions   *)
(* is what was last administered.                                          *)
AppendsUnderRules ==
    \A t \in Executor :
        doing[t] \in {"gate", "apply", "append"} =>
            LET allowed == {p \in Proposal : \A c \in read[t] : Evaluates(c, p)}
            IN  /\ allowed = {p \in Proposal : \A r \in Rule : p \in demand[t][r]}
                /\ doing[t] = "append" => proposal[t] \in allowed
=============================================================================
