---------------------------- MODULE RedmineTools ----------------------------
(***************************************************************************)
(* The contract tooling under contracts/redmine: sync_contracts.py makes a *)
(* row per contract from the prompt files and the sprint plan, people load *)
(* the rows into Redmine, and coordinator.py allocates, starts and freezes *)
(* what it finds there.  Every command reads all issues first and writes   *)
(* one request at a time afterwards, while people and other runs go on.    *)
(*                                                                         *)
(* import_to_redmine.py, which push calls, does not compile and is not     *)
(* modelled.  Redmine itself is external; both programmers have accounts   *)
(* there, a project has fewer issues than two pages, and people leave the  *)
(* custom fields of an issue as they are.  Whom an issue is assigned to is *)
(* left out: where the code asks, it may be anyone, and assign, report and *)
(* next change nothing else.  A dry run writes nothing.                    *)
(***************************************************************************)
EXTENDS Naturals, Sequences, FiniteSets, Functions

CONSTANTS
    Contract,       \* contract ids
    Drafted,        \* owner and dependencies of each in the sprint plan
    Written,        \* and in the frontmatter of its prompt
    Planned,        \* contracts that the plan lists before they are written
    Run,            \* invocations of the tools that may overlap
    MaxIssues       \* bound

Programmer == {"A", "B"}
Facts == [owner : Programmer, after : SUBSET Contract]

ASSUME RedmineAssumption ==
    /\ Drafted \in [Contract -> Facts] /\ Written \in [Contract -> Facts]
    /\ Planned \subseteq Contract /\ MaxIssues \in Nat

VARIABLES
    fields,     \* the custom fields whose ids are configured
    prompt,     \* status in the prompt's frontmatter, "none" without a file
    issues,     \* the issues of contracts, by id
    cmd,        \* what each run does
    view,       \* the issues it read
    todo,       \* the contracts, programmers or issues it still has to visit
    started,    \* history: issues a tool set In Progress
    closedOnce  \* history: contracts that had a closed issue

runsOf  == <<cmd, view, todo>>
redmine == <<fields, prompt, issues, runsOf, started, closedOnce>>

Status == {"new", "in progress", "resolved", "closed"}
Issue == [contract : Contract, owner : Programmer, after : SUBSET Contract,
          status : Status]

RedmineTypeOK ==
    /\ prompt \in [Contract -> {"none", "active", "frozen"}]
    /\ Range(issues) \subseteq Issue
    /\ cmd \in [Run -> {"none", "allocate", "start", "sync"}]
    /\ \A r \in Run : Len(view[r]) <= Len(issues)
    /\ started \subseteq DOMAIN issues

\* Without the id of "Contract ID" no command finds an issue.
RedmineInit ==
    /\ fields \in SUBSET {"Owner", "Depends on"}
    /\ prompt = [c \in Contract |-> IF c \in Planned THEN "none" ELSE "active"]
    /\ issues = <<>>
    /\ cmd = [r \in Run |-> "none"]
    /\ view = [r \in Run |-> <<>>]
    /\ todo = [r \in Run |-> {}]
    /\ started = {} /\ closedOnce = {}

-----------------------------------------------------------------------------
\* build_rows: a contract is a row from the plan as long as it is listed there,
\* and from its prompt after that.  People take it off the plan.
RowOf(c, facts) ==
    [contract |-> c, owner |-> facts.owner, after |-> facts.after, status |-> "new"]

Rows == {RowOf(c, Drafted[c]) : c \in Planned}
        \cup {RowOf(c, Written[c]) : c \in {d \in Contract : prompt[d] # "none"}}

\* People: they load the rows of some CSV, perhaps an old one or one that is
\* there already, write a prompt that was planned, and work on the issues.
LoadRow(row) ==
    /\ Len(issues) < MaxIssues
    /\ issues' = Append(issues, row)
    /\ UNCHANGED <<fields, prompt, runsOf, started, closedOnce>>

WritePrompt(c) ==
    /\ prompt[c] = "none"
    /\ prompt' = [prompt EXCEPT ![c] = "active"]
    /\ UNCHANGED <<fields, issues, runsOf, started, closedOnce>>

Progress(i, status) ==
    /\ issues[i].status # status
    /\ issues' = [issues EXCEPT ![i].status = status]
    /\ closedOnce' = IF status = "closed" THEN closedOnce \cup {issues[i].contract}
                                          ELSE closedOnce
    /\ UNCHANGED <<fields, prompt, runsOf, started>>

-----------------------------------------------------------------------------
\* cf_value: a field without an id is empty in every issue.
OwnedBy(issue, who) == "Owner" \in fields /\ issue.owner = who
DependsOn(issue) == IF "Depends on" \in fields THEN issue.after ELSE {}

ClosedContracts(seen) ==
    {issue.contract : issue \in {x \in Range(seen) : x.status = "closed"}}

\* MUTANT: resolved will do.
ReadyOnceResolved(issue, seen) ==
    DependsOn(issue) \subseteq
        {x.contract : x \in {y \in Range(seen) : y.status \in {"resolved", "closed"}}}

IsReady(issue, seen) == DependsOn(issue) \subseteq ClosedContracts(seen)

\* next_ready_for, whatever the priorities and ids are; own: the issues that
\* are assigned to the programmer.
Candidates(seen, who, own) ==
    {i \in DOMAIN seen : /\ IsReady(seen[i], seen)
                         /\ seen[i].status \in {"new", "in progress"}
                         /\ OwnedBy(seen[i], who) \/ i \in own}

Busy(seen, who) ==
    \E issue \in Range(seen) : OwnedBy(issue, who) /\ issue.status = "in progress"

\* load_metadata comes first and changes nothing.
Begin(r, what, work) ==
    /\ cmd[r] = "none"
    /\ cmd' = [cmd EXCEPT ![r] = what]
    /\ view' = [view EXCEPT ![r] = issues]
    /\ todo' = [todo EXCEPT ![r] = work]
    /\ UNCHANGED <<fields, prompt, issues, started, closedOnce>>

\* The end of a run, or an error answer, which ends it with a traceback.
End(r) ==
    /\ cmd' = [cmd EXCEPT ![r] = "none"]
    /\ view' = [view EXCEPT ![r] = <<>>]
    /\ todo' = [todo EXCEPT ![r] = {}]

Quit(r) ==
    /\ cmd[r] # "none" /\ End(r)
    /\ UNCHANGED <<fields, prompt, issues, started, closedOnce>>

\* The run goes on to the next one, if there is one.
Visited(r, x) ==
    IF todo[r] = {x} THEN End(r)
    ELSE todo' = [todo EXCEPT ![r] = @ \ {x}] /\ UNCHANGED <<cmd, view>>

-----------------------------------------------------------------------------
\* An issue is set In Progress, whatever happened to it since it was read.
SetInProgress(i) ==
    /\ issues' = [issues EXCEPT ![i].status = "in progress"]
    /\ started' = started \cup {i}

\* cmd_allocate: one programmer after the other, by the same view.  One who is
\* busy gets nothing, and an issue that is in progress stays what it is.
AllocateOwner(r, who) ==
    /\ cmd[r] = "allocate" /\ who \in todo[r]
    /\ who = "A" \/ "A" \notin todo[r]
    /\ \E own \in SUBSET DOMAIN view[r] :
         LET choice == Candidates(view[r], who, own)
         IN  \/ /\ Busy(view[r], who) \/ choice = {}
                /\ UNCHANGED <<issues, started>>
             \/ /\ ~Busy(view[r], who)
                /\ \E i \in choice : IF view[r][i].status = "new"
                                      THEN SetInProgress(i)
                                      ELSE UNCHANGED <<issues, started>>
    /\ Visited(r, who)
    /\ UNCHANGED <<fields, prompt, closedOnce>>

\* cmd_start: issue_by_contract takes the first one, in Redmine's order.
StartContract(r, c) ==
    /\ cmd[r] = "start" /\ c \in todo[r]
    /\ \E i \in DOMAIN view[r] :
         /\ view[r][i].contract = c /\ IsReady(view[r][i], view[r])
         /\ SetInProgress(i)
    /\ End(r)
    /\ UNCHANGED <<fields, prompt, closedOnce>>

\* cmd_sync_prompts, for a closed issue; its field is set after the file.
FreezePrompt(r, i) ==
    /\ cmd[r] = "sync" /\ i \in todo[r]
    /\ view[r][i].status = "closed"
    /\ LET c == view[r][i].contract
       IN  prompt' = IF prompt[c] = "active" THEN [prompt EXCEPT ![c] = "frozen"]
                                             ELSE prompt
    /\ Visited(r, i)
    /\ UNCHANGED <<fields, issues, started, closedOnce>>

RedmineNext ==
    \/ \E row \in Rows : LoadRow(row)
    \/ \E c \in Contract : WritePrompt(c)
    \/ \E i \in DOMAIN issues, status \in Status : Progress(i, status)
    \/ \E r \in Run :
         \/ Begin(r, "allocate", Programmer)
         \/ Begin(r, "sync", DOMAIN issues)
         \/ \E c \in Contract : Begin(r, "start", {c}) \/ StartContract(r, c)
         \/ \E who \in Programmer : AllocateOwner(r, who)
         \/ \E i \in DOMAIN issues : FreezePrompt(r, i)
         \/ Quit(r)

RedmineSpec == RedmineInit /\ [][RedmineNext]_redmine

-----------------------------------------------------------------------------
(* No tool starts a contract, or freezes its prompt, from a view however   *)
(* old, of a board however often the rows were loaded, before what allows  *)
(* it has happened: the contracts that the issue depends on, or its own,   *)
(* were closed.  (Starting asks for the dependencies only where the field  *)
(* that tells them is configured.)                                         *)
BoardKept ==
    /\ "Depends on" \in fields =>
         \A i \in started : issues[i].after \subseteq closedOnce
    /\ \A c \in Contract : prompt[c] = "frozen" => c \in closedOnce
=============================================================================
