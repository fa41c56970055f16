---------------------------- MODULE ToolingProofs ----------------------------
(***************************************************************************)
(* Theorems of the modules of tools around the daemons: RedmineTools, for  *)
(* any contracts, dependencies, configuration and overlapping runs;        *)
(* DaemonRuntime, for any daemons, callers and number of servers; and      *)
(* Recovery, for any overlapping backups and restores.  The end is about   *)
(* MCServices: what is proved of each service holds beside the others.     *)
(***************************************************************************)
EXTENDS StateLogProofs, MCServices

-----------------------------------------------------------------------------
(* RedmineTools: an issue keeps its contract and what it depends on, so a  *)
(* view is true of them for ever, and what it calls closed was closed once. *)

Command == {"none", "allocate", "start", "sync"}
Errand == Programmer \cup Contract \cup Nat

BoardTypes ==
    /\ prompt \in [Contract -> {"none", "active", "frozen"}]
    /\ issues \in Seq(Issue)
    /\ cmd \in [Run -> Command]
    /\ view \in [Run -> Seq(Issue)]
    /\ todo \in [Run -> SUBSET Errand]
    /\ started \subseteq 1..Len(issues)

\* What a run read is an earlier state of the board.
Earlier(shown) ==
    /\ Len(shown) <= Len(issues)
    /\ \A i \in 1..Len(shown) :
          /\ shown[i].contract = issues[i].contract
          /\ shown[i].after = issues[i].after
          /\ shown[i].status = "closed" => shown[i].contract \in closedOnce

\* A sync visits issues that it has read.
Syncing(r) == cmd[r] = "sync" => todo[r] \subseteq 1..Len(view[r])

ClosedIsKnown ==
    \A i \in 1..Len(issues) : issues[i].status = "closed" => issues[i].contract \in closedOnce

BoardInv ==
    /\ BoardTypes
    /\ ClosedIsKnown
    /\ \A r \in Run : Earlier(view[r]) /\ Syncing(r)
    /\ BoardKept

LEMMA InitBoard == RedmineInit => BoardInv
<1> SUFFICES ASSUME RedmineInit PROVE BoardInv
    OBVIOUS
<1>1. /\ prompt = [c \in Contract |-> IF c \in Planned THEN "none" ELSE "active"]
      /\ issues = <<>> /\ cmd = [r \in Run |-> "none"] /\ view = [r \in Run |-> <<>>]
      /\ todo = [r \in Run |-> {}] /\ started = {}
    BY DEF RedmineInit
<1>2. issues \in Seq(Issue) /\ Len(issues) = 0
    BY <1>1
<1>3. BoardTypes
    BY <1>1, <1>2 DEF BoardTypes, Command
<1>4. ClosedIsKnown /\ BoardKept
    BY <1>1, <1>2 DEF ClosedIsKnown, BoardKept
<1>5. \A r \in Run : Earlier(view[r]) /\ Syncing(r)
    BY <1>1, <1>2 DEF Earlier, Syncing
<1> QED
    BY <1>3, <1>4, <1>5 DEF BoardInv

\* The issues on the board and in a view.
LEMMA IssueFacts ==
    ASSUME BoardTypes, NEW r \in Run
    PROVE  /\ issues \in Seq(Issue) /\ Len(issues) \in Nat /\ DOMAIN issues = 1..Len(issues)
           /\ \A i \in 1..Len(issues) : issues[i] \in Issue
           /\ view[r] \in Seq(Issue) /\ Len(view[r]) \in Nat /\ DOMAIN view[r] = 1..Len(view[r])
           /\ \A i \in 1..Len(view[r]) : view[r][i] \in Issue
<1>1. issues \in Seq(Issue) /\ view[r] \in Seq(Issue)
    BY DEF BoardTypes
<1> HIDE DEF Issue
<1> QED
    BY <1>1

\* As long as issues keep their rows, views stay earlier states of the board.
LEMMA EarlierKeeps ==
    ASSUME BoardInv, BoardTypes', Len(issues) <= Len(issues'),
           \A i \in 1..Len(issues) : /\ issues'[i].contract = issues[i].contract
                                     /\ issues'[i].after = issues[i].after,
           closedOnce \subseteq closedOnce',
           NEW r \in Run, view'[r] = view[r] \/ view'[r] = <<>> \/ view'[r] = issues
    PROVE  Earlier(view[r])'
<1>1. Len(issues) \in Nat /\ Len(issues') \in Nat /\ Len(view[r]) \in Nat
    BY IssueFacts DEF BoardInv, BoardTypes
<1>2. CASE view'[r] = view[r]
    BY <1>1, <1>2 DEF BoardInv, Earlier
<1>3. CASE view'[r] = <<>>
    BY <1>1, <1>3 DEF Earlier
<1>4. CASE view'[r] = issues
    BY <1>1, <1>4 DEF BoardInv, Earlier, ClosedIsKnown
<1> QED
    BY <1>2, <1>3, <1>4

\* What every step has to show: rows stay, runs go on, end or begin, and what
\* is started or frozen was allowed.
RowsStay ==
    /\ Len(issues) <= Len(issues')
    /\ \A i \in 1..Len(issues) : /\ issues'[i].contract = issues[i].contract
                                /\ issues'[i].after = issues[i].after
    /\ closedOnce \subseteq closedOnce' /\ fields' = fields

Goes(q) ==
    \/ cmd'[q] = cmd[q] /\ view'[q] = view[q] /\ todo'[q] \subseteq todo[q]
    \/ cmd'[q] = "none" /\ view'[q] = <<>>

Begins(q) ==
    view'[q] = issues /\ (cmd'[q] = "sync" => todo'[q] \subseteq 1..Len(issues))

Startable(i) ==
    i \in 1..Len(issues) /\ ("Depends on" \in fields => issues[i].after \subseteq closedOnce)

LEMMA BoardKeeps ==
    ASSUME BoardInv, BoardTypes', RowsStay, ClosedIsKnown',
           \A q \in Run : Goes(q) \/ Begins(q),
           \A i \in started' : i \in started \/ Startable(i),
           \A c \in Contract : prompt'[c] = "frozen" => prompt[c] = "frozen" \/ c \in closedOnce
    PROVE  BoardInv'
<1>1. ASSUME NEW r \in Run PROVE (Earlier(view[r]) /\ Syncing(r))'
    <2>1. Earlier(view[r])'
        BY EarlierKeeps DEF RowsStay, Goes, Begins
    <2>2. Syncing(r)'
        BY DEF BoardInv, Syncing, Goes, Begins
    <2> QED
        BY <2>1, <2>2
<1>2. BoardKept'
    <2>1. started \subseteq 1..Len(issues)
        BY DEF BoardInv, BoardTypes
    <2>2. ASSUME "Depends on" \in fields, NEW i \in started'
          PROVE  issues'[i].after \subseteq closedOnce'
        <3>1. i \in 1..Len(issues)
            BY <2>1 DEF Startable
        <3>2. issues[i].after \subseteq closedOnce
            BY <2>2 DEF BoardInv, BoardKept, Startable
        <3> QED
            BY <3>1, <3>2 DEF RowsStay
    <2>3. \A c \in Contract : prompt'[c] = "frozen" => c \in closedOnce'
        BY DEF BoardInv, BoardKept, RowsStay
    <2> QED
        BY <2>2, <2>3 DEF BoardKept, RowsStay
<1> QED
    BY <1>1, <1>2 DEF BoardInv

LEMMA ReplaceFacts ==
    ASSUME NEW S, NEW q \in Seq(S), NEW i \in 1..Len(q), NEW p \in S
    PROVE  LET q1 == [q EXCEPT ![i] = p]
           IN  /\ q1 \in Seq(S) /\ Len(q1) = Len(q) /\ q1[i] = p
               /\ \A j \in 1..Len(q) : j # i => q1[j] = q[j]
OBVIOUS

\* An issue gets another status.
LEMMA StatusSet ==
    ASSUME issues \in Seq(Issue), NEW i \in 1..Len(issues), NEW s \in Status,
           issues' = [issues EXCEPT ![i].status = s]
    PROVE  /\ issues' \in Seq(Issue) /\ Len(issues') = Len(issues)
           /\ issues'[i].status = s
           /\ \A j \in 1..Len(issues) :
                  /\ issues'[j].contract = issues[j].contract
                  /\ issues'[j].after = issues[j].after
                  /\ j # i => issues'[j] = issues[j]
<1> DEFINE p == [issues[i] EXCEPT !.status = s]
<1>1. issues[i] \in Issue
    <2> HIDE DEF Issue
    <2> QED
        OBVIOUS
<1>2. /\ p \in Issue /\ p.status = s
      /\ p.contract = issues[i].contract /\ p.after = issues[i].after
    BY <1>1 DEF Issue
<1>3. issues' = [issues EXCEPT ![i] = p]
    OBVIOUS
<1> HIDE DEF p, Issue
<1>4. /\ issues' \in Seq(Issue) /\ Len(issues') = Len(issues) /\ issues'[i] = p
      /\ \A j \in 1..Len(issues) : j # i => issues'[j] = issues[j]
    BY <1>2, <1>3, ReplaceFacts
<1> QED
    BY <1>2, <1>4

\* The new rows of the board, and the runs that go on or end.
LEMMA RunsKeep ==
    ASSUME BoardTypes, NEW r \in Run
    PROVE  /\ End(r) =>
                /\ cmd' \in [Run -> Command] /\ view' \in [Run -> Seq(Issue)]
                /\ todo' \in [Run -> SUBSET Errand]
                /\ \A q \in Run : Goes(q)
           /\ \A x : Visited(r, x) =>
                /\ cmd' \in [Run -> Command] /\ view' \in [Run -> Seq(Issue)]
                /\ todo' \in [Run -> SUBSET Errand]
                /\ \A q \in Run : Goes(q)
<1>1. ASSUME End(r)
      PROVE  /\ cmd' \in [Run -> Command] /\ view' \in [Run -> Seq(Issue)]
             /\ todo' \in [Run -> SUBSET Errand]
             /\ \A q \in Run : Goes(q)
    <2>1. <<>> \in Seq(Issue) /\ "none" \in Command
        BY DEF Command
    <2> QED
        BY <1>1, <2>1 DEF BoardTypes, End, Goes
<1>2. ASSUME NEW x, Visited(r, x)
      PROVE  /\ cmd' \in [Run -> Command] /\ view' \in [Run -> Seq(Issue)]
             /\ todo' \in [Run -> SUBSET Errand]
             /\ \A q \in Run : Goes(q)
    <2>1. CASE End(r)
        BY <1>1, <2>1
    <2>2. CASE todo' = [todo EXCEPT ![r] = @ \ {x}] /\ UNCHANGED <<cmd, view>>
        BY <2>2 DEF BoardTypes, Goes
    <2> QED
        BY <1>2, <2>1, <2>2 DEF Visited
<1> QED
    BY <1>1, <1>2

-----------------------------------------------------------------------------
(* What people do. *)

LEMMA LoadKeeps ==
    ASSUME BoardInv, NEW row \in Rows, LoadRow(row)
    PROVE  BoardInv'
<1>1. /\ issues' = Append(issues, row)
      /\ UNCHANGED <<fields, prompt, cmd, view, todo, started, closedOnce>>
    BY DEF LoadRow, runsOf
<1>2. row \in Issue /\ row.status = "new"
    <2>1. PICK c \in Contract, f \in Facts : row = RowOf(c, f)
        BY RedmineAssumption DEF Rows
    <2> QED
        BY <2>1 DEF RowOf, Issue, Facts, Status
<1>3. /\ issues' \in Seq(Issue) /\ Len(issues) \in Nat /\ Len(issues') = Len(issues) + 1
      /\ \A i \in 1..Len(issues) : issues'[i] = issues[i]
      /\ issues'[Len(issues) + 1] = row
    <2>1. issues \in Seq(Issue)
        BY DEF BoardInv, BoardTypes
    <2> HIDE DEF Issue
    <2> QED
        BY <1>1, <1>2, <2>1
<1>4. BoardTypes'
    BY <1>1, <1>3 DEF BoardInv, BoardTypes
<1>5. ClosedIsKnown'
    BY <1>1, <1>2, <1>3 DEF BoardInv, ClosedIsKnown
<1>6. RowsStay /\ \A q \in Run : Goes(q)
    BY <1>1, <1>3 DEF RowsStay, Goes
<1> QED
    BY <1>1, <1>4, <1>5, <1>6, BoardKeeps

LEMMA PromptKeeps ==
    ASSUME BoardInv, NEW c \in Contract, WritePrompt(c)
    PROVE  BoardInv'
<1>1. /\ prompt' = [prompt EXCEPT ![c] = "active"]
      /\ UNCHANGED <<fields, issues, cmd, view, todo, started, closedOnce>>
    BY DEF WritePrompt, runsOf
<1>2. BoardTypes'
    BY <1>1 DEF BoardInv, BoardTypes
<1>3. ClosedIsKnown' /\ BoardKept'
    BY <1>1 DEF BoardInv, BoardTypes, ClosedIsKnown, BoardKept
<1>4. \A r \in Run : (Earlier(view[r]) /\ Syncing(r))'
    BY <1>1 DEF BoardInv, Earlier, Syncing
<1> QED
    BY <1>2, <1>3, <1>4 DEF BoardInv

LEMMA ProgressKeeps ==
    ASSUME BoardInv, NEW i \in 1..Len(issues), NEW s \in Status, Progress(i, s)
    PROVE  BoardInv'
<1>1. /\ issues' = [issues EXCEPT ![i].status = s]
      /\ closedOnce' = IF s = "closed" THEN closedOnce \cup {issues[i].contract}
                                       ELSE closedOnce
      /\ UNCHANGED <<fields, prompt, cmd, view, todo, started>>
    BY DEF Progress, runsOf
<1>2. /\ issues' \in Seq(Issue) /\ Len(issues') = Len(issues)
      /\ issues'[i].status = s
      /\ \A j \in 1..Len(issues) :
             /\ issues'[j].contract = issues[j].contract
             /\ issues'[j].after = issues[j].after
             /\ j # i => issues'[j] = issues[j]
    BY <1>1, StatusSet DEF BoardInv, BoardTypes
<1>3. Len(issues) \in Nat
    BY DEF BoardInv, BoardTypes
<1>4. BoardTypes'
    BY <1>1, <1>2 DEF BoardInv, BoardTypes
<1>5. ClosedIsKnown'
    BY <1>1, <1>2 DEF BoardInv, ClosedIsKnown
<1>6. RowsStay /\ \A q \in Run : Goes(q)
    BY <1>1, <1>2, <1>3 DEF RowsStay, Goes
<1> QED
    BY <1>1, <1>4, <1>5, <1>6, BoardKeeps

-----------------------------------------------------------------------------
(* What the runs do. *)

LEMMA RunBeginKeeps ==
    ASSUME BoardInv, NEW r \in Run, NEW what \in Command,
           NEW work \in SUBSET Errand, Begin(r, what, work),
           what = "sync" => work \subseteq 1..Len(issues)
    PROVE  BoardInv'
<1>1. /\ cmd' = [cmd EXCEPT ![r] = what] /\ view' = [view EXCEPT ![r] = issues]
      /\ todo' = [todo EXCEPT ![r] = work]
      /\ UNCHANGED <<fields, prompt, issues, started, closedOnce>>
    BY DEF Begin
<1>2. BoardTypes'
    BY <1>1 DEF BoardInv, BoardTypes
<1>3. /\ cmd'[r] = what /\ view'[r] = issues /\ todo'[r] = work
      /\ \A q \in Run \ {r} : cmd'[q] = cmd[q] /\ view'[q] = view[q] /\ todo'[q] = todo[q]
    BY <1>1 DEF BoardInv, BoardTypes
<1>4. ClosedIsKnown'
    BY <1>1 DEF BoardInv, ClosedIsKnown
<1>5. RowsStay
    BY <1>1 DEF RowsStay, BoardInv, BoardTypes
<1>6. \A q \in Run : Goes(q) \/ Begins(q)
    BY <1>3 DEF Goes, Begins
<1> QED
    BY <1>1, <1>2, <1>4, <1>5, <1>6, BoardKeeps

\* A run that writes nothing on the board goes on or ends.
LEMMA QuietKeeps ==
    ASSUME BoardInv,
           cmd' \in [Run -> Command], view' \in [Run -> Seq(Issue)],
           todo' \in [Run -> SUBSET Errand],
           \A q \in Run : Goes(q),
           prompt' \in [Contract -> {"none", "active", "frozen"}],
           \A c \in Contract : prompt'[c] = "frozen" => prompt[c] = "frozen" \/ c \in closedOnce,
           UNCHANGED <<fields, issues, started, closedOnce>>
    PROVE  BoardInv'
<1>1. BoardTypes' /\ ClosedIsKnown'
    BY DEF BoardInv, BoardTypes, ClosedIsKnown
<1>2. RowsStay
    BY DEF RowsStay, BoardInv, BoardTypes
<1> QED
    BY <1>1, <1>2, BoardKeeps

\* What a view calls closed was closed once, and what it finds ready was ready.
LEMMA ReadyWasReady ==
    ASSUME BoardInv, NEW r \in Run, NEW i \in DOMAIN view[r],
           IsReady(view[r][i], view[r])
    PROVE  Startable(i)
<1>1. /\ DOMAIN view[r] = 1..Len(view[r]) /\ Len(view[r]) \in Nat /\ Len(issues) \in Nat
      /\ Earlier(view[r])
    BY IssueFacts DEF BoardInv
<1>2. ClosedContracts(view[r]) \subseteq closedOnce
    BY <1>1 DEF ClosedContracts, Earlier, Range
<1>3. "Depends on" \in fields => view[r][i].after \subseteq ClosedContracts(view[r])
    BY DEF IsReady, DependsOn
<1>4. i \in 1..Len(view[r]) /\ i \in 1..Len(issues) /\ view[r][i].after = issues[i].after
    BY <1>1 DEF Earlier
<1> QED
    BY <1>2, <1>3, <1>4 DEF Startable

\* A tool sets an issue of its view in progress that was ready there.
LEMMA SetKeeps ==
    ASSUME BoardInv, NEW r \in Run, NEW i \in DOMAIN view[r], SetInProgress(i),
           IsReady(view[r][i], view[r]),
           cmd' \in [Run -> Command], view' \in [Run -> Seq(Issue)],
           todo' \in [Run -> SUBSET Errand],
           \A q \in Run : Goes(q),
           UNCHANGED <<fields, prompt, closedOnce>>
    PROVE  BoardInv'
<1>1. /\ issues' = [issues EXCEPT ![i].status = "in progress"]
      /\ started' = started \cup {i}
    BY DEF SetInProgress
<1>2. Startable(i) /\ i \in 1..Len(issues)
    BY ReadyWasReady DEF Startable
<1>3. issues \in Seq(Issue) /\ "in progress" \in Status /\ Len(issues) \in Nat
    BY DEF BoardInv, BoardTypes, Status
<1>4. /\ issues' \in Seq(Issue) /\ Len(issues') = Len(issues)
      /\ issues'[i].status = "in progress"
      /\ \A j \in 1..Len(issues) :
             /\ issues'[j].contract = issues[j].contract
             /\ issues'[j].after = issues[j].after
             /\ j # i => issues'[j] = issues[j]
    BY <1>1, <1>2, <1>3, StatusSet
<1>5. BoardTypes'
    BY <1>1, <1>2, <1>4 DEF BoardInv, BoardTypes
<1>6. ClosedIsKnown'
    BY <1>4 DEF BoardInv, ClosedIsKnown
<1>7. RowsStay
    <2>1. UNCHANGED <<fields, closedOnce>>
        OBVIOUS
    <2>2. Len(issues) \in Nat
        BY <1>3
    <2>3. Len(issues) <= Len(issues')
        <3>1. Len(issues') = Len(issues)
            BY <1>4
        <3> QED
            BY <2>2, <3>1
    <2>4. \A j \in 1..Len(issues) : /\ issues'[j].contract = issues[j].contract
                                   /\ issues'[j].after = issues[j].after
        BY <1>4
    <2> QED
        BY <2>1, <2>3, <2>4, Zenon DEF RowsStay
<1> QED
    BY <1>1, <1>2, <1>5, <1>6, <1>7, BoardKeeps

LEMMA AllocateKeeps ==
    ASSUME BoardInv, NEW r \in Run, NEW who \in Programmer, AllocateOwner(r, who)
    PROVE  BoardInv'
<1>1. /\ BoardTypes /\ Visited(r, who) /\ UNCHANGED <<fields, prompt, closedOnce>>
      /\ prompt \in [Contract -> {"none", "active", "frozen"}]
    BY DEF BoardInv, BoardTypes, AllocateOwner
<1>2. /\ cmd' \in [Run -> Command] /\ view' \in [Run -> Seq(Issue)]
      /\ todo' \in [Run -> SUBSET Errand]
      /\ \A q \in Run : Goes(q)
    BY <1>1, RunsKeep
<1>3. \/ UNCHANGED <<issues, started>>
      \/ \E own \in SUBSET DOMAIN view[r] :
           \E i \in Candidates(view[r], who, own) : SetInProgress(i)
    BY DEF AllocateOwner
<1>4. CASE UNCHANGED <<issues, started>>
    BY <1>1, <1>2, <1>4, QuietKeeps
<1>5. ASSUME NEW own \in SUBSET DOMAIN view[r],
             NEW i \in Candidates(view[r], who, own), SetInProgress(i)
      PROVE  BoardInv'
    <2>1. i \in DOMAIN view[r] /\ IsReady(view[r][i], view[r])
        BY DEF Candidates
    <2> QED
        BY <1>1, <1>2, <1>5, <2>1, SetKeeps
<1> QED
    BY <1>3, <1>4, <1>5

LEMMA StartKeeps ==
    ASSUME BoardInv, NEW r \in Run, NEW c \in Contract, StartContract(r, c)
    PROVE  BoardInv'
<1>1. BoardTypes /\ End(r) /\ UNCHANGED <<fields, prompt, closedOnce>>
    BY DEF BoardInv, StartContract
<1>2. PICK i \in DOMAIN view[r] : IsReady(view[r][i], view[r]) /\ SetInProgress(i)
    BY DEF StartContract
<1> QED
    BY <1>1, <1>2, RunsKeep, SetKeeps

LEMMA FreezeKeeps ==
    ASSUME BoardInv, NEW r \in Run, NEW i, FreezePrompt(r, i)
    PROVE  BoardInv'
<1> DEFINE c == view[r][i].contract
<1>1. /\ BoardTypes /\ Visited(r, i) /\ UNCHANGED <<fields, issues, started, closedOnce>>
      /\ cmd[r] = "sync" /\ i \in todo[r] /\ view[r][i].status = "closed"
      /\ prompt' = IF prompt[c] = "active" THEN [prompt EXCEPT ![c] = "frozen"]
                                           ELSE prompt
    BY DEF BoardInv, FreezePrompt
<1>2. i \in 1..Len(view[r]) /\ Earlier(view[r])
    BY <1>1 DEF BoardInv, Syncing
<1>3. c \in closedOnce
    BY <1>1, <1>2 DEF Earlier
<1> HIDE DEF c
<1>4. /\ prompt' \in [Contract -> {"none", "active", "frozen"}]
      /\ \A d \in Contract : prompt'[d] = "frozen" => prompt[d] = "frozen" \/ d \in closedOnce
    BY <1>1, <1>3 DEF BoardTypes
<1> QED
    BY <1>1, <1>4, RunsKeep, QuietKeeps

LEMMA QuitKeeps ==
    ASSUME BoardInv, NEW r \in Run, Quit(r)
    PROVE  BoardInv'
<1>1. /\ BoardTypes /\ End(r) /\ UNCHANGED <<fields, prompt, issues, started, closedOnce>>
      /\ prompt \in [Contract -> {"none", "active", "frozen"}]
    BY DEF BoardInv, BoardTypes, Quit
<1> QED
    BY <1>1, RunsKeep, QuietKeeps

LEMMA BoardStep == BoardInv /\ [RedmineNext]_redmine => BoardInv'
<1> SUFFICES ASSUME BoardInv, [RedmineNext]_redmine PROVE BoardInv'
    OBVIOUS
<1>1. ASSUME NEW row \in Rows, LoadRow(row) PROVE BoardInv'
    BY <1>1, LoadKeeps
<1>2. ASSUME NEW c \in Contract, WritePrompt(c) PROVE BoardInv'
    BY <1>2, PromptKeeps
<1>3. ASSUME NEW i \in DOMAIN issues, NEW s \in Status, Progress(i, s) PROVE BoardInv'
    <2>1. i \in 1..Len(issues)
        <3>1. issues \in Seq(Issue)
            BY DEF BoardInv, BoardTypes
        <3> HIDE DEF Issue
        <3> QED
            BY <3>1
    <2> QED
        BY <1>3, <2>1, ProgressKeeps
<1>4. ASSUME NEW r \in Run, Begin(r, "allocate", Programmer) PROVE BoardInv'
    <2>1. Programmer \in SUBSET Errand /\ "allocate" \in Command
        BY DEF Errand, Command
    <2> QED
        BY <1>4, <2>1, RunBeginKeeps
<1>5. ASSUME NEW r \in Run, Begin(r, "sync", DOMAIN issues) PROVE BoardInv'
    <2>1. DOMAIN issues = 1..Len(issues)
        BY IssueFacts DEF BoardInv
    <2>2. DOMAIN issues \in SUBSET Errand /\ "sync" \in Command
        BY <2>1 DEF Errand, Command
    <2> QED
        BY <1>5, <2>1, <2>2, RunBeginKeeps
<1>6. ASSUME NEW r \in Run, NEW c \in Contract, Begin(r, "start", {c}) PROVE BoardInv'
    <2>1. {c} \in SUBSET Errand /\ "start" \in Command
        BY DEF Errand, Command
    <2> QED
        BY <1>6, <2>1, RunBeginKeeps
<1>7. ASSUME NEW r \in Run, NEW c \in Contract, StartContract(r, c) PROVE BoardInv'
    BY <1>7, StartKeeps
<1>8. ASSUME NEW r \in Run, NEW who \in Programmer, AllocateOwner(r, who) PROVE BoardInv'
    BY <1>8, AllocateKeeps
<1>9. ASSUME NEW r \in Run, NEW i \in DOMAIN issues, FreezePrompt(r, i) PROVE BoardInv'
    BY <1>9, FreezeKeeps
<1>10. ASSUME NEW r \in Run, Quit(r) PROVE BoardInv'
    BY <1>10, QuitKeeps
<1>11. CASE UNCHANGED redmine
    <2>1. /\ UNCHANGED <<fields, prompt, issues, cmd, view, todo, started, closedOnce>>
          /\ BoardTypes
        BY <1>11 DEF redmine, runsOf, BoardInv
    <2>2. \A q \in Run : Goes(q)
        BY <2>1 DEF Goes
    <2> QED
        BY <2>1, <2>2, QuietKeeps DEF BoardTypes
<1> QED
    BY <1>1, <1>2, <1>3, <1>4, <1>5, <1>6, <1>7, <1>8, <1>9, <1>10, <1>11
       DEF RedmineNext

\* Where the field of the dependencies is configured, nothing is started before
\* they were closed, and no prompt frozen before its contract was, for any
\* overlapping runs with old views of any board (coordinator.py).
THEOREM BoardStaysKept == RedmineSpec => []BoardKept
<1>1. BoardInv => BoardKept
    BY DEF BoardInv
<1> QED
    BY <1>1, InitBoard, BoardStep, PTL DEF RedmineSpec

\* Every part of the board and of the runs has its type.
THEOREM BoardTypeCorrect == RedmineSpec => []RedmineTypeOK
<1>1. ASSUME BoardInv PROVE RedmineTypeOK
    <2>1. BoardTypes
        BY <1>1 DEF BoardInv
    <2>2. Range(issues) \subseteq Issue /\ DOMAIN issues = 1..Len(issues)
        <3>1. issues \in Seq(Issue)
            BY <2>1 DEF BoardTypes
        <3> HIDE DEF Issue
        <3> QED
            BY <3>1 DEF Range
    <2>3. \A r \in Run : Len(view[r]) <= Len(issues)
        BY <1>1 DEF BoardInv, Earlier
    <2> QED
        BY <2>1, <2>2, <2>3 DEF BoardTypes, RedmineTypeOK, Command
<1> QED
    BY <1>1, InitBoard, BoardStep, PTL DEF RedmineSpec

-----------------------------------------------------------------------------
(* DaemonRuntime: a server that is being started is known to one call and  *)
(* to nobody else, and each of the others is registered under its own      *)
(* name, or in one list of servers to stop, or told to stop, or over.      *)

Life == {"begun", "bound", "listening", "failed", "broken", "ended"}
Places == {"idle", "start", "ready", "stop", "lockstop", "undo"}

RuntimeTypes ==
    /\ registry \in [Names -> Made \cup {0}] /\ path \in [Names -> Made \cup {0}]
    /\ holder \in Caller \cup {Free}
    /\ nameOf \in Seq(Names) /\ Len(nameOf) <= MaxServers
    /\ thread \in Seq(Life) /\ Len(thread) = Len(nameOf)
    /\ stopSet \subseteq Made
    /\ where \in [Caller -> Places]
    /\ asked \in [Caller -> SUBSET Names]
    /\ pending \in [Caller -> Seq(Names)]
    /\ new \in [Caller -> Made \cup {0}]
    /\ toStop \in [Caller -> SUBSET Made] /\ mine \in [Caller -> SUBSET Made]

\* The lock, and the names in the registry.
Locked == \A c \in Caller : where[c] \in {"start", "ready", "lockstop"} <=> holder = c

ByName == \A n \in Names : registry[n] # 0 => nameOf[registry[n]] = n

\* The server about to be registered is not, nor its name, and nobody stops it.
Starting(c) ==
    where[c] = "ready" =>
        /\ new[c] # 0 /\ registry[nameOf[new[c]]] = 0
        /\ \A d \in Caller : new[c] \notin toStop[d]

\* Only who stops servers has any to stop.
Waiting(c) == ~Stopping(c) => toStop[c] = {}

\* NoneForgotten, server by server.
Minded(i) ==
    Alive(i) /\ i \notin stopSet =>
        \/ registry[nameOf[i]] = i
        \/ \E c \in Caller : where[c] = "ready" /\ new[c] = i
        \/ \E c \in Caller : i \in toStop[c]

Registered(i) ==
    registry[nameOf[i]] = i =>
        \A c \in Caller : i \notin toStop[c] /\ ~(where[c] = "ready" /\ new[c] = i)

StoppedOnce(i) == \A c, d \in Caller : i \in toStop[c] /\ i \in toStop[d] => c = d

OwnFile(i) == path[nameOf[i]] = i => thread[i] \in {"bound", "listening"}

RuntimeInv ==
    /\ RuntimeTypes /\ Locked /\ ByName
    /\ \A c \in Caller : Starting(c) /\ Waiting(c)
    /\ \A i \in Made : Minded(i) /\ Registered(i) /\ StoppedOnce(i) /\ OwnFile(i)

LEMMA InvForgetsNone == RuntimeInv => NoneForgotten
BY DEF RuntimeInv, NoneForgotten, Minded, Registered, StoppedOnce, OwnFile,
       Starters, Stoppers

-----------------------------------------------------------------------------
(* What the types say, and what Max returns. *)

LEMMA MadeFacts ==
    ASSUME RuntimeTypes
    PROVE  /\ Len(nameOf) \in Nat /\ Made = 1..Len(nameOf) /\ Made \in SUBSET Nat /\ 0 \notin Made
           /\ DOMAIN thread = Made
           /\ \A i \in Made : nameOf[i] \in Names /\ thread[i] \in Life
           /\ Free \notin Caller
<1>1. nameOf \in Seq(Names) /\ thread \in Seq(Life) /\ Len(thread) = Len(nameOf)
    BY DEF RuntimeTypes
<1>2. Free \notin Caller
    BY RuntimeAssumption
<1> HIDE DEF Names, Life
<1> QED
    BY <1>1, <1>2 DEF Made

LEMMA LastOne ==
    ASSUME RuntimeTypes, NEW S \in SUBSET Made, S # {}
    PROVE  Max(S) \in S
<1> DEFINE n == Len(nameOf)
           D == {n - i : i \in S}
<1>1. n \in Nat /\ \A i \in S : i \in 1..n
    BY MadeFacts
<1>2. D \in SUBSET Nat /\ D # {}
    BY <1>1
<1>3. \E m \in D : \A k \in D : m <= k
    <2> HIDE DEF D
    <2> QED
        BY <1>2, LeastOf
<1>4. PICK x \in S : \A i \in S : n - x <= n - i
    BY <1>3
<1>5. \A i \in S : x >= i
    BY <1>1, <1>4
<1> QED
    BY <1>5 DEF Max

LEMMA InitRuntime == RuntimeInit => RuntimeInv
<1> SUFFICES ASSUME RuntimeInit PROVE RuntimeInv
    OBVIOUS
<1>1. Len(nameOf) = 0 /\ Made = {} /\ MaxServers \in Nat /\ Free \notin Caller
    BY RuntimeAssumption DEF RuntimeInit, Made
<1>2. RuntimeTypes
    <2>1. nameOf \in Seq(Names) /\ Len(nameOf) <= MaxServers
          /\ thread \in Seq(Life) /\ Len(thread) = Len(nameOf)
        <3> HIDE DEF Names, Life
        <3> QED
            BY <1>1 DEF RuntimeInit
    <2>2. pending \in [Caller -> Seq(Names)] /\ asked \in [Caller -> SUBSET Names]
        <3> HIDE DEF Names
        <3> QED
            BY DEF RuntimeInit
    <2> QED
        BY <1>1, <2>1, <2>2 DEF RuntimeInit, RuntimeTypes, Places
<1>3. Locked
    BY <1>1 DEF RuntimeInit, Locked
<1>4. ByName
    BY DEF RuntimeInit, ByName
<1>5. \A c \in Caller : Starting(c) /\ Waiting(c)
    BY DEF RuntimeInit, Starting, Waiting
<1> QED
    BY <1>1, <1>2, <1>3, <1>4, <1>5 DEF RuntimeInv

-----------------------------------------------------------------------------
(* The threads of the servers: none comes back to life, and one that ends  *)
(* takes the file of its name away.                                        *)

LEMMA ThreadKeeps ==
    ASSUME RuntimeInv, NEW i \in Made, Bind(i) \/ Listen(i) \/ Leave(i)
    PROVE  RuntimeInv'
<1>1. /\ RuntimeTypes /\ Made' = Made
      /\ UNCHANGED <<registry, holder, nameOf, stopSet, calls>>
    BY DEF RuntimeInv, Bind, Listen, Leave, Made
<1>2. PICK x \in Life :
          /\ thread' = [thread EXCEPT ![i] = x]
          /\ thread[i] \in {"begun", "bound", "listening"}
          /\ \/ x \in {"bound", "listening"} /\ path' = [path EXCEPT ![nameOf[i]] = i]
             \/ x = "listening" /\ path' = path
             \/ x = "failed" /\ path' = path /\ thread[i] = "begun"
             \/ path' = [path EXCEPT ![nameOf[i]] = 0]
    BY DEF Bind, Listen, Leave, Close, Life
<1>3. /\ thread' \in Seq(Life) /\ Len(thread') = Len(thread) /\ thread'[i] = x
      /\ \A j \in Made : j # i => thread'[j] = thread[j]
    <2>1. thread \in Seq(Life) /\ i \in 1..Len(thread) /\ Made = 1..Len(thread)
        BY <1>1, MadeFacts DEF RuntimeTypes
    <2>2. LET q1 == [thread EXCEPT ![i] = x]
          IN  /\ q1 \in Seq(Life) /\ Len(q1) = Len(thread) /\ q1[i] = x
              /\ \A j \in 1..Len(thread) : j # i => q1[j] = thread[j]
        <3> HIDE DEF Life
        <3> QED
            BY <2>1, ReplaceFacts
    <2> QED
        BY <1>2, <2>1, <2>2
<1>4. nameOf[i] \in Names /\ 0 \notin Made /\ \A j \in Made : nameOf[j] \in Names
    BY <1>1, MadeFacts
<1>5. \A n \in Names : \/ path'[n] = path[n]
                       \/ n = nameOf[i] /\ path'[n] = i /\ x \in {"bound", "listening"}
                       \/ path'[n] = 0
    BY <1>1, <1>2, <1>4 DEF RuntimeTypes
<1>6. RuntimeTypes'
    <2>1. path' \in [Names -> Made \cup {0}]
        BY <1>1, <1>2, <1>4 DEF RuntimeTypes
    <2> QED
        BY <1>1, <1>3, <2>1 DEF RuntimeTypes, calls
<1>7. Locked' /\ ByName' /\ \A c \in Caller : Starting(c)' /\ Waiting(c)'
    BY <1>1 DEF RuntimeInv, Locked, ByName, Starting, Waiting, Stopping, calls
<1>8. ASSUME NEW j \in Made
      PROVE  Minded(j)' /\ Registered(j)' /\ StoppedOnce(j)' /\ OwnFile(j)'
    <2>1. Minded(j) /\ Registered(j) /\ StoppedOnce(j) /\ OwnFile(j)
        BY DEF RuntimeInv
    <2>2. Alive(j)' => Alive(j)
        BY <1>2, <1>3 DEF Alive
    <2>3. Minded(j)' /\ Registered(j)' /\ StoppedOnce(j)'
        BY <1>1, <2>1, <2>2 DEF Minded, Registered, StoppedOnce, calls
    <2>4. OwnFile(j)'
        <3>1. CASE j # i
            BY <1>1, <1>3, <1>4, <1>5, <2>1, <3>1 DEF OwnFile
        <3>2. CASE j = i
            BY <1>1, <1>2, <1>3, <1>4, <2>1, <3>2 DEF OwnFile, RuntimeTypes
        <3> QED
            BY <3>1, <3>2
    <2> QED
        BY <2>3, <2>4
<1> QED
    BY <1>1, <1>6, <1>7, <1>8 DEF RuntimeInv

-----------------------------------------------------------------------------
(* The calls that leave the registry, the files and the servers alone, and *)
(* begin or end no start.                                                  *)

LEMMA CallKeeps ==
    ASSUME RuntimeInv, UNCHANGED <<registry, path, servers, new, toStop>>,
           RuntimeTypes', Locked',
           \A d \in Caller : (where'[d] = "ready" <=> where[d] = "ready") /\ Waiting(d)'
    PROVE  RuntimeInv'
<1>1. Made' = Made /\ UNCHANGED <<nameOf, thread, stopSet>>
    BY DEF servers, Made
<1>2. ByName' /\ \A d \in Caller : Starting(d)'
    BY <1>1 DEF RuntimeInv, ByName, Starting
<1>3. \A j \in Made : Minded(j)' /\ Registered(j)' /\ StoppedOnce(j)' /\ OwnFile(j)'
    BY <1>1 DEF RuntimeInv, Minded, Registered, StoppedOnce, OwnFile, Alive
<1> QED
    BY <1>1, <1>2, <1>3 DEF RuntimeInv

LEMMA CallBegins ==
    ASSUME RuntimeInv, NEW c \in Caller, NEW names \in Seq(Names), Call(c, names)
    PROVE  RuntimeInv'
<1>1. RuntimeTypes /\ Locked /\ \A d \in Caller : Waiting(d)
    BY DEF RuntimeInv
<1>2. RuntimeTypes'
    <2>1. Range(names) \subseteq Names
        <3> HIDE DEF Names
        <3> QED
            BY DEF Range
    <2>2. pending' \in [Caller -> Seq(Names)]
        <3> HIDE DEF Names
        <3> QED
            BY <1>1 DEF RuntimeTypes, Call
    <2>3. asked' \in [Caller -> SUBSET Names]
        <3> HIDE DEF Names
        <3> QED
            BY <1>1, <2>1 DEF RuntimeTypes, Call
    <2> QED
        BY <1>1, <2>2, <2>3 DEF RuntimeTypes, Call, Goto, Places, servers, Made
<1>3. where' = [where EXCEPT ![c] = "start"] /\ where[c] = "idle" /\ holder = Free /\ holder' = c
    BY DEF Call, Goto
<1>4. \A d \in Caller : where'[d] = IF d = c THEN "start" ELSE where[d]
    BY <1>1, <1>3 DEF RuntimeTypes
<1>5. Locked'
    BY <1>1, <1>3, <1>4, RuntimeAssumption DEF Locked
<1>6. UNCHANGED <<registry, path, servers, new, toStop>>
    BY DEF Call
<1>7. \A d \in Caller : (where'[d] = "ready" <=> where[d] = "ready") /\ Waiting(d)'
    BY <1>1, <1>3, <1>4, <1>6 DEF Waiting, Stopping
<1> QED
    BY <1>2, <1>5, <1>6, <1>7, CallKeeps

LEMMA ReturnKeeps ==
    ASSUME RuntimeInv, NEW c \in Caller,
           Unlock(c) \/ LookupFails(c) \/ Release(c) \/ Raise(c) \/ Stopped(c)
    PROVE  RuntimeInv'
<1>1. RuntimeTypes /\ Locked /\ \A d \in Caller : Waiting(d)
    BY DEF RuntimeInv
<1>2. \E to \in {"idle", "lockstop", "undo"} :
          /\ where' = [where EXCEPT ![c] = to]
          /\ \/ where[c] = "start" /\ to = "idle" /\ holder' = Free
             \/ where[c] = "start" /\ to = "lockstop" /\ holder' = holder
             \/ where[c] = "lockstop" /\ to = "undo" /\ holder' = Free
             \/ where[c] \in {"undo", "stop"} /\ to = "idle" /\ holder' = holder
    <2>1. CASE Unlock(c)
        BY <2>1 DEF Unlock, Goto
    <2>2. CASE LookupFails(c)
        BY <2>2 DEF LookupFails, Goto
    <2>3. CASE Release(c)
        BY <2>3 DEF Release, Goto
    <2>4. CASE Raise(c)
        BY <2>4 DEF Raise, Goto
    <2>5. CASE Stopped(c)
        BY <2>5 DEF Stopped, Goto
    <2> QED
        BY <2>1, <2>2, <2>3, <2>4, <2>5
<1> PICK to \in {"idle", "lockstop", "undo"} :
        /\ where' = [where EXCEPT ![c] = to]
        /\ \/ where[c] = "start" /\ to = "idle" /\ holder' = Free
           \/ where[c] = "start" /\ to = "lockstop" /\ holder' = holder
           \/ where[c] = "lockstop" /\ to = "undo" /\ holder' = Free
           \/ where[c] \in {"undo", "stop"} /\ to = "idle" /\ holder' = holder
    BY <1>2
<1>3. UNCHANGED <<registry, path, servers, new, toStop>> /\ Made' = Made
    BY DEF Unlock, LookupFails, Release, Raise, Stopped, servers, Made
<1>4. \A d \in Caller : where'[d] = IF d = c THEN to ELSE where[d]
    BY <1>1 DEF RuntimeTypes
<1>5. /\ toStop[c] = {} /\ where[c] # "ready"
      /\ where[c] \in {"start", "lockstop"} <=> holder = c
    BY <1>1 DEF Unlock, LookupFails, Release, Raise, Stopped, Goto, Waiting, Stopping, Locked
<1>6. /\ holder' = holder \/ holder' = Free
      /\ to \in {"start", "lockstop"} <=> holder' = c
      /\ holder' # holder => holder = c
    BY <1>5, RuntimeAssumption
<1>7. RuntimeTypes'
    <2>1. pending' \in [Caller -> Seq(Names)]
        <3> HIDE DEF Names
        <3>1. pending' = pending \/ pending' = [pending EXCEPT ![c] = <<>>]
            BY DEF Unlock, LookupFails, Release, Raise, Stopped
        <3>2. <<>> \in Seq(Names) /\ pending \in [Caller -> Seq(Names)]
            BY <1>1 DEF RuntimeTypes
        <3> QED
            BY <3>1, <3>2
    <2>2. asked' \in [Caller -> SUBSET Names] /\ mine' \in [Caller -> SUBSET Made]
        <3>1. (asked' = asked \/ asked' = [asked EXCEPT ![c] = {}])
              /\ (mine' = mine \/ mine' = [mine EXCEPT ![c] = {}])
            BY DEF Unlock, LookupFails, Release, Raise, Stopped
        <3> QED
            BY <1>1, <3>1 DEF RuntimeTypes
    <2> QED
        BY <1>1, <1>3, <1>6, <2>1, <2>2 DEF RuntimeTypes, Places, servers
<1>8. Locked'
    BY <1>1, <1>4, <1>6, RuntimeAssumption DEF Locked
<1>9. \A d \in Caller : (where'[d] = "ready" <=> where[d] = "ready") /\ Waiting(d)'
    BY <1>1, <1>3, <1>4, <1>5 DEF Waiting, Stopping
<1> QED
    BY <1>3, <1>7, <1>8, <1>9, CallKeeps

-----------------------------------------------------------------------------
(* Taking servers out of the registry, and stopping them. *)

\* A start that fails hands its server to the list of servers to stop.
LEMMA NotStartedKeeps ==
    ASSUME RuntimeInv, NEW c \in Caller, NotStarted(c)
    PROVE  RuntimeInv'
<1>1. RuntimeTypes /\ Locked /\ Starting(c) /\ Waiting(c)
    BY DEF RuntimeInv
<1>2. /\ where' = [where EXCEPT ![c] = "lockstop"] /\ where[c] = "ready"
      /\ toStop' = [toStop EXCEPT ![c] = {new[c]}]
      /\ new' = [new EXCEPT ![c] = 0]
      /\ UNCHANGED <<registry, holder, path, nameOf, thread, stopSet, asked, pending, mine>>
    BY DEF NotStarted, Goto, servers
<1> DEFINE s == new[c]
<1>3. /\ s \in Made /\ Made' = Made /\ registry[nameOf[s]] = 0 /\ 0 \notin Made
      /\ \A d \in Caller : s \notin toStop[d]
    BY <1>1, <1>2, MadeFacts DEF RuntimeTypes, Starting, Made
<1>4. /\ \A d \in Caller : where'[d] = IF d = c THEN "lockstop" ELSE where[d]
      /\ \A d \in Caller : toStop'[d] = IF d = c THEN {s} ELSE toStop[d]
      /\ \A d \in Caller : d # c => new'[d] = new[d]
      /\ toStop[c] = {}
      /\ \A d \in Caller : where[d] = "ready" => d = c
    BY <1>1, <1>2 DEF RuntimeTypes, Waiting, Stopping, Locked
<1> HIDE DEF s
<1>5. RuntimeTypes'
    <2>1. /\ where' \in [Caller -> Places] /\ toStop' \in [Caller -> SUBSET Made]
          /\ new' \in [Caller -> Made \cup {0}]
        BY <1>1, <1>2, <1>3 DEF RuntimeTypes, Places, s
    <2> QED
        BY <1>1, <1>2, <1>3, <2>1 DEF RuntimeTypes
<1>6. Locked' /\ ByName'
    BY <1>1, <1>2, <1>4 DEF RuntimeInv, Locked, ByName
<1>7. \A d \in Caller : Starting(d)' /\ Waiting(d)'
    BY <1>4 DEF RuntimeInv, Starting, Waiting, Stopping
<1>8. ASSUME NEW j \in Made
      PROVE  Minded(j)' /\ Registered(j)' /\ StoppedOnce(j)' /\ OwnFile(j)'
    <2>1. Minded(j) /\ Registered(j) /\ StoppedOnce(j) /\ OwnFile(j)
        BY DEF RuntimeInv
    <2>2. Minded(j)'
        BY <1>2, <1>4, <2>1 DEF Minded, Alive, s
    <2>3. Registered(j)'
        BY <1>2, <1>3, <1>4, <2>1 DEF Registered
    <2>4. StoppedOnce(j)'
        BY <1>3, <1>4, <2>1 DEF StoppedOnce
    <2>5. OwnFile(j)'
        BY <1>2, <2>1 DEF OwnFile
    <2> QED
        BY <2>2, <2>3, <2>4, <2>5
<1> QED
    BY <1>3, <1>5, <1>6, <1>7, <1>8 DEF RuntimeInv

\* Names are given up together with the servers that are registered by them.
LEMMA GivingUpKeeps ==
    ASSUME RuntimeInv, NEW c \in Caller, NEW gone \in SUBSET Names,
           RuntimeTypes', Locked',
           \A n \in Names : registry'[n] = IF n \in gone THEN 0 ELSE registry[n],
           toStop[c] = {},
           \A d \in Caller : toStop'[d] = IF d = c THEN {registry[n] : n \in gone} \ {0}
                                                   ELSE toStop[d],
           Stopping(c)',
           \A d \in Caller : where'[d] = where[d] \/ d = c,
           where[c] # "ready", where'[c] # "ready",
           UNCHANGED <<path, nameOf, thread, stopSet, new>>
    PROVE  RuntimeInv'
<1>1. /\ RuntimeTypes /\ ByName /\ Made' = Made
      /\ \A i \in Made : nameOf[i] \in Names
      /\ 0 \notin Made
    BY MadeFacts DEF RuntimeInv, Made
<1>2. ASSUME NEW i \in Made
      PROVE  /\ i \in toStop'[c] <=> registry[nameOf[i]] = i /\ nameOf[i] \in gone
             /\ registry'[nameOf[i]] = i <=> registry[nameOf[i]] = i /\ nameOf[i] \notin gone
    <2>1. i \in toStop'[c] <=> \E n \in gone : registry[n] = i
        <3>1. toStop'[c] = {registry[n] : n \in gone} \ {0} /\ i # 0
            BY <1>1
        <3> QED
            BY <3>1
    <2>2. \A n \in Names : registry[n] = i => n = nameOf[i]
        BY <1>1 DEF ByName
    <2>3. nameOf[i] \in Names /\ i # 0
        BY <1>1
    <2> QED
        BY <2>1, <2>2, <2>3
<1>3. ByName'
    BY <1>1 DEF ByName
<1>4. ASSUME NEW d \in Caller PROVE Starting(d)' /\ Waiting(d)'
    <2>1. Waiting(d)'
        BY DEF RuntimeInv, Waiting, Stopping
    <2>2. Starting(d)'
        <3> SUFFICES ASSUME where[d] = "ready"
                     PROVE  /\ new[d] # 0 /\ registry'[nameOf[new[d]]] = 0
                            /\ \A e \in Caller : new[d] \notin toStop'[e]
            BY DEF Starting
        <3>1. /\ new[d] \in Made /\ registry[nameOf[new[d]]] = 0
              /\ \A e \in Caller : new[d] \notin toStop[e]
            BY <1>1 DEF RuntimeInv, Starting, RuntimeTypes
        <3>2. registry'[nameOf[new[d]]] = 0
            BY <1>1, <3>1
        <3>3. new[d] \notin toStop'[c]
            BY <1>1, <1>2, <3>1
        <3> QED
            BY <1>1, <3>1, <3>2, <3>3
    <2> QED
        BY <2>1, <2>2
<1>5. ASSUME NEW j \in Made
      PROVE  Minded(j)' /\ Registered(j)' /\ StoppedOnce(j)' /\ OwnFile(j)'
    <2>1. Minded(j) /\ Registered(j) /\ StoppedOnce(j) /\ OwnFile(j)
        BY DEF RuntimeInv
    <2>2. \A d \in Caller : j \in toStop[d] => j \in toStop'[d]
        OBVIOUS
    <2>3. \A d \in Caller : where'[d] = "ready" <=> where[d] = "ready"
        OBVIOUS
    <2>4. Minded(j)'
        BY <1>2, <2>1, <2>2, <2>3 DEF Minded, Alive
    <2>5. Registered(j)'
        BY <1>2, <2>1, <2>3 DEF Registered
    <2>6. StoppedOnce(j)'
        <3>1. \A d \in Caller : j \in toStop'[d] /\ d # c => j \in toStop[d]
            OBVIOUS
        <3>2. j \in toStop'[c] => \A d \in Caller : j \notin toStop[d]
            BY <1>2, <2>1 DEF Registered
        <3> QED
            BY <2>1, <3>1, <3>2 DEF StoppedOnce
    <2>7. OwnFile(j)'
        BY <2>1 DEF OwnFile
    <2> QED
        BY <2>4, <2>5, <2>6, <2>7
<1> QED
    BY <1>1, <1>3, <1>4, <1>5 DEF RuntimeInv

LEMMA UndoKeeps ==
    ASSUME RuntimeInv, NEW c \in Caller, Undo(c)
    PROVE  RuntimeInv'
<1> DEFINE n == nameOf[Max(mine[c])]
<1>1. RuntimeTypes /\ Locked /\ Made' = Made
    BY DEF RuntimeInv, Undo, servers, Made
<1>2. n \in Names
    <2>1. mine[c] \in SUBSET Made /\ mine[c] # {}
        BY <1>1 DEF Undo, RuntimeTypes
    <2> QED
        BY <1>1, <2>1, LastOne, MadeFacts
<1>3. /\ where[c] = "undo" /\ toStop[c] = {}
      /\ registry' = [registry EXCEPT ![n] = 0]
      /\ toStop' = [toStop EXCEPT ![c] = {registry[n]} \ {0}]
      /\ mine' = [mine EXCEPT ![c] = @ \ {Max(mine[c])}]
      /\ UNCHANGED <<holder, path, nameOf, thread, stopSet, where, asked, pending, new>>
    BY DEF Undo, servers
<1> HIDE DEF n
<1>4. /\ \A m \in Names : registry'[m] = IF m \in {n} THEN 0 ELSE registry[m]
      /\ \A d \in Caller : toStop'[d] = IF d = c THEN {registry[m] : m \in {n}} \ {0}
                                                 ELSE toStop[d]
      /\ registry[n] \in Made \cup {0}
    BY <1>1, <1>2, <1>3 DEF RuntimeTypes
<1>5. RuntimeTypes'
    <2>1. /\ registry' \in [Names -> Made \cup {0}]
          /\ toStop' \in [Caller -> SUBSET Made] /\ mine' \in [Caller -> SUBSET Made]
        BY <1>1, <1>2, <1>3, <1>4 DEF RuntimeTypes
    <2> QED
        BY <1>1, <1>3, <2>1 DEF RuntimeTypes
<1>6. Locked' /\ Stopping(c)'
    BY <1>1, <1>3 DEF Locked, Stopping
<1>7. /\ {n} \in SUBSET Names /\ toStop[c] = {}
      /\ \A d \in Caller : where'[d] = where[d] \/ d = c
      /\ where[c] # "ready" /\ where'[c] # "ready"
      /\ UNCHANGED <<path, nameOf, thread, stopSet, new>>
    BY <1>2, <1>3
<1> QED
    BY <1>4, <1>5, <1>6, <1>7, GivingUpKeeps

LEMMA TakeAllKeeps ==
    ASSUME RuntimeInv, NEW c \in Caller, TakeAll(c)
    PROVE  RuntimeInv'
<1>1. RuntimeTypes /\ Locked /\ Waiting(c) /\ Made' = Made
    BY DEF RuntimeInv, TakeAll, servers, Made
<1>2. /\ where[c] = "idle" /\ holder = Free
      /\ where' = [where EXCEPT ![c] = "stop"]
      /\ registry' = [n \in Names |-> 0]
      /\ toStop' = [toStop EXCEPT ![c] = Range(registry) \ {0}]
      /\ UNCHANGED <<holder, path, nameOf, thread, stopSet, asked, pending, new, mine>>
    BY DEF TakeAll, Goto, servers
<1>3. /\ Range(registry) \ {0} \in SUBSET Made
      /\ Range(registry) = {registry[n] : n \in Names}
    BY <1>1 DEF RuntimeTypes, Range
<1>4. /\ \A n \in Names : registry'[n] = IF n \in Names THEN 0 ELSE registry[n]
      /\ \A d \in Caller : toStop'[d] = IF d = c THEN {registry[n] : n \in Names} \ {0}
                                                 ELSE toStop[d]
      /\ \A d \in Caller : where'[d] = IF d = c THEN "stop" ELSE where[d]
      /\ toStop[c] = {}
    BY <1>1, <1>2, <1>3 DEF RuntimeTypes, Waiting, Stopping
<1>5. RuntimeTypes'
    <2>1. registry' \in [Names -> Made \cup {0}] /\ toStop' \in [Caller -> SUBSET Made]
          /\ where' \in [Caller -> Places]
        BY <1>1, <1>2, <1>3 DEF RuntimeTypes, Places
    <2> QED
        BY <1>1, <1>2, <2>1 DEF RuntimeTypes
<1>6. Locked' /\ Stopping(c)'
    BY <1>1, <1>2, <1>4, RuntimeAssumption DEF Locked, Stopping
<1>7. /\ Names \in SUBSET Names
      /\ \A d \in Caller : where'[d] = where[d] \/ d = c
      /\ where[c] # "ready" /\ where'[c] # "ready"
      /\ UNCHANGED <<path, nameOf, thread, stopSet, new>>
    BY <1>2, <1>4
<1> QED
    BY <1>4, <1>5, <1>6, <1>7, GivingUpKeeps

\* A server that was told to stop may be forgotten.
LEMMA StopKeeps ==
    ASSUME RuntimeInv, NEW c \in Caller, BeginStop(c) \/ EndStop(c)
    PROVE  RuntimeInv'
<1> DEFINE i == Max(toStop[c])
<1>1. RuntimeTypes /\ Locked /\ ByName /\ Made' = Made /\ Stopping(c) /\ toStop[c] # {}
    BY DEF RuntimeInv, BeginStop, EndStop, servers, Made
<1>2. i \in toStop[c] /\ i \in Made /\ nameOf[i] \in Names
    <2>1. toStop[c] \in SUBSET Made
        BY <1>1 DEF RuntimeTypes
    <2> QED
        BY <1>1, <2>1, LastOne, MadeFacts
<1>3. UNCHANGED <<registry, holder, nameOf, thread, where, asked, pending, new, mine>>
    BY DEF BeginStop, EndStop, calls, servers
<1>4. \/ /\ stopSet' = stopSet \cup {i} /\ UNCHANGED <<path, toStop>>
      \/ /\ stopSet' = stopSet /\ i \in stopSet
         /\ path' = path \/ path' = [path EXCEPT ![nameOf[i]] = 0]
         /\ toStop' = [toStop EXCEPT ![c] = @ \ {i}]
    BY DEF BeginStop, EndStop, calls, servers
<1> HIDE DEF i
<1>5. RuntimeTypes'
    <2>1. /\ path \in [Names -> Made \cup {0}] /\ stopSet \in SUBSET Made
          /\ toStop \in [Caller -> SUBSET Made]
        BY <1>1 DEF RuntimeTypes
    <2>2. path' \in [Names -> Made \cup {0}]
        BY <1>4, <2>1
    <2>3. stopSet' \in SUBSET Made
        BY <1>2, <1>4, <2>1
    <2>4. toStop' \in [Caller -> SUBSET Made]
        BY <1>4, <2>1
    <2> QED
        BY <1>1, <1>3, <2>2, <2>3, <2>4 DEF RuntimeTypes
<1>6. /\ \A d \in Caller : toStop'[d] \subseteq toStop[d]
      /\ \A d \in Caller, j \in Made : j \in toStop[d] => j \in toStop'[d] \/ j \in stopSet'
      /\ stopSet \subseteq stopSet'
      /\ \A n \in Names : path'[n] = path[n] \/ path'[n] = 0
    <2>1. CASE stopSet' = stopSet \cup {i} /\ UNCHANGED <<path, toStop>>
        BY <2>1
    <2>2. CASE /\ stopSet' = stopSet /\ i \in stopSet
               /\ path' = path \/ path' = [path EXCEPT ![nameOf[i]] = 0]
               /\ toStop' = [toStop EXCEPT ![c] = @ \ {i}]
        <3>1. \A d \in Caller : toStop'[d] = IF d = c THEN toStop[d] \ {i} ELSE toStop[d]
            BY <1>1, <2>2 DEF RuntimeTypes
        <3>2. \A n \in Names : path'[n] = path[n] \/ path'[n] = 0
            BY <1>1, <1>2, <2>2 DEF RuntimeTypes
        <3> QED
            BY <2>2, <3>1, <3>2
    <2> QED
        BY <1>4, <2>1, <2>2
<1>7. Locked' /\ ByName'
    BY <1>1, <1>3 DEF Locked, ByName
<1>8. \A d \in Caller : Starting(d)' /\ Waiting(d)'
    BY <1>3, <1>6 DEF RuntimeInv, Starting, Waiting, Stopping
<1>9. ASSUME NEW j \in Made
      PROVE  Minded(j)' /\ Registered(j)' /\ StoppedOnce(j)' /\ OwnFile(j)'
    <2>1. Minded(j) /\ Registered(j) /\ StoppedOnce(j) /\ OwnFile(j)
        BY DEF RuntimeInv
    <2>2. Minded(j)'
        BY <1>3, <1>6, <2>1 DEF Minded, Alive
    <2>3. Registered(j)' /\ StoppedOnce(j)'
        BY <1>3, <1>6, <2>1 DEF Registered, StoppedOnce
    <2>4. OwnFile(j)'
        BY <1>1, <1>3, <1>6, <2>1, MadeFacts DEF OwnFile
    <2> QED
        BY <2>2, <2>3, <2>4
<1> QED
    BY <1>1, <1>5, <1>7, <1>8, <1>9 DEF RuntimeInv

-----------------------------------------------------------------------------
(* Starting a server, and registering it. *)

LEMMA StartOneKeeps ==
    ASSUME RuntimeInv, NEW c \in Caller, StartOne(c)
    PROVE  RuntimeInv'
<1> DEFINE n == Head(pending[c])
           s == Len(nameOf) + 1
<1>1. RuntimeTypes /\ Locked /\ where[c] = "start" /\ Len(nameOf) \in Nat /\ Made = 1..Len(nameOf)
    BY MadeFacts DEF RuntimeInv, StartOne
<1>2. UNCHANGED <<registry, holder, path, stopSet, asked, toStop, mine>>
    BY DEF StartOne
<1>3. n \in Names /\ pending' \in [Caller -> Seq(Names)]
    <2>1. pending[c] \in Seq(Names) /\ pending[c] # <<>> /\ pending \in [Caller -> Seq(Names)]
          /\ pending' = [pending EXCEPT ![c] = Tail(@)]
        BY <1>1 DEF RuntimeTypes, StartOne
    <2>2. Head(pending[c]) \in Names /\ Tail(pending[c]) \in Seq(Names)
        <3> HIDE DEF Names
        <3> QED
            BY <2>1
    <2> QED
        BY <2>1, <2>2
<1>4. CASE /\ UNCHANGED <<nameOf, thread, new>>
           /\ where' = where \/ where' = [where EXCEPT ![c] = "lockstop"]
    <2>1. RuntimeTypes'
        BY <1>1, <1>2, <1>3, <1>4 DEF RuntimeTypes, Made, Places
    <2>2. \A d \in Caller : where'[d] = where[d] \/ (d = c /\ where'[d] = "lockstop")
        BY <1>1, <1>4 DEF RuntimeTypes
    <2>3. Locked'
        BY <1>1, <1>2, <2>2 DEF Locked
    <2>4. \A d \in Caller : (where'[d] = "ready" <=> where[d] = "ready") /\ Waiting(d)'
        BY <1>1, <1>2, <2>2 DEF RuntimeInv, Waiting, Stopping
    <2>5. UNCHANGED <<registry, path, servers, new, toStop>>
        BY <1>2, <1>4 DEF servers
    <2> QED
        BY <2>1, <2>3, <2>4, <2>5, CallKeeps
<1>5. CASE /\ registry[n] = 0 /\ Len(nameOf) < MaxServers
           /\ nameOf' = Append(nameOf, n) /\ thread' = Append(thread, "begun")
           /\ new' = [new EXCEPT ![c] = s] /\ where' = [where EXCEPT ![c] = "ready"]
    <2>1. /\ nameOf' \in Seq(Names) /\ Len(nameOf') = s /\ nameOf'[s] = n
          /\ \A j \in Made : nameOf'[j] = nameOf[j]
        <3>1. nameOf \in Seq(Names)
            BY <1>1 DEF RuntimeTypes
        <3> HIDE DEF Names, n
        <3> QED
            BY <1>1, <1>3, <1>5, <3>1
    <2>2. /\ thread' \in Seq(Life) /\ Len(thread') = s /\ thread'[s] = "begun"
          /\ \A j \in Made : thread'[j] = thread[j]
        <3>1. thread \in Seq(Life) /\ Len(thread) = Len(nameOf) /\ "begun" \in Life
            BY <1>1 DEF RuntimeTypes, Life
        <3> HIDE DEF Life
        <3> QED
            BY <1>1, <1>5, <3>1
    <2>3. Made' = 1..s /\ Made' = Made \cup {s} /\ s \notin Made /\ s # 0
        BY <1>1, <2>1 DEF Made
    <2>4. /\ \A d \in Caller : where'[d] = IF d = c THEN "ready" ELSE where[d]
          /\ \A d \in Caller : new'[d] = IF d = c THEN s ELSE new[d]
        BY <1>1, <1>5 DEF RuntimeTypes
    <2> HIDE DEF n, s
    <2>5. RuntimeTypes'
        <3>1. registry' \in [Names -> Made' \cup {0}] /\ path' \in [Names -> Made' \cup {0}]
            BY <1>1, <1>2, <2>3 DEF RuntimeTypes
        <3>2. /\ new' \in [Caller -> Made' \cup {0}] /\ stopSet' \subseteq Made'
              /\ toStop' \in [Caller -> SUBSET Made'] /\ mine' \in [Caller -> SUBSET Made']
            BY <1>1, <1>2, <1>5, <2>3 DEF RuntimeTypes
        <3>3. Len(nameOf') <= MaxServers
            BY <1>1, <1>5, <2>1, RuntimeAssumption DEF s
        <3>4. where' \in [Caller -> Places]
            BY <1>1, <1>5 DEF RuntimeTypes, Places
        <3> QED
            BY <1>1, <1>2, <1>3, <2>1, <2>2, <3>1, <3>2, <3>3, <3>4 DEF RuntimeTypes
    <2>6. Locked' /\ \A d \in Caller : where'[d] = "ready" => d = c
        BY <1>1, <1>2, <2>4 DEF Locked
    <2>7. ByName'
        BY <1>1, <1>2, <2>1 DEF RuntimeInv, ByName, RuntimeTypes
    <2>8. /\ \A d \in Caller : toStop[d] \subseteq Made
          /\ \A m \in Names : registry[m] # s /\ path[m] # s
          /\ \A j \in Made : nameOf[j] \in Names
        BY <1>1, <2>3, MadeFacts DEF RuntimeTypes
    <2>9. \A d \in Caller : Starting(d)' /\ Waiting(d)'
        <3>1. Starting(c)'
            BY <1>2, <1>5, <2>1, <2>3, <2>4, <2>8 DEF Starting
        <3>2. \A d \in Caller : Waiting(d)'
            BY <1>1, <1>2, <2>4 DEF RuntimeInv, Waiting, Stopping
        <3> QED
            BY <2>6, <3>1, <3>2 DEF Starting
    <2>10. ASSUME NEW j \in Made
           PROVE  Minded(j)' /\ Registered(j)' /\ StoppedOnce(j)' /\ OwnFile(j)'
        <3>1. Minded(j) /\ Registered(j) /\ StoppedOnce(j) /\ OwnFile(j)
            BY DEF RuntimeInv
        <3>2. j # s /\ \A d \in Caller : where[d] = "ready" => d # c
            BY <1>1, <2>3
        <3>3. nameOf'[j] = nameOf[j] /\ thread'[j] = thread[j]
            BY <2>1, <2>2
        <3>4. Minded(j)'
            BY <1>2, <2>4, <3>1, <3>2, <3>3 DEF Minded, Alive
        <3>5. Registered(j)'
            BY <1>2, <2>4, <3>1, <3>2, <3>3 DEF Registered
        <3>6. StoppedOnce(j)' /\ OwnFile(j)'
            BY <1>2, <3>1, <3>3 DEF StoppedOnce, OwnFile
        <3> QED
            BY <3>4, <3>5, <3>6
    <2>11. \A t : t = s => Minded(t)' /\ Registered(t)' /\ StoppedOnce(t)' /\ OwnFile(t)'
        BY <1>2, <1>3, <1>5, <2>1, <2>3, <2>4, <2>8
           DEF Minded, Registered, StoppedOnce, OwnFile
    <2>12. \A j \in Made' : Minded(j)' /\ Registered(j)' /\ StoppedOnce(j)' /\ OwnFile(j)'
        BY <2>3, <2>10, <2>11
    <2> QED
        BY <2>5, <2>6, <2>7, <2>9, <2>12 DEF RuntimeInv
<1> QED
    BY <1>4, <1>5 DEF StartOne

LEMMA StartedKeeps ==
    ASSUME RuntimeInv, NEW c \in Caller, Started(c)
    PROVE  RuntimeInv'
<1> DEFINE s == new[c]
           n == nameOf[s]
<1>1. RuntimeTypes /\ Locked /\ ByName /\ Starting(c) /\ Made' = Made
    BY DEF RuntimeInv, Started, servers, Made
<1>2. /\ where[c] = "ready" /\ where' = [where EXCEPT ![c] = "start"]
      /\ registry' = [registry EXCEPT ![n] = s]
      /\ mine' = [mine EXCEPT ![c] = @ \cup {s}]
      /\ new' = [new EXCEPT ![c] = 0]
      /\ UNCHANGED <<holder, path, nameOf, thread, stopSet, asked, pending, toStop>>
    BY DEF Started, Goto, servers
<1>3. /\ s \in Made /\ s # 0 /\ registry[n] = 0 /\ n \in Names
      /\ \A d \in Caller : s \notin toStop[d]
      /\ 0 \notin Made /\ \A j \in Made : nameOf[j] \in Names
    BY <1>1, <1>2, MadeFacts DEF Starting, RuntimeTypes
<1>4. /\ \A m \in Names : registry'[m] = IF m = n THEN s ELSE registry[m]
      /\ \A d \in Caller : where'[d] = IF d = c THEN "start" ELSE where[d]
    BY <1>1, <1>2, <1>3 DEF RuntimeTypes
<1>5. RuntimeTypes'
    <2>1. /\ registry' \in [Names -> Made \cup {0}] /\ mine' \in [Caller -> SUBSET Made]
          /\ where' \in [Caller -> Places] /\ new' \in [Caller -> Made \cup {0}]
        BY <1>1, <1>2, <1>3 DEF RuntimeTypes, Places
    <2> QED
        BY <1>1, <1>2, <2>1 DEF RuntimeTypes
<1>6. Locked' /\ (\A d \in Caller : where'[d] # "ready")
      /\ \A d \in Caller : where[d] = "ready" => d = c
    BY <1>1, <1>2, <1>4 DEF Locked
<1>7. ByName'
    BY <1>1, <1>2, <1>4 DEF ByName
<1>8. \A d \in Caller : Starting(d)' /\ Waiting(d)'
    BY <1>2, <1>4, <1>6 DEF RuntimeInv, Starting, Waiting, Stopping
<1>9. ASSUME NEW j \in Made
      PROVE  Minded(j)' /\ Registered(j)' /\ StoppedOnce(j)' /\ OwnFile(j)'
    <2>1. Minded(j) /\ Registered(j) /\ StoppedOnce(j) /\ OwnFile(j)
        BY DEF RuntimeInv
    <2>2. Minded(j)'
        BY <1>2, <1>3, <1>4, <1>6, <2>1 DEF Minded, Alive
    <2>3. Registered(j)'
        BY <1>2, <1>3, <1>4, <1>6, <2>1 DEF Registered
    <2>4. StoppedOnce(j)' /\ OwnFile(j)'
        BY <1>2, <2>1 DEF StoppedOnce, OwnFile
    <2> QED
        BY <2>2, <2>3, <2>4
<1> QED
    BY <1>1, <1>5, <1>6, <1>7, <1>8, <1>9 DEF RuntimeInv

-----------------------------------------------------------------------------
LEMMA RuntimeStep == RuntimeInv /\ [RuntimeNext]_runtime => RuntimeInv'
<1> SUFFICES ASSUME RuntimeInv, [RuntimeNext]_runtime PROVE RuntimeInv'
    OBVIOUS
<1>1. ASSUME NEW i \in Made, Bind(i) \/ Listen(i) \/ Leave(i) PROVE RuntimeInv'
    BY <1>1, ThreadKeeps
<1>2. ASSUME NEW c \in Caller, NEW names, Call(c, names),
             names = Name \/ \E n \in Names : names = <<n>>
      PROVE  RuntimeInv'
    <2>1. names \in Seq(Names)
        <3>1. Name \in Seq(Range(Name))
            BY RuntimeAssumption DEF Range
        <3>2. \A n \in Names : <<n>> \in Seq(Names)
            OBVIOUS
        <3> QED
            BY <1>2, <3>1, <3>2 DEF Names
    <2> QED
        BY <1>2, <2>1, CallBegins
<1>3. ASSUME NEW c \in Caller, StartOne(c) PROVE RuntimeInv'
    BY <1>3, StartOneKeeps
<1>4. ASSUME NEW c \in Caller, Started(c) PROVE RuntimeInv'
    BY <1>4, StartedKeeps
<1>5. ASSUME NEW c \in Caller, NotStarted(c) PROVE RuntimeInv'
    BY <1>5, NotStartedKeeps
<1>6. ASSUME NEW c \in Caller,
             Unlock(c) \/ LookupFails(c) \/ Release(c) \/ Raise(c) \/ Stopped(c)
      PROVE  RuntimeInv'
    BY <1>6, ReturnKeeps
<1>7. ASSUME NEW c \in Caller, Undo(c) PROVE RuntimeInv'
    BY <1>7, UndoKeeps
<1>8. ASSUME NEW c \in Caller, TakeAll(c) PROVE RuntimeInv'
    BY <1>8, TakeAllKeeps
<1>9. ASSUME NEW c \in Caller, BeginStop(c) \/ EndStop(c) PROVE RuntimeInv'
    BY <1>9, StopKeeps
<1>10. CASE UNCHANGED runtime
    <2>1. /\ UNCHANGED <<registry, holder, path, servers, new, toStop>>
          /\ UNCHANGED <<nameOf, thread, stopSet, where, asked, pending, mine>>
        BY <1>10 DEF runtime, servers, calls
    <2>2. RuntimeTypes' /\ Locked' /\ \A d \in Caller : Waiting(d)'
        BY <2>1 DEF RuntimeInv, RuntimeTypes, Made, Locked, Waiting, Stopping
    <2> QED
        BY <2>1, <2>2, CallKeeps
<1> QED
    BY <1>1, <1>2, <1>3, <1>4, <1>5, <1>6, <1>7, <1>8, <1>9, <1>10 DEF RuntimeNext

\* A server that nobody told to stop is registered, being started or to be
\* stopped by one call, and a socket file is of a thread that will remove it,
\* for any callers, daemons and servers, whatever fails (runner.py, base.py).
THEOREM NoneIsForgotten == RuntimeSpec => []NoneForgotten
<1> QED
    BY InvForgetsNone, InitRuntime, RuntimeStep, PTL DEF RuntimeSpec

\* Every part of the registry, the servers and the calls has its type.
THEOREM RuntimeTypeCorrect == RuntimeSpec => []RuntimeTypeOK
<1>1. ASSUME RuntimeInv PROVE RuntimeTypeOK
    <2>1. RuntimeTypes /\ MaxServers \in Nat
        BY <1>1, RuntimeAssumption DEF RuntimeInv
    <2>2. Made \cup {0} \subseteq 0..MaxServers /\ Made = 1..Len(nameOf) /\ DOMAIN thread = Made
        BY <2>1, MadeFacts DEF RuntimeTypes
    <2>3. registry \in [Names -> 0..MaxServers] /\ path \in [Names -> 0..MaxServers]
        BY <2>1, <2>2 DEF RuntimeTypes
    <2>4. Range(nameOf) \subseteq Names /\ thread \in [Made -> Life]
        <3>1. nameOf \in Seq(Names) /\ thread \in Seq(Life)
            BY <2>1 DEF RuntimeTypes
        <3> HIDE DEF Names, Life
        <3> QED
            BY <2>2, <3>1 DEF Range
    <2> QED
        BY <2>1, <2>3, <2>4 DEF RuntimeTypes, RuntimeTypeOK, Places, Life
<1> QED
    BY <1>1, InitRuntime, RuntimeStep, PTL DEF RuntimeSpec

-----------------------------------------------------------------------------
(* Recovery: the time of a point never changes and comes before its copy,  *)
(* so each file of a point holds what was there by then; and a file whose  *)
(* digest is about to be taken, or that is about to be copied back, is not *)
(* damaged in a way that a digest would have shown.                        *)

File == Content \cup {NoFile}
Task == [stage : {"idle", "copy", "put", "digest", "publish", "fetch", "replace"},
         point : Point \cup {NoFile}, temporary : File,
         target : Nat, eligible : SUBSET Point]
Restored == [content : Content, point : Point, target : Nat, eligible : SUBSET Point]

RecoveryTypes ==
    /\ commits \in 0..MaxCommits
    /\ created \in [Point -> 0..commits \cup {NoFile}]
    /\ snapshot \in [Point -> File] /\ manifest \in [Point -> File]
    /\ task \in [Job -> Task]
    /\ output \in Restored \cup {NoFile}

\* A file of a point: later than its time, and of the past.
FileOf(p, x) ==
    /\ x \in Content /\ p \in Point /\ created[p] # NoFile
    /\ created[p] <= x.version /\ x.version <= commits

Compared(p) == snapshot[p] # NoFile => snapshot[p].state # "altered"

PointSound(p) ==
    /\ snapshot[p] # NoFile => FileOf(p, snapshot[p])
    /\ manifest[p] # NoFile => FileOf(p, manifest[p]) /\ manifest[p].state # "altered"

\* No point of those to choose from is later than the one that was chosen.
BestOf(p, target, eligible) ==
    /\ p \in Point /\ created[p] # NoFile /\ created[p] <= target
    /\ \A q \in eligible : created[q] # NoFile /\ created[q] <= created[p]

TaskSound(t) ==
    /\ t.stage # "idle" => t.point \in Point
    /\ t.stage = "copy" => created[t.point] # NoFile
    /\ t.stage \in {"put", "publish"} =>
           FileOf(t.point, t.temporary) /\ t.temporary.state # "altered"
    /\ t.stage \in {"digest", "fetch"} => Compared(t.point)
    /\ t.stage \in {"fetch", "replace"} => BestOf(t.point, t.target, t.eligible)
    /\ t.stage = "replace" =>
           FileOf(t.point, t.temporary) /\ t.temporary.state \in {"whole", "unseen"}

OutputSound ==
    output # NoFile =>
        /\ BestOf(output.point, output.target, output.eligible)
        /\ FileOf(output.point, output.content)
        /\ output.content.state \in {"whole", "unseen"}

RecoveryInv ==
    /\ RecoveryTypes
    /\ \A p \in Point : PointSound(p)
    /\ \A j \in Job : TaskSound(task[j])
    /\ OutputSound

\* The times and versions that occur are numbers, and no file is one.
LEMMA FileFacts ==
    ASSUME RecoveryTypes
    PROVE  /\ commits \in Nat /\ MaxCommits \in Nat
           /\ NoFile \notin Content /\ NoFile \notin Nat
           /\ \A p \in Point : created[p] # NoFile => created[p] \in Nat /\ created[p] <= commits
           /\ \A x \in Content : x.version \in Nat /\ x.version <= MaxCommits
BY RecoveryAssumption DEF RecoveryTypes, Content

LEMMA RestoredIsSound == RecoveryInv => RestoreSound
<1> SUFFICES ASSUME RecoveryInv, output # NoFile
             PROVE  /\ output.content.state \in {"whole", "unseen"}
                    /\ output.content.version <= commits
                    /\ created[output.point] <= output.target
                    /\ \A q \in output.eligible : created[q] <= output.content.version
    BY DEF RestoreSound
<1>1. /\ BestOf(output.point, output.target, output.eligible)
      /\ FileOf(output.point, output.content)
      /\ output.content.state \in {"whole", "unseen"}
      /\ output.eligible \subseteq Point /\ output.content \in Content
    BY DEF RecoveryInv, OutputSound, RecoveryTypes, Restored
<1>2. ASSUME NEW q \in output.eligible PROVE created[q] <= output.content.version
    <2>1. /\ created[q] \in Nat /\ created[output.point] \in Nat
          /\ output.content.version \in Nat
        BY <1>1, FileFacts DEF RecoveryInv, BestOf
    <2> QED
        BY <1>1, <2>1 DEF BestOf, FileOf
<1> QED
    BY <1>1, <1>2 DEF BestOf, FileOf

LEMMA InitRecovery == RecoveryInit => RecoveryInv
<1> SUFFICES ASSUME RecoveryInit PROVE RecoveryInv
    OBVIOUS
<1>1. RecoveryTypes
    BY RecoveryAssumption DEF RecoveryInit, RecoveryTypes, File, Task, NoTask
<1>2. \A p \in Point : PointSound(p)
    BY DEF RecoveryInit, PointSound
<1>3. \A j \in Job : TaskSound(task[j])
    BY DEF RecoveryInit, TaskSound, NoTask
<1>4. OutputSound
    BY DEF RecoveryInit, OutputSound
<1> QED
    BY <1>1, <1>2, <1>3, <1>4 DEF RecoveryInv

\* What was sound of a point stays so while times stay and commits are added.
LEMMA FilesStay ==
    ASSUME RecoveryTypes, RecoveryTypes', commits <= commits',
           \A p \in Point : created[p] # NoFile => created'[p] = created[p]
    PROVE  /\ \A p, x : FileOf(p, x) => FileOf(p, x)'
           /\ \A p, e : \A n \in Nat : e \in SUBSET Point /\ BestOf(p, n, e) => BestOf(p, n, e)'
<1>1. ASSUME NEW p, NEW x, FileOf(p, x) PROVE FileOf(p, x)'
    <2>1. x.version \in Nat /\ commits \in Nat /\ commits' \in Nat
        BY <1>1, FileFacts DEF FileOf, RecoveryTypes
    <2> QED
        BY <1>1, <2>1 DEF FileOf
<1>2. ASSUME NEW p, NEW e \in SUBSET Point, NEW n \in Nat, BestOf(p, n, e)
      PROVE  BestOf(p, n, e)'
    BY <1>2 DEF BestOf
<1> QED
    BY <1>1, <1>2

\* What every step has to show of the files, the runs and the output.
LEMMA RecoveryKeeps ==
    ASSUME RecoveryInv, RecoveryTypes', commits <= commits',
           \A p \in Point : created[p] # NoFile => created'[p] = created[p],
           \A p \in Point : \/ snapshot'[p] = snapshot[p] \/ snapshot'[p] = NoFile
                            \/ FileOf(p, snapshot'[p]),
           \A p \in Point : \/ manifest'[p] = manifest[p]
                            \/ FileOf(p, manifest'[p]) /\ manifest'[p].state # "altered",
           \A j \in Job : \/ /\ task'[j] = task[j]
                             /\ task[j].stage \in {"digest", "fetch"} => Compared(task[j].point)'
                          \/ TaskSound(task[j])',
           output' = output \/ OutputSound'
    PROVE  RecoveryInv'
<1>1. RecoveryTypes
    BY DEF RecoveryInv
<1>2. \A p, x : FileOf(p, x) => FileOf(p, x)'
    BY <1>1, FilesStay
<1>3. \A p, e : \A n \in Nat : e \in SUBSET Point /\ BestOf(p, n, e) => BestOf(p, n, e)'
    BY <1>1, FilesStay
<1>4. ASSUME NEW p \in Point PROVE PointSound(p)'
    <2>1. snapshot'[p] # NoFile => FileOf(p, snapshot'[p])
        BY DEF RecoveryInv, PointSound
    <2>2. manifest'[p] # NoFile => FileOf(p, manifest'[p]) /\ manifest'[p].state # "altered"
        BY DEF RecoveryInv, PointSound
    <2>3. \A x : FileOf(p, x) => x \in Content /\ created'[p] # NoFile
                                 /\ created'[p] <= x.version /\ x.version <= commits'
        BY <1>2 DEF FileOf
    <2> QED
        BY <2>1, <2>2, <2>3 DEF PointSound, FileOf
<1>5. ASSUME NEW j \in Job PROVE TaskSound(task[j])'
    <2>1. CASE TaskSound(task[j])'
        BY <2>1
    <2>2. CASE /\ task'[j] = task[j]
               /\ task[j].stage \in {"digest", "fetch"} => Compared(task[j].point)'
        <3>1. ASSUME NEW t \in Task, TaskSound(t),
                     t.stage \in {"digest", "fetch"} => Compared(t.point)'
              PROVE  TaskSound(t)'
            <4>1. t.target \in Nat /\ t.eligible \in SUBSET Point
                BY DEF Task
            <4>2. t.stage \in {"put", "publish", "replace"} => FileOf(t.point, t.temporary)'
                BY <1>2, <3>1 DEF TaskSound
            <4>3. t.stage \in {"fetch", "replace"} => BestOf(t.point, t.target, t.eligible)'
                BY <1>3, <3>1, <4>1 DEF TaskSound
            <4>4. t.stage = "copy" => created'[t.point] # NoFile
                BY <1>1, <3>1, FileFacts DEF TaskSound
            <4> QED
                BY <3>1, <4>2, <4>3, <4>4 DEF TaskSound
        <3>2. task[j] \in Task /\ TaskSound(task[j])
            BY <1>1 DEF RecoveryInv, RecoveryTypes
        <3> QED
            BY <2>2, <3>1, <3>2
    <2> QED
        BY <2>1, <2>2
<1>6. OutputSound'
    <2>1. CASE output' = output
        BY <1>1, <1>2, <1>3, <2>1 DEF RecoveryInv, OutputSound, RecoveryTypes, Restored, FileOf, BestOf
    <2> QED
        BY <2>1
<1> QED
    BY <1>4, <1>5, <1>6 DEF RecoveryInv

-----------------------------------------------------------------------------
(* The writers of the database, and damage. *)

LEMMA CommitKeeps == RecoveryInv /\ WriteCommit => RecoveryInv'
<1> SUFFICES ASSUME RecoveryInv, WriteCommit PROVE RecoveryInv'
    OBVIOUS
<1>1. /\ RecoveryTypes /\ commits < MaxCommits /\ commits' = commits + 1
      /\ UNCHANGED <<created, snapshot, manifest, task, output>>
    BY DEF RecoveryInv, WriteCommit
<1>2. commits \in Nat /\ MaxCommits \in Nat
    BY <1>1, FileFacts
<1>3. RecoveryTypes'
    <2>1. 0..commits \cup {NoFile} \subseteq 0..(commits + 1) \cup {NoFile}
        BY <1>2
    <2>2. created' \in [Point -> 0..commits' \cup {NoFile}]
        BY <1>1, <2>1 DEF RecoveryTypes
    <2>3. commits' \in 0..MaxCommits
        BY <1>1, <1>2
    <2> QED
        BY <1>1, <2>2, <2>3 DEF RecoveryTypes
<1>4. \A j \in Job : /\ task'[j] = task[j]
                     /\ task[j].stage \in {"digest", "fetch"} => Compared(task[j].point)'
    BY <1>1 DEF RecoveryInv, TaskSound, Compared
<1> QED
    BY <1>1, <1>2, <1>3, <1>4, RecoveryKeeps

\* Damage that only a digest shows meets no file whose digest is to be taken,
\* and none that is to be copied.
LEMMA DamageKeeps ==
    ASSUME RecoveryInv, NEW p \in Point, Damage(p)
    PROVE  RecoveryInv'
<1>1. RecoveryTypes /\ snapshot[p] # NoFile /\ UNCHANGED <<commits, created, manifest, task, output>>
    BY DEF RecoveryInv, Damage
<1>2. FileOf(p, snapshot[p])
    BY <1>1 DEF RecoveryInv, PointSound
<1>3. PICK x : /\ snapshot' = [snapshot EXCEPT ![p] = x]
               /\ \/ x = NoFile
                  \/ /\ x = [snapshot[p] EXCEPT !.state = x.state]
                     /\ x.state \in {"malformed", "unseen", "altered"}
                     /\ x.state = "altered" =>
                            ~\E j \in Job : task[j].stage \in {"digest", "fetch"} /\ task[j].point = p
    <2>1. CASE snapshot' = [snapshot EXCEPT ![p] = NoFile]
        BY <2>1
    <2>2. ASSUME NEW state, snapshot' = [snapshot EXCEPT ![p].state = state],
                 state \in {"malformed", IF \E j \in Job : task[j].stage \in {"digest", "fetch"}
                                                           /\ task[j].point = p
                                         THEN "unseen" ELSE "altered"}
          PROVE  \E x : /\ snapshot' = [snapshot EXCEPT ![p] = x]
                        /\ x = [snapshot[p] EXCEPT !.state = x.state]
                        /\ x.state \in {"malformed", "unseen", "altered"}
                        /\ x.state = "altered" =>
                             ~\E j \in Job : task[j].stage \in {"digest", "fetch"} /\ task[j].point = p
        <3> DEFINE x == [snapshot[p] EXCEPT !.state = state]
        <3>1. snapshot' = [snapshot EXCEPT ![p] = x]
            BY <1>1, <2>2
        <3>2. x.state = state
            BY <1>2 DEF FileOf, Content
        <3> QED
            BY <2>2, <3>1, <3>2
    <2> QED
        BY <2>1, <2>2 DEF Damage
<1>4. x # NoFile => FileOf(p, x) /\ x \in Content
    BY <1>2, <1>3 DEF FileOf, Content
<1>5. \A q \in Point : snapshot'[q] = IF q = p THEN x ELSE snapshot[q]
    BY <1>1, <1>3 DEF RecoveryTypes
<1>6. RecoveryTypes'
    <2>1. snapshot' \in [Point -> File]
        BY <1>1, <1>3, <1>4 DEF RecoveryTypes, File
    <2> QED
        BY <1>1, <2>1 DEF RecoveryTypes
<1>7. \A q \in Point : \/ snapshot'[q] = snapshot[q] \/ snapshot'[q] = NoFile
                       \/ FileOf(q, snapshot'[q])
    BY <1>4, <1>5
<1>8. ASSUME NEW j \in Job
      PROVE  /\ task'[j] = task[j]
             /\ task[j].stage \in {"digest", "fetch"} => Compared(task[j].point)'
    <2>1. TaskSound(task[j]) /\ task'[j] = task[j]
        BY <1>1 DEF RecoveryInv
    <2>2. ASSUME task[j].stage \in {"digest", "fetch"} PROVE Compared(task[j].point)'
        <3>1. task[j].point \in Point /\ Compared(task[j].point)
            BY <2>1, <2>2 DEF TaskSound
        <3>2. task[j].point = p => x = NoFile \/ x.state # "altered"
            BY <1>3, <2>2
        <3> QED
            BY <1>5, <2>1, <3>1, <3>2 DEF Compared
    <2> QED
        BY <2>1, <2>2
<1>9. commits <= commits'
    BY <1>1, FileFacts
<1> QED
    BY <1>1, <1>6, <1>7, <1>8, <1>9, RecoveryKeeps

-----------------------------------------------------------------------------
(* The steps of a run: it changes its own record, and one file or time.    *)

\* A run whose step leaves the snapshots alone leaves the other runs alone.
LEMMA JobKeeps ==
    ASSUME RecoveryInv, NEW j \in Job, NEW t \in Task,
           task' = [task EXCEPT ![j] = t], TaskSound(t)',
           UNCHANGED <<commits, snapshot>>,
           created' \in [Point -> 0..commits \cup {NoFile}],
           manifest' \in [Point -> File], output' \in Restored \cup {NoFile},
           \A p \in Point : created[p] # NoFile => created'[p] = created[p],
           \A p \in Point : \/ manifest'[p] = manifest[p]
                            \/ FileOf(p, manifest'[p]) /\ manifest'[p].state # "altered",
           output' = output \/ OutputSound'
    PROVE  RecoveryInv'
<1>1. RecoveryTypes /\ task' \in [Job -> Task]
    BY DEF RecoveryInv, RecoveryTypes
<1>2. \A i \in Job : task'[i] = IF i = j THEN t ELSE task[i]
    BY <1>1 DEF RecoveryTypes
<1>3. RecoveryTypes'
    BY <1>1 DEF RecoveryTypes
<1>4. ASSUME NEW i \in Job
      PROVE  \/ /\ task'[i] = task[i]
                /\ task[i].stage \in {"digest", "fetch"} => Compared(task[i].point)'
             \/ TaskSound(task[i])'
    <2>1. CASE i = j
        BY <1>2, <2>1
    <2>2. CASE i # j
        <3>1. task'[i] = task[i] /\ TaskSound(task[i])
            BY <1>2, <2>2 DEF RecoveryInv
        <3> QED
            BY <3>1 DEF TaskSound, Compared
    <2> QED
        BY <2>1, <2>2
<1>5. commits <= commits' /\ \A p \in Point : snapshot'[p] = snapshot[p]
    BY <1>1, FileFacts
<1> QED
    BY <1>3, <1>4, <1>5, RecoveryKeeps

\* A run has a record, which says what it is.
LEMMA TaskFacts ==
    ASSUME RecoveryInv, NEW j \in Job
    PROVE  /\ RecoveryTypes /\ task[j] \in Task /\ TaskSound(task[j])
           /\ created \in [Point -> 0..commits \cup {NoFile}]
           /\ snapshot \in [Point -> File] /\ manifest \in [Point -> File]
           /\ output \in Restored \cup {NoFile}
           /\ task[j].target \in Nat /\ task[j].eligible \in SUBSET Point
           /\ NoTask \in Task /\ NoTask.stage = "idle"
BY DEF RecoveryInv, RecoveryTypes, Task, NoTask, File

LEMMA BreakOffKeeps ==
    ASSUME RecoveryInv, NEW j \in Job, BreakOff(j)
    PROVE  RecoveryInv'
<1>1. /\ task' = [task EXCEPT ![j] = NoTask]
      /\ UNCHANGED <<commits, created, snapshot, manifest, output>>
    BY DEF BreakOff
<1>2. TaskSound(NoTask)'
    BY DEF TaskSound, NoTask
<1> QED
    BY <1>1, <1>2, TaskFacts, JobKeeps

LEMMA BeginBackupKeeps ==
    ASSUME RecoveryInv, NEW j \in Job, NEW p \in Point, BeginBackup(j, p)
    PROVE  RecoveryInv'
<1>1. /\ task[j].stage = "idle" /\ created[p] = NoFile
      /\ created' = [created EXCEPT ![p] = commits]
      /\ task' = [task EXCEPT ![j].stage = "copy", ![j].point = p]
      /\ UNCHANGED <<commits, snapshot, manifest, output>>
    BY DEF BeginBackup
<1>2. PICK t : t = [task[j] EXCEPT !.stage = "copy", !.point = p]
    OBVIOUS
<1>3. /\ t \in Task /\ t.stage = "copy" /\ t.point = p
      /\ task' = [task EXCEPT ![j] = t]
    BY <1>1, <1>2, TaskFacts DEF Task
<1>4. commits \in Nat /\ commits # NoFile
    BY TaskFacts, FileFacts
<1>5. /\ created' \in [Point -> 0..commits \cup {NoFile}]
      /\ \A q \in Point : created[q] # NoFile => created'[q] = created[q]
      /\ created'[p] # NoFile
    BY <1>1, <1>4, TaskFacts
<1>6. TaskSound(t)'
    BY <1>3, <1>5 DEF TaskSound
<1> QED
    BY <1>1, <1>3, <1>5, <1>6, TaskFacts, JobKeeps

LEMMA CopyKeeps ==
    ASSUME RecoveryInv, NEW j \in Job, CopyLive(j)
    PROVE  RecoveryInv'
<1>1. PICK x : x = [version |-> commits, state |-> "whole"]
    OBVIOUS
<1>2. /\ task[j].stage = "copy"
      /\ task' = [task EXCEPT ![j].stage = "put", ![j].temporary = x]
      /\ UNCHANGED <<commits, created, snapshot, manifest, output>>
    BY <1>1 DEF CopyLive
<1>3. task[j].point \in Point /\ FileOf(task[j].point, x) /\ x.state # "altered" /\ x \in File
    <2>1. /\ commits \in 0..MaxCommits /\ commits \in Nat
          /\ \A p \in Point : created[p] # NoFile => created[p] <= commits
        BY TaskFacts, FileFacts DEF RecoveryTypes
    <2>2. task[j].point \in Point /\ created[task[j].point] # NoFile
        BY <1>2, TaskFacts DEF TaskSound
    <2> QED
        BY <1>1, <2>1, <2>2 DEF FileOf, Content, File
<1>4. PICK t : t = [task[j] EXCEPT !.stage = "put", !.temporary = x]
    OBVIOUS
<1>5. /\ t \in Task /\ t.stage = "put" /\ t.point = task[j].point /\ t.temporary = x
      /\ task' = [task EXCEPT ![j] = t]
    BY <1>2, <1>3, <1>4, TaskFacts DEF Task
<1>6. TaskSound(t)'
    <2>1. FileOf(t.point, t.temporary)'
        BY <1>2, <1>3, <1>5 DEF FileOf
    <2> QED
        BY <1>3, <1>5, <2>1 DEF TaskSound
<1> QED
    BY <1>2, <1>5, <1>6, TaskFacts, JobKeeps

\* The one step of a run that changes a snapshot.
LEMMA PutSnapshotKeeps ==
    ASSUME RecoveryInv, NEW j \in Job, PutSnapshot(j)
    PROVE  RecoveryInv'
<1>1. PICK p, x : p = task[j].point /\ x = task[j].temporary
    OBVIOUS
<1>2. /\ task[j].stage = "put"
      /\ snapshot' = [snapshot EXCEPT ![p] = x]
      /\ task' = [task EXCEPT ![j].stage = "digest"]
      /\ UNCHANGED <<commits, created, manifest, output>>
    BY <1>1 DEF PutSnapshot
<1>3. p \in Point /\ FileOf(p, x) /\ x.state # "altered" /\ x \in File
    BY <1>1, <1>2, TaskFacts DEF TaskSound, FileOf, File
<1>4. PICK t : t = [task[j] EXCEPT !.stage = "digest"]
    OBVIOUS
<1>5. /\ t \in Task /\ t.stage = "digest" /\ t.point = p
      /\ task' = [task EXCEPT ![j] = t]
    BY <1>1, <1>2, <1>4, TaskFacts DEF Task
<1>6. /\ \A q \in Point : snapshot'[q] = IF q = p THEN x ELSE snapshot[q]
      /\ \A i \in Job : task'[i] = IF i = j THEN t ELSE task[i]
    BY <1>2, <1>5, TaskFacts DEF RecoveryTypes
<1>7. RecoveryTypes'
    <2>1. snapshot' \in [Point -> File] /\ task' \in [Job -> Task]
        BY <1>2, <1>3, <1>5, TaskFacts DEF RecoveryTypes
    <2> QED
        BY <1>2, <2>1, TaskFacts DEF RecoveryTypes
<1>8. \A q \in Point : Compared(q) => Compared(q)'
    BY <1>3, <1>6 DEF Compared
<1>9. ASSUME NEW i \in Job
      PROVE  \/ /\ task'[i] = task[i]
                /\ task[i].stage \in {"digest", "fetch"} => Compared(task[i].point)'
             \/ TaskSound(task[i])'
    <2>1. CASE i = j
        <3>1. TaskSound(t)'
            BY <1>3, <1>5, <1>6 DEF TaskSound, Compared
        <3> QED
            BY <1>6, <2>1, <3>1
    <2>2. CASE i # j
        <3>1. task'[i] = task[i] /\ TaskSound(task[i])
            BY <1>6, <2>2 DEF RecoveryInv
        <3>2. ASSUME NEW q, q = task[i].point, task[i].stage \in {"digest", "fetch"}
              PROVE  Compared(q)'
            BY <1>8, <3>1, <3>2 DEF TaskSound
        <3> QED
            BY <3>1, <3>2
    <2> QED
        BY <2>1, <2>2
<1>10. commits <= commits'
    BY <1>2, TaskFacts, FileFacts
<1>11. \A q \in Point : \/ snapshot'[q] = snapshot[q] \/ snapshot'[q] = NoFile
                        \/ FileOf(q, snapshot'[q])
    BY <1>3, <1>6
<1> QED
    BY <1>2, <1>7, <1>9, <1>10, <1>11, RecoveryKeeps

LEMMA TakeDigestKeeps ==
    ASSUME RecoveryInv, NEW j \in Job, TakeDigest(j)
    PROVE  RecoveryInv'
<1>1. PICK p, x : p = task[j].point /\ x = snapshot[p]
    OBVIOUS
<1>2. /\ task[j].stage = "digest" /\ x # NoFile
      /\ task' = [task EXCEPT ![j].stage = "publish", ![j].temporary = x]
      /\ UNCHANGED <<commits, created, snapshot, manifest, output>>
    BY <1>1 DEF TakeDigest
<1>3. p \in Point /\ FileOf(p, x) /\ x.state # "altered" /\ x \in File
    <2>1. p \in Point /\ Compared(p)
        BY <1>1, <1>2, TaskFacts DEF TaskSound
    <2>2. PointSound(p) /\ snapshot \in [Point -> File]
        BY <2>1, TaskFacts DEF RecoveryInv
    <2> QED
        BY <1>1, <1>2, <2>1, <2>2 DEF Compared, PointSound
<1>4. PICK t : t = [task[j] EXCEPT !.stage = "publish", !.temporary = x]
    OBVIOUS
<1>5. /\ t \in Task /\ t.stage = "publish" /\ t.point = p /\ t.temporary = x
      /\ task' = [task EXCEPT ![j] = t]
    BY <1>1, <1>2, <1>3, <1>4, TaskFacts DEF Task
<1>6. TaskSound(t)'
    <2>1. FileOf(t.point, t.temporary)'
        BY <1>2, <1>3, <1>5 DEF FileOf
    <2> QED
        BY <1>3, <1>5, <2>1 DEF TaskSound
<1> QED
    BY <1>2, <1>5, <1>6, TaskFacts, JobKeeps

LEMMA PutManifestKeeps ==
    ASSUME RecoveryInv, NEW j \in Job, PutManifest(j)
    PROVE  RecoveryInv'
<1>1. PICK p, x : p = task[j].point /\ x = task[j].temporary
    OBVIOUS
<1>2. /\ task[j].stage = "publish"
      /\ manifest' = [manifest EXCEPT ![p] = x]
      /\ task' = [task EXCEPT ![j] = NoTask]
      /\ UNCHANGED <<commits, created, snapshot, output>>
    BY <1>1 DEF PutManifest
<1>3. p \in Point /\ FileOf(p, x) /\ x.state # "altered" /\ x \in File
    BY <1>1, <1>2, TaskFacts DEF TaskSound, FileOf, File
<1>4. /\ manifest' \in [Point -> File]
      /\ \A q \in Point : manifest'[q] = IF q = p THEN x ELSE manifest[q]
    BY <1>2, <1>3, TaskFacts
<1>5. TaskSound(NoTask)'
    BY DEF TaskSound, NoTask
<1>6. \A q \in Point : \/ manifest'[q] = manifest[q]
                       \/ FileOf(q, manifest'[q]) /\ manifest'[q].state # "altered"
    BY <1>3, <1>4
<1> QED
    BY <1>2, <1>4, <1>5, <1>6, TaskFacts, JobKeeps

\* A point that verifies was not altered since its digest was taken.
LEMMA BeginRestoreKeeps ==
    ASSUME RecoveryInv, NEW j \in Job, NEW target \in 0..commits, NEW overwrite \in BOOLEAN,
           BeginRestore(j, target, overwrite)
    PROVE  RecoveryInv'
<1>1. PICK eligible : eligible = {p \in Listed : created[p] <= target}
    OBVIOUS
<1>2. PICK p \in eligible :
          /\ \A q \in eligible : created[q] <= created[p]
          /\ task' = [task EXCEPT ![j] =
               [NoTask EXCEPT !.stage = "fetch", !.point = p, !.target = target,
                              !.eligible = eligible]]
    BY <1>1 DEF BeginRestore
<1>3. /\ \A q \in Listed : Intact(q)
      /\ UNCHANGED <<commits, created, snapshot, manifest, output>>
    BY DEF BeginRestore
<1>4. target \in Nat /\ eligible \in SUBSET Point
    BY <1>1, TaskFacts, FileFacts DEF Listed
<1>5. \A q \in eligible : /\ q \in Point /\ created[q] # NoFile /\ created[q] <= target
                          /\ Compared(q)
    BY <1>1, <1>3 DEF Listed, Intact, Compared, RecoveryInv, PointSound, FileOf
<1>6. PICK t : t = [NoTask EXCEPT !.stage = "fetch", !.point = p, !.target = target,
                                  !.eligible = eligible]
    OBVIOUS
<1>7. /\ t \in Task /\ t.stage = "fetch" /\ t.point = p /\ t.target = target
      /\ t.eligible = eligible /\ task' = [task EXCEPT ![j] = t]
    BY <1>2, <1>4, <1>5, <1>6, TaskFacts DEF Task, NoTask
<1>8. TaskSound(t)'
    <2>1. BestOf(p, target, eligible)'
        BY <1>2, <1>3, <1>5 DEF BestOf
    <2>2. Compared(p)'
        BY <1>3, <1>5 DEF Compared
    <2> QED
        BY <1>5, <1>7, <2>1, <2>2 DEF TaskSound
<1> QED
    BY <1>3, <1>7, <1>8, TaskFacts, JobKeeps

LEMMA FetchKeeps ==
    ASSUME RecoveryInv, NEW j \in Job, Fetch(j)
    PROVE  RecoveryInv'
<1>1. PICK p, x : p = task[j].point /\ x = snapshot[p]
    OBVIOUS
<1>2. /\ task[j].stage = "fetch" /\ x # NoFile /\ x.state # "malformed"
      /\ task' = [task EXCEPT ![j].stage = "replace", ![j].temporary = x]
      /\ UNCHANGED <<commits, created, snapshot, manifest, output>>
    BY <1>1 DEF Fetch
<1>3. /\ p \in Point /\ FileOf(p, x) /\ x \in File /\ x.state \in {"whole", "unseen"}
      /\ BestOf(p, task[j].target, task[j].eligible)
    <2>1. p \in Point /\ Compared(p) /\ BestOf(p, task[j].target, task[j].eligible)
        BY <1>1, <1>2, TaskFacts DEF TaskSound
    <2>2. PointSound(p) /\ snapshot \in [Point -> File]
        BY <2>1, TaskFacts DEF RecoveryInv
    <2>3. FileOf(p, x) /\ x \in File /\ x.state # "altered"
        BY <1>1, <1>2, <2>1, <2>2 DEF Compared, PointSound
    <2>4. x.state \in {"whole", "altered", "unseen", "malformed"}
        BY <2>3 DEF FileOf, Content
    <2> QED
        BY <1>2, <2>1, <2>3, <2>4
<1>4. PICK t : t = [task[j] EXCEPT !.stage = "replace", !.temporary = x]
    OBVIOUS
<1>5. /\ t \in Task /\ t.stage = "replace" /\ t.point = p /\ t.temporary = x
      /\ t.target = task[j].target /\ t.eligible = task[j].eligible
      /\ task' = [task EXCEPT ![j] = t]
    BY <1>1, <1>2, <1>3, <1>4, TaskFacts DEF Task
<1>6. TaskSound(t)'
    <2>1. FileOf(t.point, t.temporary)' /\ BestOf(t.point, t.target, t.eligible)'
        BY <1>2, <1>3, <1>5 DEF FileOf, BestOf
    <2> QED
        BY <1>3, <1>5, <2>1 DEF TaskSound
<1> QED
    BY <1>2, <1>5, <1>6, TaskFacts, JobKeeps

LEMMA ReplaceKeeps ==
    ASSUME RecoveryInv, NEW j \in Job, Replace(j)
    PROVE  RecoveryInv'
<1>1. PICK t : t = task[j]
    OBVIOUS
<1>2. /\ t.stage = "replace"
      /\ output' = [content |-> t.temporary, point |-> t.point,
                    target |-> t.target, eligible |-> t.eligible]
      /\ task' = [task EXCEPT ![j] = NoTask]
      /\ UNCHANGED <<commits, created, snapshot, manifest>>
    BY <1>1 DEF Replace
<1>3. /\ BestOf(t.point, t.target, t.eligible) /\ t.point \in Point
      /\ FileOf(t.point, t.temporary) /\ t.temporary.state \in {"whole", "unseen"}
      /\ t.temporary \in Content /\ t.target \in Nat /\ t.eligible \in SUBSET Point
    BY <1>1, <1>2, TaskFacts DEF TaskSound, FileOf
<1>4. output' \in Restored \cup {NoFile}
    BY <1>2, <1>3 DEF Restored
<1>5. OutputSound'
    <2>1. FileOf(t.point, t.temporary)' /\ BestOf(t.point, t.target, t.eligible)'
        BY <1>2, <1>3 DEF FileOf, BestOf
    <2> QED
        BY <1>2, <1>3, <2>1 DEF OutputSound
<1>6. TaskSound(NoTask)'
    BY DEF TaskSound, NoTask
<1> QED
    BY <1>2, <1>4, <1>5, <1>6, TaskFacts, JobKeeps

-----------------------------------------------------------------------------
LEMMA RecoveryStep == RecoveryInv /\ [RecoveryNext]_recovery => RecoveryInv'
<1> SUFFICES ASSUME RecoveryInv, [RecoveryNext]_recovery PROVE RecoveryInv'
    OBVIOUS
<1>1. CASE UNCHANGED recovery
    <2>1. UNCHANGED <<commits, created, snapshot, manifest, task, output>>
        BY <1>1 DEF recovery
    <2> QED
        BY <2>1
           DEF RecoveryInv, RecoveryTypes, PointSound, TaskSound, OutputSound, FileOf, BestOf, Compared
<1> QED
    BY <1>1, CommitKeeps, DamageKeeps, BreakOffKeeps, BeginBackupKeeps, CopyKeeps,
       PutSnapshotKeeps, TakeDigestKeeps, PutManifestKeeps, BeginRestoreKeeps, FetchKeeps,
       ReplaceKeeps
    DEF RecoveryNext

\* Whatever backups and restores overlap, fail or are killed, and whatever
\* snapshots go bad, a restored database is whole or was damaged where nothing
\* compares, of a point from before the time asked for, and holds all that was
\* there by each of the points it was chosen from (disaster_recovery_backup.py).
THEOREM RestoresAreSound == RecoverySpec => []RestoreSound
<1> QED
    BY RestoredIsSound, InitRecovery, RecoveryStep, PTL DEF RecoverySpec

\* Every file, time and run of the backups has its type.
THEOREM RecoveryTypeCorrect == RecoverySpec => []RecoveryTypeOK
<1>1. ASSUME RecoveryInv PROVE RecoveryTypeOK
    <2>1. RecoveryTypes /\ \A j \in Job : TaskSound(task[j])
        BY <1>1 DEF RecoveryInv
    <2>2. \A j \in Job : task[j].temporary \in File
        BY <2>1 DEF RecoveryTypes, Task
    <2> QED
        BY <2>1, <2>2 DEF RecoveryTypes, RecoveryTypeOK, File, TaskSound
<1> QED
    BY <1>1, InitRecovery, RecoveryStep, PTL DEF RecoverySpec

-----------------------------------------------------------------------------
(* MCServices: the parts share no variable, so whatever part a behaviour   *)
(* moves, it is one of every part, and what is proved of a part from its   *)
(* own specification holds beside the others.                              *)

Side == <<part, login, policy, audit, cel, redmine, runtime, merkle, trust, recovery>>

\* A behaviour of the services is one of each part that can rest as it began.
\* (CelEvaluator cannot: without a question it has no expression.)
LEMMA EachPartRuns ==
    Spec => /\ LoginSpec /\ PolicySpec /\ AuditSpec /\ RedmineSpec
            /\ RuntimeSpec /\ MerkleSpec /\ TrustSpec /\ RecoverySpec
<1>1. Init => /\ LoginInit /\ PolicyInit /\ AuditInit /\ RedmineInit
              /\ RuntimeInit /\ MerkleInit /\ TrustInit /\ RecoveryInit
    BY DEF Init
<1>2. [Next]_Side => [LoginNext]_login
    BY DEF Next, Side
<1>3. [Next]_Side => [PolicyNext]_policy
    BY DEF Next, Side
<1>4. [Next]_Side => [AuditNext]_audit
    BY DEF Next, Side
<1>5. [Next]_Side => [RedmineNext]_redmine
    BY DEF Next, Side
<1>6. [Next]_Side => [RuntimeNext]_runtime
    BY DEF Next, Side
<1>7. [Next]_Side => [MerkleNext]_merkle
    BY DEF Next, Side
<1>8. [Next]_Side => [TrustNext]_trust
    BY DEF Next, Side
<1>9. [Next]_Side => [RecoveryNext]_recovery
    BY DEF Next, Side
<1> QED
    BY <1>1, <1>2, <1>3, <1>4, <1>5, <1>6, <1>7, <1>8, <1>9, PTL
    DEF Spec, Side, LoginSpec, PolicySpec, AuditSpec, RedmineSpec,
        RuntimeSpec, MerkleSpec, TrustSpec, RecoverySpec

(* The state of every service keeps its type whichever of them a behaviour *)
(* moves: the requests, rows, logs, issues, servers, lists, verdicts and   *)
(* backups of Login, PolicyGate, AuditTrail, RedmineTools, DaemonRuntime,  *)
(* MerkleSync, Trust and Recovery.                                         *)
THEOREM ServicesTypeCorrect == Spec => []ServicesTypeOK
<1> QED
    BY EachPartRuns, LoginTypeCorrect, PolicyTypeCorrect, AuditTypeCorrect,
       BoardTypeCorrect, RuntimeTypeCorrect, MerkleTypeCorrect,
       TrustTypeCorrect, RecoveryTypeCorrect, PTL DEF ServicesTypeOK

\* CelEvaluator without a question has not answered.
LEMMA AllowsBeside == Spec => []AllowsOnlyMeaning
<1> DEFINE Beside == CelInv \/ (part # "cel" /\ allowed = "none")
<1>1. Init => Beside
    BY DEF Init, CelInit, CelIdle, CelInv
<1>2. Beside /\ [Next]_Side => Beside'
    <2> SUFFICES ASSUME Beside, [Next]_Side PROVE Beside'
        OBVIOUS
    <2>1. part' = part
        BY DEF Next, Side
    <2>2. [CelNext]_cel /\ (part # "cel" => UNCHANGED cel)
        BY DEF Next, Side
    <2>3. CASE CelInv
        BY <2>2, <2>3, CelStep
    <2>4. CASE part # "cel" /\ allowed = "none"
        BY <2>1, <2>2, <2>4 DEF cel
    <2> QED
        BY <2>3, <2>4
<1>3. Beside => AllowsOnlyMeaning
    <2>1. CelInv => AllowsOnlyMeaning
        BY CelInvMeans
    <2> QED
        BY <2>1 DEF AllowsOnlyMeaning
<1> QED
    BY <1>1, <1>2, <1>3, PTL DEF Spec, Side

(* What the services promise holds of all of them together: sessions stay  *)
(* with their makers, appends keep their rules, one trail verifies, a yes  *)
(* is meant, the board keeps its order, no server is forgotten, roots tell *)
(* all, who is believed deserves it, and what is restored was backed up.   *)
THEOREM ServicesKeepAll ==
    Spec => [](/\ LoginsHold /\ AppendsUnderRules /\ OneTrailVerifies
               /\ AllowsOnlyMeaning /\ BoardKept /\ NoneForgotten
               /\ RootsTellAll /\ TrustSound /\ RestoreSound)
<1> QED
    BY EachPartRuns, LoginsStayHeld, AppendsAreUnderRules, OneTrailAlwaysVerifies,
       AllowsBeside, BoardStaysKept, NoneIsForgotten, RootsAlwaysTellAll,
       BelievedDeserves, RestoresAreSound, PTL
=============================================================================
