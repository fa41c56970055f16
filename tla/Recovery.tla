------------------------------ MODULE Recovery ------------------------------
(***************************************************************************)
(* Backups and restores of the database (scripts/disaster_recovery_backup  *)
(* .py): any number of runs of the script, each a process that may fail or *)
(* be killed at every step, beside the writers of the live database.       *)
(*                                                                         *)
(* A state of the database is the number of commits it holds, and a moment *)
(* is named by the commits made so far, so state v is the database as of   *)
(* moment v.  SQLite's online backup starts over when the source changes:  *)
(* what it returns is one state.  Temporary files have names that nothing  *)
(* looks for and are left out once their run is over, as are paths, modes  *)
(* and links; an output that is the live database is refused.  verify      *)
(* changes nothing.                                                        *)
(***************************************************************************)
EXTENDS Naturals, FiniteSets

CONSTANTS
    Job,        \* runs of the script that may overlap
    Point,      \* bound: recovery points; their ids are never drawn twice
    NoFile,     \* no such file; not begun
    MaxCommits  \* bound

Content == [version : 0..MaxCommits,
            state : {"whole", "altered", "unseen", "malformed"}]

ASSUME RecoveryAssumption == MaxCommits \in Nat /\ NoFile \notin Content \cup Nat

VARIABLES
    commits,    \* of the live database
    created,    \* created_at of each recovery point begun
    snapshot,   \* its snapshot file
    manifest,   \* what the digest in its manifest was taken of
    task,       \* what each run does
    output      \* the restored database

recovery == <<commits, created, snapshot, manifest, task, output>>

NoTask == [stage |-> "idle", point |-> NoFile, temporary |-> NoFile,
           target |-> 0, eligible |-> {}]

RecoveryTypeOK ==
    /\ commits \in 0..MaxCommits
    /\ created \in [Point -> 0..commits \cup {NoFile}]
    /\ snapshot \in [Point -> Content \cup {NoFile}]
    /\ manifest \in [Point -> Content \cup {NoFile}]
    /\ \A j \in Job : /\ task[j].stage # "idle" => task[j].point \in Point
                      /\ task[j].temporary \in Content \cup {NoFile}

RecoveryInit ==
    /\ commits = 0
    /\ created = [p \in Point |-> NoFile]
    /\ snapshot = [p \in Point |-> NoFile] /\ manifest = [p \in Point |-> NoFile]
    /\ task = [j \in Job |-> NoTask]
    /\ output = NoFile

-----------------------------------------------------------------------------
\* The services, outside this script.
WriteCommit ==
    /\ commits < MaxCommits /\ commits' = commits + 1
    /\ UNCHANGED <<created, snapshot, manifest, task, output>>

\* External: a snapshot goes bad, in a way that SQLite notices or only the
\* digest shows, or is deleted.  "unseen" is what nobody can notice: it happens
\* before the digest is taken, or after a restore compared it.
Damage(p) ==
    /\ snapshot[p] # NoFile
    /\ \/ snapshot' = [snapshot EXCEPT ![p] = NoFile]
       \/ /\ snapshot[p].state = "whole"
          /\ \E state \in {"malformed",
                           IF \E j \in Job : task[j].stage \in {"digest", "fetch"}
                                             /\ task[j].point = p
                           THEN "unseen" ELSE "altered"} :
               snapshot' = [snapshot EXCEPT ![p].state = state]
    /\ UNCHANGED <<commits, created, manifest, task, output>>

\* An exception, or the end of the process.
BreakOff(j) ==
    /\ task[j].stage # "idle"
    /\ task' = [task EXCEPT ![j] = NoTask]
    /\ UNCHANGED <<commits, created, snapshot, manifest, output>>

-----------------------------------------------------------------------------
\* create_recovery_point: the time comes first ...
BeginBackup(j, p) ==
    /\ task[j].stage = "idle" /\ created[p] = NoFile
    /\ created' = [created EXCEPT ![p] = commits]
    /\ task' = [task EXCEPT ![j].stage = "copy", ![j].point = p]
    /\ UNCHANGED <<commits, snapshot, manifest, output>>

\* ... then the online backup, to a temporary file ...
CopyLive(j) ==
    /\ task[j].stage = "copy"
    /\ task' = [task EXCEPT ![j].stage = "put",
                            ![j].temporary = [version |-> commits, state |-> "whole"]]
    /\ UNCHANGED <<commits, created, snapshot, manifest, output>>

\* ... which is checked and renamed ...
PutSnapshot(j) ==
    /\ task[j].stage = "put"
    /\ snapshot' = [snapshot EXCEPT ![task[j].point] = task[j].temporary]
    /\ task' = [task EXCEPT ![j].stage = "digest"]
    /\ UNCHANGED <<commits, created, manifest, output>>

\* ... before its digest is taken ...
TakeDigest(j) ==
    /\ task[j].stage = "digest" /\ snapshot[task[j].point] # NoFile
    /\ task' = [task EXCEPT ![j].stage = "publish",
                            ![j].temporary = snapshot[task[j].point]]
    /\ UNCHANGED <<commits, created, snapshot, manifest, output>>

\* MUTANT: the time is that of the manifest.
StampLate(j) ==
    /\ task[j].stage = "publish"
    /\ manifest' = [manifest EXCEPT ![task[j].point] = task[j].temporary]
    /\ created' = [created EXCEPT ![task[j].point] = commits]
    /\ task' = [task EXCEPT ![j] = NoTask]
    /\ UNCHANGED <<commits, snapshot, output>>

\* ... and the manifest is renamed: from here on there is a recovery point.
PutManifest(j) ==
    /\ task[j].stage = "publish"
    /\ manifest' = [manifest EXCEPT ![task[j].point] = task[j].temporary]
    /\ task' = [task EXCEPT ![j] = NoTask]
    /\ UNCHANGED <<commits, created, snapshot, output>>

-----------------------------------------------------------------------------
\* recovery_points: one that does not verify fails the whole list.
Listed == {p \in Point : manifest[p] # NoFile}
Intact(p) == snapshot[p] = manifest[p] /\ snapshot[p].state # "malformed"

\* restore_at: the last one that is not later than the target, any of several;
\* the output must not be there, or may be replaced.
BeginRestore(j, target, overwrite) ==
    LET eligible == {p \in Listed : created[p] <= target}
    IN  /\ task[j].stage = "idle"
        /\ \A p \in Listed : Intact(p)
        /\ output = NoFile \/ overwrite
        /\ \E p \in eligible :
             /\ \A q \in eligible : created[q] <= created[p]
             /\ task' = [task EXCEPT ![j] =
                  [NoTask EXCEPT !.stage = "fetch", !.point = p, !.target = target,
                                 !.eligible = eligible]]
        /\ UNCHANGED <<commits, created, snapshot, manifest, output>>

\* The snapshot is copied to a temporary file, and SQLite checks the copy.
Fetch(j) ==
    LET p == task[j].point
    IN  /\ task[j].stage = "fetch"
        /\ snapshot[p] # NoFile /\ snapshot[p].state # "malformed"
        /\ task' = [task EXCEPT ![j].stage = "replace", ![j].temporary = snapshot[p]]
        /\ UNCHANGED <<commits, created, snapshot, manifest, output>>

\* os.replace, also of an output that was not there when the restore began.
Replace(j) ==
    /\ task[j].stage = "replace"
    /\ output' = [content |-> task[j].temporary, point |-> task[j].point,
                  target |-> task[j].target, eligible |-> task[j].eligible]
    /\ task' = [task EXCEPT ![j] = NoTask]
    /\ UNCHANGED <<commits, created, snapshot, manifest>>

RecoveryNext ==
    \/ WriteCommit
    \/ \E p \in Point : Damage(p)
    \/ \E j \in Job :
         \/ BreakOff(j)
         \/ \E p \in Point : BeginBackup(j, p)
         \/ CopyLive(j) \/ PutSnapshot(j) \/ TakeDigest(j) \/ PutManifest(j)
         \/ \E target \in 0..commits, overwrite \in BOOLEAN :
              BeginRestore(j, target, overwrite)
         \/ Fetch(j) \/ Replace(j)

RecoverySpec == RecoveryInit /\ [][RecoveryNext]_recovery

-----------------------------------------------------------------------------
(* A restored database is one state that the live one was in, of a point   *)
(* that was begun by the time asked for, and holds every commit made until *)
(* any of the points that were complete then and begun by that time was    *)
(* begun; whichever backups and restores overlap, fail or are killed, and  *)
(* whichever snapshots go bad, unless that happens where nothing compares  *)
(* the digest any more, or yet.  (It may hold later commits than the time  *)
(* asked for: a backup copies the database after it took its time.)        *)
RestoreSound ==
    output # NoFile =>
        /\ output.content.state \in {"whole", "unseen"}
        /\ output.content.version <= commits
        /\ created[output.point] <= output.target
        /\ \A q \in output.eligible : created[q] <= output.content.version
=============================================================================
