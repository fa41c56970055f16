---------------------------- MODULE GatePromise -----------------------------
(***************************************************************************)
(* What the Gate promises about a protected action, whatever the threads,  *)
(* crashes, sessions and rights behind it do: it runs at most once, it is  *)
(* open again only if nothing happened, and what is told about it is its   *)
(* recorded outcome, which is final.  GateKernel implements this.          *)
(***************************************************************************)
CONSTANT Action

VARIABLES
  phase,   \* [Action -> Phase]
  done,    \* [Action -> a set]: the executions that took effect
  told     \* SUBSET (Action \X {"PASS", "E_PARTIAL"})

vars == <<phase, done, told>>

Phase == {"absent", "pending", "executing", "executed", "failed", "unknown",
          "cancelled"}

Init == /\ phase = [a \in Action |-> "absent"]
        /\ done = [a \in Action |-> {}]
        /\ told = {}

Move(a, from, to) == /\ phase[a] \in from
                     /\ phase' = [phase EXCEPT ![a] = to]
                     /\ UNCHANGED <<done, told>>

Open(a)     == Move(a, {"absent"}, "pending")
Withdraw(a) == Move(a, {"pending"}, "cancelled")
Start(a)    == Move(a, {"pending"}, "executing")
\* Only an execution without effect is undone, ...
Undo(a)     == done[a] = {} /\ Move(a, {"executing"}, "pending")
\* ... only one with an effect is a success, ...
Succeed(a)  == done[a] # {} /\ Move(a, {"executing"}, "executed")
\* ... and these may be either.
Doubt(a)    == \E to \in {"failed", "unknown"} : Move(a, {"executing"}, to)

Happen(a) == /\ phase[a] = "executing" /\ done[a] = {}
             /\ \E e \in done'[a] : done' = [done EXCEPT ![a] = {e}]
             /\ UNCHANGED <<phase, told>>

Tell(a) == /\ \/ phase[a] = "executed" /\ told' = told \cup {<<a, "PASS">>}
              \/ /\ phase[a] \in {"failed", "unknown"}
                 /\ told' = told \cup {<<a, "E_PARTIAL">>}
           /\ UNCHANGED <<phase, done>>

Next == \E a \in Action :
          \/ Open(a) \/ Withdraw(a) \/ Start(a) \/ Undo(a)
          \/ Succeed(a) \/ Doubt(a) \/ Happen(a) \/ Tell(a)

Spec == Init /\ [][Next]_vars
=============================================================================
