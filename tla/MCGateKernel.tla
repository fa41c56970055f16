---------------------------- MODULE MCGateKernel ----------------------------
(* Instances of GateKernel for TLC. *)
EXTENDS GateKernel, TLC

CONSTANTS t1, t2, a1, s1, s2, alice, bob, mail, halt, form

Threads == Permutations({t1, t2})

\* Two sessions of one user, or one session each of two users.
OneUser  == [s \in Session |-> alice]
TwoUsers == [s \in Session |-> IF s = s1 THEN alice ELSE bob]

\* mail: a conversation action that lands in the outbox; halt: a power
\* request; form: a type of REGISTRY that has no executor.
ActingIn == [c \in Content |-> IF c = halt THEN {} ELSE Identity]
Kinds    == [c \in Content |-> CASE c = mail -> "outbox"
                                 [] c = halt -> "power"
                                 [] c = form -> "missing"]
Consents == [c \in Content |-> c # form]
Levels   == [c \in Content |-> IF c = halt THEN "strong" ELSE "weak"]

=============================================================================
