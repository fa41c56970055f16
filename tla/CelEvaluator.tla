---------------------------- MODULE CelEvaluator ----------------------------
(***************************************************************************)
(* The policy expressions of app/core/cel_evaluator.py: an evaluator over  *)
(* Python's syntax trees that denies whatever raises.  The trees come from *)
(* compile; here they are records, each with the trees of its operands.    *)
(*                                                                         *)
(* A value is a record [type, v].  Texts are told apart by what            *)
(* _parse_temporal makes of them; days and times count in half days, so    *)
(* that a day is its midnight, and a time without a zone is one in UTC.    *)
(***************************************************************************)
EXTENDS Integers, FiniteSets

CONSTANTS
    Path,       \* what an expression can name: candidate.payload.x, ...
    Scalar,     \* values of paths and literals
    Expr,       \* the trees, with those of all their operands
    Height      \* of each tree

Value(t, n) == [type |-> t, v |-> n]
Error == Value("error", 0)
Truth(b) == Value("bool", IF b THEN 1 ELSE 0)
Number == {"bool", "int"}
Text == {"text", "dateText", "timeText"}

Operands(e) ==
    CASE e.op \in {"value", "path"} -> {}
      [] e.op \in {"has", "not"} -> {e.of}
      [] e.op = "if" -> {e.test, e.l, e.r}
      [] e.op = "chain" -> {e.l, e.m, e.r}
      [] OTHER -> {e.l, e.r}

ASSUME CelAssumption ==
    /\ Error \notin Scalar
    /\ IsFiniteSet(Expr)
    /\ \A e \in Expr : /\ Operands(e) \subseteq Expr /\ Height[e] \in Nat
                       /\ \A x \in Operands(e) : Height[x] < Height[e]

VARIABLES
    expr,       \* the expression of a constraint
    context,    \* what each path leads to; Error when there is no such key
    allowed,    \* the answer of CELEvaluator.evaluate, or "none" yet
    flag        \* last_error_flag

cel == <<expr, context, allowed, flag>>

-----------------------------------------------------------------------------
ParsedTemporal(x) ==
    CASE x.type = "dateText" -> Value("date", x.v)
      [] x.type = "timeText" -> Value("time", x.v)
      [] OTHER -> x

\* A date next to a datetime is that day's midnight.
AtMidnight(l, r) ==
    IF {l.type, r.type} = {"date", "time"}
    THEN <<Value("time", l.v), Value("time", r.v)>> ELSE <<l, r>>

\* _normalise_pair.  Two texts leave by a return of their own.
NormalisePair(l, r) ==
    LET pl == ParsedTemporal(l)
        pr == ParsedTemporal(r)
        Temporal == {"date", "time"}
    IN  IF l.type \in Text /\ r.type \in Text
        THEN IF pl.type \in Temporal /\ pr.type \in Temporal THEN <<pl, pr>>
                                                             ELSE <<l, r>>
        ELSE AtMidnight(IF r.type \in Temporal THEN pl ELSE l,
                        IF l.type \in Temporal THEN pr ELSE r)

\* Python's order: numbers, texts, dates and datetimes among themselves only.
Comparable(l, r) ==
    \/ {l.type, r.type} \subseteq Number
    \/ {l.type, r.type} \subseteq Text
    \/ l.type = r.type
Same(l, r) ==
    Comparable(l, r) /\ l.v = r.v /\ (l.type \in Text => l.type = r.type)
Less(l, r) ==
    IF {l.type, r.type} \subseteq Text /\ l.type # r.type
    THEN r.type = "text"            \* digits come before letters
    ELSE l.v < r.v

\* One comparison: booleans and integers never equal one another.
Compare(op, left, right) ==
    LET pair == NormalisePair(left, right)
        l == pair[1]
        r == pair[2]
        same == Same(l, r) /\ ~({l.type, r.type} = Number)
    IN  CASE op = "==" -> Truth(same)
          [] op = "!=" -> Truth(~same)
          [] op = "<" /\ Comparable(l, r) -> Truth(Less(l, r))
          [] op = "<=" /\ Comparable(l, r) -> Truth(~Less(r, l))
          [] OTHER -> Error

\* bool(): every other value that is generated here is true.
Truthy(x) == x.type \in Number => x.v # 0

-----------------------------------------------------------------------------
\* MUTANT: an operand of && or || that raises counts as false.
Forgiving(x) == IF x = Error THEN Truth(FALSE) ELSE x

\* An exception in an operand leaves every enclosing node.
Operand(x) == x

\* eval_BoolOp, for two operands: the second only when the first lets it.
Junction(op, left, right) ==
    LET l == Operand(left)
        r == Operand(right)
    IN  IF l = Error THEN Error
        ELSE IF Truthy(l) = (op = "or") THEN Truth(op = "or")
        ELSE IF r = Error THEN Error ELSE Truth(Truthy(r))

\* eval_Compare for l o1 m o2 r: the middle is not normalised twice.
Chain(o1, o2, l, m, r) ==
    IF l = Error \/ m = Error THEN Error
    ELSE LET first == Compare(o1, l, m)
         IN  IF first = Error \/ ~Truthy(first) THEN first
             ELSE IF r = Error THEN Error ELSE Compare(o2, m, r)

\* eval_BinOp on numbers; a modulus by zero and a mixture with a text raise.
Modulo(l, r) ==
    IF {l.type, r.type} \subseteq Number /\ r.v # 0 THEN Value("int", l.v % r.v)
                                                    ELSE Error

Negation(x) == IF x = Error THEN Error ELSE Truth(~Truthy(x))

Comparison(op, l, r) == IF Error \in {l, r} THEN Error ELSE Compare(op, l, r)

Conditional(test, l, r) ==
    IF test = Error THEN Error ELSE IF Truthy(test) THEN l ELSE r

\* The methods of _Evaluator for the operators, given what the operands yield,
\* with an exception as the value Error.
Method(names, yields, e) ==
    CASE e.op = "value" -> e.of
      [] e.op = "path" -> names[e.of]
      [] e.op = "has" -> Truth(yields[e.of] # Error)
      [] e.op = "not" -> Negation(yields[e.of])
      [] e.op \in {"and", "or"} -> Junction(e.op, yields[e.l], yields[e.r])
      [] e.op = "%" -> Modulo(yields[e.l], yields[e.r])
      [] e.op = "if" -> Conditional(yields[e.test], yields[e.l], yields[e.r])
      [] e.op = "chain" -> Chain(e.o1, e.o2, yields[e.l], yields[e.m], yields[e.r])
      [] OTHER -> Comparison(e.op, yields[e.l], yields[e.r])

\* _Evaluator, made for a context.
Evaluator(names) ==
    LET yields[e \in Expr] == Method(names, yields, e)
    IN  yields

Evaluate(e) == Evaluator(context)[e]

\* CELEvaluator.evaluate: every exception is a no.
AnswerExpression ==
    /\ allowed = "none"
    /\ LET x == Evaluate(expr)
       IN  /\ allowed' = IF x # Error /\ Truthy(x) THEN "yes" ELSE "no"
           /\ flag' = IF x = Error THEN "cel_rejected" ELSE "none"
    /\ UNCHANGED <<expr, context>>

-----------------------------------------------------------------------------
CelInit ==
    /\ context \in [Path -> Scalar \cup {Error}]
    /\ expr \in Expr
    /\ allowed = "none" /\ flag = "none"

CelNext == AnswerExpression

CelSpec == CelInit /\ [][CelNext]_cel

-----------------------------------------------------------------------------
\* The meaning of an expression when every operand may be looked at first: a
\* connective whose value one operand decides has it even if the other one
\* has none (the meaning CEL gives to && and ||).
Both(l, r) ==
    IF \E x \in {l, r} : x # Error /\ ~Truthy(x) THEN Truth(FALSE)
    ELSE IF Error \in {l, r} THEN Error ELSE Truth(TRUE)

Sense(evaluates, means, e) ==
    CASE e.op = "not" -> Negation(means[e.of])
      [] e.op = "and" -> Both(means[e.l], means[e.r])
      [] e.op = "or" -> Negation(Both(Negation(means[e.l]), Negation(means[e.r])))
      [] e.op = "chain" -> Both(Comparison(e.o1, means[e.l], means[e.m]),
                                Comparison(e.o2, means[e.m], means[e.r]))
      [] OTHER -> evaluates[e]

Senses(evaluates) ==
    LET means[e \in Expr] == Sense(evaluates, means, e)
    IN  means

Meaning(e) == Senses(Evaluator(context))[e]

(* A policy allows only what its expression means: whatever is missing or  *)
(* raises, under however many negations, never turns into a yes, and a no  *)
(* without the error flag is what the expression means, too.               *)
AllowsOnlyMeaning ==
    /\ allowed = "yes" => Meaning(expr) # Error /\ Truthy(Meaning(expr))
    /\ allowed = "no" /\ flag = "none" =>
         Meaning(expr) # Error /\ ~Truthy(Meaning(expr))

(* What _normalise_pair says of dates: ISO texts are dates and times, and  *)
(* a date next to a time is its midnight, so that one of them comes first  *)
(* or they are equal.  Two texts, a day and a time, are not brought        *)
(* together: due_date >= world.now of the seeded policy is such a pair.    *)
DaysAreMidnights ==
    expr.op = "<=" /\ allowed # "none" =>
        LET l == ParsedTemporal(Evaluate(expr.l))
            r == ParsedTemporal(Evaluate(expr.r))
        IN  {l.type, r.type} \subseteq {"date", "time"} =>
                (allowed = "yes") = (l.v <= r.v)
=============================================================================
