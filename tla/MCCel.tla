-------------------------------- MODULE MCCel --------------------------------
(* CelEvaluator on trees of a small depth, and on a day and the time half  *)
(* a day after it, both texts.                                             *)
EXTENDS CelEvaluator, FiniteSetsExt

Texts == {Value("dateText", 2), Value("timeText", 3)}

Atom == [op : {"value"}, of : Scalar] \cup [op : {"path"}, of : Path]

ExprOver(A, B) ==
    [op : {"not"}, of : A] \cup [op : {"and", "or"}, l : A, r : B]

\* Comparisons and the like over atoms, then two layers of connectives.
Leaf ==
    Atom \cup [op : {"has"}, of : [op : {"path"}, of : Path]]
         \cup [op : {"==", "!=", "<", "<=", "%"}, l : Atom, r : Atom]
Trees ==
    LET inner == Leaf \cup ExprOver(Leaf, Atom)
        paths == [op : {"path"}, of : Path]
    IN  inner \cup ExprOver(inner, Atom)
              \cup [op : {"if"}, test : Leaf, l : Atom, r : paths]
              \cup [op : {"chain"}, o1 : {"<", "!="}, o2 : {"<=", "=="},
                    l : paths, m : Atom, r : Atom]

Heights ==
    LET height[e \in Trees] ==
            IF Operands(e) = {} THEN 0 ELSE 1 + Max({height[x] : x \in Operands(e)})
    IN  [e \in Trees |-> height[e]]
==============================================================================
