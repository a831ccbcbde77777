------------------------------- MODULE MCExpr -------------------------------
(***************************************************************************)
(* Expr on the texts of all syntax trees with up to two operators, on all  *)
(* trees of two one-operator trees over two numbers, on every line gen-expr*)
(* makes in a buffer of MAX_INDEX characters, and (BracketTexts) on every  *)
(* short text over brackets, a number and an operator.                     *)
(***************************************************************************)
EXTENDS GenExpr

MCReg == [r \in {"eax"} |-> 6]
MCMem == [a \in 0 .. 9 |-> (a + 3) % 16]

AllOps == {"+", "-", "*", "/", "==", "!=", "&&"}

Leaves  == {<<"num", 3>>, <<"hex", 2, 1>>, <<"reg", "eax">>, <<"deref", 2>>}
Numbers == {<<"num", 0>>, <<"num", 5>>}

Trees(L, R) == {<<op, l, r>> : op \in AllOps, l \in L, r \in R}
One == Trees(Leaves, Leaves)
Two == Trees(One, Leaves) \cup Trees(Leaves, One)
Pairs == Trees(Trees(Numbers, Numbers), Trees(Numbers, Numbers))

TreeTexts ==
  {[text |-> Unparse(t, all), tree |-> t] :
     t \in Leaves \cup One \cup Two \cup Pairs, all \in BOOLEAN}

\* Texts make_token stops in: the lexeme x before or after a complete expression.
Stoppers == {<<"junk">>, <<"hex", 2, 8>>, <<"num", 3, 32>>}
StoppedTexts ==
  {[text |-> s, tree |-> <<"none">>] :
     s \in UNION {{<<<<"num", 3, 1>>, <<"+">>, x>>, <<x, <<"sp">>, <<"-">>, <<"num", 3, 1>>>>,
                   <<<<"*">>, x>>, <<x, y>>} : x \in Stoppers, y \in Stoppers}}

ExprTexts == TreeTexts \cup StoppedTexts

Lexemes == {<<"(">>, <<")">>, <<"+">>, <<"num", 3, 1>>}
BracketTexts ==
  {[text |-> s, tree |-> <<"num", 0>>] : s \in UNION {[1 .. k -> Lexemes] : k \in 0 .. 5}}
=============================================================================
