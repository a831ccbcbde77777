------------------------------ MODULE GenExpr -------------------------------
(***************************************************************************)
(* How the expression evaluator is tested: tools/gen-expr/gen-expr.c makes *)
(* random expressions and lets a C compiler tell their values, and         *)
(* test_expr (monitor/debug/expr.c) reads those lines and compares.  Expr  *)
(* is also called with texts of its own (Inputs).                          *)
(*                                                                         *)
(* A cell of buf holds a character: a bracket, an operator, a blank, the   *)
(* one digit a number has here, its U, or NUL.                             *)
(***************************************************************************)
EXTENDS Expr

CONSTANTS
  MAX_INDEX,   \* the size of buf
  Digits,      \* the numbers choose(1000) makes
  LOOP,        \* expressions asked for
  RECURSION    \* bound: calls of gen_rand_expr that are under way

VARIABLES
  buf, buf_index,
  todo,        \* what the calls under way have left to do, the next one first
  left,        \* turns of main's loop to come
  rst,         \* the value on the line test_expr reads, or NoLine or Given
  made         \* ghost: the lexemes generated since gen_rand_expr was called

gvars == <<buf, buf_index, todo, left, rst, made>>

NoLine == -4
Given  == -5     \* the text is not of a line

NUL == <<"nul">>
U   == <<"U">>

\* buf as a string, in lexemes.
Printed ==
  LET end == CHOOSE k \in 0..MAX_INDEX : /\ k = MAX_INDEX \/ buf[k] = NUL
                                         /\ \A j \in 0..(k - 1) : buf[j] # NUL
  IN  SelectSeq([i \in 1..end |-> buf[i - 1]], LAMBDA c : c # U)

-----------------------------------------------------------------------------
(* gen-expr.c                                                              *)

\* memset, of all cells but the last.
Cleared == [k \in 0..(MAX_INDEX - 1) |-> IF k < MAX_INDEX - 1 THEN NUL ELSE buf[k]]

\* Faulty: buf keeps the end of a longer text.
restart_dirty == buf' = buf /\ buf_index' = 0 /\ todo' = <<"expr">> /\ made' = <<>>

\* gen_rand_expr is called with an empty buffer.
restart == buf' = Cleared /\ buf_index' = 0 /\ todo' = <<"expr">> /\ made' = <<>>

Generating == rst = NoLine /\ left > 0 /\ todo # <<>>

\* One lexeme, in the cells it takes; a call that finds no room returns false,
\* and so do all calls under way.
Put(cells, room) ==
  /\ UNCHANGED <<left, rst, evars>>
  /\ IF ~room THEN restart
     ELSE /\ buf' = [k \in DOMAIN buf |-> IF k - buf_index \in 0..(Len(cells) - 1)
                                          THEN cells[k - buf_index + 1] ELSE buf[k]]
          /\ buf_index' = buf_index + Len(cells)
          /\ made' = Append(made, cells[1])
          /\ todo' = Tail(todo)

gen ==
  /\ Generating /\ Head(todo) \in {"(", ")", "sp"}
  /\ Put(<<<<Head(todo)>>>>, buf_index < MAX_INDEX - 1)

gen_num(v) ==
  /\ Generating /\ Head(todo) = "num"
  /\ Put(<<<<"num", v, 2>>, U>>, buf_index + 2 < MAX_INDEX - 1)

gen_rand_op(op) ==
  /\ Generating /\ Head(todo) = "op"
  /\ Put(<<<<op>>>>, buf_index < MAX_INDEX - 1)

gen_rand_expr(rule) ==
  /\ Generating /\ Head(todo) = "expr"
  /\ Len(SelectSeq(todo, LAMBDA s : s = "expr")) < RECURSION
  /\ todo' = rule \o Tail(todo)
  /\ UNCHANGED <<buf, buf_index, left, rst, made, evars>>

Rules == {<<"num">>, <<"(", "expr", ")">>, <<"expr", "op", "expr">>, <<"sp", "expr">>}

\* What the C compiler refuses, as an expression without a value.
NoTree == <<"/", <<"num", 0>>, <<"num", 0>>>>

\* The C compiler (external): the last operator of the weakest kind outside
\* brackets splits an expression.
RECURSIVE TreeOf(_)
TreeOf(s) ==
  LET Open(i) == Len(SelectSeq(SubSeq(s, 1, i), LAMBDA c : c = <<"(">>))
                   = Len(SelectSeq(SubSeq(s, 1, i), LAMBDA c : c = <<")">>))
      At(kinds) == {i \in 1..Len(s) : Kind(s[i]) \in kinds /\ Open(i)}
      splits == IF At({"+", "-"}) # {} THEN At({"+", "-"}) ELSE At({"*", "/"})
  IN  IF splits = {}
      THEN CASE Len(s) = 1 /\ Kind(s[1]) = "num" -> <<"num", s[1][2]>>
             [] Len(s) > 2 /\ s[1] = <<"(">> /\ s[Len(s)] = <<")">> -> TreeOf(SubSeq(s, 2, Len(s) - 1))
             [] OTHER -> NoTree
      ELSE LET i == CHOOSE k \in splits : \A j \in splits : j <= k
           IN  <<Kind(s[i]), TreeOf(SubSeq(s, 1, i - 1)), TreeOf(SubSeq(s, i + 1, Len(s)))>>

\* main, with a whole expression: an expression the compiler refuses (a division
\* by zero) is left out, any other becomes a line.
gcc ==
  /\ rst = NoLine /\ left > 0 /\ todo = <<>>
  /\ LET tree == TreeOf(SelectSeq(Printed, LAMBDA c : c # <<"sp">>))
         value == Meaning(tree)
     IN  IF value = Abort
         THEN restart /\ left' = left - 1 /\ UNCHANGED <<rst, evars>>
         ELSE /\ rst' = value
              /\ input' = [text |-> Printed, tree |-> tree]
              /\ UNCHANGED <<left, buf, buf_index, todo, made, position, tokens, result>>

-----------------------------------------------------------------------------
\* test_expr: the value of the line is compared, and the next line is read.
test_expr ==
  /\ rst \notin {NoLine, Given} /\ result = rst
  /\ rst' = NoLine /\ left' = left - 1
  /\ restart
  /\ input' = [text |-> <<>>, tree |-> <<"none">>]
  /\ position' = 0 /\ tokens' = <<>> /\ result' = Busy

\* test_expr, from the program it tests.
GNext ==
  \/ gen
  \/ \E v \in Digits : gen_num(v)
  \/ \E op \in {"+", "-", "*", "/"} : gen_rand_op(op)
  \/ \E rule \in Rules : gen_rand_expr(rule)
  \/ gcc
  \/ test_expr
  \/ rst # NoLine /\ Next /\ UNCHANGED gvars

GInit ==
  /\ buf = [k \in 0..(MAX_INDEX - 1) |-> NUL] /\ buf_index = 0
  /\ todo = <<"expr">> /\ made = <<>>
  /\ \/ Init /\ rst = Given /\ left = 0
     \/ /\ rst = NoLine /\ left = LOOP
        /\ input = [text |-> <<>>, tree |-> <<"none">>]
        /\ position = 0 /\ tokens = <<>> /\ result = Busy

GSpec == GInit /\ [][GNext]_<<gvars, evars>>

\* A line of gen-expr is a whole expression, with nothing in it of an earlier
\* one that was longer or did not fit, and test_expr accepts it: the evaluator
\* agrees with C on whatever the generator makes, with blanks and brackets
\* wherever its grammar puts them.
LinesPass ==
  rst \notin {NoLine, Given} =>
    /\ input.text = made
    /\ result \in {Busy, rst}
=============================================================================
