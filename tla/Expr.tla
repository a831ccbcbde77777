-------------------------------- MODULE Expr --------------------------------
(***************************************************************************)
(* The expression evaluator of the NEMU monitor (monitor/debug/expr.c):    *)
(* make_token, check_parentheses and eval, as `p', `x', `w' and every      *)
(* check of a watchpoint call them.                                        *)
(*                                                                         *)
(* The text is a sequence of lexemes, one for each match of a rule:        *)
(* <<"sp">>, an operator or a bracket such as <<"+">>, a decimal number    *)
(* of n characters <<"num", v, n>>, a hexadecimal number of d digits       *)
(* <<"hex", v, d>>, a register <<"reg", name>>, or <<"junk">>, at which no *)
(* rule matches.                                                           *)
(* Words are numbers modulo WORD.                                          *)
(***************************************************************************)
EXTENDS Integers, Sequences, SequencesExt

CONSTANTS
  WORD,      \* number of values of word_t (2^32 in the code)
  NumLimit,  \* length of the shortest decimal literal refused (32)
  HexLimit,  \* length of the shortest hexadecimal literal refused (10)
  Reg,       \* the registers and their values, a function
  Mem,       \* guest memory by address, a function
  Inputs     \* the texts given to expr: records [text, tree]

VARIABLES
  input,     \* the text and, if it was made from one, its syntax tree
  position,  \* lexemes make_token has consumed
  tokens,    \* the token array, up to nr_token
  result     \* what expr returns

evars == <<input, position, tokens, result>>

\* Outcomes of expr besides a value: still running, success = false, a failed
\* assertion.
Busy   == -1
Failed == -2
Abort  == -3

text == input.text
Kind(lex) == lex[1]

-----------------------------------------------------------------------------
(* make_token: one turn of its loop.  A token is [type, val]: val is what  *)
(* strtol makes of str (0 when str is empty), or the register's name.      *)

Token(type, val) == [type |-> type, val |-> val]

TypeOf == [k \in {"+", "-", "*", "/", "(", ")", "==", "!=", "&&"} |->
             CASE k = "+"  -> "TK_PLUS"
               [] k = "-"  -> "TK_SUB"
               [] k = "*"  -> "TK_MUX"
               [] k = "/"  -> "TK_DIV"
               [] k = "("  -> "TK_LBRKT"
               [] k = ")"  -> "TK_RBRKT"
               [] k = "==" -> "TK_EQ"
               [] k = "!=" -> "TK_NEQ"
               [] k = "&&" -> "TK_AND"]

\* The type of the token before the one being made, if there is one.
LastType == IF tokens = <<>> THEN "none" ELSE tokens[Len(tokens)].type

\* '*' may be TK_MUX or TK_DEREF
star_type ==
  IF LastType \in {"TK_RBRKT", "TK_NUM", "TK_HEX_NUM"} THEN "TK_MUX" ELSE "TK_DEREF"

\* Length of a hexadecimal literal: 0x and its digits.
HexLen(lex) == 2 + lex[3]

make_token ==
  /\ result = Busy
  /\ position < Len(text)
  /\ position' = position + 1
  /\ UNCHANGED input
  /\ LET lex == text[position + 1] IN
     \/ /\ Kind(lex) = "sp"
        /\ UNCHANGED <<tokens, result>>
     \/ /\ Kind(lex) = "*"
        /\ tokens' = Append(tokens, Token(star_type, 0))
        /\ UNCHANGED result
     \/ /\ Kind(lex) \in DOMAIN TypeOf \ {"*"}
        /\ tokens' = Append(tokens, Token(TypeOf[Kind(lex)], 0))
        /\ UNCHANGED result
     \/ /\ Kind(lex) = "reg"
        /\ tokens' = Append(tokens, Token("TK_REG", lex[2]))
        /\ UNCHANGED result
     \/ /\ Kind(lex) = "num"
        /\ \/ /\ lex[3] >= NumLimit
              /\ result' = Abort
              /\ UNCHANGED tokens
           \/ /\ lex[3] < NumLimit
              /\ tokens' = Append(tokens, Token("TK_NUM", lex[2]))
              /\ UNCHANGED result
     \/ /\ Kind(lex) = "hex"
        /\ \/ /\ HexLen(lex) >= HexLimit
              /\ result' = Abort
              /\ UNCHANGED tokens
           \/ /\ HexLen(lex) < HexLimit
              /\ tokens' = IF LastType = "TK_DEREF"
                           THEN Append(Front(tokens), Token("TK_DEREF", lex[2]))
                           ELSE Append(tokens, Token("TK_HEX_NUM", lex[2]))
              /\ UNCHANGED result
     \/ /\ Kind(lex) = "junk"
        /\ result' = Failed
        /\ UNCHANGED tokens

-----------------------------------------------------------------------------
(* eval                                                                    *)

Ops == {"TK_PLUS", "TK_SUB", "TK_MUX", "TK_DIV", "TK_LBRKT", "TK_RBRKT",
        "TK_EQ", "TK_NEQ", "TK_AND"}

get_precedence(type) ==
  CASE type \in {"TK_LBRKT", "TK_RBRKT"} -> 1
    [] type \in {"TK_MUX", "TK_DIV"}     -> 3
    [] type \in {"TK_PLUS", "TK_SUB"}    -> 4
    [] type \in {"TK_EQ", "TK_NEQ"}      -> 7
    [] type = "TK_AND"                   -> 11

\* Faulty: operators of equal precedence associate to the right.
priority_is_higher_or_equal(op1, op2) == get_precedence(op1) <= get_precedence(op2)

\* smaller is higher
priority_is_higher(op1, op2) == get_precedence(op1) < get_precedence(op2)

Type(i) == tokens[i].type

\* Openings minus closings in tokens i .. j.
RECURSIVE Depth(_, _)
Depth(i, j) ==
  IF i > j THEN 0
  ELSE Depth(i, j - 1) + (CASE Type(j) = "TK_LBRKT" -> 1
                            [] Type(j) = "TK_RBRKT" -> -1
                            [] OTHER -> 0)

\* The scan from left to right never closes more than it opened and ends even.
check_parentheses(p, q) ==
  /\ Type(p) = "TK_LBRKT" \/ Type(q) = "TK_RBRKT"
  /\ \A i \in p + 1 .. q - 1 : Depth(p + 1, i) >= 0
  /\ Depth(p + 1, q - 1) = 0

\* The scan for the main operator, from i down to p, with need closing
\* brackets open and m the best position so far (0: none).
RECURSIVE main_op_scan(_, _, _, _)
main_op_scan(i, p, need, m) ==
  IF i < p THEN m
  ELSE IF Type(i) \notin Ops THEN main_op_scan(i - 1, p, need, m)
  ELSE IF Type(i) = "TK_RBRKT" THEN main_op_scan(i - 1, p, need + 1, m)
  ELSE IF need # 0
       THEN main_op_scan(i - 1, p, IF Type(i) = "TK_LBRKT" THEN need - 1 ELSE need, m)
  ELSE main_op_scan(i - 1, p, 0,
         IF m = 0 \/ priority_is_higher(Type(m), Type(i)) THEN i ELSE m)

\* The switch on a single token.
literal(t) ==
  CASE t.type \in {"TK_NUM", "TK_HEX_NUM"} -> t.val % WORD
    [] t.type = "TK_REG"   -> IF t.val \in DOMAIN Reg THEN Reg[t.val] ELSE Abort
    [] t.type = "TK_DEREF" -> Mem[t.val]
    [] OTHER               -> Abort

Truth(b) == IF b THEN 1 ELSE 0

\* Faulty: the difference is not taken modulo WORD.
apply_no_wrap(op, v1, v2) ==
  IF op = "TK_SUB" THEN v1 - v2 ELSE v1

\* The switch on the main operator.
apply(op, v1, v2) ==
  CASE op = "TK_PLUS" -> (v1 + v2) % WORD
    [] op = "TK_SUB"  -> (v1 - v2) % WORD
    [] op = "TK_MUX"  -> (v1 * v2) % WORD
    [] op = "TK_DIV"  -> IF v2 = 0 THEN Abort ELSE v1 \div v2
    [] op = "TK_EQ"   -> Truth(v1 = v2)
    [] op = "TK_NEQ"  -> Truth(v1 # v2)
    [] op = "TK_AND"  -> Truth(v1 # 0 /\ v2 # 0)
    [] OTHER          -> Abort

RECURSIVE eval(_, _)
eval(p, q) ==
  IF p > q THEN Abort
  ELSE IF p = q THEN literal(tokens[p])
  ELSE IF q - p + 1 < 3 THEN Abort
  ELSE IF check_parentheses(p, q) THEN eval(p + 1, q - 1)
  ELSE LET m == main_op_scan(q, p, 0, 0) IN
       IF m = 0 THEN Abort
       ELSE LET v1 == eval(p, m - 1)
                v2 == eval(m + 1, q)
            IN  IF Abort \in {v1, v2} THEN Abort ELSE apply(Type(m), v1, v2)

\* expr after make_token accepted the whole text.
expr ==
  /\ result = Busy
  /\ position = Len(text)
  /\ result' = eval(1, Len(tokens))
  /\ UNCHANGED <<input, position, tokens>>

Init ==
  /\ input \in Inputs
  /\ position = 0
  /\ tokens = <<>>
  /\ result = Busy

Next == make_token \/ expr

Spec == Init /\ [][Next]_evars

-----------------------------------------------------------------------------
(* The reference: C's meaning of a syntax tree (Abort: it divides by       *)
(* zero), and the texts of a tree.                                         *)

Leaf(t) == t[1] \in {"num", "hex", "reg", "deref"}

RECURSIVE Meaning(_)
Meaning(t) ==
  CASE t[1] \in {"num", "hex"} -> t[2] % WORD
    [] t[1] = "reg"            -> Reg[t[2]]
    [] t[1] = "deref"          -> Mem[t[2]]
    [] t[1] = "&&" ->
       LET l == Meaning(t[2])
       IN  IF l \in {0, Abort} THEN l
           ELSE LET r == Meaning(t[3]) IN IF r \in {0, Abort} THEN r ELSE 1
    [] OTHER ->
       LET l == Meaning(t[2])
           r == Meaning(t[3])
       IN  IF Abort \in {l, r} \/ (t[1] = "/" /\ r = 0) THEN Abort
           ELSE CASE t[1] = "+"  -> (l + r) % WORD
                  [] t[1] = "-"  -> (l - r + WORD) % WORD
                  [] t[1] = "*"  -> (l * r) % WORD
                  [] t[1] = "/"  -> CHOOSE d \in 0 .. l : d * r <= l /\ l < (d + 1) * r
                  [] t[1] = "==" -> IF l = r THEN 1 ELSE 0
                  [] t[1] = "!=" -> IF l = r THEN 0 ELSE 1

\* Somewhere in t, C leaves out the right operand of an && that divides by zero.
RECURSIVE SkipsFault(_)
SkipsFault(t) ==
  /\ ~Leaf(t)
  /\ \/ t[1] = "&&" /\ Meaning(t[2]) = 0 /\ Meaning(t[3]) = Abort
     \/ SkipsFault(t[2])
     \/ SkipsFault(t[3])

\* Binding strength of C's binary operators.
Binding == [op \in {"*", "/", "+", "-", "==", "!=", "&&"} |->
              CASE op \in {"*", "/"} -> 4
                [] op \in {"+", "-"} -> 3
                [] op \in {"==", "!="} -> 2
                [] op = "&&" -> 1]

Bracketed(s) == <<<<"(">>>> \o s \o <<<<")">>>>

\* The text of t with no more brackets than C's grammar needs, or (all) with
\* brackets around every operand and spaces around every operator.
RECURSIVE Unparse(_, _)
Unparse(t, all) ==
  CASE t[1] = "num"   -> <<<<"num", t[2], 1>>>>
    [] t[1] = "hex"   -> <<<<"hex", t[2], 1>>>>
    [] t[1] = "reg"   -> <<t>>
    [] t[1] = "deref" -> <<<<"*">>, <<"hex", t[2], 1>>>>
    [] OTHER ->
       LET Operand(u, right) ==
             IF \/ all /\ ~Leaf(u)
                \/ ~Leaf(u) /\ Binding[u[1]] < Binding[t[1]]
                \/ ~Leaf(u) /\ right /\ Binding[u[1]] = Binding[t[1]]
             THEN Bracketed(Unparse(u, all))
             ELSE Unparse(u, all)
           gap == IF all THEN <<<<"sp">>>> ELSE <<>>
       IN  Operand(t[2], FALSE) \o gap \o <<<<t[1]>>>> \o gap \o Operand(t[3], TRUE)

\* A multiplication whose left operand ends in a register or a dereference.
\* make_token takes its `*' for a dereference, and eval aborts.
StarAfterName(s) ==
  LET Prev(i) == IF i > 1 /\ s[i - 1] = <<"sp">> THEN i - 2 ELSE i - 1
      Ends(i) == i >= 1 /\ Kind(s[i]) \in {"num", "hex", "reg", ")"}
      DerefStar(i) == i >= 1 /\ s[i] = <<"*">> /\ ~Ends(Prev(i))
  IN  \E i \in DOMAIN s :
        /\ s[i] = <<"*">>
        /\ Ends(Prev(i))
        /\ \/ Kind(s[Prev(i)]) = "reg"
           \/ Kind(s[Prev(i)]) = "hex" /\ DerefStar(Prev(Prev(i)))

-----------------------------------------------------------------------------
(* Properties.                                                             *)

\* Type invariant: positions stay in the text, tokens are made of the known
\* types, and a result is a word or one of the three other outcomes.
TypeOK ==
  /\ position \in 0 .. Len(text)
  /\ Len(tokens) <= position
  /\ \A i \in DOMAIN tokens :
       Type(i) \in Ops \cup {"TK_REG", "TK_DEREF", "TK_NUM", "TK_HEX_NUM"}
  /\ result \in 0 .. WORD - 1 \cup {Busy, Failed, Abort}

\* The lexemes make_token does not accept: expr stops at the first of them.
Refused ==
  {i \in DOMAIN text :
     \/ Kind(text[i]) = "junk"
     \/ Kind(text[i]) = "hex" /\ HexLen(text[i]) >= HexLimit
     \/ Kind(text[i]) = "num" /\ text[i][3] >= NumLimit}

\* expr gives every expression the value C gives it (precedence, left
\* associativity, brackets, wrap-around, dereference) or ends NEMU by a failed
\* assertion, which it may do in three cases only: C itself divides by zero;
\* an operand C does not evaluate does, because eval computes both operands of
\* an &&; a `*' after a register or a dereference is taken for a dereference.
\* In none of them does it invent a value.  A text that is not an expression
\* of lexemes it knows gets no value: junk makes expr report failure, and only
\* junk does.
EvalCorrect ==
  /\ (result # Busy /\ Refused = {}) =>
       \/ result = Meaning(input.tree)
       \/ result = Abort /\ (SkipsFault(input.tree) \/ StarAfterName(text))
  /\ (result # Busy /\ Refused # {}) =>
       result = IF Kind(text[Min(Refused)]) = "junk" THEN Failed ELSE Abort

\* check_parentheses is documented to "check if all brackets is vailed": a text
\* whose brackets do not match gets no value.
BracketsChecked ==
  LET Opens(j)  == {i \in 1 .. j : text[i] = <<"(">>}
      Closes(j) == {i \in 1 .. j : text[i] = <<")">>}
      Count(S)  == Len(SelectSeq([i \in 1 .. Len(text) |-> i], LAMBDA i : i \in S))
      Matched   == /\ \A j \in 1 .. Len(text) : Count(Closes(j)) <= Count(Opens(j))
                   /\ Count(Closes(Len(text))) = Count(Opens(Len(text)))
  IN  result \in 0 .. WORD - 1 => Matched

=============================================================================
