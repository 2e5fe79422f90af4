---------------------------- MODULE TemplateExpr ----------------------------
(***************************************************************************)
(* The expressions of template tags (engine/template_transpiler.cpp): a    *)
(* list of tokens is turned into RPN with an operator stack (ParseExpr),   *)
(* and the RPN into C++ text with two operand stacks (GenerateCxxFromRPN); *)
(* here the text is the tree a C++ compiler reads in it.  The tokens are   *)
(* the lexer's; an expression grows by one token per step.                 *)
(***************************************************************************)
EXTENDS Integers, Sequences, SequencesExt

CONSTANTS Ids,           \* tokens: names of the context
          NumberOf,      \* tokens: the integer constants, and their values
          Operators,     \* the operators used, a part of DOMAIN Precedence
          ExprContexts,  \* contexts a condition is evaluated with
          MaxTokens      \* bound: tokens of an expression

VARIABLE tokens

Consts == DOMAIN NumberOf

exprVars == <<tokens>>

Precedence == [or |-> 1, and |-> 2, eq |-> 3, neq |-> 3, gt |-> 4, gte |-> 4, lt |-> 4, lte |-> 4,
               not |-> 7, dot |-> 8]
IsOperator(t) == t \in DOMAIN Precedence
IsRightAssociative(t) == t = "not"

-----------------------------------------------------------------------------
\* ParseExpr

Refused == [ok |-> FALSE, ops |-> <<>>, out |-> <<>>]

\* The operators that stay on the stack when t arrives; a ")" and the end of
\* the text take all
WaitsFault(top, t) == t \notin {")", "eof"} /\ Precedence[top] < Precedence[t]
Waits(top, t) ==
    /\ t \notin {")", "eof"}
    /\ ~(Precedence[top] > Precedence[t] \/ (Precedence[top] = Precedence[t] /\ ~IsRightAssociative(t)))

RECURSIVE PopFor(_, _)
PopFor(p, t) ==
    IF p.ops = <<>> \/ Last(p.ops) = "(" THEN p
    ELSE IF Waits(Last(p.ops), t) THEN p
    ELSE PopFor([p EXCEPT !.ops = Front(@), !.out = Append(@, Last(p.ops))], t)

\* One token; next is the one after it
Shift(p, t, next) ==
    IF ~p.ok THEN p
    ELSE IF t \in Ids \cup Consts THEN [p EXCEPT !.out = Append(@, t)]
    ELSE IF t = "(" THEN [p EXCEPT !.ops = Append(@, t)]
    ELSE IF t = ")" THEN LET q == PopFor(p, t)
                         IN IF q.ops = <<>> THEN Refused ELSE [q EXCEPT !.ops = Front(@)]
    ELSE IF t = "dot" /\ next \notin Ids THEN Refused
    ELSE LET q == PopFor(p, t) IN [q EXCEPT !.ops = Append(@, t)]

RECURSIVE ShiftAll(_, _)
ShiftAll(p, i) ==
    IF i > Len(tokens) THEN p
    ELSE ShiftAll(Shift(p, tokens[i], IF i < Len(tokens) THEN tokens[i + 1] ELSE "eof"), i + 1)

ParseExpr ==
    LET p == ShiftAll([ok |-> TRUE, ops |-> <<>>, out |-> <<>>], 1) IN
    IF ~p.ok \/ "(" \in Range(p.ops) THEN Refused ELSE PopFor(p, "eof")

-----------------------------------------------------------------------------
\* GenerateCxxFromRPN.  Trees: [node, kids], [node |-> "path", kids |-> names].

ExprTree(node, kids) == [node |-> node, kids |-> kids]

\* An operand comes from the expressions first, then from the paths
HasOperand(s) == s.exprs # <<>> \/ s.paths # <<>>
Operand(s) == IF s.exprs # <<>> THEN Last(s.exprs) ELSE ExprTree("path", Last(s.paths))
Rest(s) == IF s.exprs # <<>> THEN [s EXCEPT !.exprs = Front(@)] ELSE [s EXCEPT !.paths = Front(@)]

EmitFault(s, t) ==
    IF t \in Ids THEN [s EXCEPT !.paths = Append(@, <<t>>)]
    ELSE IF t \in Consts THEN [s EXCEPT !.exprs = Append(@, ExprTree("const", <<t>>))]
    ELSE IF t = "dot" \/ ~HasOperand(s) THEN s
    ELSE LET r == Rest(s)
         IN IF t = "not" THEN [r EXCEPT !.exprs = Append(@, ExprTree("not", <<Operand(s)>>))]
            ELSE IF ~HasOperand(r) THEN r
            ELSE LET q == Rest(r) IN [q EXCEPT !.exprs = Append(@, ExprTree(t, <<Operand(s), Operand(r)>>))]
Emit(s, t) ==
    IF t \in Ids THEN [s EXCEPT !.paths = Append(@, <<t>>)]
    ELSE IF t \in Consts THEN [s EXCEPT !.exprs = Append(@, ExprTree("const", <<t>>))]
    ELSE IF t = "dot"
    THEN IF Len(s.paths) < 2 THEN s
         ELSE [s EXCEPT !.paths = Append(Front(Front(@)), s.paths[Len(@) - 1] \o Last(@))]
    ELSE IF t = "not"
    THEN IF HasOperand(s) THEN LET r == Rest(s) IN [r EXCEPT !.exprs = Append(@, ExprTree("not", <<Operand(s)>>))] ELSE s
    ELSE IF ~HasOperand(s) THEN s
    ELSE LET r == Rest(s) IN
         IF ~HasOperand(r) THEN r
         ELSE LET q == Rest(r) IN [q EXCEPT !.exprs = Append(@, ExprTree(t, <<Operand(r), Operand(s)>>))]

Emitted(rpn) ==
    LET s == FoldLeft(Emit, [exprs |-> <<>>, paths |-> <<>>], rpn) IN
    IF s.paths # <<>> THEN ExprTree("path", Last(s.paths))
    ELSE IF s.exprs = <<>> THEN ExprTree("false", <<>>) ELSE Last(s.exprs)

-----------------------------------------------------------------------------

\* Operands and operators alternate; a stray ")" or "." may still come
Leaves == Ids \cup Consts
NextTokens ==
    IF tokens # <<>> /\ Last(tokens) \in Leaves \cup {")"} THEN (Operators \ {"not"}) \cup {")"}
    ELSE Leaves \cup {"(", "not"}

AddToken == Len(tokens) < MaxTokens /\ \E t \in NextTokens : tokens' = Append(tokens, t)

ExprInit == tokens = <<>>
ExprNext == AddToken
ExprSpec == ExprInit /\ [][ExprNext]_exprVars

-----------------------------------------------------------------------------
\* Properties.

\* The grammar: level 1 is "or", level 5 a negation or an operand.
Levels == <<{"or"}, {"and"}, {"eq", "neq"}, {"gt", "gte", "lt", "lte"}>>

\* The trees of tokens lo .. hi at a level, at most one for a well-formed text
RECURSIVE Trees(_, _, _)
Trees(lo, hi, level) ==
    IF lo > hi THEN {}
    ELSE IF level <= Len(Levels)
    THEN Trees(lo, hi, level + 1) \cup
         UNION {{ExprTree(tokens[k], <<l, r>>) : l \in Trees(lo, k - 1, level), r \in Trees(k + 1, hi, level + 1)} :
                k \in {k \in lo .. hi : tokens[k] \in Levels[level]}}
    ELSE IF tokens[lo] = "not" THEN {ExprTree("not", <<x>>) : x \in Trees(lo + 1, hi, level)}
    ELSE IF tokens[lo] = "(" /\ tokens[hi] = ")" THEN Trees(lo + 1, hi - 1, 1)
    ELSE IF lo = hi /\ tokens[lo] \in Consts THEN {ExprTree("const", <<tokens[lo]>>)}
    ELSE IF /\ (hi - lo) % 2 = 0
            /\ \A k \in lo .. hi : IF (k - lo) % 2 = 0 THEN tokens[k] \in Ids ELSE tokens[k] = "dot"
         THEN {ExprTree("path", [i \in 1 .. (hi - lo) \div 2 + 1 |-> tokens[lo + 2 * (i - 1)]])} ELSE {}

\* The RPN that a tree is written as
RECURSIVE Postfix(_)
Postfix(t) ==
    CASE t.node = "const" -> t.kids
      [] t.node = "path" -> <<t.kids[1]>> \o FlattenSeq([i \in 1 .. Len(t.kids) - 1 |-> <<t.kids[i + 1], "dot">>])
      [] OTHER -> FlattenSeq([i \in DOMAIN t.kids |-> Postfix(t.kids[i])]) \o <<t.node>>

\* An expression that C++ reads in one way is accepted, and its RPN applies
\* every operator to the operands C++ gives it: precedence, left association,
\* stacked negations and parentheses included.
RpnExact ==
    \A t \in Trees(1, Len(tokens), 1) : ParseExpr.ok /\ ParseExpr.out = Postfix(t)

\* Whether the two operand stacks keep a tree apart; behind says that an
\* operation or a constant is pending on the left, and is taken before a name is.
IsName(t) == t.node = "path"
RECURSIVE Kept(_, _)
Kept(t, behind) ==
    CASE t.node \in {"path", "const"} -> TRUE
      [] t.node = "not" -> (IsName(t.kids[1]) => ~behind) /\ Kept(t.kids[1], behind)
      [] OTHER -> LET l == t.kids[1]
                      r == t.kids[2]
                  IN /\ IsName(l) \/ IsName(r) => ~behind
                     /\ IsName(r) => IsName(l)
                     /\ Kept(l, behind) /\ Kept(r, behind \/ ~IsName(l))

\* The C++ text has the operators and operands the expression has, each in its
\* place, as long as no name has to be taken while an operation or a constant
\* left of it waits: the two stacks do not remember which came first.
EmittedExact ==
    \A t \in Trees(1, Len(tokens), 1) : Kept(t, FALSE) => Postfix(Emitted(ParseExpr.out)) = Postfix(t)

\* What C++ makes of a tree: a name is its value, 0 if absent, or, as in the
\* emitted text, whether it is there
AsInt(b) == IF b THEN 1 ELSE 0
NameAs(path, names, emitted) ==
    IF Len(path) > 1 \/ path[1] \notin DOMAIN names THEN 0 ELSE IF emitted THEN 1 ELSE names[path[1]]

RECURSIVE Eval(_, _, _)
Eval(t, names, emitted) ==
    LET x == Eval(t.kids[1], names, emitted)
        y == Eval(t.kids[2], names, emitted)
    IN CASE t.node = "const" -> NumberOf[t.kids[1]]
         [] t.node = "path"  -> NameAs(t.kids, names, emitted)
         [] t.node = "not"   -> AsInt(x = 0)
         [] t.node = "and"   -> AsInt(x # 0 /\ y # 0)
         [] t.node = "or"    -> AsInt(x # 0 \/ y # 0)
         [] t.node = "eq"    -> AsInt(x = y)
         [] t.node = "lt"    -> AsInt(x < y)
         [] t.node = "gte"   -> AsInt(x >= y)

\* The emitted text groups names as the expression does, whatever it makes of
\* a name ("!a && !b" is one that fails: it becomes "b && !!a").
ConditionsAsGrouped ==
    \A t \in Trees(1, Len(tokens), 1), names \in ExprContexts :
        (Eval(Emitted(ParseExpr.out), names, TRUE) # 0) <=> (Eval(t, names, TRUE) # 0)

\* A condition compares the values its names have in the context, as the
\* operators do in C++.
ConditionsAsDocumented ==
    \A t \in Trees(1, Len(tokens), 1), names \in ExprContexts :
        (Eval(Emitted(ParseExpr.out), names, TRUE) # 0) <=> (Eval(t, names, FALSE) # 0)
=============================================================================
