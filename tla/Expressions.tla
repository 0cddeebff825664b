----------------------------- MODULE Expressions -----------------------------
(***************************************************************************)
(* What follows .byte, .half and .word: the grammar of expressions, of      *)
(* lists of them and of a repeated one, which reads the first alternative   *)
(* that matches and never another one later, and the evaluator of the trees *)
(* it makes.  A number and a label are the token "n"; the k-th of a text    *)
(* stands for Numbers[k].                                                  *)
(***************************************************************************)
EXTENDS MachineWord, Bitwise, SequencesExt

CONSTANTS Numbers,   \* what the numbers and labels of a text are, in order
          Before, After, Between   \* the tokens texts have before, after and between them

VARIABLES text, stage,
          read,     \* the trees the parser made
          values    \* what they were evaluated to

evars == <<text, stage, read, values>>

(* Mutant: the two bitwise operators bind the other way round.              *)
OrBeforeAnd == <<{"&"}, {"|"}, {"+", "-"}, {"*", "/"}>>

(* The operators of bitwise_or_expr ... multiplicative_expr.                *)
Levels == <<{"|"}, {"&"}, {"+", "-"}, {"*", "/"}>>
unary_op == {"+", "-", "~"}

At(i) == IF i <= Len(text) THEN text[i] ELSE "end"
Number(i) == Numbers[Len(SelectSeq(SubSeq(text, 1, i), LAMBDA token : token = "n"))]

(* A parser gives a tree and where the text goes on, fails, and lets the     *)
(* caller try something else, or throws where the code has > for >>.        *)
Parsed(tree, to) == [tree |-> tree, to |-> to]
Failed == Parsed(<<>>, 0)
Thrown == Parsed(<<>>, -1)
Matches(p) == p.to > 0

RECURSIVE Expression(_, _)

primary_expr(i) ==
    IF At(i) = "n" THEN Parsed([kind |-> "number", value |-> Number(i)], i + 1)
    ELSE IF At(i) # "(" THEN Failed
    ELSE LET inner == Expression(1, i + 1)
         IN  IF Matches(inner) /\ At(inner.to) = ")" THEN [inner EXCEPT !.to = @ + 1] ELSE Thrown

unary_expr(i) ==
    IF At(i) \notin unary_op THEN primary_expr(i)
    ELSE LET operand == primary_expr(i + 1)
         IN  IF Matches(operand)
             THEN Parsed([kind |-> "unary", op |-> At(i), operand |-> operand.tree], operand.to)
             ELSE Thrown

RECURSIVE Operations(_, _, _)

(* operand >> *(operator > operand), on one level                           *)
Operations(level, tree, i) ==
    IF At(i) \notin Levels[level] THEN Parsed(tree, i)
    ELSE LET operand == Expression(level + 1, i + 1)
         IN  IF Matches(operand)
             THEN Operations(level, [tree EXCEPT !.rest = Append(@, <<At(i), operand.tree>>)], operand.to)
             ELSE Thrown

Expression(level, i) ==
    IF level > Len(Levels) THEN unary_expr(i)
    ELSE LET first == Expression(level + 1, i)
         IN  IF Matches(first)
             THEN Operations(level, [kind |-> "expression", first |-> first.tree, rest |-> <<>>], first.to)
             ELSE first

RECURSIVE Listed(_, _)

(* EXPR_LST: expression % -(",")                                            *)
Listed(trees, i) ==
    LET next == Expression(1, IF At(i) = "," THEN i + 1 ELSE i)
    IN  IF Matches(next) THEN Listed(Append(trees, next.tree), next.to)
        ELSE IF next = Thrown THEN Thrown
        ELSE Parsed(trees, i)

(* WORD_REPEAT_RULE | WORD_RULE                                             *)
WORD_RULE ==
    LET first == Expression(1, 1)
        count == Expression(1, first.to + 1)
    IN  IF ~ Matches(first) THEN first
        ELSE IF At(first.to) # ":" THEN Listed(<<first.tree>>, first.to)
        ELSE IF count = Failed THEN Parsed(<<first.tree>>, first.to)
        ELSE [count EXCEPT !.tree = <<first.tree, count.tree>>]

(* The processor traps a division by zero or whose quotient overflows.      *)
Trap == -1
Quotient(a, b) ==
    LET size == (IF a < 0 THEN -a ELSE a) \div (IF b < 0 THEN -b ELSE b)
    IN  IF (a < 0) = (b < 0) THEN size ELSE -size

Applied(op, a, b) ==
    CASE a = Trap \/ b = Trap -> Trap
      [] op = "+" -> Unsigned(a + b)
      [] op = "-" -> Unsigned(a - b)
      [] op = "*" -> Unsigned(a * b)
      [] op = "/" -> IF b = 0 \/ (a = W \div 2 /\ b = W - 1) THEN Trap
                     ELSE Unsigned(Quotient(Signed(a), Signed(b)))
      [] op = "&" -> a & b
      [] op = "|" -> a | b

Prefixed(op, a) ==
    CASE a = Trap -> Trap
      [] op = "+" -> a
      [] op = "-" -> Unsigned(-a)
      [] op = "~" -> W - 1 - a

RECURSIVE evaluator(_)
evaluator(tree) ==
    CASE tree.kind = "number" -> tree.value
      [] tree.kind = "unary" -> Prefixed(tree.op, evaluator(tree.operand))
      [] OTHER -> FoldLeft(LAMBDA result, o : Applied(o[1], result, evaluator(o[2])),
                           evaluator(tree.first), tree.rest)

Parse ==
    /\ stage = "text"
    /\ IF WORD_RULE.to = Len(text) + 1 THEN stage' = "read" /\ read' = WORD_RULE.tree
       ELSE stage' = "refused" /\ UNCHANGED read
    /\ UNCHANGED <<text, values>>

Evaluate ==
    /\ stage = "read" /\ stage' = "done"
    /\ values' = [k \in DOMAIN read |-> evaluator(read[k])]
    /\ UNCHANGED <<text, read>>

Operand == {p \o <<"n">> \o s : p \in Before, s \in After}
Texts ==
    LET begun == {a \o j \o b \o k : a \in Operand, j \in Between, b \in Operand, k \in Between}
    IN  begun \cup {t \o c : t \in begun, c \in Operand}

ExpressionsInit == text \in Texts /\ stage = "text" /\ read = <<>> /\ values = <<>>
ExpressionsNext == Parse \/ Evaluate

-----------------------------------------------------------------------------
(* What a text means, by where its tokens are and with no order of reading:  *)
(* an expression is split at the last of its loosest operators outside of    *)
(* brackets, an operator being binary after a number or a bracket closed.   *)
Meaningless == -2
Closes == {"n", ")"}
Depth(i, k) ==
    LET Count(token) == Cardinality({x \in i .. k - 1 : text[x] = token})
    IN  Count("(") - Count(")")
(* The higher, the tighter.                                                 *)
Tightness(op) == IF op = "|" THEN 1 ELSE IF op = "&" THEN 2 ELSE IF op \in {"+", "-"} THEN 3 ELSE 4

RECURSIVE Meaning(_, _)
Meaning(i, j) ==
    LET splits == {k \in i + 1 .. j - 1 : text[k] \in {"|", "&", "+", "-", "*", "/"}
                                          /\ text[k - 1] \in Closes /\ Depth(i, k) = 0}
        loosest == CHOOSE k \in splits : \A x \in splits :
                      Tightness(text[k]) < Tightness(text[x]) \/ (Tightness(text[k]) = Tightness(text[x]) /\ k >= x)
        a == Meaning(i, loosest - 1)
        b == Meaning(loosest + 1, j)
        operand == Meaning(i + 1, j)
    IN  CASE splits # {} -> IF Meaningless \in {a, b} THEN Meaningless ELSE Applied(text[loosest], a, b)
          [] i = j -> IF text[i] = "n" THEN Number(i) ELSE Meaningless
          [] splits = {} /\ i < j /\ text[i] \in unary_op /\ text[i + 1] \in {"n", "("} ->
                IF operand = Meaningless THEN Meaningless ELSE Prefixed(text[i], operand)
          [] splits = {} /\ i + 1 < j /\ text[i] = "(" /\ text[j] = ")" -> Meaning(i + 1, j - 1)
          [] OTHER -> Meaningless

(* The items of a list: a comma separates two, and so does an operand that   *)
(* follows another one.  A sign after an operand does not: "n -n" is n - n. *)
Starts ==
    LET Outside(k) == Depth(1, k) = 0
    IN  {1} \cup {k + 1 : k \in {x \in DOMAIN text : text[x] = "," /\ Outside(x)}}
            \cup {k \in 2 .. Len(text) : text[k - 1] \in Closes /\ text[k] \in {"n", "(", "~"} /\ Outside(k)}

Meant ==
    LET colons == {k \in DOMAIN text : text[k] = ":"}
        starts == SetToSortSeq(Starts, <)
        End(n) == IF n = Len(starts) THEN Len(text)
                  ELSE IF text[starts[n + 1] - 1] = "," THEN starts[n + 1] - 2 ELSE starts[n + 1] - 1
    IN  IF Cardinality(colons) = 1
        THEN LET k == CHOOSE x \in colons : TRUE IN <<Meaning(1, k - 1), Meaning(k + 1, Len(text))>>
        ELSE [n \in DOMAIN starts |-> Meaning(starts[n], End(n))]

(* A directive's data are what its text means: every operator has the         *)
(* operands that its precedence and the brackets give it, the grammar's      *)
(* first match never cuts an item short or joins two, and only a text        *)
(* without a meaning is refused.                                            *)
ListMeansItsItems ==
    /\ stage = "refused" => \E n \in DOMAIN Meant : Meant[n] = Meaningless
    /\ stage = "done" => values = Meant
=============================================================================
