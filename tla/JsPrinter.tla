------------------------------ MODULE JsPrinter ------------------------------
(***************************************************************************)
(* How the JavaScript generator (JsGenerator.cpp) turns the graph of an    *)
(* expression, or of a for statement, back into source.                    *)
(*                                                                         *)
(* A node is its type, its value or operator, and its children; parentheses*)
(* of the source are nodes of their own.  The text is a sequence of lexical *)
(* elements, " " among them: what is written without a space may join.     *)
(***************************************************************************)
EXTENDS Integers, Sequences, FiniteSets, SequencesExt, FiniteSetsExt

Node(t, v, k) == [t |-> t, v |-> v, k |-> k]
Id(x) == Node("Identifier", x, <<>>)

-----------------------------------------------------------------------------
(* Operators. *)

\* Mutant: ** is taken to be as strong as *.
binary_precedence_NoPower(op) ==
    CASE op \in {"**", "*", "/", "%"} -> 13
      [] op \in {"+", "-"} -> 12
      [] op \in {"<<", ">>", ">>>"} -> 11
      [] op \in {"<", ">", "<=", ">=", "in", "instanceof"} -> 10
      [] op \in {"==", "!=", "===", "!=="} -> 9
      [] op = "&" -> 8
      [] op = "^" -> 7
      [] op = "|" -> 6
      [] op = "&&" -> 5
      [] op = "||" -> 4
      [] op = "??" -> 3
      [] OTHER -> 1

binary_precedence(op) ==
    CASE op = "**" -> 14
      [] op \in {"*", "/", "%"} -> 13
      [] op \in {"+", "-"} -> 12
      [] op \in {"<<", ">>", ">>>"} -> 11
      [] op \in {"<", ">", "<=", ">=", "in", "instanceof"} -> 10
      [] op \in {"==", "!=", "===", "!=="} -> 9
      [] op = "&" -> 8
      [] op = "^" -> 7
      [] op = "|" -> 6
      [] op = "&&" -> 5
      [] op = "||" -> 4
      [] op = "??" -> 3
      [] OTHER -> 1

is_right_associative(op) == op = "**"

WordOps == {"in", "instanceof", "typeof", "delete", "void"}

-----------------------------------------------------------------------------
(* The handlers of expressions. *)

\* Children with a separator between them.
Joined(parts) ==
    IF parts = <<>> THEN <<>>
    ELSE Head(parts) \o
         FoldLeft(LAMBDA out, part : out \o <<",", " ">> \o part, <<>>, Tail(parts))

BinaryText(op, left, right) ==
    left \o (IF op \in WordOps THEN <<" ", op, " ">> ELSE <<op>>) \o right

UnaryText(op, operand) ==
    <<op>> \o (IF op \in WordOps THEN <<" ">> ELSE <<>>) \o operand

ConditionalText(test, yes, no) ==
    test \o <<" ", "?", " ">> \o yes \o <<" ", ":", " ">> \o no

CallText(callee, args) == callee \o <<"(">> \o Joined(args) \o <<")">>

AssignText(op, left, right) ==
    left \o <<" ", op, " ">> \o right

\* convert_node_to_js.
RECURSIVE Text(_)
Text(n) ==
    LET kid(i) == Text(n.k[i])
        kids(from) == [i \in 1..(Len(n.k) - from + 1) |-> kid(i + from - 1)] IN
    CASE n.t = "Identifier" -> <<n.v>>
      [] n.t = "BinaryExpression" -> BinaryText(n.v, kid(1), kid(2))
      [] n.t = "UnaryExpression" -> UnaryText(n.v, kid(1))
      [] n.t = "PostfixExpression" -> kid(1) \o <<n.v>>
      [] n.t = "ParenthesizedExpression" -> <<"(">> \o kid(1) \o <<")">>
      [] n.t = "ConditionalExpression" -> ConditionalText(kid(1), kid(2), kid(3))
      [] n.t = "AssignExpression" -> AssignText(n.v, kid(1), kid(2))
      [] n.t = "CallExpression" -> CallText(kid(1), kids(2))
      [] n.t = "DotExpression" -> kid(1) \o <<".">> \o kid(2)
      [] n.t = "BracketExpression" -> kid(1) \o <<"[">> \o kid(2) \o <<"]">>
      [] n.t = "ArrayLiteral" -> <<"[">> \o Joined(kids(1)) \o <<"]">>
      [] OTHER -> <<>>

-----------------------------------------------------------------------------
(* emit_expression, for a statement of its own and for what is returned. *)

NeedParens(op, parentPrec, isRightChild) ==
    LET myPrec == binary_precedence(op) IN
    \/ myPrec < parentPrec
    \/ myPrec = parentPrec /\ is_right_associative(op) # isRightChild

RECURSIVE Emit(_, _, _)
Emit(n, parentPrec, isRightChild) ==
    CASE n.t = "BinaryExpression" ->
            LET myPrec == binary_precedence(n.v)
                inner == Emit(n.k[1], myPrec, FALSE) \o <<" ", n.v, " ">>
                             \o Emit(n.k[2], myPrec, TRUE) IN
            IF NeedParens(n.v, parentPrec, isRightChild)
            THEN <<"(">> \o inner \o <<")">> ELSE inner
      [] n.t = "ParenthesizedExpression" -> <<"(">> \o Emit(n.k[1], 0, FALSE) \o <<")">>
      [] OTHER -> Text(n)

ExpressionStatement(n) == Emit(n, 0, FALSE) \o <<";">>

-----------------------------------------------------------------------------
(* ForStatement: the three parts of its header. *)

Empty == Node("EmptyExpression", "", <<>>)

\* A node without a type is a wrapper of its children.
RECURSIVE EffectivelyEmpty(_)
EffectivelyEmpty(n) ==
    \/ n.t \in {"EmptyExpression", "EmptyStatement"}
    \/ n.t = "" /\ \A i \in DOMAIN n.k : EffectivelyEmpty(n.k[i])

\* Statements print a semicolon of their own; the value of a LexicalDeclaration
\* says whether it is one.
RECURSIVE TextOfPart(_)
TextOfPart(n) ==
    LET kids == [i \in DOMAIN n.k |-> TextOfPart(n.k[i])] IN
    CASE n.t = "" -> FlattenSeq(kids)
      [] n.t = "ExpressionStatement" -> ExpressionStatement(n.k[1])
      [] n.t = "LexicalDeclaration" ->
            <<"let", " ">> \o Joined(kids) \o (IF n.v = "statement" THEN <<";">> ELSE <<>>)
      [] n.t \in {"VariableStatement", "VariableDeclaration"} ->
            <<"var", " ">> \o Joined(kids) \o <<";">>
      [] OTHER -> Text(n)

WithSemicolon(n) ==
    IF EffectivelyEmpty(n) THEN <<";">>
    ELSE TextOfPart(n) \o (IF n.t = "ExpressionStatement" THEN <<>> ELSE <<";">>)

ForHeader(init, test, update) ==
    <<"for", " ", "(">> \o WithSemicolon(init)
    \o (IF EffectivelyEmpty(test) THEN <<>> ELSE <<" ">>) \o WithSemicolon(test)
    \o (IF EffectivelyEmpty(update) THEN <<>> ELSE <<" ">> \o TextOfPart(update))
    \o <<")", " ">>

-----------------------------------------------------------------------------
(* Reading it again: the grammar of ECMAScript's expressions. *)

\* Two equal signs without a space between them are another operator.
Lex(text) ==
    LET Step(out, c) ==
            IF out # <<>> /\ c \in {"+", "-"} /\ Last(out) = c
            THEN Append(Front(out), c \o c)
            ELSE Append(out, c)
    IN SelectSeq(FoldLeft(Step, <<>>, text), LAMBDA c : c # " ")

Levels == << {"??"}, {"||"}, {"&&"}, {"|"}, {"^"}, {"&"},
             {"==", "!=", "===", "!=="},
             {"<", ">", "<=", ">=", "in", "instanceof"},
             {"<<", ">>", ">>>"}, {"+", "-"}, {"*", "/", "%"}, {"**"} >>
LevelOf(op) == CHOOSE l \in DOMAIN Levels : op \in Levels[l]
IsBinaryOp(c) == \E l \in DOMAIN Levels : c \in Levels[l]
PrefixOps == {"-", "+", "!", "~", "typeof", "void", "delete", "++", "--"}
Punctuation == {"(", ")", "[", "]", ",", ".", "?", ":", ";", "="}

Opening == {"(", "["}
Closing == {")", "]"}
Error == Node("error", "", <<>>)

\* How many brackets are open before each element.
Depth(s) ==
    LET d[i \in 1..Len(s)] ==
            IF i = 1 THEN 0
            ELSE d[i - 1] + (IF s[i - 1] \in Opening THEN 1 ELSE 0)
                          - (IF s[i] \in Closing THEN 1 ELSE 0)
    IN d
AtTop(s) == LET d == Depth(s) IN {i \in DOMAIN s : d[i] = 0}

EndsOperand(c) ==
    ~IsBinaryOp(c) /\ c \notin (PrefixOps \ {"++", "--"}) \cup (Punctuation \ Closing)

\* The binary operators outside all brackets: those that follow an operand.
TopOperators(s) ==
    {i \in AtTop(s) : i > 1 /\ IsBinaryOp(s[i]) /\ EndsOperand(s[i - 1])}

\* The operator that binds least: the last of its level, but the first **.
SplitAt(s) ==
    LET level == Min({LevelOf(s[i]) : i \in TopOperators(s)})
        least == {i \in TopOperators(s) : LevelOf(s[i]) = level}
    IN IF level = Len(Levels) THEN Min(least) ELSE Max(least)

\* The ":" of the "?" at q.
ColonOf(s, q) ==
    LET open(i) == Cardinality({j \in AtTop(s) : q < j /\ j < i /\ s[j] = "?"})
                   - Cardinality({j \in AtTop(s) : q < j /\ j < i /\ s[j] = ":"})
        colons == {i \in AtTop(s) : i > q /\ s[i] = ":" /\ open(i) = 0}
    IN IF colons = {} THEN 0 ELSE Min(colons)

\* The expressions between commas.
Parts(s) ==
    LET cuts == SetToSortSeq({0, Len(s) + 1} \cup {i \in AtTop(s) : s[i] = ","}, <) IN
    IF s = <<>> THEN <<>>
    ELSE [k \in 1..(Len(cuts) - 1) |-> SubSeq(s, cuts[k] + 1, cuts[k + 1] - 1)]

\* The tree of a whole text, its weakest operator first.
RECURSIVE Parse(_)
Parse(s) ==
    LET ofPart(from, to) == Parse(SubSeq(s, from, to))
        n == Len(s)
        weak == {i \in AtTop(s) : s[i] \in {"=", "?"}}
        w == Min(weak)
        opens == Max({i \in AtTop(s) : s[i] \in Opening})
        listed == [k \in DOMAIN Parts(SubSeq(s, opens + 1, n - 1)) |->
                      Parse(Parts(SubSeq(s, opens + 1, n - 1))[k])]
    IN
    CASE s = <<>> -> Error
      [] weak # {} /\ s[w] = "=" ->
            Node("AssignExpression", "=", <<ofPart(1, w - 1), ofPart(w + 1, n)>>)
      [] weak # {} /\ s[w] = "?" ->
            IF ColonOf(s, w) = 0 THEN Error
            ELSE Node("ConditionalExpression", "",
                      <<ofPart(1, w - 1), ofPart(w + 1, ColonOf(s, w) - 1),
                        ofPart(ColonOf(s, w) + 1, n)>>)
      [] weak = {} /\ TopOperators(s) # {} ->
            Node("BinaryExpression", s[SplitAt(s)],
                 <<ofPart(1, SplitAt(s) - 1), ofPart(SplitAt(s) + 1, n)>>)
      [] OTHER ->
            CASE s[1] \in PrefixOps -> Node("UnaryExpression", s[1], <<ofPart(2, n)>>)
              [] s[1] \notin PrefixOps /\ s[n] \in {"++", "--"} ->
                    Node("PostfixExpression", s[n], <<ofPart(1, n - 1)>>)
              [] s[1] \notin PrefixOps /\ s[n] \in Closing ->
                    CASE s[n] = ")" /\ opens = 1 /\ Len(listed) = 1 ->
                            Node("ParenthesizedExpression", "", listed)
                      [] s[n] = "]" /\ opens = 1 -> Node("ArrayLiteral", "", listed)
                      [] s[n] = ")" /\ opens > 1 ->
                            Node("CallExpression", "", <<ofPart(1, opens - 1)>> \o listed)
                      [] s[n] = "]" /\ opens > 1 /\ Len(listed) = 1 ->
                            Node("BracketExpression", "", <<ofPart(1, opens - 1)>> \o listed)
                      [] OTHER -> Error
              [] OTHER ->
                    CASE n > 2 /\ s[n - 1] = "." ->
                            Node("DotExpression", "", <<ofPart(1, n - 2), ofPart(n, n)>>)
                      [] n = 1 /\ EndsOperand(s[1]) -> Id(s[1])
                      [] OTHER -> Error

-----------------------------------------------------------------------------
(* Properties of one tree. *)

\* The tree without its parentheses.
RECURSIVE Meaning(_)
Meaning(n) ==
    IF n.t = "ParenthesizedExpression" THEN Meaning(n.k[1])
    ELSE [n EXCEPT !.k = [i \in DOMAIN n.k |-> Meaning(n.k[i])]]

\* a ?? b next to || or && needs parentheses of the source.
MixedNullish(n) ==
    \E i \in DOMAIN n.k :
        /\ n.t = "BinaryExpression" /\ n.k[i].t = "BinaryExpression"
        /\ {"??"} = {n.v, n.k[i].v} \ {"||", "&&"} /\ n.v # n.k[i].v

Strength(n) ==
    CASE n.t \in {"ConditionalExpression", "AssignExpression"} -> 0
      [] n.t = "BinaryExpression" -> LevelOf(n.v)
      [] n.t = "UnaryExpression" -> Len(Levels) + 1
      [] n.t = "PostfixExpression" -> Len(Levels) + 2
      [] n.t = "error" -> 0
      [] OTHER -> Len(Levels) + 3

\* The operands n has are ones the grammar allows where they stand.
KidsFit(n) ==
    LET fits(i, strength) == Strength(n.k[i]) >= strength
        isPlace(i) == n.k[i].t \in {"Identifier", "DotExpression", "BracketExpression"} IN
    CASE n.t = "BinaryExpression" /\ n.v = "**" ->
            fits(1, Len(Levels) + 2) /\ fits(2, Len(Levels))
      [] n.t = "BinaryExpression" ->
            /\ fits(1, LevelOf(n.v)) /\ fits(2, LevelOf(n.v) + 1)
            /\ ~MixedNullish(n)
      [] n.t = "UnaryExpression" -> fits(1, Len(Levels) + 1)
      [] n.t = "PostfixExpression" -> isPlace(1)
      [] n.t = "ConditionalExpression" -> fits(1, 1)
      [] n.t = "AssignExpression" -> isPlace(1)
      [] n.t \in {"CallExpression", "BracketExpression"} -> fits(1, Len(Levels) + 3)
      [] n.t = "DotExpression" -> fits(1, Len(Levels) + 3) /\ n.k[2].t = "Identifier"
      [] OTHER -> n.t # "error"

\* The tree is one that a parser makes: parentheses are there where they must.
RECURSIVE FromSource(_)
FromSource(n) == KidsFit(n) /\ \A i \in DOMAIN n.k : FromSource(n.k[i])

\* A sign next to the same sign is written without a space between them.
SignsJoin(n) == Lex(Text(n)) # SelectSeq(Text(n), LAMBDA c : c # " ")

RECURSIVE OnlyBinary(_)
OnlyBinary(n) ==
    \/ n.t = "Identifier"
    \/ n.t = "BinaryExpression" /\ \A i \in DOMAIN n.k : OnlyBinary(n.k[i])

RECURSIVE MixesNullish(_)
MixesNullish(n) == MixedNullish(n) \/ \E i \in DOMAIN n.k : MixesNullish(n.k[i])

\* The part of a header ends in a semicolon of its own.
EndsItself(n) == TextOfPart(n) # <<>> /\ Last(TextOfPart(n)) = ";"

\* A text is a correct expression and it means what the tree means.
Same(text, n) ==
    LET tree == Parse(Lex(text)) IN FromSource(tree) /\ Meaning(tree) = Meaning(n)
=============================================================================
