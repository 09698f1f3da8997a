------------------------------- MODULE Sources -------------------------------
(***************************************************************************)
(* The fifth pure algorithm, the printer of the JavaScript generator, put on *)
(* its tables of inputs beside the other four of Values.                    *)
(***************************************************************************)
EXTENDS Values, JsPrinter

CONSTANTS Trees,        \* expressions for the generator
          HeaderParts   \* parts of a for statement's header

\* A tree of a deployed file or of one built by edits.
PickTree ==
    /\ input = Nothing
    /\ \E tree \in Trees : input' = [of |-> "tree", tree |-> tree]

\* The header of a for statement.
PickHeader ==
    /\ input = Nothing
    /\ \E init, test, update \in HeaderParts :
          input' = [of |-> "for", init |-> init, test |-> test, update |-> update]

AllNext == Next \/ PickTree \/ PickHeader

AllSpec == Init /\ [][AllNext]_input

-----------------------------------------------------------------------------
(* The source the generator prints, read again, is the tree it was printed *)
(* from: every tree a parser makes, unless two equal signs meet, by both    *)
(* printers, and every tree of binary operators with no parentheses of its  *)
(* own, unless it mixes ?? with || or &&, by emit_expression.  The header   *)
(* of a for statement has its two semicolons exactly when its update is no  *)
(* statement and its first two parts are none but expression statements: a  *)
(* declaration that is a statement gets a semicolon too many                *)
(* (JsGenerator.cpp:116-133, 198-201, 308-372, 1048-1088).                  *)
PrintedIsParsed ==
    /\ input.of = "tree" =>
          LET tree == input.tree
              statement == Front(ExpressionStatement(tree)) IN
          /\ (FromSource(tree) /\ ~SignsJoin(tree)) =>
                Same(Text(tree), tree) /\ Same(statement, tree)
          /\ (OnlyBinary(tree) /\ ~MixesNullish(tree)) => Same(statement, tree)
    /\ input.of = "for" =>
          LET semicolons == SelectSeq(ForHeader(input.init, input.test, input.update),
                                      LAMBDA c : c = ";") IN
          Len(semicolons) = 2 <=>
              /\ ~EndsItself(input.update)
              /\ \A part \in {input.init, input.test} :
                    EndsItself(part) => part.t = "ExpressionStatement"
=============================================================================
