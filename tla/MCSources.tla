------------------------------ MODULE MCSources ------------------------------
EXTENDS Sources

MCLeaf == Id("a")
MCBinaryOps == {"**", "*", "-", "<", "in", "&&", "??", "||"}
MCBinary(kids) == {Node("BinaryExpression", op, <<l, r>>) : op \in MCBinaryOps, l, r \in kids}
MCOther(kids) ==
    {Node("UnaryExpression", op, <<k>>) : op \in {"-", "!", "typeof"}, k \in kids}
    \cup {Node("PostfixExpression", "--", <<k>>) : k \in kids}
    \cup {Node("ArrayLiteral", "", <<k, MCLeaf>>) : k \in kids}
    \cup {Node("BracketExpression", "", <<k, l>>) : k, l \in kids}
    \cup {Node("DotExpression", "", <<k, MCLeaf>>) : k \in kids}
    \cup {Node("CallExpression", "", <<k, MCLeaf, l>>) : k, l \in kids}
    \cup {Node("ConditionalExpression", "", <<k, MCLeaf, l>>) : k, l \in kids}
    \cup {Node("AssignExpression", "=", <<k, l>>) : k, l \in kids}
MCParen(kids) == {Node("ParenthesizedExpression", "", <<k>>) : k \in kids}
MCSmall == {MCLeaf} \cup MCBinary({MCLeaf}) \cup MCOther({MCLeaf})
                    \cup MCParen(MCBinary({MCLeaf}))
MCTrees == MCBinary(MCSmall) \cup MCOther(MCSmall)

MCStatement == Node("ExpressionStatement", "", <<MCLeaf>>)
MCHeaderParts ==
    {Empty, MCLeaf, MCStatement}
    \cup {Node("LexicalDeclaration", v, <<MCLeaf, MCLeaf>>) : v \in {"", "statement"}}
    \cup {Node("VariableStatement", "", <<MCLeaf>>)}
    \cup {Node("", "", k) : k \in {<<>>, <<Empty>>, <<MCLeaf>>, <<MCStatement>>}}

MCChar == {"nl", " ", "/", ".", "#", "!", "*", "?", "i", "n", "r", "u", "j", "v", "w", "a", "d", "e"}
MCPattern(glob) == {[negated |-> n, dir_only |-> d, glob |-> glob] : n, d \in BOOLEAN}
MCPatterns == UNION {MCPattern(g) : g \in {<<"d">>, <<"*">>, <<"**">>, <<"?", "/", "a">>,
                                           <<"d", "/", "*">>, <<"n", "/", "a">>,
                                           <<"*", "a">>, <<"**", "a">>}}
MCFiles == {<<"a">>, <<"d", "/", "a">>, <<"d", "/", "e", "/", "a">>, <<"n", "/", "a">>,
            <<"u", "/", "a">>, <<"j">>, <<"i">>, <<"v">>, <<"d", "/", "v">>, <<"w", "/", "a">>}

MCIds == {<<"1", "2">>, <<"2", "2">>}
MCActions ==
    {build_set_action(id, "name", "x", FALSE) : id \in MCIds}
    \cup {build_delete_property_action(<<"1", "2">>, "name"),
          build_move_action(<<"1", "2">>, <<"2", "2">>, "in"),
          build_commit_action("m"),
          [type |-> "DELETE", element_id |-> <<"1", "2">>, payload |-> None]}
=============================================================================
