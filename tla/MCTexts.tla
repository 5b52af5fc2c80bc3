------------------------------- MODULE MCTexts ------------------------------
(* Bounded inputs for Texts. *)
EXTENDS Texts

TextsUpTo(n, chars) == UNION {[1..k -> chars] : k \in 0..n}

MCPaths == {<<"">> \o p : p \in TextsUpTo(5, {"a", "b", "..", ".", ""})}
MCCodedTexts == TextsUpTo(5, {"a", "%", "7", "E"})
MCArguments ==
    LET texts == TextsUpTo(2, {"n", "\\", "TAB", "NL"}) IN
    [key : texts, values : {<<>>} \cup {<<v>> : v \in texts}
                           \cup {<<v, w>> : v, w \in TextsUpTo(1, {"\\", "TAB"})}]

Leaves == [label : {<<>>, <<"a">>, <<"!">>, <<"%", "7", "E">>, <<"|">>},
           grayed : BOOLEAN,
           tooltip : {<<>>, <<"~">>, <<"%">>},
           verb : {<<"a">>, <<"~", "|">>}]
FewLeaves == {leaf \in Leaves : leaf.label # <<"a">> /\ leaf.verb = <<"~", "|">>}
Submenus == [label : {<<"!">>, <<"~">>, <<"|", "%">>},
             items : UNION {[1..k -> FewLeaves] : k \in 0..2}]
MCMenus ==
       {<<>>} \cup [1..2 -> Leaves]
    \cup [1..1 -> Leaves \cup Submenus]
    \cup {<<leaf, menu>> : leaf \in {l \in FewLeaves : l.label = <<"|">>}, menu \in Submenus}

=============================================================================
