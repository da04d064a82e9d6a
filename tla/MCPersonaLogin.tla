--------------------------- MODULE MCPersonaLogin ---------------------------
(* Sites, recipes and cookies of a persona's login, for TLC.               *)
EXTENDS PersonaLogin

\* Sites by how a member's page differs from a visitor's.
Line(text, indent) == [text |-> text, indent |-> indent]
Page(status, lines) == [status |-> status, lines |-> lines]
Account == Line("my account", 0)
SignIn == Line("sign in here", 0)
SignInTo == Line("sign in to my account", 0)
Menu(indent) == Line("the menu", indent)
Brief == Line("hi", 0)

ByStatus == [member |-> Page(200, <<Account>>), visitor |-> Page(401, <<SignIn>>)]
ByLine == [member |-> Page(200, <<Brief, Menu(0), Account>>),
           visitor |-> Page(200, <<Menu(0), SignIn>>)]
ByNothing == [member |-> Page(200, <<Menu(0)>>),
              visitor |-> Page(200, <<Menu(0), SignIn>>)]
ByIndentedLine == [member |-> Page(200, <<Menu(2), Account>>),
                   visitor |-> Page(200, <<Menu(2), SignIn>>)]
ByPartOfLine == [member |-> Page(200, <<Account>>), visitor |-> Page(200, <<SignInTo>>)]
Same == [member |-> Page(200, <<Menu(2)>>), visitor |-> Page(200, <<Menu(2)>>)]
MCSites == {ByStatus, ByLine, ByNothing, ByIndentedLine, ByPartOfLine, Same}
IndentedSites == {ByIndentedLine}

Texts == {"my account", "sign in here", "sign in to my account", "the menu", "hi"}
MCPartOf == {<<t, t>> : t \in Texts} \cup {<<"my account", "sign in to my account">>}

\* No recipe, no secret, one secret, two secrets of different names.
Click == [action |-> "click", ref |-> None]
Fill(ref) == [action |-> "fill_secret", ref |-> ref]
MCRecipes == {<<>>, <<Click>>, <<Fill("password"), Click>>, <<Fill("password"), Fill("pin")>>}

\* A session cookie of the target, or only one of an identity provider.
MCStartHost == <<"app", "acme", "test">>
MCJars == {{[domain |-> Tail(MCStartHost)], [domain |-> <<"idp">>]}, {[domain |-> <<"idp">>]}}
=============================================================================
