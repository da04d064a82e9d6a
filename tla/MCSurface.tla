----------------------------- MODULE MCSurface -----------------------------
(* A site of five pages on acme and one script host, for TLC.              *)
EXTENDS Surface

Url(host, path, destructive) ==
    [host |-> host, path |-> path, fragment |-> "", web |-> TRUE, destructive |-> destructive]

App == <<"acme", "test">>
Api == <<"api">> \o App

Home == Url(App, <<"/">>, FALSE)
User1 == Url(App, <<"users", "1">>, FALSE)
User2 == Url(App, <<"users", "2">>, FALSE)
User3 == Url(App, <<"users", "3">>, FALSE)
Delete == Url(App, <<"users", "delete">>, TRUE)
ApiUser == Url(Api, <<"users", "1">>, FALSE)
Elsewhere == Url(<<"other", "test">>, <<"users", "1">>, FALSE)

MCUrls == {Home, User1, User2, User3, Delete}
MCHrefs == {<<User1, [User1 EXCEPT !.fragment = "top"], User2, Delete>>,
            <<User2, Elsewhere, [Home EXCEPT !.web = FALSE], User3>>}
MCForms == {<<<<"POST", User1>>, <<"GET", Elsewhere>>, <<"GET", User2>>>>}
MCXhrs == {<<"GET", ApiUser>>, <<"POST", Elsewhere>>}
MCHosts == {App, Api}

Rule(kind, effect, pattern) == [kind |-> kind, effect |-> effect, pattern |-> pattern]

Excludes == {Rule("path_regex", "exclude", <<"2">>), Rule("path_prefix", "include", <<"users">>),
             Rule("path_prefix", "include", <<"/">>)}
OnlyMethod == {Rule("method", "include", <<"GET">>)}
NoGet == {Rule("method", "exclude", <<"GET">>)}
NoApi == {Rule("host", "exclude", Api)}
NoApp == {Rule("host", "exclude", App)}

MCRuleSets == {{}, Excludes, OnlyMethod, NoGet}
HostRuleSets == {NoApi, NoApp}
=============================================================================
