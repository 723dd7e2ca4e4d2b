------------------------------ MODULE MCDeliver ------------------------------
(* The tools that build, pack and publish, in one run of their four parts:       *)
(*  - go: two processes; two targets, or a file and a directory of one name,     *)
(*    once as neighbours in the order of the names and once not;                 *)
(*  - artifact: a command that needs a package of another scope, versions that   *)
(*    two packages ask for differently, a command that two packages have;        *)
(*  - packages: three packages, each named before what it needs, one of two      *)
(*    names; a package with two recipes; a cycle;                                *)
(*  - docker: two images, one named inside the other; two registries, the        *)
(*    second with a prefix that makes references meet.                           *)
EXTENDS Deliver, TLC

MCConfigs == {[targets |-> {"linux", "darwin"}, members |-> <<<<"a">>, <<"b">>>>],
              [targets |-> {"linux"}, members |-> <<<<"a">>, <<"a-b">>, <<"a", "c">>>>],
              [targets |-> {"linux"}, members |-> <<<<"a">>, <<"a", "c">>>>]}

R(op, major, minor) == [op |-> op, major |-> major, minor |-> minor]
Pkg(name, bins, deps, scoped) ==
    [name |-> name, bins |-> bins, files |-> bins, deps |-> deps, scoped |-> scoped]
MCArtifactWorkspaces == {
    <<Pkg("a", {"x"}, "b" :> R("workspace", 0, 0) @@ "z" :> R("caret", 1, 2), TRUE),
      Pkg("b", {}, "z" :> R("exact", 1, 3), FALSE)>>,
    <<Pkg("a", {"x"}, "z" :> R("caret", 1, 2), TRUE), Pkg("b", {"y"}, "z" :> R("caret", 2, 0), TRUE)>>,
    <<Pkg("a", {"x"}, "z" :> R("caret", 1, 2), TRUE), Pkg("b", {"y"}, "z" :> R("odd", 1, 0), TRUE)>>,
    <<Pkg("a", {"x"}, <<>>, TRUE), Pkg("b", {"x"}, <<>>, TRUE)>>}
B(version, mode, modules, prune, files, excluded) ==
    [version |-> version, mode |-> mode, modules |-> modules, prune |-> prune, files |-> files,
     excluded |-> excluded]
MCBuilds == {B(1, "", <<>>, <<>>, <<"VERSION">>, {}),
             B(2, "production", <<>>, <<>>, <<"VERSION">>, {"x"}),
             B(2, "none", <<>>, <<FALSE>>, <<"bin">>, {}),
             B(1, "", <<TRUE>>, <<>>, <<>>, {}),
             B(1, "copy", <<>>, <<TRUE>>, <<>>, {})}

P(n, ranges, dev) ==
    [name |-> n, additional |-> <<>>, ranges |-> ranges, dev |-> dev, private |-> FALSE,
     placeholder |-> TRUE, recipes |-> <<>>]
Default == [skip |-> FALSE, keep |-> FALSE, dry |-> FALSE, only |-> FALSE]
MCOptions == {Default, [Default EXCEPT !.skip = TRUE, !.keep = TRUE],
              [Default EXCEPT !.dry = TRUE, !.only = TRUE]}
MCWorkspaces == {
    <<P("a", "b" :> "workspace", {}), P("b", <<>>, {"c"}),
      [P("c", <<>>, {}) EXCEPT !.additional = <<"d">>]>>,
    <<[P("a", <<>>, {}) EXCEPT !.private = TRUE, !.placeholder = FALSE,
          !.recipes = <<[name |-> "d", stage |-> "s"], [name |-> "e", stage |-> "t"]>>]>>,
    <<P("a", "b" :> "placeholder", {}), P("b", <<>>, {"a"})>>}

Plain == [images |-> <<<<"a">>>>, registries |-> <<[host |-> "h1", prefix |-> <<>>]>>,
          tags |-> <<"t">>, platforms |-> <<"p1">>, custom |-> FALSE, export |-> FALSE,
          workers |-> 2, auth |-> {}, manifest |-> TRUE, verify |-> TRUE, strict |-> TRUE]
Both == <<[host |-> "h1", prefix |-> <<>>], [host |-> "h2", prefix |-> <<"a">>]>>
Clash == <<[host |-> "h1", prefix |-> <<>>], [host |-> "h1", prefix |-> <<"a">>]>>
MCFiles == {
    [Plain EXCEPT !.images = <<<<"a">>, <<"a", "b">>>>, !.export = TRUE],
    [Plain EXCEPT !.registries = Both, !.auth = {"h1", "h2"}],
    [Plain EXCEPT !.images = <<<<"a">>, <<"a", "a">>>>, !.registries = Clash],
    [Plain EXCEPT !.platforms = <<>>, !.strict = FALSE]}
MCAnswers == {
    [images |-> <<>>, registries |-> <<>>, tags |-> <<>>, platforms |-> <<"p1", "p2">>,
     customize |-> FALSE, export |-> FALSE],
    [images |-> <<>>, registries |-> <<>>, tags |-> <<>>, platforms |-> <<"odd">>,
     customize |-> TRUE, export |-> TRUE]}
All == [images |-> {}, platforms |-> {}, hosts |-> {}]
MCFilters == {All, [All EXCEPT !.hosts = {"h1"}], [All EXCEPT !.images = {<<"a">>}],
              [All EXCEPT !.platforms = {"p2"}]}
MCHost == <<"p1">>
MCOperations == {{}, {"build"}, {"push", "verify"}, {"build", "push", "verify"}, {"verify"}}
==============================================================================
