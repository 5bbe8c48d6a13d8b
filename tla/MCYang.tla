------------------------------- MODULE MCYang -------------------------------
(***************************************************************************)
(* YANG modules for YangSchema: a module of types and groupings, a module  *)
(* with a submodule that uses them under other prefixes, two that augment  *)
(* and deviate it, and one module for each way to be illegal.              *)
(***************************************************************************)
EXTENDS YangSchema

St(kw, arg, sub) == [kw |-> kw, arg |-> arg, path |-> <<>>, list |-> <<>>, sub |-> sub]
Y0(kw, id, sub) == St(kw, <<"", id>>, sub)
Y1(kw, id) == Y0(kw, id, <<>>)
YList(kw, list) == [St(kw, NoName, <<>>) EXCEPT !.list = list]
YPath(kw, path, sub) == [St(kw, NoName, sub) EXCEPT !.path = path]
YFeat(op, names) == [YPath("if-feature", names, <<>>) EXCEPT !.list = <<op>>]
Leaf(id, type, sub) == Y0("leaf", id, <<type>> \o sub)
Type(p, id, sub) == St("type", <<p, id>>, sub)
Ran(lo, hi) == YList("range", <<<<lo, hi>>>>)
Ref(path) == Type("", "leafref", <<YPath("path", path, <<>>), Y1("require-instance", "false")>>)
Mod(name, ns, prefix, imports, body) ==
  Y0("module", name, <<Y1("namespace", ns), Y1("prefix", prefix)>>
     \o [k \in DOMAIN imports |-> Y0("import", imports[k][1], <<Y1("prefix", imports[k][2])>>)]
     \o body)
Rev == <<Y1("revision", "2024")>>
U(id) == <<"", id>>
UpTo == U("..")

TextT == Mod("t", "urn:t", "t", <<>>, Rev \o
  <<Y1("feature", "f1"), Y1("feature", "f2"), Y1("identity", "base"),
    Y0("identity", "eth", <<Y1("base", "base")>>),
    Y0("typedef", "pct", <<Type("", "uint8", <<Ran("0", "100")>>), Y1("default", "7")>>),
    Y0("typedef", "small", <<Type("", "pct", <<Ran("5", "50")>>)>>),
    Y0("typedef", "nm", <<Type("", "string", <<YList("length", <<<<"1", "2">>>>), Y1("pattern", "low")>>)>>),
    Y0("typedef", "nm2", <<Type("", "nm", <<Y0("pattern", "a", <<Y1("modifier", "invert-match")>>)>>)>>),
    Y0("typedef", "any", <<Type("", "union", <<Type("", "small", <<>>), Type("", "nm", <<>>)>>)>>),
    Y0("grouping", "g1",
       <<Y0("typedef", "loc", <<Type("", "int8", <<YList("range", <<<<"min", "0">>, <<"50">>>>)>>)>>),
         Leaf("a", Type("", "small", <<>>), <<>>),
         Leaf("b", Type("", "loc", <<>>), <<Y1("default", "50")>>),
         Y0("container", "c",
            <<Leaf("d", Type("", "any", <<>>), <<YPath("must", <<UpTo, UpTo, U("a")>>, <<>>)>>),
              Leaf("r", Ref(<<UpTo, UpTo, U("a")>>), <<>>)>>),
         Leaf("h", Type("", "string", <<>>), <<YFeat("and", <<U("f1"), U("f2")>>)>>)>>)>>)

TextM == Mod("m", "urn:m", "m", <<<<"t", "p">>, <<"mnt", "y">>>>, <<Y1("include", "s")>> \o Rev \o
  <<Y0("identity", "fast", <<St("base", <<"p", "eth">>, <<>>)>>),
    Y0("grouping", "g2",
       <<St("uses", <<"p", "g1">>,
            <<YPath("refine", <<U("a")>>, <<Y1("default", "50")>>),
              YPath("refine", <<U("c"), U("d")>>, <<Y1("mandatory", "true")>>),
              YPath("augment", <<U("c")>>, <<Y1("when", "w1"), Leaf("e", Type("p", "pct", <<>>), <<>>)>>)>>)>>),
    Y0("container", "top",
       <<Y1("uses", "g2"), Y1("uses", "g3"),
         Leaf("kind", Type("", "identityref", <<St("base", <<"p", "base">>, <<>>)>>), <<>>),
         Y0("choice", "ch",
            <<Y0("case", "c1", <<Leaf("x1", Type("", "enumeration", <<Y1("enum", "on"), Y1("enum", "low")>>), <<>>)>>),
              Leaf("x2", Type("", "bits", <<Y1("bit", "on")>>), <<YFeat("or", <<<<"p", "f1">>, <<"p", "f2">>>>)>>)>>)>>),
    Y0("list", "dev",
       <<YList("key", <<"name">>), Leaf("name", Type("p", "nm2", <<>>), <<>>),
         Y0("leaf-list", "ll", <<Type("p", "pct", <<>>), Y1("default", "50"), Y1("max-elements", "5")>>),
         [St("unknown", <<"y", "mount-point">>, <<>>) EXCEPT !.list = <<"root">>]>>),
    Y1("rpc", "act")>>)
\* An earlier revision of m, which nothing should pick
TextM0 == Mod("m", "urn:m", "m", <<>>, <<Y1("revision", "2020")>>)

TextS == Y0("submodule", "s",
  <<Y0("belongs-to", "m", <<Y1("prefix", "m")>>), Y0("import", "t", <<Y1("prefix", "q")>>)>> \o Rev \o
  <<Y0("grouping", "g3", <<Leaf("gs", Type("q", "nm", <<>>), <<>>)>>),
    Y0("container", "sub",
       <<St("uses", <<"q", "g1">>, <<Y1("when", "w2"), YPath("refine", <<U("b")>>, <<Y1("default", "0")>>)>>),
         Leaf("z", Type("q", "small", <<>>), <<Y1("config", "false")>>)>>)>>)

TextA == Mod("a", "urn:a", "a", <<<<"m", "m">>, <<"t", "z">>>>, Rev \o
  <<YPath("augment", <<<<"m", "top">>, <<"m", "c">>>>,
      <<Y1("when", "w3"), Leaf("e2", Type("z", "any", <<>>), <<>>),
        Y0("container", "k", <<St("uses", <<"z", "g1">>, <<>>)>>)>>),
    YPath("augment", <<<<"m", "act">>, <<"m", "input">>>>, <<Leaf("arg", Type("z", "pct", <<>>), <<>>)>>),
    YPath("augment", <<<<"m", "top">>, <<"m", "c">>, <<"a", "k">>, <<"a", "c">>>>,
      <<Leaf("deep", Type("", "identityref", <<St("base", <<"z", "eth">>, <<>>)>>), <<>>)>>),
    YPath("deviation", <<<<"m", "dev">>, <<"m", "ll">>>>,
      <<Y0("deviate", "replace", <<Y1("max-elements", "7")>>)>>),
    YPath("deviation", <<<<"m", "top">>, <<"m", "ch">>, <<"m", "c1">>, <<"m", "x1">>>>, <<Y1("deviate", "not-supported")>>),
    YPath("deviation", <<<<"m", "sub">>, <<"m", "z">>>>,
      <<Y0("deviate", "replace", <<Type("z", "pct", <<Ran("50", "max")>>)>>),
        Y0("deviate", "add", <<Y1("mandatory", "true")>>)>>)>>)

TextB == Mod("b", "urn:b", "b", <<<<"a", "a">>, <<"m", "x">>, <<"t", "x2">>>>, Rev \o
  <<Y0("identity", "slow", <<St("base", <<"x", "fast">>, <<>>)>>),
    YPath("augment", <<<<"x", "top">>, <<"x", "c">>, <<"a", "k">>>>,
      <<YFeat("not", <<<<"x2", "f2">>>>), Leaf("bb", Ref(<<UpTo, <<"a", "b">>>>), <<>>)>>)>>)

TextMnt == Mod("mnt", "urn:mount", "mnt", <<>>, Rev \o <<Y0("extension", "mount-point", <<Y1("argument", "label")>>)>>)
TextLib == Mod("ietf-yang-library", "urn:l", "l", <<>>, <<Y1("revision", "2019"),
                 Y0("container", "yl", <<Y1("config", "false"), Leaf("v", Type("", "string", <<>>), <<>>)>>)>>)

Bad(name, imports, body) == Mod(name, "urn:bad", name, imports, Rev \o body)
BadTexts ==
  <<Bad("i1", <<<<"none", "n">>>>, <<>>),
    Bad("i2", <<<<"i2", "n">>>>, <<>>),
    Bad("i3", <<>>, <<Y0("grouping", "g", <<Y0("container", "c", <<Y1("uses", "g")>>)>>)>>),
    Bad("i4", <<>>, <<Y0("list", "l", <<Leaf("x", Type("", "string", <<>>), <<>>)>>)>>),
    Bad("i5", <<>>, <<Leaf("x", Type("", "string", <<>>), <<Y1("default", "0"), Y1("default", "7")>>)>>),
    Bad("i6", <<<<"t", "t">>>>, <<Leaf("x", Type("t", "loc", <<>>), <<>>)>>),
    Bad("i7", <<<<"m", "m">>>>, <<YPath("augment", <<<<"m", "top">>, <<"m", "no">>>>, <<>>)>>),
    Bad("i8", <<>>, <<Leaf("x", Type("", "uint8", <<Ran("0", "300")>>), <<>>)>>),
    Bad("i9", <<>>, <<Leaf("x", Type("", "uint8", <<>>), <<Y1("default", "300")>>)>>)>>

F(name, rev, text) == [name |-> name, rev |-> rev, text |-> text]
MCYDirs ==
  [search |-> <<F("a", "2024", TextA), F("b", "2024", TextB)>>
              \o [k \in DOMAIN BadTexts |-> F(BadTexts[k].arg[2], "2024", BadTexts[k])]
              \o <<F("ietf-yang-library", "2019", TextLib), F("m", "2020", TextM0), F("m", "2024", TextM),
                   F("mnt", "2024", TextMnt), F("s", "2024", TextS), F("t", "2024", TextT)>>,
   dir |-> <<F("b", "", TextB), F("m", "2020", TextM0), F("m", "2024", TextM)>>,
   own |-> <<F("t", "2024", TextT)>>]
MCYDomainDir == [d \in {"", "top", "dev", "own"} |-> IF d = "dev" THEN "own" ELSE "search"]
MCYFeatures == {<<"t", "f1">>}
L(op, name, rev) == [op |-> op, name |-> name, rev |-> rev]
Illegal == {BadTexts[k].arg[2] : k \in DOMAIN BadTexts}
MCYLoads == {L("module", "t", ""), L("module", "m", "2024"), L("file", "a", "2024"), L("module", "b", ""), L("dir", "dir", "")}
            \cup {L("module", i, "") : i \in Illegal}
MCYMountPoints == [dev1 |-> <<"m", "dev">>, dev2 |-> <<"m", "dev">>]
X(name, rev) == [name |-> name, rev |-> rev]
MCYLibs == {[domain |-> "dev", mods |-> <<X("b", "2024"), X("t", "2024")>>],
            [domain |-> "dev", mods |-> <<X("m", "2024"), X("i4", "2024")>>]}
V(num, len, words, pats, ident) == [num |-> num, len |-> len, words |-> words, pats |-> pats, ident |-> ident]
Num(n, len) == V({n}, len, {"0"}, {}, NoName)
MCYVals ==
  [v \in {"0", "1", "2", "5", "7", "50", "100", "300", "on", "low", "a", "t:eth", "m:fast", "b:slow", "2024"} |->
     CASE v = "0" -> Num(0, 1) [] v = "1" -> Num(1, 1) [] v = "2" -> Num(2, 1) [] v = "5" -> Num(5, 1)
       [] v = "7" -> Num(7, 1) [] v = "50" -> Num(50, 2) [] v = "100" -> Num(100, 3) [] v = "300" -> Num(300, 3)
       [] v = "on" -> V({}, 2, {"on"}, {"low"}, NoName)
       [] v = "low" -> V({}, 3, {"low"}, {"low"}, NoName)
       [] v = "a" -> V({}, 1, {"a"}, {"low", "a"}, NoName)
       [] v = "t:eth" -> V({}, 5, {v}, {}, <<"t", "eth">>)
       [] v = "m:fast" -> V({}, 6, {v}, {}, <<"m", "fast">>)
       [] v = "b:slow" -> V({}, 6, {v}, {}, <<"b", "slow">>)
       [] OTHER -> V({2024}, 4, {v}, {}, NoName)]
=============================================================================
