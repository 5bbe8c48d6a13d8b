------------------------------- MODULE MCData --------------------------------
(* Small instances for TLC of the parts of the system that work on          *)
(* configuration data, and of the notification streams.  They share no      *)
(* variable; part says which of them moves, so that one run checks all of   *)
(* them and their state spaces add up.                                      *)
EXTENDS Streams, DatastoreEdit, PrivateCandidate, ValidatedCommit, Nacm, NetconfServer, Frontend,
  RestconfNative, Path

MCKw == [
  top |-> "module", c |-> "container", mode |-> "leaf", d |-> "leaf", ch |-> "choice",
  ca |-> "case", cb |-> "case", a1 |-> "leaf", a2 |-> "leaf", b1 |-> "leaf", ll |-> "leaf-list",
  np |-> "container", e |-> "leaf", l |-> "list", k |-> "leaf", v |-> "leaf", p |-> "container",
  q |-> "leaf", m |-> "container", t |-> "leaf", r |-> "leaf", ml |-> "list", mk |-> "leaf",
  mj |-> "leaf", u |-> "leaf", w |-> "leaf", mc |-> "choice", ma |-> "case", mb |-> "case",
  x1 |-> "leaf", x2 |-> "leaf", y1 |-> "leaf", z |-> "leaf"]
MCSub == [
  top |-> <<"c", "l", "p", "m">>, c |-> <<"mode", "d", "ch", "ll", "np">>, ch |-> <<"ca", "cb">>,
  ca |-> <<"a1", "a2">>, cb |-> <<"b1">>, np |-> <<"e">>, l |-> <<"k", "v">>, p |-> <<"q">>,
  m |-> <<"t", "r", "ml", "mc", "z">>, ml |-> <<"mk", "mj", "u", "w">>, mc |-> <<"ma", "mb">>,
  ma |-> <<"x1", "x2">>, mb |-> <<"y1">>]
MCDflt == [mode |-> <<1>>, d |-> <<2>>, b1 |-> <<2>>, e |-> <<2>>, v |-> <<2>>]
MCKeys == [l |-> <<"k">>, ml |-> <<"mk", "mj">>]
MCWhen == [d |-> [up |-> 1, p |-> <<"mode">>, eq |-> 1], w |-> [up |-> 3, p |-> <<"l">>, eq |-> None]]
MCMust == [ml |-> [up |-> 1, p |-> <<"t">>, eq |-> 1], u |-> [up |-> 1, p |-> <<"w">>, eq |-> None]]
OneAt(f, s) == IF s \in DOMAIN f THEN <<f[s]>> ELSE <<>>
AllAt(f, s) == FlattenSeq(OneAt(f, s))
MCY == [s \in DOMAIN MCKw |->
  [parent |-> IF s = "top" THEN "" ELSE CHOOSE y \in DOMAIN MCSub : Contains(MCSub[y], s),
   sub |-> AllAt(MCSub, s), keys |-> AllAt(MCKeys, s), user |-> s = "ll", dflt |-> AllAt(MCDflt, s),
   dcase |-> IF s = "ch" THEN "cb" ELSE "", presence |-> s = "p", mandatory |-> s \in {"t", "x1"},
   min |-> 0, max |-> IF s = "ml" THEN 2 ELSE 0, unique |-> IF s = "ml" THEN <<"u">> ELSE <<>>,
   when |-> OneAt(MCWhen, s), awhen |-> <<>>, must |-> OneAt(MCMust, s),
   path |-> IF s = "r" THEN <<[up |-> 2, p |-> <<"l", "k">>, eq |-> None]>> ELSE <<>>,
   type |-> IF s = "t" THEN {1, 2} ELSE {}]]
MCYOrder == [
  c |-> 0, l |-> 1, p |-> 2, mode |-> 0, d |-> 1, a1 |-> 2, a2 |-> 3,
  b1 |-> 2, ll |-> 5, np |-> 6, e |-> 0, k |-> 0, v |-> 1, q |-> 0,
  m |-> 3, t |-> 0, r |-> 1, ml |-> 2, mk |-> 0, mj |-> 1, u |-> 2, w |-> 3, x1 |-> 3, x2 |-> 4, y1 |-> 3, z |-> 6]
InC(x) == Edit("top", None, <<Edit("c", None, <<x>>, "")>>, "")
AtTop(x) == Edit("top", None, <<x>>, "")
Key(v) == Edit("k", v, <<>>, "")
MCEdits ==
  {InC(Edit("mode", 2, <<>>, "merge")), InC(Edit("a1", 1, <<>>, "merge")),
   InC(Edit("a2", 1, <<>>, "create")), InC(Edit("a2", None, <<>>, "delete")),
   InC(Edit("b1", 1, <<>>, "merge")), InC(Edit("b1", None, <<>>, "remove")),
   InC([Edit("ll", 2, <<>>, "merge") EXCEPT !.ins = "first"]),
   InC([Edit("ll", 3, <<>>, "merge") EXCEPT !.ins = "after", !.at = 1]),
   InC(Edit("ll", 1, <<>>, "merge")), InC(Edit("ll", 1, <<>>, "remove")),
   AtTop(Edit("l", None, <<Key(1), Edit("v", 1, <<>>, "merge")>>, "")),
   AtTop(Edit("l", None, <<Key(1)>>, "delete")), AtTop(Edit("l", None, <<Key(2)>>, "create")),
   AtTop(Edit("p", None, <<>>, "create")), AtTop(Edit("p", None, <<>>, "delete")),
   AtTop(Edit("p", None, <<Edit("q", 1, <<>>, "merge")>>, "")),
   AtTop(Edit("c", None, <<>>, "delete"))}
MCOps == {"merge", "none"}
Lf(y, b) == Xml(y, b, <<>>)
MCFiles ==
  {Xml("top", None, c) : c \in
    {<<>>,
     <<Xml("c", None, <<Lf("a1", 1), Lf("ll", 2), Lf("ll", 3)>>), Xml("l", None, <<Lf("k", 1), Lf("v", 1)>>), Xml("l", None, <<Lf("k", 2)>>)>>,
     <<Xml("c", None, <<Lf("mode", 2), Lf("b1", 1), Lf("ll", 1)>>), Xml("l", None, <<Lf("k", 2)>>), Xml("p", None, <<Lf("q", 2)>>)>>}}

MCPEdits ==
  {InC(Edit("mode", 2, <<>>, "merge")),
   AtTop(Edit("l", None, <<Key(1), Edit("v", 1, <<>>, "merge")>>, "")),
   AtTop(Edit("l", None, <<Key(2)>>, "remove")), AtTop(Edit("l", None, <<Key(3)>>, "create")),
   AtTop(Edit("p", None, <<Edit("q", 1, <<>>, "merge")>>, ""))}
MCRun ==
  {Xml("top", None, c) : c \in
    {
     <<Xml("c", None, <<Lf("mode", 3), Lf("ll", 2)>>), Xml("l", None, <<Lf("k", 2), Lf("v", 2)>>), Xml("p", None, <<Lf("q", 2)>>)>>}}
InM(c) == AtTop(Edit("m", None, c, ""))
Ml(k, j, c) == Edit("ml", None, <<Edit("mk", k, <<>>, ""), Edit("mj", j, <<>>, "")>> \o c, "")
Ed(y, b) == Edit(y, b, <<>>, "merge")
Rm(y) == Edit(y, None, <<>>, "remove")
MCVEdits ==
  {InM(<<Ed("t", 2)>>), InM(<<Ed("t", 3)>>), InM(<<Rm("t")>>), InM(<<Ed("r", 2)>>),
   InM(<<Ml(1, 1, <<Rm("w")>>)>>), InM(<<Ml(1, 2, <<Rm("w")>>)>>),
   InM(<<Ml(2, 1, <<Ed("u", 1), Ed("w", 1)>>)>>), InM(<<Ml(1, 1, <<Rm("u")>>), Ml(2, 1, <<>>), Ml(2, 1, <<>>)>>),
   InM(<<Edit("ml", None, <<Edit("mk", 1, <<>>, ""), Edit("mj", 2, <<>>, "")>>, "remove")>>),
   InM(<<Edit("ml", None, <<Edit("mk", 2, <<>>, "")>>, "")>>),
   InM(<<Ed("x2", 1)>>), InM(<<Ed("x1", 1)>>), InM(<<Rm("x1")>>), InM(<<Ed("y1", 1)>>), InM(<<Ed("z", 1)>>),
   AtTop(Edit("l", None, <<Key(1)>>, "remove")), AtTop(Edit("l", None, <<Key(2)>>, ""))}
MCVRun ==
  {Xml("top", None, c) : c \in
    {<<Xml("l", None, <<Lf("k", 1)>>),
       Xml("m", None, <<Lf("t", 1), Lf("r", 1),
         Xml("ml", None, <<Lf("mk", 1), Lf("mj", 1), Lf("u", 1), Lf("w", 1)>>),
         Xml("ml", None, <<Lf("mk", 1), Lf("mj", 2), Lf("u", 2), Lf("w", 1)>>), Lf("x1", 1)>>)>>,
     <<Xml("l", None, <<Lf("k", 2)>>)>>}}
Rule(module, what, arg, ops, action) ==
  [module |-> module, what |-> what, arg |-> arg, ops |-> ops, action |-> action]
MCRules ==
  {Rule("*", "path", <<<<"l", 1>>>>, {"*"}, "permit"), Rule("*", "path", <<<<"l", None>>>>, {"read"}, "deny"),
   Rule("m1", "path", <<<<"l", None>>, <<"v", None>>>>, {"read"}, "permit"),
   Rule("m2", "", <<>>, {"*"}, "deny"), Rule("m1", "", <<>>, {"read", "update"}, "permit"),
   Rule("*", "rpc", "edit-config", {"exec"}, "deny"), Rule("nc", "", <<>>, {"exec"}, "permit"),
   Rule("m1", "path", <<<<"c", None>>, <<"mode", None>>>>, {"write"}, "deny")}
MCNacm ==
  {[mode |-> "internal", present |-> TRUE, enable |-> TRUE, read |-> d, write |-> d, exec |-> "permit", external |-> TRUE,
    groups |-> [g1 |-> {"u1"}, g2 |-> {}],
    lists |-> <<[groups |-> {"g1"}, rules |-> <<r1>>], [groups |-> {g}, rules |-> <<r2>>]>>] :
     d \in {"permit", "deny"}, r1 \in MCRules, r2 \in MCRules, g \in {"g1", "g2"}}
MCNTrees == {Xml("top", None,
     <<Xml("c", None, <<Lf("mode", 1), Lf("ll", 1)>>), Xml("l", None, <<Lf("k", 1), Lf("v", 1)>>),
       Xml("l", None, <<Lf("k", 2)>>), Xml("p", None, <<Lf("q", 1)>>)>>)}
MCNModule == [y \in DOMAIN MCKw |-> IF y = "q" THEN "m2" ELSE "m1"]
MCOsGroups == [u1 |-> {"g2"}, admin |-> {}]
Msg(id, op, body) ==
  [id |-> id, name |-> "rpc", ns |-> TRUE, op |-> op, body |-> body, valid |-> TRUE, reply |-> "ok", filter |-> "none",
   opts |-> "", known |-> "backend", caps |-> {}, session_id |-> FALSE]
Hello(id, caps, body) == [Msg(id, "", body) EXCEPT !.name = "hello", !.caps = caps]
H11 == Hello("h11", {10, 11}, <<"]", "]", "]", "h">>)
H10 == Hello("h10", {10}, <<"]", "]", ">", "i">>)
Lock == Msg("lock", "lock", <<"l", "]", "]", ">", "x">>)
Get == [Msg("get", "get", <<"g", "#", "nl">>) EXCEPT !.filter = "subtree", !.reply = "data"]
GetXpath == [Msg("getx", "get-config", <<"g", "x">>) EXCEPT !.filter = "xpath"]
GetBad == [Msg("getb", "get", <<"g", "b">>) EXCEPT !.filter = "other"]
EditC == Msg("edit", "edit-config", <<"e">>)
EditBad == [EditC EXCEPT !.id = "editb", !.body = <<"e", "b">>, !.opts = "invalid"]
EditOther == [EditC EXCEPT !.id = "edito", !.body = <<"e", "o">>, !.opts = "other"]
Close == Msg("close", "close-session", <<"c">>)
Subscribe == Msg("sub", "create-subscription", <<"s">>)
SubscribeBad == [Subscribe EXCEPT !.id = "subb", !.body = <<"s", "b">>, !.filter = "subtree"]
App == Msg("app", "example", <<"a">>)
AppLocal == [App EXCEPT !.id = "appl", !.body = <<"a", "l">>, !.known = "local"]
AppBad == [App EXCEPT !.id = "appb", !.body = <<"a", "b">>, !.known = "no"]
Invalid == [Msg("inv", "lock", <<"v">>) EXCEPT !.valid = FALSE]
NoNs == [Msg("nons", "lock", <<"n">>) EXCEPT !.ns = FALSE]
Other == [Msg("other", "", <<"o">>) EXCEPT !.name = "other"]
MCMessages == {H11, H10, Lock, Get, GetXpath, GetBad, EditC, EditBad, EditOther, Close, Subscribe, SubscribeBad, App,
               AppLocal, AppBad, Invalid, NoNs, Other}
InEom(m) == [m |-> m, framing |-> "eom", chunks |-> <<>>]
Chunk(m) == [m |-> m, framing |-> "chunked", chunks |-> <<Len(m.body)>>]
Chunks(m) == [m |-> m, framing |-> "chunked", chunks |-> <<1, Len(m.body) - 1>>]
Junk == [Msg("junk", "", <<"j", "]", ">">>) EXCEPT !.name = "junk"]
MCScripts ==
  {<<InEom(H11), Chunks(Lock), Chunks(Get), Chunk(Close), Chunk(EditC)>>,
   <<InEom(H11), Chunk(Junk), Chunk(Subscribe), Chunk(SubscribeBad), Chunk(Other), Chunk(Lock)>>,
   <<InEom(H11), Chunk(GetXpath), Chunk(GetBad), Chunk(EditC), Chunk(EditBad), Chunk(EditOther)>>,
   <<InEom(H10), InEom(Lock), InEom(Invalid), InEom(NoNs), InEom(App), InEom(AppLocal), InEom(AppBad), InEom(Close)>>,
   <<InEom(Lock), InEom(H11)>>, <<InEom(Hello("x", {}, <<"x">>))>>}
MCSockets ==
  [listen |-> [ssl |-> FALSE, callhome |-> FALSE, periodic |-> FALSE, idle |-> FALSE, max |-> 0],
   home |-> [ssl |-> TRUE, callhome |-> TRUE, periodic |-> TRUE, idle |-> TRUE, max |-> 2]]

------------------------------------------------------------------------------
(* The operations of the small instance of Frontend: for each front-end,     *)
(* the good ones on nodes that commit, do not validate or are refused by a   *)
(* plugin, and one for every fault an operation can have.                    *)
MCNodes == {"a", "bad", "picky", "row", "col"}
MCBelow == [n \in MCNodes |-> IF n = "row" THEN {"col"} ELSE {}]
MCConfigs == {{}, {"a"}}

Http(method, res, node) ==
  [fn |-> "restconf", method |-> method, res |-> res, ds |-> "none", node |-> node, media |-> "json", fault |-> "none"]
With(q, faults) == {[q EXCEPT !.fault = f] : f \in faults}
In(q, dss) == {[q EXCEPT !.ds = d] : d \in dss}
Writes == {"POST", "PUT", "PATCH", "DELETE"}
MCRestconf ==
  {Http(m, "data", n) : m \in Writes, n \in {"a", "bad", "picky"}}
  \cup {Http(m, r, "a") : m \in {"GET", "HEAD"}, r \in {"data", "top", "list", "root", "yang-library-version", "well-known"}}
  \cup {Http(m, "data", "a") : m \in {"OPTIONS", "TRACE"}}
  \cup UNION {In(Http(m, "data", "a"), {"running", "candidate", "operational", "other"}) : m \in Writes \cup {"GET"}}
  \cup UNION {With(Http(m, "data", "a"), {"path", "empty", "parse", "name", "keys", "point"}) : m \in Writes}
  \cup {[Http("PATCH", "data", "a") EXCEPT !.media = x] : x \in {"patch-json", "text"}}
  \cup {[Http("PUT", "data", "a") EXCEPT !.media = "text"], [Http("GET", "data", "a") EXCEPT !.media = "pagination"]}
  \cup With(Http("GET", "data", "a"), {"path", "content", "accept", "auth"})
  \cup With(Http("GET", "list", "a"), {"not-list", "limit", "where"})
  \cup With(Http("POST", "operations", "a"), {"none", "noname", "norpc", "empty", "parse", "input", "bind", "local"})
  \cup {[Http("POST", "operations", "a") EXCEPT !.media = x, !.fault = f] : x \in {"xml", "text"}, f \in {"none", "many"}}
  \cup {Http(m, "operations", "a") : m \in {"GET", "PUT"}}
  \cup With(Http("GET", "file", "a"), {"none", "missing-dir", "tilde", "outside", "accept", "resized", "not-data", "query", "auth"})
  \cup {Http("POST", "file", "a"), Http("OPTIONS", "file", "a"), Http("PUT", "root", "a"), Http("GET", "other", "a")}

Vb(obj, val) == [obj |-> obj, val |-> val]
SnmpOp(mode, vbs) == [fn |-> "snmp", mode |-> mode, vbs |-> vbs, old |-> FALSE]
MCSnmp ==
  {SnmpOp("set", <<Vb("scalar", n)>>) : n \in {"a", "bad", "picky", "mistyped"}}
  \cup {SnmpOp("set", <<Vb("scalar", "a"), Vb("scalar", "bad")>>), SnmpOp("set", <<Vb("scalar", "a"), Vb("ronly", "a")>>)}
  \cup {SnmpOp("set", <<Vb("rowstatus", v)>>) : v \in {"createAndGo", "createAndWait", "active", "destroy"}}
  \cup {SnmpOp("set", <<Vb("rowstatus", "createAndWait"), Vb("column", "x")>>)}
  \cup {SnmpOp("set", <<Vb(o, "x")>>) : o \in {"column", "rocolumn", "nocolumn"}}
  \cup {SnmpOp("get", <<Vb("scalar", "a"), Vb(o, "x")>>) : o \in {"rowstatus", "column", "nocolumn"}}
  \cup {SnmpOp("getnext", <<Vb("column", "x")>>)}
MCFollowUps ==
  {SnmpOp("set", <<Vb("column", "x")>>), SnmpOp("set", <<Vb("column", "mistyped")>>), SnmpOp("set", <<Vb("rowstatus", "active")>>),
   SnmpOp("set", <<Vb("rowstatus", "destroy")>>), SnmpOp("get", <<Vb("rowstatus", "x"), Vb("column", "x")>>),
   SnmpOp("getnext", <<Vb("column", "x")>>), [SnmpOp("getnext", <<Vb("column", "x")>>) EXCEPT !.old = TRUE]}

Gn(node, value) == [node |-> node, value |-> value]
Grpc(path, deletes, replaces, updates, paths) ==
  [fn |-> "gnmi", path |-> path, deletes |-> deletes, replaces |-> replaces, updates |-> updates, paths |-> paths, fault |-> "none"]
GnSet(d, r, u) == Grpc("Set", d, r, u, <<>>)
MCGnmi ==
  {GnSet(<<>>, <<>>, <<Gn(n, v)>>) : n \in {"a", "bad", "picky"}, v \in {"x", "none", "badname"}}
  \cup {GnSet(<<Gn("a", "x")>>, <<Gn("row", "x")>>, <<Gn("col", "x")>>), GnSet(<<Gn("a", "x")>>, <<Gn("bad", "x")>>, <<Gn("col", "x")>>),
        GnSet(<<Gn("a", "x")>>, <<>>, <<Gn("col", "badname")>>)}
  \cup {Grpc(p, <<>>, <<>>, <<>>, gs) : p \in {"Get", "Subscribe"}, gs \in {<<>>, <<Gn("a", "x"), Gn("a", "badname")>>}}
  \cup {[Grpc(p, <<>>, <<>>, <<>>, <<>>) EXCEPT !.fault = f] : p \in {"Get", "Set", "Subscribe"}, f \in {"unpack", "stream"}}
  \cup {Grpc(p, <<>>, <<>>, <<>>, <<>>) : p \in {"Capabilities", "Other"}}

Cmd(cmd, node, db, fault) == [fn |-> "cli", cmd |-> cmd, node |-> node, db |-> db, fault |-> fault]
MCCli ==
  {Cmd(x, "a", "running", "none") : x \in
     {"set", "merge", "create", "remove", "delete", "load", "save", "commit", "validate", "discard", "update", "lock", "unlock", "kill",
      "compare", "show", "show-xpath", "show-auto", "info", "complete", "sessions", "page", "statistics", "debug", "debug-restconf",
      "restart", "process", "ping", "cache", "notify", "exit", "quit"}}
  \cup {Cmd("delete-all", "a", "candidate", "none"), Cmd("copy", "a", "startup", "none"), Cmd("copy-key", "row", "candidate", "none")}
  \cup {Cmd("commit", "a", "running", "confirmed"), Cmd("set", "a", "running", "path"), Cmd("show", "a", "running", "state"),
        Cmd("show", "a", "running", "text"), Cmd("kill", "a", "running", "zero"), Cmd("debug-restconf", "bad", "running", "none"),
        Cmd("page", "bad", "running", "none")}

MCRequests == MCRestconf \cup MCSnmp \cup MCGnmi \cup MCCli

------------------------------------------------------------------------------
(* Trees, XPath expressions and namespace contexts for XPath and Path        *)
XLeaf(y, b) == Xml(y, b, <<>>)
XMl(k, j, c) == Xml("ml", None, <<XLeaf("mk", k), XLeaf("mj", j)>> \o c)
MCXpTrees ==
  {Xml("top", None,
     <<Xml("c", None, <<XLeaf("mode", 2), XLeaf("ll", 2), XLeaf("ll", 1), Xml("np", None, <<XLeaf("e", 2)>>)>>),
       Xml("l", None, <<XLeaf("k", 1), XLeaf("v", 1)>>), Xml("l", None, <<XLeaf("k", 2), XLeaf("v", 3)>>),
       Xml("p", None, <<XLeaf("q", 1)>>),
       Xml("m", None, <<XLeaf("t", 1), XLeaf("r", 2), XMl(1, 1, <<XLeaf("u", 1)>>), XMl(1, 2, <<XLeaf("u", 2), XLeaf("w", 1)>>),
                        XMl(2, 1, <<>>), XLeaf("x1", 2)>>)>>),
   Xml("top", None, <<Xml("l", None, <<XLeaf("k", 12)>>), Xml("m", None, <<XMl(2, 1, <<XLeaf("u", 2)>>)>>)>>),
   Xml("top", None,
     <<Xml("c", None, <<XLeaf("a1", 1), XLeaf("ll", Pct), XLeaf("ll", Slash)>>), Xml("l", None, <<XLeaf("k", Colon), XLeaf("v", 1)>>),
       Xml("l", None, <<XLeaf("k", Pct)>>), Xml("m", None, <<XMl(1, Slash, <<>>), XMl(Eq, Comma, <<XLeaf("u", 1)>>), XLeaf("y1", 1)>>)>>)}

S(n) == ChildStep("a", n, <<>>)
SP(n, preds) == ChildStep("a", n, preds)
SQ == ChildStep("b", "q", <<>>)
Axis(ax, n) == [S(n) EXCEPT !.axis = ax]
Up == [ChildStep("", "*", <<>>) EXCEPT !.axis = "parent"]
Rel1(n) == XPathOf("", <<S(n)>>)
XR(steps) == XPathOf("", steps)
XA(steps) == XPathOf("/", steps)
XD(steps) == XPathOf("//", steps)
Nr(i) == [k |-> "nr", i |-> i]
Bin(a, op, b) == [k |-> "bin", op |-> op, a |-> a, b |-> b]
Fn(f, args) == [k |-> "fn", fn |-> f, args |-> args]
Current(steps) == [k |-> "filter", a |-> Fn("current", <<>>), steps |-> steps]
Is(n, e) == Bin(Rel1(n), "=", e)
S1(b) == Str(<<b>>)
MCXpExprs ==
  {XA(<<S("m"), SP("ml", <<Is("mk", S1(1)), Is("mj", S1(2))>>), S("u")>>),
   XA(<<S("m"), SP("ml", <<Is("mj", S1(2)), Is("mk", S1(1))>>), S("u")>>),
   XA(<<S("m"), SP("ml", <<Is("mk", S1(1))>>), S("mj")>>),
   XA(<<S("m"), SP("ml", <<Bin(Is("mk", S1(1)), "and", Is("mj", Nr(2)))>>)>>),
   XA(<<S("m"), SP("ml", <<Is("mk", Nr(2)), Is("mj", Current(<<>>))>>)>>),
   XA(<<S("m"), SP("ml", <<Is("mk", S1(1)), Bin(Rel1("mj"), "!=", S1(2))>>)>>),
   XA(<<S("m"), SP("ml", <<Rel1("u")>>), S("mk")>>), XA(<<S("m"), SP("ml", <<Fn("not", <<Rel1("u")>>)>>)>>),
   XA(<<SP("l", <<Is("k", S1(2))>>), S("v")>>), XA(<<SP("l", <<Is("k", Current(<<Up, S("r")>>))>>), S("v")>>),
   XA(<<SP("l", <<Is("v", XA(<<S("c"), S("ll")>>))>>)>>), XA(<<SP("l", <<Nr(1)>>)>>),
   XA(<<SP("l", <<Is("k", Fn("position", <<>>))>>)>>), XA(<<>>), XA(<<S("*"), S("*")>>), XA(<<S("c"), SP("ll", <<Equals(Self, <<2>>)>>)>>),
   XA(<<S("p"), SQ>>), XA(<<S("p"), S("q")>>), XD(<<S("k")>>), XD(<<SP("ml", <<Is("mj", S1(1))>>), S("u")>>),
   XR(<<Up, Up, S("l"), S("k")>>), XR(<<Up, S("mk")>>), XR(<<S("m"), Axis("descendant", "mk")>>),
   XR(<<Axis("descendant-or-self", "u")>>), XR(<<Axis("following", "u")>>), XR(<<S("l"), S("text()")>>),
   XR(<<S("m"), [S("u") EXCEPT !.desc = TRUE]>>), XR(<<ChildStep("", "l", <<>>), ChildStep("", "k", <<>>)>>),
   XR(<<S("ml"), S("mk")>>), Current(<<>>), Current(<<Up, S("t")>>),
   Bin(XR(<<S("m"), S("t")>>), "=", XR(<<S("l"), S("k")>>)), Bin(XR(<<S("m"), S("t")>>), "<", XR(<<S("l"), S("k")>>)),
   Bin(XR(<<S("m"), S("t")>>), ">=", Nr(1)), Bin(Nr(2), "<", XR(<<S("l"), S("v")>>)),
   Bin(Is("t", Nr(1)), "or", Fn("not", <<Rel1("r")>>)), Bin(XA(<<S("l"), S("k")>>), "=", Rel1("t")),
   Bin(Rel1("c"), "|", Rel1("l")), Bin(Fn("true", <<>>), "=", Fn("false", <<>>)), Bin(Rel1("t"), "=", Fn("true", <<>>)),
   Bin(Fn("count", <<Rel1("l")>>), "+", Nr(1)), Bin(Nr(3), "mod", Fn("number", <<S1(2)>>)), Bin(S1(2), ">", S1(1)),
   Fn("boolean", <<Fn("string", <<Rel1("t")>>)>>), Fn("local-name", <<Rel1("m")>>), Fn("deref", <<Current(<<>>)>>),
   Fn("concat", <<Rel1("t"), Str(<<1, 2>>)>>), Fn("contains", <<Str(<<1, 2, 3>>), Str(<<2, 3>>)>>),
   Fn("starts-with", <<Str(<<1, 2, 3>>), Str(<<1, 2>>)>>),
   Fn("substring-before", <<Str(<<1, 2, 3>>), S1(2)>>), Fn("substring-after", <<Str(<<1, 2, 3>>), S1(2)>>),
   Fn("substring", <<Str(<<1, 2, 3>>), Nr(2)>>), Fn("substring", <<Str(<<1, 2, 3>>), Nr(0), Nr(2)>>),
   Fn("string-length", <<Str(<<1, 2>>)>>), Fn("translate", <<Str(<<1, 2, 3>>), Str(<<1, 3>>), S1(4)>>),
   Fn("bit-is-set", <<Rel1("t"), S1(1)>>), Fn("string", <<Fn("count", <<Rel1("l")>>)>>), Bin(Rel1("t"), "-", S1(1))}
MCXpContexts == {[a |-> "m1", b |-> "m2"], [a |-> "m2", b |-> "m1"],
                 [pre \in {"", "a"} |-> IF pre = "" THEN "m1" ELSE "m2"]}
MCXpPrefix == [m1 |-> "p1", m2 |-> "p2"]
MCXpName == [a1 |-> 128, d |-> 129, a2 |-> 130, b1 |-> 131,
  top |-> 101, c |-> 102, mode |-> 103, ll |-> 104, np |-> 105, e |-> 106, l |-> 107, k |-> 108, v |-> 109, p |-> 110, q |-> 111, m |-> 112, t |-> 113, r |-> 114,
  ml |-> 115, mk |-> 116, mj |-> 117, u |-> 118, w |-> 119, x1 |-> 120, x2 |-> 121, y1 |-> 122, z |-> 123, m1 |-> 124, m2 |-> 125] @@ ("true" :> 126 @@ "false" :> 127)

Sym == Permutations(Sessions)

------------------------------------------------------------------------------
VARIABLE part

dataVars == <<streamVars, editVars, privVars, valVars, callVars, ncVars, frontVars, rn, part>>

EditRests == tree = NoXml /\ file = NoXml /\ caches = NoXml /\ edit = NoEdit
PrivRests == running = NoXml /\ priv = NoXml /\ privNr = 0
NcRests == wire = <<>> /\ script = <<>> /\ nsent = 0 /\ ns = NoSession /\ nwire = <<>> /\ noted = <<>>
ValRests == vrun = NoXml /\ vcand = NoXml /\ vnr = 0

Init ==
  /\ part \in {"streams", "edit", "private", "validate", "netconf", "call", "front", "native"}
  /\ StreamInit
  /\ CallInit
  /\ IF part = "edit" THEN EditInit ELSE EditRests
  /\ IF part = "private" THEN PrivInit ELSE PrivRests
  /\ IF part = "validate" THEN ValInit ELSE ValRests
  /\ IF part = "netconf" THEN NcInit ELSE NcRests
  /\ IF part = "front" THEN FrontInit(MCConfigs) ELSE FrontRests
  /\ IF part = "native" THEN RnInit ELSE RnRests

Next ==
  \/ part = "streams" /\ StreamNext /\ UNCHANGED <<editVars, privVars, valVars, callVars, ncVars, frontVars, rn, part>>
  \/ part = "edit" /\ EditNext /\ UNCHANGED <<streamVars, privVars, valVars, callVars, ncVars, frontVars, rn, part>>
  \/ part = "private" /\ PrivNext /\ UNCHANGED <<streamVars, editVars, valVars, callVars, ncVars, frontVars, rn, part>>
  \/ part = "validate" /\ ValNext /\ UNCHANGED <<streamVars, editVars, privVars, callVars, ncVars, frontVars, rn, part>>
  \/ part = "call" /\ call = NoCall /\ (NacmNext \/ XPathNext \/ PathNext)
     /\ UNCHANGED <<streamVars, editVars, privVars, valVars, ncVars, frontVars, rn, part>>
  \/ part = "netconf" /\ NcNext /\ UNCHANGED <<streamVars, editVars, privVars, valVars, callVars, frontVars, rn, part>>
  \/ part = "front" /\ FrontNext /\ UNCHANGED <<streamVars, editVars, privVars, valVars, callVars, ncVars, rn, part>>
  \/ part = "native" /\ RnNext /\ UNCHANGED <<streamVars, editVars, privVars, valVars, callVars, ncVars, frontVars, part>>

Spec == Init /\ [][Next]_dataVars
==============================================================================
