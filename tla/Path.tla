-------------------------------- MODULE Path --------------------------------
(* Paths to nodes (lib/src/clixon_path.c): the api-path of RESTCONF and of  *)
(* the CLI, formats of api-paths with a place for each key, and instance    *)
(* identifiers; how they are made of nodes and of the schema, turned into   *)
(* XPaths and trees, and searched.                                          *)
(*                                                                          *)
(* An api-path is a sequence of symbols as in XPath: names, those of        *)
(* modules and the separators below.  The body of a leaf may be any symbol. *)
EXTENDS XPath

Slash == 201
Colon == 202
Eq == 203
Comma == 204
Pct == 205
Here == 206   \* "%s" of a format
Hex == 1000   \* two hexadecimal digits of the symbol below

------------------------------------------------------------------------------
(* Strings (lib/src/clixon_string.c) *)

uri_unreserved(x) == x \notin {Slash, Colon, Eq, Comma, Pct, Here, sq, dq}
uri_percent_encode(s) == FlattenSeq(Map(LAMBDA x : IF uri_unreserved(x) THEN <<x>> ELSE <<Pct, Hex + x>>, s))

uri_percent_decode(s) ==
    LET Escaped(i) == s[i] = Pct /\ i < Len(s) /\ s[i + 1] >= Hex
    IN FlattenSeq([i \in DOMAIN s |-> IF Escaped(i) THEN <<s[i + 1] - Hex>>
                                      ELSE IF i > 1 /\ Escaped(i - 1) THEN <<>> ELSE <<s[i]>>] \o <<>>)

(* clixon_strsep1: the strings between separators *)
clixon_strsep1(s, sep) ==
    FoldLeft(LAMBDA w, x : IF x = sep THEN Append(w, <<>>) ELSE [w EXCEPT ![Len(w)] = Append(@, x)], <<<<>>>>, s)

(* What is before and after the first of a symbol *)
Cut(s, x) ==
    LET i == strstr(s, <<x>>)
    IN IF i = 0 THEN [has |-> FALSE, a |-> s, b |-> <<>>]
       ELSE [has |-> TRUE, a |-> SubSeq(s, 1, i - 1), b |-> SubSeq(s, i + 1, Len(s))]

(* The module and node of an identifier; "": there is none *)
Named(names, s) ==
    IF \E n \in names : <<XpName[n]>> = s THEN CHOOSE n \in names : <<XpName[n]>> = s ELSE ""
nodeid_split(s) ==
    LET c == Cut(s, Colon)
    IN [pre |-> IF c.has THEN c.a ELSE <<>>,
        module |-> IF c.has THEN Named(DOMAIN XpPrefix, c.a) ELSE "",
        name |-> Named({n \in DOMAIN Y : Kw[n] \notin {"choice", "case"}}, IF c.has THEN c.b ELSE s)]
Element(s) == [id |-> nodeid_split(Cut(s, Eq).a), has |-> Cut(s, Eq).has, val |-> Cut(s, Eq).b]
uri_str2cvec(s) == Map(Element, SelectSeq(clixon_strsep1(s, Slash), LAMBDA e : e # <<>>))

------------------------------------------------------------------------------
(* Of nodes and of the schema *)

KeyVals(x) ==
    CASE Kw[x.y] = "list" -> Map(LAMBDA k : KeyVal(x, k), Y[x.y].keys)
      [] Kw[x.y] = "leaf-list" -> <<x.b>>
      [] OTHER -> <<>>
Values(vals) ==
    FlattenSeq([i \in DOMAIN vals |-> <<IF i = 1 THEN Eq ELSE Comma>> \o uri_percent_encode(<<vals[i]>>)] \o <<>>)

xml2api_path1(x, root) ==
    <<Slash>> \o (IF root THEN <<XpName[XpModule[x.y]], Colon>> ELSE <<>>) \o <<XpName[x.y]>> \o Values(KeyVals(x))

(* Mutant: the module is only written at the top *)
xml2api_path_top(xt, p) ==
    LET xs == OnPath(xt, p)
    IN FlattenSeq([i \in DOMAIN xs |-> xml2api_path1(xs[i], i = 1)] \o <<>>)

xml2api_path(xt, p) ==
    LET xs == OnPath(xt, p)
    IN FlattenSeq([i \in DOMAIN xs |->
         xml2api_path1(xs[i], IF i = 1 THEN TRUE ELSE XpModule[xs[i].y] # XpModule[xs[i - 1].y])] \o <<>>)

(* yang2api_path_fmt: with the name of a leaf that is a key, or without *)
InSchema(y) == Kw[y] \notin {"choice", "case"}
FmtName(y, inclkey) ==
    IF ~InSchema(y) \/ (~inclkey /\ Contains(Y[Y[y].parent].keys, y)) THEN <<>> ELSE <<XpName[y]>>
FmtKeys(n) == FlattenSeq([i \in 1..n |-> <<IF i = 1 THEN Eq ELSE Comma, Here>>] \o <<>>)
FmtOwn(y, inclkey) ==
    FmtName(y, inclkey) \o FmtKeys(CASE Kw[y] = "list" -> Len(Y[y].keys) [] Kw[y] = "leaf-list" -> 1 [] OTHER -> 0)

RECURSIVE yang2api_path_fmt(_, _)
yang2api_path_fmt(y, inclkey) ==
    LET yp == Y[y].parent
    IN (IF yp = Top THEN <<Slash, XpName[XpModule[y]], Colon>>
        ELSE yang2api_path_fmt(yp, TRUE) \o (IF InSchema(yp) THEN <<Slash>> ELSE <<>>)
             \o (IF XpModule[y] # XpModule[yp] THEN <<XpName[XpModule[y]], Colon>> ELSE <<>>))
       \o FmtOwn(y, inclkey)

(* api_path_fmt2api_path: the values in their places.  When there are no    *)
(* more, the places that are left go, with the separator before them.       *)
FmtStep(fmt, vals, w, i) ==
    LET x == fmt[i]
        out == w.j > Len(vals)
    IN CASE x = Here -> IF out THEN w
                        ELSE [w EXCEPT !.j = @ + 1,
                                       !.s = @ \o (IF w.enc THEN uri_percent_encode(<<vals[w.j]>>) ELSE <<vals[w.j]>>)]
         [] x \in {Eq, Comma} /\ out /\ Symbol(fmt, i + 1) = Here -> w
         [] OTHER -> [w EXCEPT !.s = Append(@, x), !.enc = CASE x = Eq -> TRUE [] x = Slash -> FALSE [] OTHER -> @]
api_path_fmt2api_path(fmt, vals) ==
    FoldLeft(LAMBDA w, i : FmtStep(fmt, vals, w, i), [j |-> 1, s |-> <<>>, enc |-> FALSE], Indices(fmt)).s

------------------------------------------------------------------------------
(* An api-path as XPath, as a tree, and searched *)

LiteralExpr(s) ==
    LET ps == xpath_literal_encode(s)
    IN IF Len(ps) = 1 THEN Str(ps[1].s)
       ELSE [k |-> "fn", fn |-> "concat", args |-> Map(LAMBDA x : Str(x.s), ps)]
EqualsLiteral(e, s) == [k |-> "bin", op |-> "=", a |-> e, b |-> LiteralExpr(s)]

(* api_path2xpath_cvv: one element.  A namespace that a prefix gives stays  *)
(* until the next prefix; fewer values than keys are accepted.              *)
ElementPreds(el, y, pre) ==
    LET vals == Map(uri_percent_decode, clixon_strsep1(el.val, Comma))
        n == Least(Len(vals), Len(Y[y].keys))
    IN CASE el.has /\ Kw[y] = "list" ->
              [i \in 1..n |-> EqualsLiteral(XPathOf("", <<ChildStep(pre, Y[y].keys[i], <<>>)>>), vals[i])] \o <<>>
         [] el.has /\ Kw[y] = "leaf-list" -> <<EqualsLiteral(Self, uri_percent_decode(el.val))>>
         [] OTHER -> <<>>
KnownElement(el, y, first) ==
    /\ el.id.pre = <<>> => ~first
    /\ el.id.pre # <<>> => el.id.module # ""
    /\ el.id.name # "" /\ yang_find_datanode(y, el.id.name)
    /\ first => XpModule[el.id.name] = el.id.module
XPathStep(w, el) ==
    LET y == el.id.name
        module == IF el.id.module # "" THEN el.id.module ELSE w.module
        has == \E pre \in DOMAIN w.nsc : w.nsc[pre] = module
        pre == IF has THEN PrefixFor(w.nsc, module) ELSE XpPrefix[XpModule[y]]
    IN [ok |-> TRUE, y |-> y, module |-> module, nsc |-> IF has THEN w.nsc ELSE xml_nsctx_add(w.nsc, pre, module),
        steps |-> Append(w.steps, ChildStep(pre, y, ElementPreds(el, y, pre)))]
api_path2xpath_cvv(els) ==
    FoldLeft(LAMBDA w, el : IF ~w.ok \/ ~KnownElement(el, w.y, w.steps = <<>>) THEN [w EXCEPT !.ok = FALSE] ELSE XPathStep(w, el),
             [ok |-> TRUE, y |-> Top, module |-> "", nsc |-> <<>>, steps |-> <<>>], els)

(* api_path2xpath: an expression and its context, <<>> if it fails *)
api_path2xpath(s) ==
    LET w == api_path2xpath_cvv(uri_str2cvec(s))
    IN IF IsPrefix(<<Slash, Slash>>, s) \/ ~w.ok THEN <<>>
       ELSE <<[e |-> XPathOf("/", w.steps), nsc |-> w.nsc]>>

(* api_path2xml_vec: the nodes from the top down with the values of their   *)
(* keys, <<>> if it fails; strict: all keys and no other values             *)
ElementNode(el) ==
    LET y == el.id.name
        vals == Map(uri_percent_decode, clixon_strsep1(el.val, Comma))
    IN [y |-> y, vals |-> CASE Kw[y] = "list" ->
                                 [i \in DOMAIN Y[y].keys |-> IF el.has /\ i <= Len(vals) THEN vals[i] ELSE <<>>] \o <<>>
                            [] Kw[y] = "leaf-list" -> <<uri_percent_decode(el.val)>>
                            [] OTHER -> <<>>]
WellFormed(el) ==
    CASE Kw[el.id.name] = "list" -> el.has /\ Len(clixon_strsep1(el.val, Comma)) = Len(Y[el.id.name].keys)
      [] Kw[el.id.name] = "leaf-list" -> TRUE
      [] OTHER -> ~el.has
(* The elements up to an empty one, which ends the path *)
PathElements(s) ==
    LET es == Tail(clixon_strsep1(s, Slash))
        n == {i \in DOMAIN es : es[i] = <<>>}
    IN Map(Element, IF n = {} THEN es ELSE SubSeq(es, 1, LeastOf(n) - 1))
api_path2xml(s, strict) ==
    LET els == PathElements(s)
        Above(i) == IF i = 1 THEN Top ELSE els[i - 1].id.name
    IN IF /\ s # <<>> /\ s[1] = Slash
          /\ \A i \in DOMAIN els : KnownElement(els[i], Above(i), i = 1) /\ (strict => WellFormed(els[i]))
       THEN <<Map(ElementNode, els)>> ELSE <<>>

(* clixon_xml_find_index: by name and keys, by binary search if the keys    *)
(* are the first ones of the list in their order.  A key: name and value.   *)
clixon_xml_find_index(c, y, cvk) ==
    LET vals == Map(LAMBDA k : k.val, cvk)
        names == Map(LAMBDA k : k.name, cvk)
    IN CASE Kw[y] = "list" /\ cvk # <<>> /\ IsPrefix(names, Y[y].keys) -> xml_find_index_yang(c, y, vals)
         [] Kw[y] = "leaf-list" -> IF Len(cvk) = 1 THEN xml_find_index_yang(c, y, vals) ELSE {}
         [] OTHER -> {i \in 0..(Len(c) - 1) : c[i + 1].y = y /\ \A k \in Range(cvk) : KeyVal(c[i + 1], k.name) = k.val}
clixon_xml_find_pos(c, y, pos) ==
    {i \in 0..(Len(c) - 1) : c[i + 1].y = y /\ Cardinality({j \in 1..i : c[j].y = y}) = pos}

(* clixon_path_search: els are [y, cvk, pos], pos -1 if there is none *)
clixon_path_search(xt, els) ==
    LET Found(p, el) ==
          LET c == At(xt, p).c
          IN IF el.pos >= 0 /\ Kw[el.y] \in {"list", "leaf-list"} THEN clixon_xml_find_pos(c, el.y, el.pos)
             ELSE clixon_xml_find_index(c, el.y, el.cvk)
    IN FoldLeft(LAMBDA S, el : UNION {{Append(p, i + 1) : i \in Found(p, el)} : p \in S}, {<<>>}, els)

(* api_path_resolve: keys get the names of the schema in its order.  The    *)
(* values are taken as they are written: a value in need of encoding is not *)
(* that of any node.                                                        *)
KeysOf(el) == IF el.has THEN Map(LAMBDA s : IF Len(s) = 1 THEN s[1] ELSE NoKey, clixon_strsep1(el.val, Comma)) ELSE <<>>
Resolvable(el) ==
    IF Kw[el.id.name] = "list" THEN Len(KeysOf(el)) <= Len(Y[el.id.name].keys)
    ELSE Kw[el.id.name] = "leaf-list" \/ ~el.has
api_path_resolve(el) ==
    [y |-> el.id.name, pos |-> -1,
     cvk |-> [i \in DOMAIN KeysOf(el) |->
                [name |-> IF Kw[el.id.name] = "list" THEN Y[el.id.name].keys[i] ELSE ".", val |-> KeysOf(el)[i]]] \o <<>>]
clixon_xml_find_api_path(xt, s) ==
    LET els == uri_str2cvec(s)
        Above(i) == IF i = 1 THEN Top ELSE els[i - 1].id.name
    IN IF \A i \in DOMAIN els : KnownElement(els[i], Above(i), i = 1) /\ Resolvable(els[i])
       THEN clixon_path_search(xt, Map(api_path_resolve, els)) ELSE {}

(* Instance identifiers: an XPath of steps that all have prefixes, with     *)
(* keys or a position                                                       *)
InstanceKeys(st) ==
    Map(LAMBDA e : [name |-> IF KeyName(e.a) = "" THEN "." ELSE KeyName(e.a), val |-> e.b.s[1]],
        SelectSeq(st.preds, LAMBDA e : e.k = "bin"))
InstanceElement(st) ==
    [y |-> st.name, cvk |-> InstanceKeys(st), pos |-> IF Len(st.preds) = 1 /\ st.preds[1].k = "nr" THEN st.preds[1].i ELSE -1]
instance_id_resolve(e) ==
    \A i \in DOMAIN e.steps :
        LET st == e.steps[i] IN
        /\ st.pre # "" /\ yang_find_datanode(IF i = 1 THEN Top ELSE e.steps[i - 1].name, st.name)
        /\ i = 1 => XpPrefix[XpModule[st.name]] = st.pre
        /\ Kw[st.name] = "list" => \A k \in Range(InstanceKeys(st)) : Contains(Y[st.name].sub, k.name)
        /\ Kw[st.name] \notin {"list", "leaf-list"} => st.preds = <<>>
clixon_xml_find_instance_id(xt, e) ==
    IF instance_id_resolve(e) THEN clixon_path_search(xt, Map(InstanceElement, e.steps)) ELSE {}

------------------------------------------------------------------------------
ModulePrefixes == [pre \in {XpPrefix[m] : m \in DOMAIN XpPrefix} |-> CHOOSE m \in DOMAIN XpPrefix : XpPrefix[m] = pre]
PathValues(xt, p) == FlattenSeq(Map(KeyVals, OnPath(xt, p)))
Position(xt, p) == Cardinality({j \in 1..(p[Len(p)] - 1) : At(xt, Append(Front(p), j)).y = At(xt, p).y})
ByPosition(xt, p) ==
    [xml2xpath(xt, p, ModulePrefixes) EXCEPT !.steps[Len(p)].preds = <<[k |-> "nr", i |-> Position(xt, p)]>>]

PathNext ==
    \E xt \in XpTrees : \E p \in NodesOf(xt, <<>>) :
      \/ Returns([fn |-> "api-path", xt |-> xt, p |-> p], xml2api_path(xt, p))
      \/ \E inclkey \in BOOLEAN, n \in 0..Len(PathValues(xt, p)) :
           Returns([fn |-> "api-path-fmt", xt |-> xt, p |-> p, inclkey |-> inclkey, n |-> n],
                   api_path_fmt2api_path(yang2api_path_fmt(At(xt, p).y, inclkey), SubSeq(PathValues(xt, p), 1, n)))
      \/ Returns([fn |-> "instance-id", xt |-> xt, p |-> p], clixon_xml_find_instance_id(xt, xml2xpath(xt, p, ModulePrefixes)))
      \/ /\ Kw[At(xt, p).y] \in {"list", "leaf-list"}
         /\ Returns([fn |-> "instance-id", xt |-> xt, p |-> p], clixon_xml_find_instance_id(xt, ByPosition(xt, p)))

(* The nodes an api-path leads to by its XPath *)
LeadsTo(xt, s) == {xpath_vec_ctx(xt, <<>>, r.nsc, r.e, "ns").n : r \in Range(api_path2xpath(s))}

(* The api-path made of a node, its values encoded, leads to that node only,*)
(* describes it and its keys, and is what the format of its statement gives *)
(* for its keys.  With fewer values it leads to several nodes, the node     *)
(* among them; without the name of a key leaf, to the entry of the key.     *)
ApiPathsLead ==
    /\ call.fn = "api-path" =>
         /\ LeadsTo(call.xt, result) = {<<call.p>>}
         /\ api_path2xml(result, TRUE) =
              <<Map(LAMBDA x : [y |-> x.y, vals |-> Map(LAMBDA v : <<v>>, KeyVals(x))], OnPath(call.xt, call.p))>>
         /\ (\A v \in Range(PathValues(call.xt, call.p)) : uri_unreserved(v))
              => clixon_xml_find_api_path(call.xt, result) = {call.p}
    /\ call.fn = "api-path-fmt" /\ call.n = Len(PathValues(call.xt, call.p)) =>
         IF call.inclkey THEN result = xml2api_path(call.xt, call.p)
         ELSE LeadsTo(call.xt, result) =
                {<<IF Contains(Y[Y[At(call.xt, call.p).y].parent].keys, At(call.xt, call.p).y) THEN Front(call.p) ELSE call.p>>}
    /\ call.fn = "api-path-fmt" /\ call.inclkey => \A n \in LeadsTo(call.xt, result) : Contains(n, call.p)
    /\ call.fn = "instance-id" => result = {call.p}

(* However a node is named, by an XPath, an api-path or an instance         *)
(* identifier, whatever its keys hold, and whichever of the conversions     *)
(* between them is taken, the name leads to that node and to no other; and  *)
(* an XPath means what the standard says, in each of its forms.             *)
PathsAgree == XPathMeans /\ ApiPathsLead
=============================================================================
