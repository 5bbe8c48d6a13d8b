-------------------------------- MODULE XPath --------------------------------
(* XPath on trees bound to YANG: evaluation (lib/src/clixon_xpath_eval.c,   *)
(* _ctx.c, _function.c), the search of list entries by key that replaces    *)
(* the test of every child (clixon_xpath_optimize.c), the canonical form    *)
(* and the XPath of a node (clixon_xpath.c), and path arguments evaluated   *)
(* on the schema (clixon_xpath_yang.c).                                     *)
(*                                                                          *)
(* Nodes are named by the indices of the children down to them; a node-set  *)
(* is a sequence.  A string is a sequence of symbols, which are integers:   *)
(* digits stand for themselves and the body b of a leaf is the string <<b>>. *)
(* A parsed expression is a record: [k |-> "path", abs, steps],             *)
(* [k |-> "filter", a, steps] (a primary expression, then a path), "bin"    *)
(* (operator and operands), "fn" (name and arguments), "str" or "nr".       *)
(* The namespace of a node is that of its module, which is named by it.     *)
EXTENDS XmlDiff, Call

CONSTANTS
    XpTrees,    \* trees that expressions are evaluated on
    XpExprs,    \* expressions
    XpContexts, \* namespace contexts: functions from prefixes to modules
    XpModules,  \* the module of each data node
    XpPrefixes, \* the prefix each module declares
    XpNames     \* the symbol of each name

XpModule == XpModules
XpPrefix == XpPrefixes
XpName == XpNames

NaN == -99
Dec == 60   \* the decimals of a number that is printed: "%0lf"

Nodeset(n) == [t |-> "nodeset", n |-> n, i |-> 0, s |-> <<>>, b |-> FALSE]
Number(i) == [t |-> "number", n |-> <<>>, i |-> i, s |-> <<>>, b |-> FALSE]
String(s) == [t |-> "string", n |-> <<>>, i |-> 0, s |-> s, b |-> FALSE]
Bool(b) == [t |-> "bool", n |-> <<>>, i |-> 0, s |-> <<>>, b |-> b]
XpError == [t |-> "error", n |-> <<>>, i |-> 0, s |-> <<>>, b |-> FALSE]

------------------------------------------------------------------------------
(* Conversions *)

Body(xt, p) == At(xt, p).b
BodyString(b) == IF b = None THEN <<>> ELSE <<b>>

(* sscanf("%lf"): the leading digits *)
LeadingDigits(s) == SelectSeq(Indices(s), LAMBDA i : \A j \in 1..i : s[j] \in 0..9)
StringNumber(s) ==
    IF LeadingDigits(s) = <<>> THEN NaN ELSE FoldLeft(LAMBDA n, i : 10 * n + s[i], 0, LeadingDigits(s))

(* ctx2boolean; NaN is not equal to NAN, and so is true *)
ctx2boolean(v) ==
    CASE v.t = "nodeset" -> v.n # <<>>
      [] v.t = "bool" -> v.b
      [] v.t = "number" -> v.i # 0
      [] v.t = "string" -> v.s # <<>>
      [] OTHER -> FALSE

ctx2string(xt, v) ==
    CASE v.t = "nodeset" -> IF v.n = <<>> THEN <<>> ELSE BodyString(Body(xt, v.n[1]))
      [] v.t = "bool" -> <<IF v.b THEN XpName["true"] ELSE XpName["false"]>>
      [] v.t = "number" -> <<v.i, Dec>>
      [] OTHER -> v.s

ctx2number(xt, v) ==
    CASE v.t = "number" -> v.i
      [] v.t = "bool" -> IF v.b THEN 1 ELSE 0
      [] OTHER -> StringNumber(ctx2string(xt, v))

------------------------------------------------------------------------------
(* Operators *)

xp_logop(v1, op, v2) ==
    Bool(IF op = "and" THEN ctx2boolean(v1) /\ ctx2boolean(v2) ELSE ctx2boolean(v1) \/ ctx2boolean(v2))

xp_numop(n1, op, n2) ==
    Number(CASE n1 = NaN \/ n2 = NaN -> NaN
             [] n1 # NaN /\ n2 # NaN /\ op = "+" -> n1 + n2
             [] n1 # NaN /\ n2 # NaN /\ op = "-" -> n1 - n2
             [] n1 # NaN /\ n2 # NaN /\ op = "*" -> n1 * n2
             [] n1 # NaN /\ n2 # NaN /\ op = "mod" -> n1 % n2)

(* A relation by the sign of a difference *)
Rel(op, d) ==
    CASE op = "=" -> d = 0
      [] op = "!=" -> d # 0
      [] op = ">=" -> d >= 0
      [] op = "<=" -> d <= 0
      [] op = "<" -> d < 0
      [] op = ">" -> d > 0
RelNumber(op, n1, n2) == IF n1 = NaN \/ n2 = NaN THEN op = "!=" ELSE Rel(op, n1 - n2)

Symbol(s, i) == IF i <= Len(s) THEN s[i] ELSE -1
strcmp(s, t) ==
    LET ds == {i \in 1..(Len(s) + Len(t)) : Symbol(s, i) # Symbol(t, i)}
    IN IF ds = {} THEN 0 ELSE Symbol(s, LeastOf(ds)) - Symbol(t, LeastOf(ds))

(* The bodies before the first node without one, at which a comparison of   *)
(* two node-sets ends                                                       *)
UpToNone(bs) == {bs[i] : i \in {i \in DOMAIN bs : \A j \in 1..i : bs[j] # None}}
RelNodes(op, b1, b2) ==
    IF None \notin Range(b2)
    THEN \E x \in UpToNone(b1), y \in Range(b2) : Rel(op, x - y)
    ELSE b1 # <<>> /\ b1[1] # None /\ \E y \in UpToNone(b2) : Rel(op, b1[1] - y)

(* A node-set and a string, a number or a Boolean *)
RelString(op, bs, s) ==
    CASE bs # <<>> /\ op \notin {"=", "!="} -> XpError
      [] bs # <<>> /\ op = "=" -> Bool(\E b \in Range(bs) : BodyString(b) = s)
      [] bs # <<>> /\ op = "!=" -> Bool(\E b \in Range(bs) : b = None \/ BodyString(b) # s)
      [] OTHER -> Bool(FALSE)
RelBodies(op, bs, n, reverse) ==
    \E b \in Range(bs) :
        IF reverse THEN RelNumber(op, n, StringNumber(BodyString(b)))
        ELSE RelNumber(op, StringNumber(BodyString(b)), n)
RelOther(op, v1, bs, v2, reverse) ==
    CASE v2.t = "bool" -> IF op \in {"=", "!="} THEN Bool(Rel(op, IF (bs # <<>>) = v2.b THEN 0 ELSE 1)) ELSE XpError
      [] v2.t = "string" -> RelString(op, bs, v2.s)
      [] v2.t = "number" -> Bool(RelBodies(op, bs, v2.i, reverse))

xp_relop(xt, v1, op, v2) ==
    LET Bodies(v) == Map(LAMBDA p : Body(xt, p), v.n)
    IN CASE v1.t = v2.t /\ v1.t = "nodeset" -> Bool(RelNodes(op, Bodies(v1), Bodies(v2)))
         [] v1.t = v2.t /\ v1.t = "bool" -> Bool(v1.b = v2.b)
         [] v1.t = v2.t /\ v1.t = "number" -> Bool(RelNumber(op, v1.i, v2.i))
         [] v1.t = v2.t /\ v1.t = "string" -> Bool(Rel(op, strcmp(v1.s, v2.s)))
         [] v1.t # v2.t /\ v1.t # "nodeset" /\ v2.t # "nodeset" -> XpError
         [] v1.t # v2.t /\ v1.t = "nodeset" -> RelOther(op, v1, Bodies(v1), v2, FALSE)
         [] v1.t # v2.t /\ v2.t = "nodeset" -> RelOther(op, v2, Bodies(v2), v1, TRUE)

(* xp_union: a node of both is twice in it *)
xp_union(v1, v2) == Nodeset(v1.n \o v2.n)

XpOp(xt, v1, op, v2) ==
    CASE v1.t = "error" \/ v2.t = "error" -> XpError
      [] v1.t # "error" /\ v2.t # "error" /\ op \in {"and", "or"} -> xp_logop(v1, op, v2)
      [] v1.t # "error" /\ v2.t # "error" /\ op \in {"+", "-", "*", "mod"} ->
           xp_numop(ctx2number(xt, v1), op, ctx2number(xt, v2))
      [] v1.t # "error" /\ v2.t # "error" /\ op = "|" -> xp_union(v1, v2)
      [] OTHER -> xp_relop(xt, v1, op, v2)

------------------------------------------------------------------------------
(* Functions, on the values of their arguments *)

(* strstr: where t begins in s; 0: nowhere *)
strstr(s, t) ==
    LET at == {i \in 1..(Len(s) + 1) : IsPrefix(t, SubSeq(s, i, Len(s)))}
    IN IF at = {} THEN 0 ELSE LeastOf(at)

SubstringStr(s, t, before) ==
    CASE strstr(s, t) = 0 -> <<>>
      [] strstr(s, t) # 0 /\ before -> SubSeq(s, 1, strstr(s, t) - 1)
      [] OTHER -> SubSeq(s, strstr(s, t) + Len(t), Len(s))

(* substring: from position from (1 the first) on, len symbols *)
Least(i, j) == IF i <= j THEN i ELSE j
Substring(s, from, len) ==
    SubSeq(s, IF from < 1 THEN 1 ELSE from, Least(from + (IF len < 0 THEN 0 ELSE len) - 1, Len(s)))

Translate(s, from, to) ==
    LET One(x) == CASE strstr(from, <<x>>) = 0 -> <<x>>
                    [] strstr(from, <<x>>) \in DOMAIN to -> <<to[strstr(from, <<x>>)]>>
                    [] OTHER -> <<>>
    IN FlattenSeq(Map(One, s))

(* deref: of the leafref in the context, whatever the argument is; it gives *)
(* the first node its path leads to                                         *)
DerefPath(xt, p) ==
    LET w == Y[At(xt, p).y].path[1]
        up == SubSeq(p, 1, Len(p) - w.up)
        hits == {q \in NodesOf(xt, <<>>) : /\ IsPrefix(up, q)
                                           /\ [i \in 1..(Len(q) - Len(up)) |-> At(xt, SubSeq(q, 1, Len(up) + i)).y] = w.p}
    IN IF hits = {} THEN <<>> ELSE <<CHOOSE q \in hits : \A r \in hits : strcmp(q, r) <= 0>>
xp_function_deref(c) ==
    IF c.nodes # <<>> /\ Y[At(c.xt, c.nodes[1]).y].path # <<>> THEN Nodeset(DerefPath(c.xt, c.nodes[1]))
    ELSE Nodeset(c.nodes)

NameOf(xt, n) == IF n = <<>> THEN <<>> ELSE <<XpName[At(xt, n[1]).y]>>

(* bit-is-set: of the first node; any part of its body will do *)
BitIsSet(xt, n, s) == n # <<>> /\ Body(xt, n[1]) # None /\ strstr(<<Body(xt, n[1])>>, s) # 0

NodeFunction(c, fn, v) ==
    CASE fn = "current" -> Nodeset(<<c.init>>)
      [] fn = "deref" -> xp_function_deref(c)
      [] fn = "position" -> Number(c.pos)
      [] fn = "count" -> Number(Len(v[1].n))
      [] fn \in {"local-name", "name"} -> String(NameOf(c.xt, v[1].n))

StringFunction(fn, s) == String(IF fn = "string" THEN s[1] ELSE FlattenSeq(s))

FindFunction(fn, s) ==
    CASE fn = "starts-with" -> Bool(IsPrefix(s[2], s[1]))
      [] fn = "contains" -> Bool(strstr(s[1], s[2]) # 0)
      [] fn = "substring-before" -> String(SubstringStr(s[1], s[2], TRUE))
      [] fn = "substring-after" -> String(SubstringStr(s[1], s[2], FALSE))

PartFunction(xt, fn, v, s) ==
    CASE fn = "substring" -> String(Substring(s[1], ctx2number(xt, v[2]),
                               IF Len(v) = 3 THEN ctx2number(xt, v[3]) ELSE Len(s[1])))
      [] fn = "string-length" -> Number(Len(s[1]))
      [] fn = "translate" -> String(Translate(s[1], s[2], s[3]))
      [] fn = "bit-is-set" -> Bool(BitIsSet(xt, v[1].n, s[2]))

BoolFunction(xt, fn, v) ==
    CASE fn = "boolean" -> Bool(ctx2boolean(v[1]))
      [] fn = "not" -> Bool(~ctx2boolean(v[1]))
      [] fn = "true" -> Bool(TRUE)
      [] fn = "false" -> Bool(FALSE)
      [] fn = "number" -> Number(ctx2number(xt, v[1]))

XpFunction(c, fn, v, s) ==
    CASE fn \in {"current", "deref", "position", "count", "local-name", "name"} -> NodeFunction(c, fn, v)
      [] fn \in {"string", "concat"} -> StringFunction(fn, s)
      [] fn \in {"starts-with", "contains", "substring-before", "substring-after"} -> FindFunction(fn, s)
      [] fn \in {"substring", "string-length", "translate", "bit-is-set"} -> PartFunction(c.xt, fn, v, s)
      [] OTHER -> BoolFunction(c.xt, fn, v)

XpCall(c, fn, v) ==
    IF \E x \in Range(v) : x.t = "error" THEN XpError
    ELSE XpFunction(c, fn, v, Map(LAMBDA x : ctx2string(c.xt, x), v))

------------------------------------------------------------------------------
(* Node tests.  c.mode: by namespace, or by local name only                 *)

nodetest_eval_namespace(c, y, st) ==
    \/ st.name = "*"
    \/ y = st.name /\ (st.pre \in DOMAIN c.nsc => c.nsc[st.pre] = XpModule[y])
nodetest_eval_localonly(y, st) == st.name \in {"*", y}
nodetest_eval(c, p, st) ==
    IF c.mode = "local" THEN nodetest_eval_localonly(At(c.xt, p).y, st)
    ELSE nodetest_eval_namespace(c, At(c.xt, p).y, st)

Kids(xt, p) == Map(LAMBDA i : Append(p, i), Indices(At(xt, p).c))

(* nodetest_recursive: below p, in document order *)
RECURSIVE nodetest_recursive(_, _, _)
nodetest_recursive(c, p, st) ==
    FlattenSeq(Map(LAMBDA q : (IF nodetest_eval(c, q, st) THEN <<q>> ELSE <<>>) \o nodetest_recursive(c, q, st),
                   Kids(c.xt, p)))

------------------------------------------------------------------------------
(* The search by keys.  NoKey: a value that no key has *)

NoKey == -7

(* The name and value of a predicate name = literal, name = number or       *)
(* name = current(); <<>>: none of them                                     *)
KeyLiteral(c, e) ==
    CASE e.k = "str" -> <<IF Len(e.s) = 1 THEN e.s[1] ELSE NoKey>>
      [] e.k = "nr" -> <<e.i>>
      [] e.k = "filter" /\ e.steps = <<>> /\ e.a.k = "fn" ->
           IF e.a.fn = "current" THEN <<IF Body(c.xt, c.init) = None THEN NoKey ELSE Body(c.xt, c.init)>> ELSE <<>>
      [] OTHER -> <<>>
KeyName(e) ==
    IF e.k = "path" /\ e.abs = "" /\ Len(e.steps) = 1 /\ e.steps[1].axis = "child" /\ e.steps[1].preds = <<>>
    THEN e.steps[1].name ELSE ""
KeyPred(c, e) ==
    IF e.k # "bin" THEN <<>>
    ELSE IF e.op # "=" \/ KeyName(e.a) = "" \/ KeyLiteral(c, e.b) = <<>> THEN <<>>
    ELSE <<[name |-> KeyName(e.a), val |-> KeyLiteral(c, e.b)[1]]>>

(* loop_preds: the names and values of the predicates, in their order; if   *)
(* one is not of that form there are fewer than predicates                  *)
loop_preds(c, preds) == FlattenSeq(Map(LAMBDA e : KeyPred(c, e), preds))

(* Mutant: the values in the order of the predicates *)
KeysOrdered_given(keys, cvk) == Map(LAMBDA x : x.val, cvk)

(* The values in the order of the keys; <<>> if a key is missing *)
KeysOrdered(keys, cvk) ==
    LET At1(k) == CHOOSE i \in DOMAIN cvk : cvk[i].name = k /\ \A j \in 1..(i - 1) : cvk[j].name # k
    IN IF \A k \in Range(keys) : \E x \in Range(cvk) : x.name = k
       THEN Map(LAMBDA k : cvk[At1(k)].val, keys) ELSE <<>>

(* xpath_list_optimize_fn: the entries found, as children of p; hit: is the *)
(* search used at all?  The root of a datastore has no specification.       *)
ListFound(c, p, y, vals) ==
    IF vals = <<>> THEN [hit |-> FALSE, n |-> <<>>]
    ELSE [hit |-> TRUE,
          n |-> Map(LAMBDA i : Append(p, i + 1), SetToSortSeq(xml_find_index_yang(At(c.xt, p).c, y, vals), <))]
xpath_list_optimize_fn(c, p, st) ==
    LET yp == At(c.xt, p).y
        cvk == loop_preds(c, st.preds)
    IN IF yp = Top \/ st.preds = <<>> \/ st.name = "*" \/ Len(cvk) # Len(st.preds) THEN [hit |-> FALSE, n |-> <<>>]
       ELSE IF ~Contains(Y[yp].sub, st.name) THEN [hit |-> FALSE, n |-> <<>>]
       ELSE IF Kw[st.name] # "list" \/ Len(Y[st.name].keys) # Len(cvk) THEN [hit |-> FALSE, n |-> <<>>]
       ELSE ListFound(c, p, st.name, KeysOrdered(Y[st.name].keys, cvk))

------------------------------------------------------------------------------
(* Evaluation *)

ChildrenAt(c, p, st, o) ==
    IF o.hit THEN o.n ELSE SelectSeq(Kids(c.xt, p), LAMBDA q : nodetest_eval(c, q, st))
Parents(n) == Map(Front, SelectSeq(n, LAMBDA p : p # <<>>))

(* xp_eval_step: the nodes an axis leads to; the other axes lead nowhere    *)
(* and leave the context as it is                                           *)
AxisNodes(c, st) ==
    LET Recursive == FlattenSeq(Map(LAMBDA p : nodetest_recursive(c, p, st), c.nodes))
    IN CASE st.axis = "child" /\ st.name = "text()" -> SelectSeq(c.nodes, LAMBDA p : Body(c.xt, p) # None)
         [] st.axis = "child" /\ st.name # "text()" /\ c.desc -> Recursive
         [] st.axis = "child" /\ st.name # "text()" /\ ~c.desc ->
              FlattenSeq(Map(LAMBDA p : ChildrenAt(c, p, st, xpath_list_optimize_fn(c, p, st)), c.nodes))
         [] st.axis = "descendant" -> Recursive
         [] st.axis = "descendant-or-self" -> c.nodes \o Recursive
         [] st.axis = "parent" -> Parents(c.nodes)
         [] OTHER -> c.nodes

(* An absolute path moves the context it is evaluated in to the root, and   *)
(* with it what is evaluated after it in the same context.                  *)
RECURSIVE HasAbs(_)
HasAbs(e) ==
    CASE e.k = "path" -> e.abs # ""
      [] e.k = "filter" -> HasAbs(e.a)
      [] e.k = "bin" -> HasAbs(e.a) \/ HasAbs(e.b)
      [] e.k = "fn" -> \E a \in Range(e.args) : HasAbs(a)
      [] OTHER -> FALSE
AfterEval(c, e) == IF HasAbs(e) THEN [c EXCEPT !.nodes = <<<<>>>>, !.node = <<>>] ELSE c

RECURSIVE xp_eval(_, _)

(* xp_eval_predicate: one predicate; a number selects by position, from 0 *)
PredHolds(v, i) == IF v.t = "number" THEN v.i = i - 1 ELSE ctx2boolean(v)
PredSelect(n, vs) ==
    IF \E v \in Range(vs) : v.t = "error" THEN XpError
    ELSE Nodeset(Map(LAMBDA i : n[i], SelectSeq(Indices(n), LAMBDA i : PredHolds(vs[i], i))))
xp_eval_predicate(c, v, e) ==
    IF v.t = "error" THEN v
    ELSE PredSelect(v.n, [i \in DOMAIN v.n |->
           xp_eval([c EXCEPT !.nodes = <<v.n[i]>>, !.node = v.n[i], !.pos = i - 1, !.desc = FALSE], e)] \o <<>>)

xp_eval_step(c, st) ==
    FoldLeft(LAMBDA v, e : xp_eval_predicate(c, v, e), Nodeset(AxisNodes(c, st)), st.preds)

(* The steps of a path.  A "//" anywhere in it also applies to its first    *)
(* step; the mark stays until a step to children uses it.                   *)
DescAfter(st, desc) == desc /\ ~(st.axis = "child" /\ st.name # "text()") /\ st.preds = <<>>
OneStep(c, w, st) ==
    IF w.v.t = "error" THEN w
    ELSE [v |-> xp_eval_step([c EXCEPT !.nodes = w.v.n, !.desc = w.desc \/ st.desc], st),
          desc |-> DescAfter(st, w.desc \/ st.desc)]
XpSteps(c, steps, desc) ==
    FoldLeft(LAMBDA w, st : OneStep(c, w, st), [v |-> Nodeset(c.nodes), desc |-> desc], steps).v
XpPath(c, e) ==
    CASE e.abs # "" /\ e.steps = <<>> -> Nodeset(Kids(c.xt, <<>>))
      [] e.abs # "" /\ e.steps # <<>> ->
           XpSteps(AfterEval(c, e), e.steps, e.abs = "//" \/ \E st \in Range(e.steps) : st.desc)
      [] OTHER -> XpSteps(c, e.steps, \E st \in Range(e.steps) : st.desc)

(* The values of expressions that are evaluated in turn in one context *)
XpArgs(c, es) ==
    FoldLeft(LAMBDA w, e : [c |-> AfterEval(w.c, e), v |-> Append(w.v, xp_eval(w.c, e))],
             [c |-> c, v |-> <<>>], es).v

FilterSteps(c, v, steps) ==
    IF steps = <<>> \/ v.t = "error" THEN v
    ELSE XpSteps([c EXCEPT !.nodes = v.n], steps, \E st \in Range(steps) : st.desc)

XpArgsOf(e) ==
    CASE e.k = "filter" -> <<e.a>>
      [] e.k = "bin" -> <<e.a, e.b>>
      [] e.k = "fn" -> e.args
      [] OTHER -> <<>>
XpValue(c, e, v) ==
    CASE e.k = "path" -> XpPath(c, e)
      [] e.k = "filter" -> FilterSteps(c, v[1], e.steps)
      [] e.k = "bin" -> XpOp(c.xt, v[1], e.op, v[2])
      [] e.k = "fn" -> XpCall(c, e.fn, v)
      [] e.k = "str" -> String(e.s)
      [] e.k = "nr" -> Number(e.i)
xp_eval(c, e) == XpValue(c, e, XpArgs(c, XpArgsOf(e)))

(* xpath_vec_ctx *)
xpath_vec_ctx(xt, p, nsc, e, mode) ==
    xp_eval([xt |-> xt, init |-> p, nodes |-> <<p>>, node |-> p, pos |-> 0, desc |-> FALSE, nsc |-> nsc, mode |-> mode], e)

(* What callers take of a value: the nodes, the first one, a truth value   *)
xpath_vec(v) == IF v.t = "nodeset" THEN v.n ELSE <<>>
xpath_first(v) == IF xpath_vec(v) = <<>> THEN <<>> ELSE <<v.n[1]>>
XpTruth(v) == ctx2boolean(v)

(* Is the value of an expression kept for later evaluations from the same   *)
(* initial node, whatever the context?                                      *)
RECURSIVE Invariant(_)
Invariant(e) ==
    CASE e.k = "fn" -> e.fn = "current"
      [] e.k = "filter" -> Invariant(e.a)
      [] e.k = "bin" -> Invariant(e.a) /\ Invariant(e.b)
      [] OTHER -> FALSE

------------------------------------------------------------------------------
(* Other forms of an expression *)

ChildStep(pre, name, preds) == [axis |-> "child", desc |-> FALSE, pre |-> pre, name |-> name, preds |-> preds]
XPathOf(abs, steps) == [k |-> "path", abs |-> abs, steps |-> steps]
Str(s) == [k |-> "str", s |-> s]
Self == [k |-> "path", abs |-> "", steps |-> <<[ChildStep("", "", <<>>) EXCEPT !.axis = "self"]>>]
Equals(e, s) == [k |-> "bin", op |-> "=", a |-> e, b |-> Str(s)]

(* xpath_traverse_canonical: the prefixes that modules declare instead of   *)
(* those of the context; of a string nothing changes (exprstr = 0)          *)
HasPrefix(st) == st.name \notin {"*", "text()"} /\ st.axis \notin {"self", "parent"}
CanonPre(st, nsc) == IF HasPrefix(st) THEN XpPrefix[nsc[st.pre]] ELSE st.pre

RECURSIVE Canonical(_, _)
CanonSteps(steps, nsc) ==
    Map(LAMBDA st : [st EXCEPT !.pre = CanonPre(st, nsc), !.preds = Map(LAMBDA e : Canonical(e, nsc), @)], steps)
Canonical(e, nsc) ==
    CASE e.k = "path" -> [e EXCEPT !.steps = CanonSteps(@, nsc)]
      [] e.k = "filter" -> [e EXCEPT !.a = Canonical(@, nsc), !.steps = CanonSteps(@, nsc)]
      [] e.k = "bin" -> [e EXCEPT !.a = Canonical(@, nsc), !.b = Canonical(@, nsc)]
      [] e.k = "fn" -> [e EXCEPT !.args = Map(LAMBDA a : Canonical(a, nsc), @)]
      [] OTHER -> e

(* The steps of an expression, those of its parts included *)
RECURSIVE StepsOf(_)
StepsOf(e) ==
    LET own == IF e.k \in {"path", "filter"} THEN e.steps ELSE <<>>
    IN Range(own) \cup UNION {StepsOf(a) : a \in Range(XpArgsOf(e))}
       \cup UNION {UNION {StepsOf(a) : a \in Range(st.preds)} : st \in Range(own)}
PrefixesIn(e) == {st.pre : st \in {st \in StepsOf(e) : HasPrefix(st)}}

(* xpath2canonical: an expression and its context; it fails on a prefix the *)
(* context does not have                                                    *)
xpath2canonical(e, nsc) ==
    IF PrefixesIn(e) \subseteq DOMAIN nsc
    THEN <<[e |-> Canonical(e, nsc),
            nsc |-> [q \in {XpPrefix[nsc[pre]] : pre \in PrefixesIn(e)} |->
                       nsc[CHOOSE pre \in PrefixesIn(e) : XpPrefix[nsc[pre]] = q]]]>>
    ELSE <<>>

(* xml2xpath: of a node.  The keys without a value are left out. *)
PrefixFor(nsc, module) ==
    IF \E pre \in DOMAIN nsc : nsc[pre] = module THEN CHOOSE pre \in DOMAIN nsc : nsc[pre] = module ELSE ""
NodeStep(x, pre) ==
    LET keys == SelectSeq(Y[x.y].keys, LAMBDA k : KeyVal(x, k) # None)
    IN ChildStep(pre, x.y,
         CASE Kw[x.y] = "leaf-list" -> <<Equals(Self, <<x.b>>)>>
           [] Kw[x.y] = "list" ->
                Map(LAMBDA k : Equals(XPathOf("", <<ChildStep(pre, k, <<>>)>>), <<KeyVal(x, k)>>), keys)
           [] OTHER -> <<>>)
OnPath(xt, p) == [i \in DOMAIN p |-> At(xt, SubSeq(p, 1, i))]
xml2xpath(xt, p, nsc) ==
    XPathOf("/", Map(LAMBDA x : NodeStep(x, PrefixFor(nsc, XpModule[x.y])), OnPath(xt, p)))

(* xpath_literal_encode: a string as quoted pieces, concatenated if there   *)
(* are several.  sq and dq are the symbols of the quotes.                   *)
sq == 11
dq == 12
Pieces(s) == FoldLeft(LAMBDA w, x : IF x = sq THEN w \o <<[q |-> dq, s |-> <<sq>>], [q |-> sq, s |-> <<>>]>>
                                    ELSE [w EXCEPT ![Len(w)].s = Append(@, x)],
                      <<[q |-> sq, s |-> <<>>]>>, s)
xpath_literal_encode(s) ==
    CASE sq \notin Range(s) -> <<[q |-> sq, s |-> s]>>
      [] sq \in Range(s) /\ dq \notin Range(s) -> <<[q |-> dq, s |-> s]>>
      [] OTHER -> Pieces(s)

(* yang_find_datanode: choices and cases are passed through *)
RECURSIVE DataParent(_)
DataParent(s) ==
    IF Kw[Y[s].parent] \in {"choice", "case"} THEN DataParent(Y[s].parent) ELSE Y[s].parent
yang_find_datanode(y, name) == name \in DOMAIN Y \ {Top} /\ yang_datanode(name) /\ DataParent(name) = y

(* xpath2xml: the nodes from the top down that a path describes, with their *)
(* keys; <<>>: it fails.  The second predicate of a step is taken for one   *)
(* of the key that the first creates, and the value of a leaf-list is lost. *)
StepKey(e) ==
    IF e.k = "bin" /\ KeyName(e.a) # "" /\ e.b.k = "str" THEN <<[name |-> KeyName(e.a), val |-> e.b.s[1]]>> ELSE <<>>
StepNode(st) == [y |-> st.name, keys |-> IF st.preds = <<>> THEN <<>> ELSE StepKey(st.preds[1])]
xpath2xml(e, nsc) ==
    LET st == e.steps
        Above(i) == IF i = 1 THEN Top ELSE st[i - 1].name
    IN IF /\ e.k = "path" /\ e.abs = "/" /\ PrefixesIn(e) \subseteq DOMAIN nsc
          /\ \A i \in DOMAIN st : yang_find_datanode(Above(i), st[i].name) /\ Len(st[i].preds) <= 1
          /\ \A i \in DOMAIN st : \A q \in Range(StepNode(st[i]).keys) : yang_find_datanode(st[i].name, q.name)
       THEN <<[i \in DOMAIN st |-> StepNode(st[i])]>> ELSE <<>>

------------------------------------------------------------------------------
(* Path arguments on the schema: the statement a path leads to, "" for none *)

YangChild(y, name) == IF y # "" /\ yang_find_datanode(y, name) THEN name ELSE ""
YangParent(y) == IF y \in {"", Top} THEN y ELSE DataParent(y)

RECURSIVE xp_yang_eval(_, _, _)
(* A predicate that is an equation of two paths must lead somewhere on both *)
(* sides                                                                    *)
YangPred(y, init, e) ==
    xp_yang_eval(y, init, e.a) # "" /\ xp_yang_eval(y, init, e.b) # ""
xp_yang_eval_step(y, init, st) ==
    LET to == IF st.axis = "parent" THEN YangParent(y) ELSE YangChild(y, st.name)
    IN IF \A e \in Range(st.preds) : YangPred(to, init, e) THEN to ELSE ""
xp_yang_eval(y, init, e) ==
    CASE e.k = "path" ->
           FoldLeft(LAMBDA w, st : IF w = "" THEN w ELSE xp_yang_eval_step(w, init, st),
                    IF e.abs = "" THEN y ELSE Top, e.steps)
      [] e.k = "filter" -> FoldLeft(LAMBDA w, st : IF w = "" THEN w ELSE xp_yang_eval_step(w, init, st), init, e.steps)
      [] OTHER -> y

yang_path_arg(y, e) == xp_yang_eval(y, y, e)

------------------------------------------------------------------------------
(* Namespaces by declaration (clixon_xml_nsctx.c).  ds: what the nodes from *)
(* the root down to a node declare, each a function from prefixes.          *)

xml_nsctx_add(nsc, pre, ns) == [q \in DOMAIN nsc \cup {pre} |-> IF q = pre THEN ns ELSE nsc[q]]

(* xml_nsctx_node: from the node up, a prefix that is known is not added *)
xml_nsctx_node(ds) ==
    FoldLeft(LAMBDA nsc, d : [q \in DOMAIN nsc \cup DOMAIN d |-> IF q \in DOMAIN nsc THEN nsc[q] ELSE d[q]],
             <<>>, Reverse(ds))

(* xml2ns: the namespace of a prefix at a node; "": none *)
xml2ns(ds, pre) ==
    LET at == {i \in DOMAIN ds : pre \in DOMAIN ds[i]}
    IN IF at = {} THEN "" ELSE ds[GreatestOf(at)][pre]

(* xml2prefix: a prefix of a namespace at a node; <<>>: none *)
xml2prefix(ds, ns) ==
    LET at == {i \in DOMAIN ds : \E pre \in DOMAIN ds[i] : ds[i][pre] = ns}
        d == ds[GreatestOf(at)]
    IN IF at = {} THEN <<>> ELSE <<CHOOSE pre \in DOMAIN d : d[pre] = ns>>

------------------------------------------------------------------------------
XpNodes(xt) == {<<>>} \cup NodesOf(xt, <<>>)

XPathNext ==
    \/ \E xt \in XpTrees, e \in XpExprs, nsc \in XpContexts : \E p \in XpNodes(xt) :
         Returns([fn |-> "xpath", xt |-> xt, e |-> e, nsc |-> nsc, p |-> p], xpath_vec_ctx(xt, p, nsc, e, "ns"))
    \/ \E xt \in XpTrees, nsc \in XpContexts : \E p \in NodesOf(xt, <<>>) :
         Returns([fn |-> "xml2xpath", xt |-> xt, nsc |-> nsc, p |-> p], xml2xpath(xt, p, nsc))
    \/ \E s \in UNION {[1..n -> {0, sq, dq}] : n \in 0..4} :
         Returns([fn |-> "literal", s |-> s], xpath_literal_encode(s))
    \/ \E ds \in UNION {[1..n -> XpContexts] : n \in 1..3} : \E m \in DOMAIN XpPrefix :
         Returns([fn |-> "xml2prefix", ds |-> ds, ns |-> m], xml2prefix(ds, m))

------------------------------------------------------------------------------
(* What XPath says, by sets of nodes: the expressions of which the code     *)
(* means to implement the standard                                          *)

RefTest(nsc, y, st) == st.name = "*" \/ (y = st.name /\ nsc[st.pre] = XpModule[y])
RefAxis(xt, p, st, desc) ==
    CASE st.axis = "parent" -> IF p = <<>> THEN {} ELSE {Front(p)}
      [] st.axis = "self" -> {p}
      [] st.axis = "descendant" \/ (st.axis = "child" /\ desc) -> {p \o q : q \in NodesOf(At(xt, p), <<>>)}
      [] st.axis = "child" /\ ~desc -> {Append(p, i) : i \in DOMAIN At(xt, p).c}

RECURSIVE RefNodes(_, _, _, _, _)
(* The values compared: bodies, a string of one symbol, a number *)
RefAtoms(xt, init, nsc, p, e) ==
    CASE e.k = "str" -> {e.s[1]}
      [] e.k = "nr" -> {e.i}
      [] OTHER -> {Body(xt, q) : q \in RefNodes(xt, init, nsc, p, e)} \ {None}
RECURSIVE RefHolds(_, _, _, _, _)
RefHolds(xt, init, nsc, p, e) ==
    CASE e.k = "bin" /\ e.op = "and" -> RefHolds(xt, init, nsc, p, e.a) /\ RefHolds(xt, init, nsc, p, e.b)
      [] e.k = "bin" /\ e.op = "or" -> RefHolds(xt, init, nsc, p, e.a) \/ RefHolds(xt, init, nsc, p, e.b)
      [] e.k = "fn" /\ e.fn = "not" -> ~RefHolds(xt, init, nsc, p, e.args[1])
      [] e.k \in {"path", "filter"} -> RefNodes(xt, init, nsc, p, e) # {}
      [] OTHER -> \E x \in RefAtoms(xt, init, nsc, p, e.a), y \in RefAtoms(xt, init, nsc, p, e.b) : Rel(e.op, x - y)
RefStep(xt, init, nsc, S, st, desc) ==
    {q \in UNION {RefAxis(xt, p, st, desc) : p \in S} :
        /\ st.axis \in {"parent", "self"} \/ RefTest(nsc, At(xt, q).y, st)
        /\ \A e \in Range(st.preds) : RefHolds(xt, init, nsc, q, e)}
RefNodes(xt, init, nsc, p, e) ==
    LET first == IF e.k = "filter" THEN init ELSE IF e.abs = "" THEN p ELSE <<>>
        At1(i) == e.k = "path" /\ i = 1 /\ e.abs = "//"
    IN FoldLeft(LAMBDA S, i : RefStep(xt, init, nsc, S, e.steps[i], At1(i)), {first}, Indices(e.steps))

(* Not a standard expression: "//" inside a path, an absolute path before   *)
(* something else, "/" alone, a predicate that is a number, an order of     *)
(* strings, a prefix that is not that of the node                           *)
RECURSIVE StandardPart(_)
StandardPart(e) ==
    CASE e.k = "path" -> e.steps # <<>>
      [] e.k = "filter" -> e.a.k = "fn" /\ e.a.fn = "current"
      [] e.k = "fn" -> e.fn = "not" /\ StandardPart(e.args[1]) /\ e.args[1].k # "str"
      [] e.k = "bin" -> /\ ~HasAbs(e.a) /\ e.op \notin {"|", "+", "-", "*", "mod"}
                        /\ StandardPart(e.a) /\ StandardPart(e.b)
                        /\ {e.a.k, e.b.k} \cap {"str", "nr"} # {} => {e.a.k, e.b.k} \cap {"path", "filter"} # {}
                        /\ (e.a.k = "str" \/ e.b.k = "str") => e.op \in {"=", "!="}
                        /\ (e.a.k \in {"bin", "fn"} \/ e.b.k \in {"bin", "fn"}) => e.op \in {"and", "or"}
      [] e.k = "str" -> Len(e.s) = 1
      [] OTHER -> TRUE
Standard(e, nsc) ==
    /\ e.k \in {"path", "filter", "bin"} /\ StandardPart(e)
    /\ \A st \in StepsOf(e) :
         /\ ~st.desc /\ st.name # "text()" /\ st.axis \in {"child", "parent", "self", "descendant"}
         /\ st.name \in DOMAIN XpModule => st.pre \in DOMAIN nsc
         /\ st.name \in DOMAIN XpModule /\ st.preds # <<>> => nsc[st.pre] = XpModule[st.name]
         /\ \A e1 \in Range(st.preds) : StandardPart(e1) /\ e1.k \notin {"nr", "str"}

(* A standard expression has the value XPath gives it, though list entries  *)
(* are searched by binary search on their keys where a predicate names them *)
EvaluatesRight ==
    call.fn = "xpath" /\ Standard(call.e, call.nsc) =>
      IF call.e.k = "bin" THEN XpTruth(result) = RefHolds(call.xt, call.p, call.nsc, call.p, call.e)
      ELSE Range(xpath_vec(result)) = RefNodes(call.xt, call.p, call.nsc, call.p, call.e)

(* A value that is kept because it depends on the initial node only is the  *)
(* same in every context; the canonical form of an expression has its value *)
FormsAgree ==
    call.fn = "xpath" /\ result.t # "error" =>
      /\ Invariant(call.e) => \A q \in XpNodes(call.xt) :
           result = xp_eval([xt |-> call.xt, init |-> call.p, nodes |-> <<q>>, node |-> q, pos |-> 0, desc |-> FALSE,
                             nsc |-> call.nsc, mode |-> "ns"], call.e)
      /\ \A r \in Range(xpath2canonical(call.e, call.nsc)) :
           xpath_vec_ctx(call.xt, call.p, r.nsc, r.e, "ns") = result

(* The XPath made of a node leads to that node only, from everywhere, and   *)
(* describes it.                                                            *)
XPathNames ==
    call.fn = "xml2xpath" /\ (\A x \in Range(OnPath(call.xt, call.p)) : \E pre \in DOMAIN call.nsc : call.nsc[pre] = XpModule[x.y]) =>
      /\ xpath_vec_ctx(call.xt, call.p, call.nsc, result, "ns") = Nodeset(<<call.p>>)
      /\ xpath_first(xpath_vec_ctx(call.xt, call.p, call.nsc, result, "local")) = <<call.p>>
      /\ \A r \in Range(xpath2xml(result, call.nsc)) :
           \A i \in DOMAIN r : /\ r[i].y = At(call.xt, SubSeq(call.p, 1, i)).y
                               /\ \A k \in Range(r[i].keys) : KeyVal(At(call.xt, SubSeq(call.p, 1, i)), k.name) = k.val

(* A path argument leads on the schema to the statement of the nodes it     *)
(* leads to in the data (which validation of a leafref relies on)           *)
PathArgument(e) ==
    /\ e.k = "path" /\ e.steps # <<>>
    /\ \A st \in StepsOf(e) : ~st.desc /\ st.axis \in {"child", "parent"} /\ st.name \notin {"*", "text()"}
    /\ \A st \in StepsOf(e), e1 \in UNION {Range(s.preds) : s \in StepsOf(e)} : e1.k = "bin" /\ e1.op = "=" /\ e1.a.k = "path"
YangPathLeads ==
    call.fn = "xpath" /\ call.p # <<>> /\ result.t = "nodeset" /\ PathArgument(call.e) /\ call.e.abs # "//" =>
      \A q \in Range(result.n) : At(call.xt, q).y = yang_path_arg(At(call.xt, call.p).y, call.e)

(* No piece of an encoded literal has its own quote in it, and together     *)
(* they are the string; the prefix found for a namespace leads back to it   *)
(* unless it is declared anew further down.                                 *)
LiteralsKept ==
    /\ call.fn = "literal" => /\ \A x \in Range(result) : x.q \notin Range(x.s)
                              /\ FlattenSeq(Map(LAMBDA x : x.s, result)) = call.s
    /\ call.fn = "xml2prefix" => \A pre \in Range(result) :
         (\A i, j \in DOMAIN call.ds : pre \in DOMAIN call.ds[i] \cap DOMAIN call.ds[j] => call.ds[i][pre] = call.ds[j][pre])
           => xml2ns(call.ds, pre) = call.ns /\ xml_nsctx_node(call.ds)[pre] = call.ns

XPathMeans == EvaluatesRight /\ FormsAgree /\ XPathNames /\ YangPathLeads /\ LiteralsKept
=============================================================================
