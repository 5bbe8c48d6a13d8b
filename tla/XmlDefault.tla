----------------------------- MODULE XmlDefault -----------------------------
(* Default values of configuration data (lib/src/clixon_xml_default.c):     *)
(* when a tree has been read or edited, the default leafs and the           *)
(* non-presence containers that hold them are added.  Two caches are kept:  *)
(* what a non-presence container was filled with the first time (ncache),   *)
(* and all defaults of an empty tree (gcache, global-defaults-config).      *)
(*                                                                          *)
(* An XPath expression is <<[up, p, eq]>>: from the up-th parent of the     *)
(* node (0: the root) along the names p to a node, with value eq unless eq  *)
(* is None; <<>> is no expression.  chain is the sequence of the ancestors  *)
(* of a node, the root first.  An expression goes up to an ancestor and     *)
(* down beside the branch it came from.                                     *)
EXTENDS XmlDiff

RECURSIVE PathHits(_, _)
PathHits(x, p) ==
    IF p = <<>> THEN {x}
    ELSE UNION {PathHits(z, Tail(p)) : z \in {z \in Range(x.c) : z.y = p[1]}}

(* xpath_vec_bool *)
xpath_vec_bool(w, chain) ==
    w.up <= Len(chain) /\
    \E z \in PathHits(chain[IF w.up = 0 THEN 1 ELSE Len(chain) + 1 - w.up], w.p) :
       w.eq = None \/ z.b = w.eq

(* yang_check_when_xpath: ~(hit && nr == 0) *)
yang_check_when_xpath(y, chain) ==
    \A w \in Range(IF Y[y].awhen # <<>> THEN Y[y].awhen ELSE Y[y].when) : xpath_vec_bool(w, chain)

NoCache == [y \in {z \in DOMAIN Y : Kw[z] = "container"} |-> NoXml]

(* xml_nopresence_try: does a non-presence container get any defaults?      *)
(* createp is reset by each nested container.                               *)
TryNested(r) == [stop |-> r, create |-> r]
RECURSIVE xml_nopresence_try(_)
xml_nopresence_try(yt) ==
    LET Step(w, y) ==
          CASE w.stop -> w
            [] ~w.stop /\ Kw[y] \in {"leaf", "leaf-list"} /\ Y[y].dflt # <<>> -> TryNested(TRUE)
            [] ~w.stop /\ Kw[y] = "container" /\ ~Y[y].presence -> TryNested(xml_nopresence_try(y))
            [] ~w.stop /\ Kw[y] = "choice" /\ Y[y].dcase # "" -> [w EXCEPT !.create = TRUE]
            [] OTHER -> w
    IN FoldLeft(Step, [stop |-> FALSE, create |-> FALSE], Y[yt].sub).create

(* xml_default_create: a new child with the default flag, then xml_sort *)
xml_default_create(x, y) ==
    [x EXCEPT !.c = xml_sort(@ \o [i \in DOMAIN Y[y].dflt |->
                                     xml_flag_set(Xml(y, Y[y].dflt[i], <<>>), {"DEFAULT"})])]

(* xml_default_choice: the case whose defaults are used: the one of the     *)
(* first child in the choice, or the default case                           *)
xml_default_choice(x, y) ==
    LET InChoice(z) == yang_choice_case_get(z.y) # <<>> /\ yang_choice_case_get(z.y)[2] = y
    IN IF ~\E z \in Range(x.c) : InChoice(z) THEN Y[y].dcase
       ELSE yang_choice_case_get(SelectSeq(x.c, InChoice)[1].y)[1]

(* xml_default: add to x the defaults of the substatements of yt, which is  *)
(* its own statement or a case in it; chain: the ancestors of x.  Returns   *)
(* the tree and the cache of non-presence containers.                       *)
Missing(w, y, chain) ==
    xml_find(w.x.c, y) = 0 /\ yang_check_when_xpath(y, Append(chain, w.x))
AddContainer(x, z, ncache) == [x |-> [x EXCEPT !.c = xml_sort(Append(@, z))], ncache |-> ncache]
AddCached(x, r, y) == AddContainer(x, r.x, [r.ncache EXCEPT ![y] = r.x])

RECURSIVE xml_default(_, _, _, _)
DefaultCase(w, case, chain) == IF case = "" THEN w ELSE xml_default(case, w.x, chain, w.ncache)
DefaultStep(w, y, chain) ==
    CASE Kw[y] \in {"leaf", "leaf-list"} /\ Y[y].dflt # <<>> /\ Missing(w, y, chain) ->
           [w EXCEPT !.x = xml_default_create(@, y)]
      [] Kw[y] = "container" /\ ~Y[y].presence /\ Missing(w, y, chain) ->
           IF w.ncache[y] # NoXml THEN AddContainer(w.x, w.ncache[y], w.ncache)
           ELSE IF ~xml_nopresence_try(y) THEN w
           ELSE AddCached(w.x, xml_default(y, Xml(y, None, <<>>), Append(chain, w.x), w.ncache), y)
      [] Kw[y] = "choice" -> DefaultCase(w, xml_default_choice(w.x, y), chain)
      [] OTHER -> w
xml_default(yt, x, chain, ncache) ==
    FoldLeft(LAMBDA w, y : DefaultStep(w, y, chain), [x |-> x, ncache |-> ncache], Y[yt].sub)

(* xml_default_recurse: x and below; with flag only where it was changed *)
FlagBelow(x, flag) == IF "CHANGE" \notin x.f /\ x.f \cap flag # {} THEN {} ELSE flag
SetChild(x, i, r) == [x |-> [x EXCEPT !.c[i] = r.x], ncache |-> r.ncache]

RECURSIVE xml_default_recurse(_, _, _, _)
DefaultBelow(w0, chain, flag) ==
    FoldLeft(LAMBDA w, i : SetChild(w.x, i, xml_default_recurse(w.x.c[i], Append(chain, w.x), flag, w.ncache)),
             w0, Indices(w0.x.c))
xml_default_recurse(x, chain, flag, ncache) ==
    IF flag # {} /\ x.f \cap (flag \cup {"CHANGE"}) = {} THEN [x |-> x, ncache |-> ncache]
    ELSE DefaultBelow(IF x.y = Top THEN [x |-> x, ncache |-> ncache]
                      ELSE xml_default(x.y, x, chain, ncache), chain, FlagBelow(x, flag))

(* xml_global_defaults: the defaults of an empty tree, made once, are       *)
(* merged into x                                                            *)
MergeGlobal(x, g) == [x |-> xml_merge(x, g.g, FALSE), caches |-> g]
NewCaches(r) == [n |-> r.ncache, g |-> r.x]
xml_global_defaults(x, caches) ==
    MergeGlobal(x, IF caches.g # NoXml THEN caches
                   ELSE NewCaches(xml_default(Top, Xml(Top, None, <<>>), <<>>, caches.n)))

(* xml_default_nopresence: is x but for defaults an empty non-presence      *)
(* container?  With mode 2 such children are removed, with mode 3 only      *)
(* containers are; with flag only below what was changed.                   *)
NoPresence(x, mode, r) ==
    [x |-> [x EXCEPT !.c = Map(LAMBDA e : e.x, SelectSeq(r, LAMBDA e : mode = 0 \/ ~e.rm))],
     rm |-> /\ \/ Kw[x.y] = "container" /\ ~Y[x.y].presence
               \/ Kw[x.y] \in {"leaf", "leaf-list"} /\ "DEFAULT" \in x.f /\ mode # 3
            /\ \A e \in Range(r) : e.rm]
RECURSIVE xml_default_nopresence(_, _, _)
xml_default_nopresence(x, mode, flag) ==
    IF flag # {} /\ x.f \cap (flag \cup {"CHANGE"}) = {} THEN [x |-> x, rm |-> FALSE]
    ELSE NoPresence(x, mode, Map(LAMBDA z : xml_default_nopresence(z, mode, FlagBelow(x, flag)), x.c))

(* xml2output_wdef, WITHDEFAULTS_EXPLICIT: is x written to a file? *)
RECURSIVE xml2output_wdef(_)
xml2output_wdef(x) ==
    CASE Kw[x.y] = "container" /\ ~Y[x.y].presence -> \E z \in Range(x.c) : xml2output_wdef(z)
      [] Kw[x.y] \in {"leaf", "leaf-list"} -> "DEFAULT" \notin x.f
      [] OTHER -> TRUE
==============================================================================
