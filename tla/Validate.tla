------------------------------ MODULE Validate -------------------------------
(* Validation of a configuration against YANG, full and incremental         *)
(* (lib/src/clixon_validate.c, clixon_validate_minmax.c, and the flags that *)
(* compute_diffs() of apps/backend/backend_commit.c leaves for it).  A      *)
(* value is valid for a type that is a set of values; {} is any value.      *)
(* The cache of leafref searches is not modelled: a search is exact.        *)
EXTENDS TextModify

------------------------------------------------------------------------------
(* What changed.  Nodes are named by paths, as in xml_diff.                 *)

(* find_target_equiv: the node of the target (none: {}) with the names and  *)
(* first keys of the nodes on path p of src.  For a list entry that is not  *)
(* found the first child with its name is taken.                            *)
EquivChild(c, name, key) ==
    IF key = None \/ \A i \in DOMAIN c : c[i].y = name => KeyVal(c[i], Y[name].keys[1]) # key
    THEN xml_find(c, name)
    ELSE CHOOSE i \in DOMAIN c :
           /\ c[i].y = name /\ KeyVal(c[i], Y[name].keys[1]) = key
           /\ \A j \in 1..(i - 1) : c[j].y = name => KeyVal(c[j], Y[name].keys[1]) # key
FirstKey(x) == IF Kw[x.y] = "list" THEN KeyVal(x, Y[x.y].keys[1]) ELSE None

(* The nodes on a path below the root *)
Along(x, p) == [i \in DOMAIN p |-> At(x, SubSeq(p, 1, i))]

EquivStep(w, n, target) ==
    IF w.lost THEN w
    ELSE LET i == EquivChild(At(target, w.p).c, n.y, FirstKey(n))
         IN IF i = 0 THEN [w EXCEPT !.lost = TRUE] ELSE [w EXCEPT !.p = Append(@, i)]
find_target_equiv(src, target, p) ==
    LET w == FoldLeft(LAMBDA v, n : EquivStep(v, n, target), [lost |-> FALSE, p |-> <<>>], Along(src, p))
    IN IF w.lost THEN {} ELSE {w.p}

(* The nodes of the target below which something was deleted *)
DelAnc_none(src, target, del) == {}
DelAnc(src, target, del) ==
    UNION {find_target_equiv(src, target, Front(p)) : p \in del}

(* compute_diffs: the flags in the target *)
Flags(p, add, chg, delanc) ==
    (IF \E q \in add : IsPrefix(q, p) THEN {"ADD"} ELSE {})
    \cup (IF \E q \in add \cup chg : IsPrefix(p, q) /\ (p # q \/ q \in chg) THEN {"CHANGE"} ELSE {})
    \cup (IF \E q \in delanc : IsPrefix(p, q) THEN {"DEL_ANC"} ELSE {})
RECURSIVE FlagTree(_, _, _, _, _)
FlagTree(x, p, add, chg, delanc) ==
    [x EXCEPT !.f = (@ \ {"ADD", "CHANGE", "DEL_ANC"}) \cup Flags(p, add, chg, delanc),
              !.c = [i \in DOMAIN @ |-> FlagTree(@[i], Append(p, i), add, chg, delanc)] \o <<>>]
FlagDiff(src, target, d) ==
    FlagTree(target, <<>>, d.add, {pq[2] : pq \in d.chg}, DelAnc(src, target, d.del))
compute_diffs(src, target) == FlagDiff(src, target, xml_diff(src, target))

Touched(x) == x.f \cap {"CHANGE", "ADD", "DEL_ANC"} # {}

(* must_depth_walk: the number of steps up of an expression; -1 absolute *)
xpath_depth(w) == IF w.up = 0 THEN -1 ELSE w.up

(* An expression is skipped when the ancestor it goes up to is untouched *)
Ancestor(x, chain, n) == IF n = 0 THEN x ELSE chain[Len(chain) + 1 - n]
Skip(x, chain, depth, incrml) ==
    incrml /\ depth >= 0 /\ depth <= Len(chain) /\ ~Touched(Ancestor(x, chain, depth))

------------------------------------------------------------------------------
(* Number of list entries: min-elements, max-elements, keys and unique *)

(* check_minmax, of a list with nr entries *)
check_minmax(y, nr) == Y[y].min <= nr /\ (Y[y].max = 0 \/ nr <= Y[y].max)

(* check_empty_list_minmax: a list without entries, also in a non-presence  *)
(* container that is not there                                              *)
RECURSIVE check_empty_list_minmax(_)
check_empty_list_minmax(y) ==
    CASE Kw[y] \in {"list", "leaf-list"} -> check_minmax(y, 0)
      [] Kw[y] = "container" -> Y[y].presence \/ \A s \in Range(Y[y].sub) : check_empty_list_minmax(s)
      [] OTHER -> TRUE

(* check_unique_list_direct: the entries of a run of list y, those that     *)
(* have all the leafs, differ in them                                       *)
UniqueTuple(x, u) == Map(LAMBDA n : KeyVal(x, n), u)
Distinct(s) == \A i, j \in DOMAIN s : i # j => s[i] # s[j]
check_unique_list_direct(run, u) ==
    u = <<>> \/ Distinct(SelectSeq(Map(LAMBDA x : UniqueTuple(x, u), run), LAMBDA t : ~Contains(t, None)))

(* check_unique_list_direct, for the keys: in a list that is sorted only    *)
(* neighbours are compared (check_insert_duplicate)                         *)
KeysDistinct(run) ==
    LET t == Map(LAMBDA x : UniqueTuple(x, Y[x.y].keys), run)
    IN IF Y[run[1].y].user THEN check_unique_list_direct(run, Y[run[1].y].keys)
       ELSE \A i \in 1..(Len(t) - 1) : Contains(t[i], None) \/ t[i] # t[i + 1]

(* The children of x, in runs of the same statement *)
Runs(c) ==
    FoldLeft(LAMBDA w, z : IF w # <<>> /\ Last(w)[1].y = z.y THEN [w EXCEPT ![Len(w)] = Append(@, z)]
                           ELSE Append(w, <<z>>), <<>>, c)

(* A run of children: a list whose keys and unique leafs are distinct, a    *)
(* leaf-list, or a single node.  The last list among the children is not    *)
(* compared with min and max-elements: there the code asks for a leaf.      *)
RunOk(run, y, last) ==
    CASE Kw[y] = "list" ->
           /\ last \/ check_minmax(y, Len(run))
           /\ KeysDistinct(run)
           /\ check_unique_list_direct(run, Y[y].unique)
      [] Kw[y] = "leaf-list" -> check_minmax(y, Len(run))
      [] OTHER -> Len(run) = 1

(* xml_yang_minmax_gap_analysis: the substatements up to y, or to the       *)
(* choice that y is in, are missing; w.next is the one after the last found *)
GapTo(sub, w, ye, j) ==
    [ye |-> ye, next |-> j + 1, ok |-> w.ok /\ \A i \in w.next..(j - 1) : check_empty_list_minmax(sub[i])]
GapOf(y) == IF yang_choice_case_get(y) # <<>> THEN yang_choice_case_get(y)[2] ELSE y
Gap(sub, w, ye) ==
    IF w.ye = ye THEN w
    ELSE IF \E j \in w.next..Len(sub) : sub[j] = ye
    THEN GapTo(sub, w, ye, CHOOSE j \in w.next..Len(sub) : sub[j] = ye)
    ELSE GapTo(sub, w, "", Len(sub) + 1)
xml_yang_minmax_gap_analysis(x, runs) ==
    x.y = Top \/
    LET sub == Y[x.y].sub
        w == FoldLeft(LAMBDA v, run : Gap(sub, v, GapOf(run[1].y)),
                      [ye |-> "", next |-> 1, ok |-> TRUE], runs)
    IN GapTo(sub, w, "", Len(sub) + 1).ok

(* xml_yang_validate_minmax; with presence, also in the non-presence        *)
(* containers of x.  The root has no statement: nothing is missing there.   *)
RECURSIVE xml_yang_validate_minmax(_, _)
MinmaxRuns(x, runs, presence) ==
    /\ \A i \in DOMAIN runs : RunOk(runs[i], runs[i][1].y, i = Len(runs))
    /\ xml_yang_minmax_gap_analysis(x, runs)
    /\ presence => \A z \in Range(x.c) : Kw[z.y] = "container" /\ ~Y[z.y].presence
                                         => xml_yang_validate_minmax(z, presence)
xml_yang_validate_minmax(x, presence) == MinmaxRuns(x, Runs(x.c), presence)

(* xml_duplicate_detect of an edit, sorted before: an entry of a list or    *)
(* leaf-list given twice is an error, or with rm only the last one stays.   *)
(* A leaf or container given twice is no error here.                        *)
EntryKey(x) == IF Kw[x.y] = "leaf-list" THEN <<x.b>> ELSE UniqueTuple(x, Y[x.y].keys)
Repeated(c, i) ==
    \E j \in (i + 1)..Len(c) :
      /\ c[i].y = c[j].y
      /\ Kw[c[i].y] = "list" => ~Contains(EntryKey(c[i]), None)
      /\ Kw[c[i].y] \in {"list", "leaf-list"} => EntryKey(c[i]) = EntryKey(c[j])
UniqueRuns(c) == \A run \in Range(Runs(c)) : check_unique_list_direct(run, Y[run[1].y].unique)
RECURSIVE DuplicateFree(_, _)
DuplicateFree(x, rm) ==
    /\ UniqueRuns(x.c)
    /\ \A i \in DOMAIN x.c : /\ rm \/ Kw[x.c[i].y] \notin {"list", "leaf-list"} \/ ~Repeated(x.c, i)
                             /\ DuplicateFree(x.c[i], rm)
RECURSIVE RemoveDuplicates(_)
RemoveDuplicates(x) ==
    [x EXCEPT !.c = Map(LAMBDA i : RemoveDuplicates(x.c[i]),
                        SelectSeq(Indices(@), LAMBDA i : ~Repeated(x.c, i)))]
xml_duplicate_detect(x, rm) ==
    [ok |-> DuplicateFree(x, rm), x |-> IF rm THEN RemoveDuplicates(x) ELSE x]

------------------------------------------------------------------------------
(* Choices, mandatory nodes, types, when and must *)

check_list_key(x) == \A k \in Range(Y[x.y].keys) : KeyVal(x, k) # None

(* xml_yang_validate_list_key_only: of an edit *)
RECURSIVE xml_yang_validate_list_key_only(_)
xml_yang_validate_list_key_only(x) ==
    /\ x.y # Top /\ Kw[x.y] = "list" => check_list_key(x)
    /\ \A z \in Range(x.c) : xml_yang_validate_list_key_only(z)

(* check_choice_child: no sibling is in another case of the same choice *)
ChoiceClash(cc, cc1) == cc # <<>> /\ cc1 # <<>> /\ cc[2] = cc1[2] /\ (cc[1] # cc1[1] \/ cc[1] = "")
check_choice_child(x, c) ==
    \A z \in Range(c) : z.y = x.y \/ ~ChoiceClash(yang_choice_case_get(x.y), yang_choice_case_get(z.y))

(* yang_xml_mandatory: y below x, unless its when says there is no such     *)
(* node; a non-presence container is mandatory with a mandatory node in it  *)
RECURSIVE yang_xml_mandatory(_, _)
yang_xml_mandatory(y, chain) ==
    /\ yang_check_when_xpath(y, chain)
    /\ CASE Kw[y] \in {"leaf", "choice"} -> Y[y].mandatory
         [] Kw[y] = "container" /\ ~Y[y].presence ->
              \E s \in Range(Y[y].sub) : yang_xml_mandatory(s, Append(chain, Xml(y, None, <<>>)))
         [] OTHER -> FALSE

(* check_mandatory_case: the case that a child is in has its mandatory ones *)
RECURSIVE Below(_, _)
Below(y, top) == y = top \/ (y # Top /\ Below(Y[y].parent, top))
check_mandatory_case(x, choice, chain) ==
    \A case \in {s \in Range(Y[choice].sub) : Kw[s] = "case"} :
      (\E z \in Range(x.c) : Below(z.y, case)) =>
        \A s \in Range(Y[case].sub) :
          yang_xml_mandatory(s, chain) => \E z \in Range(x.c) : Below(z.y, s)

(* check_mandatory; chain ends with x *)
check_mandatory(x, chain) ==
    /\ Kw[x.y] = "list" => check_list_key(x)
    /\ Kw[x.y] \in {"container", "list"} =>
         \A s \in Range(Y[x.y].sub) :
           CASE Kw[s] = "choice" ->
                  /\ yang_xml_mandatory(s, chain) =>
                       \E z \in Range(x.c) : yang_choice_case_get(z.y) # <<>> /\ yang_choice_case_get(z.y)[2] = s
                  /\ check_mandatory_case(x, s, chain)
             [] Kw[s] \in {"leaf", "container"} -> yang_xml_mandatory(s, chain) => xml_find(x.c, s) # 0
             [] OTHER -> TRUE

validate_when1(x, chain, incrml) ==
    \/ \E w \in Range(Y[x.y].when) : Skip(x, chain, xpath_depth(w), incrml)
    \/ yang_check_when_xpath(x.y, chain)

validate_choice1(x, chain, incrml) ==
    (incrml => x.f \cap {"ADD", "CHANGE"} # {}) => check_choice_child(x, Last(chain).c)

validate_mandatory1(x, chain, incrml) ==
    (incrml => Touched(x)) => check_mandatory(x, Append(chain, x))

(* validate_leafref: a node of the path has the value *)
validate_leafref(x, w, chain) ==
    \E z \in PathHits(chain[IF w.up = 0 THEN 1 ELSE Len(chain) + 1 - w.up], w.p) : z.b = x.b

validate_leaf_type1(x, chain, incrml) ==
    /\ (incrml => x.f \cap {"ADD", "CHANGE"} # {}) => (Y[x.y].type = {} \/ x.b \in Y[x.y].type)
    /\ \A w \in Range(Y[x.y].path) :
         (xpath_depth(w) >= 1 /\ Skip(x, chain, xpath_depth(w), incrml)) \/ validate_leafref(x, w, chain)

validate_musts1(x, chain, incrml) ==
    \A w \in Range(Y[x.y].must) :
      Skip(x, chain, xpath_depth(w), incrml) \/ xpath_vec_bool(w, chain)

(* xml_yang_validate_all1: x and below; chain: its ancestors *)
RECURSIVE xml_yang_validate_all1(_, _, _)
xml_yang_validate_all1(x, chain, incrml) ==
    /\ validate_when1(x, chain, incrml)
    /\ validate_choice1(x, chain, incrml)
    /\ validate_mandatory1(x, chain, incrml)
    /\ Kw[x.y] \in {"leaf", "leaf-list"} => validate_leaf_type1(x, chain, incrml)
    /\ validate_musts1(x, chain, incrml)
    /\ \A z \in Range(x.c) : xml_yang_validate_all1(z, Append(chain, x), incrml)
    /\ (incrml => Touched(x)) => xml_yang_validate_minmax(x, TRUE)

xml_yang_validate_all_state_td(x, incrml) ==
    /\ \A z \in Range(x.c) : xml_yang_validate_all1(z, <<x>>, incrml)
    /\ xml_yang_validate_minmax(x, FALSE)

(* validate_common: of the target against running; the target is filled in  *)
(* with defaults first                                                      *)
validate_common(src, target) == xml_yang_validate_all_state_td(compute_diffs(src, target), TRUE)
==============================================================================
