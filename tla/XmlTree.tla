------------------------------- MODULE XmlTree -------------------------------
(* Trees of configuration data bound to YANG: the order of the children of  *)
(* a node, how they are searched and where a new one is inserted            *)
(* (lib/src/clixon_xml_sort.c and the ordering of clixon_yang.c), and the   *)
(* marking and pruning of trees (clixon_xml_map.c).                         *)
(*                                                                          *)
(* A YANG statement is a name in DOMAIN Y; names are unique, so that the    *)
(* name of a data node is also its specification.  A tree is a record: its  *)
(* statement, its body, its children and its flags.                         *)
EXTENDS Integers, Sequences, FiniteSets, SequencesExt

CONSTANTS
    YSpec,      \* the YANG statements: a function to records, see Y
    YSpecKw,    \* their keywords
    YSpecOrder  \* the order of the data nodes, the value of yang_order

(* Y[s]: parent, sub(statements), keys of a list, user (ordered by), dflt   *)
(* (default values), dcase (default case), presence, mandatory, min and max *)
(* (elements, 0: unbounded), unique leafs, when, awhen (that of the augment *)
(* or uses it comes from), must, path of a leafref, type                    *)
Y == YSpec
Kw == YSpecKw
YOrder == YSpecOrder

None == -1   \* no body
Top == "top"

Xml(y, b, c) == [y |-> y, b |-> b, c |-> c, f |-> {}]
NoXml == Xml("", None, <<>>)
Indices(s) == [i \in DOMAIN s |-> i]

(* F of every element of s.  TLC evaluates a concatenation at once, and a   *)
(* function wherever it is applied.                                         *)
Map(F(_), s) == [i \in DOMAIN s |-> F(s[i])] \o <<>>

xml_flag_set(x, f) == [x EXCEPT !.f = @ \cup f]
xml_flag_reset(x, f) == [x EXCEPT !.f = @ \ f]

(* xml_apply(): reset flags below x, but not on x itself *)
RECURSIVE xml_apply_reset(_, _)
xml_apply_reset(x, f) ==
    [x EXCEPT !.c = Map(LAMBDA z : xml_flag_reset(xml_apply_reset(z, f), f), @)]

(* xml_apply0(): set flags on x and below *)
RECURSIVE xml_apply0_set(_, _)
xml_apply0_set(x, f) ==
    xml_flag_set([x EXCEPT !.c = Map(LAMBDA z : xml_apply0_set(z, f), @)], f)

------------------------------------------------------------------------------
(* Statements *)

yang_datanode(s) == Kw[s] \in {"container", "list", "leaf", "leaf-list"}

(* yang_choice_case_get: the case (or "") and choice a data node is in *)
yang_choice_case_get(s) ==
    CASE s = Top -> <<>>
      [] s # Top /\ Kw[Y[s].parent] = "case" -> <<Y[s].parent, Y[Y[s].parent].parent>>
      [] s # Top /\ Kw[Y[s].parent] = "choice" -> <<"", Y[s].parent>>
      [] OTHER -> <<>>

(* yang_order1_choice: walk over a choice looking for y.  Every case starts *)
(* at the index of the choice; the index ends beyond the longest one.       *)
CaseEnd(r, index0) ==
    IF r.hit \/ r.index - index0 <= r.max THEN r ELSE [r EXCEPT !.max = r.index - index0]
ChoiceEnd(w) == IF w.hit THEN w ELSE [w EXCEPT !.index = @ + w.max]

RECURSIVE yang_order1_choice(_, _, _)
yang_order1_choice(yp, y, w0) ==
    LET InCase(w, yc) ==
          CASE w.hit -> w
            [] ~w.hit /\ Kw[yc] = "choice" -> [yang_order1_choice(yc, y, w) EXCEPT !.max = w.max]
            [] ~w.hit /\ Kw[yc] # "choice" /\ yc = y -> [w EXCEPT !.hit = TRUE]
            [] OTHER -> [w EXCEPT !.index = @ + 1]
        InChoice(w, ys) ==
          IF w.hit THEN w
          ELSE IF Kw[ys] = "case"
          THEN CaseEnd(FoldLeft(InCase, [w EXCEPT !.index = w0.index], Y[ys].sub), w0.index)
          ELSE [w EXCEPT !.max = 1, !.hit = (ys = y)]
    IN ChoiceEnd(FoldLeft(InChoice, [w0 EXCEPT !.max = 0], Y[yp].sub))

(* yang_order1: the index of y among the data nodes of yp *)
yang_order1(yp, y) ==
    LET Step(w, ys) ==
          CASE w.hit -> w
            [] ~w.hit /\ Kw[ys] = "choice" -> yang_order1_choice(ys, y, w)
            [] ~w.hit /\ Kw[ys] # "choice" /\ ys = y -> [w EXCEPT !.hit = TRUE]
            [] OTHER -> [w EXCEPT !.index = @ + 1]
    IN FoldLeft(Step, [hit |-> FALSE, index |-> 0, max |-> 0], Y[yp].sub).index

(* yang_order: cases and choices do not count as parents *)
RECURSIVE yang_order(_, _)
yang_order(yp, y) ==
    IF Kw[yp] \in {"case", "choice"} THEN yang_order(Y[yp].parent, y) ELSE yang_order1(yp, y)

ASSUME YOrderAssumption ==
    \A s \in DOMAIN Y \ {Top} : yang_datanode(s) => YOrder[s] = yang_order(Y[s].parent, s)

------------------------------------------------------------------------------
(* Order of siblings *)

(* xml_find(x, name), as an index; 0: none *)
xml_find(c, y) ==
    IF \A i \in DOMAIN c : c[i].y # y THEN 0
    ELSE CHOOSE i \in DOMAIN c : c[i].y = y /\ \A j \in 1..(i - 1) : c[j].y # y

KeyVal(x, k) ==
    IF \A z \in Range(x.c) : z.y # k THEN None ELSE (CHOOSE z \in Range(x.c) : z.y = k).b

(* xml_cmp, same = 0: negative when x1 is before x2.  A leaf-list goes by   *)
(* its value, a list by its keys; skip1: not by the keys x1 does not have.  *)
CmpKeys(x1, x2, ks) == IF ks = <<>> THEN 0 ELSE KeyVal(x1, ks[1]) - KeyVal(x2, ks[1])

xml_cmp(x1, x2, skip1) ==
    CASE YOrder[x1.y] # YOrder[x2.y] -> YOrder[x1.y] - YOrder[x2.y]
      [] YOrder[x1.y] = YOrder[x2.y] /\ Kw[x1.y] = "leaf-list" -> x1.b - x2.b
      [] YOrder[x1.y] = YOrder[x2.y] /\ Kw[x1.y] = "list" ->
           CmpKeys(x1, x2, SelectSeq(Y[x1.y].keys, LAMBDA k :
             ~(skip1 /\ KeyVal(x1, k) = None) /\ KeyVal(x1, k) # KeyVal(x2, k)))
      [] OTHER -> 0

(* xml_cmp, same = 1: the siblings are enumerated, and those that are equal *)
(* or ordered by the user keep their order.                                 *)
CmpEnumerated(d, i, j) == IF d = 0 THEN i - j ELSE d
xml_cmp_same(c, i, j) ==
    IF Y[c[i].y].user /\ YOrder[c[i].y] = YOrder[c[j].y] THEN i - j
    ELSE CmpEnumerated(xml_cmp(c[i], c[j], FALSE), i, j)

(* xml_sort: qsort of the children by xml_cmp_qsort *)
xml_sort(c) == Map(LAMBDA i : c[i], SortSeq(Indices(c), LAMBDA i, j : xml_cmp_same(c, i, j) < 0))

(* xml_sort_verify: are the children sorted? *)
xml_sort_verify(c) == \A i \in 1..(Len(c) - 1) : xml_cmp_same(c, i, i + 1) <= 0

(* xml_sort_recurse: a node whose children are sorted is not sorted again *)
RECURSIVE xml_sort_recurse(_)
xml_sort_recurse(x) ==
    [x EXCEPT !.c = Map(xml_sort_recurse, IF xml_sort_verify(@) THEN @ ELSE xml_sort(@))]

------------------------------------------------------------------------------
(* Search.  Positions count from 0 as in the child vector; c[i + 1] is the  *)
(* child at i.                                                              *)

LeastOf(S) == CHOOSE i \in S : \A j \in S : i <= j
GreatestOf(S) == CHOOSE i \in S : \A j \in S : i >= j

(* xml_find_keys_notsorted: linear search of the siblings of the same order *)
(* to the right of mid, then to the left                                    *)
FirstHit(right, left) ==
    CASE right # {} -> {LeastOf(right)}
      [] right = {} /\ left # {} -> {GreatestOf(left)}
      [] OTHER -> {}
Near(hits, same, mid) ==
    FirstHit({i \in hits : i > mid /\ (mid + 1)..i \subseteq same},
             {i \in hits : i < mid /\ i..(mid - 1) \subseteq same})
xml_find_keys_notsorted(c, x1, mid, skip1) ==
    Near({i \in 0..(Len(c) - 1) : xml_cmp(c[i + 1], x1, skip1) = 0},
         {i \in 0..(Len(c) - 1) : YOrder[c[i + 1].y] = YOrder[x1.y]}, mid)

(* search_multi_equals: the neighbours of mid that are equal to x1 too *)
Around(equal, mid) ==
    {i \in equal \cup {mid} : (IF i < mid THEN i..(mid - 1) ELSE (mid + 1)..i) \subseteq equal}
search_multi_equals(c, x1, mid, skip1) ==
    Around({i \in 0..(Len(c) - 1) : /\ YOrder[c[i + 1].y] = YOrder[x1.y]
                                    /\ xml_cmp(x1, c[i + 1], skip1) = 0}, mid)

(* xml_search_binary; SearchAt: after the comparison with the child at mid *)
RECURSIVE xml_search_binary(_, _, _, _, _, _)
SearchAt(c, x1, sorted, low, upper, skip1, mid, same, cmp) ==
    CASE same /\ cmp # 0 /\ ~sorted -> xml_find_keys_notsorted(c, x1, mid, skip1)
      [] cmp = 0 -> search_multi_equals(c, x1, mid, skip1)
      [] cmp < 0 /\ (same => sorted) -> xml_search_binary(c, x1, sorted, low, mid - 1, skip1)
      [] cmp > 0 /\ (same => sorted) -> xml_search_binary(c, x1, sorted, mid + 1, upper, skip1)
xml_search_binary(c, x1, sorted, low, upper, skip1) ==
    LET mid == (low + upper) \div 2
        d == YOrder[x1.y] - YOrder[c[mid + 1].y]
    IN IF upper < low \/ mid >= Len(c) THEN {}
       ELSE SearchAt(c, x1, sorted, low, upper, skip1, mid, d = 0,
                     IF d # 0 THEN d ELSE xml_cmp(x1, c[mid + 1], skip1))

(* xml_search_yang: the positions of the children equal to x1 *)
xml_search_yang(c, x1, skip1) ==
    xml_search_binary(c, x1, ~Y[x1.y].user, 0, Len(c), skip1)

(* match_base_child: index in c of the child that x1c edits; 0: none.  A    *)
(* list entry without all its keys matches nothing.                         *)
FirstOf(hits) == IF hits = {} THEN 0 ELSE 1 + LeastOf(hits)
match_base_child(c, x1c) ==
    IF \E k \in Range(Y[x1c.y].keys) : KeyVal(x1c, k) = None THEN 0
    ELSE FirstOf(xml_search_yang(c, x1c, FALSE))

(* xml_find_index_yang: the entries of list y with the given leading keys   *)
(* (vals), or of leaf-list y with that value                                *)
xml_find_index_yang(c, y, vals) ==
    xml_search_yang(c, IF Kw[y] = "list"
                       THEN Xml(y, None, [i \in DOMAIN vals |-> Xml(Y[y].keys[i], vals[i], <<>>)])
                       ELSE Xml(y, vals[1], <<>>), TRUE)

(* xml_find_noyang_name: linear search *)
xml_find_noyang_name(c, y, vals) ==
    {i \in 0..(Len(c) - 1) :
       /\ c[i + 1].y = y
       /\ \A j \in DOMAIN vals :
            vals[j] = IF Kw[y] = "list" THEN KeyVal(c[i + 1], Y[y].keys[j]) ELSE c[i + 1].b}

------------------------------------------------------------------------------
(* Insertion: a position, or -1 for an error *)

(* xml_insert_userorder: next to mid, a sibling of the same list.  at is    *)
(* the value or key attribute of an insert before or after.                 *)
NextTo(found, ins) ==
    CASE found = {} -> -1
      [] found # {} /\ ins = "before" -> LeastOf(found)
      [] found # {} /\ ins = "after" -> LeastOf(found) + 1
xml_insert_userorder(c, xn, mid, ins, at) ==
    LET Same(i) == c[i + 1].y = xn.y
    IN CASE ins = "first" ->
              CHOOSE i \in 0..mid : (\A j \in i..mid : Same(j)) /\ (i = 0 \/ ~Same(i - 1))
         [] ins = "last" ->
              CHOOSE i \in (mid + 1)..Len(c) :
                 (\A j \in mid..(i - 1) : Same(j)) /\ (i = Len(c) \/ ~Same(i))
         [] OTHER -> NextTo(xml_find_noyang_name(c, xn.y, <<at>>), ins)

(* xml_insert2: binary search of the position between low and upper *)
RECURSIVE xml_insert2(_, _, _, _, _, _)
InsertAfterCmp(c, xn, ins, at, low, upper, mid, cmp) ==
    CASE low + 1 = upper -> IF cmp < 0 THEN mid ELSE mid + 1
      [] low + 1 # upper /\ cmp = 0 -> mid
      [] low + 1 # upper /\ cmp < 0 -> xml_insert2(c, xn, ins, at, low, mid)
      [] low + 1 # upper /\ cmp > 0 -> xml_insert2(c, xn, ins, at, mid + 1, upper)
xml_insert2(c, xn, ins, at, low, upper) ==
    LET mid == (low + upper) \div 2
        xc == c[mid + 1]
    IN CASE low = upper -> low
         [] low # upper /\ xc.y = xn.y /\ Y[xn.y].user -> xml_insert_userorder(c, xn, mid, ins, at)
         [] OTHER -> InsertAfterCmp(c, xn, ins, at, low, upper, mid,
                                    IF xc.y = xn.y THEN xml_cmp(xn, xc, FALSE)
                                    ELSE YOrder[xn.y] - YOrder[xc.y])

(* xml_insert; err: an error, nothing is inserted *)
Inserted(c, xn, i) == [err |-> i < 0, c |-> IF i < 0 THEN c ELSE InsertAt(c, i + 1, xn)]
xml_insert_last(c, xn, ins, at) == Inserted(c, xn, Len(c))
xml_insert(c, xn, ins, at) == Inserted(c, xn, xml_insert2(c, xn, ins, at, 0, Len(c)))

------------------------------------------------------------------------------
(* Marked trees *)

(* xml_tree_prune_flagged_sub: remove the subtrees of x without an          *)
(* unflagged node (test = 0); the keys of a list entry go last.             *)
IsKey(x, z) == x.y # Top /\ z.y \in Range(Y[x.y].keys)
PruneKeys(x, w) ==
    [x |-> [x EXCEPT !.c = IF w.mark THEN w.c ELSE SelectSeq(w.c, LAMBDA z : ~IsKey(x, z))],
     mark |-> w.mark]
PruneMark(w, r) == IF r.mark THEN [c |-> Append(w.c, r.x), mark |-> TRUE] ELSE w

RECURSIVE xml_tree_prune_flagged_sub(_, _)
xml_tree_prune_flagged_sub(x, flag) ==
    LET Step(w, z) ==
          CASE flag \notin z.f -> [c |-> Append(w.c, z), mark |-> TRUE]
            [] flag \in z.f /\ IsKey(x, z) -> [w EXCEPT !.c = Append(@, z)]
            [] OTHER -> PruneMark(w, xml_tree_prune_flagged_sub(z, flag))
    IN PruneKeys(x, FoldLeft(Step, [c |-> <<>>, mark |-> FALSE], x.c))

(* xml_tree_prune_flags: remove the nodes with a flag *)
RECURSIVE xml_tree_prune_flags(_, _)
xml_tree_prune_flags(x, flag) ==
    [x EXCEPT !.c = Map(LAMBDA z : xml_tree_prune_flags(z, flag),
                        SelectSeq(@, LAMBDA z : flag \notin z.f))]

(* xml_copy_marked: copy the marked nodes, the nodes above them, and the    *)
(* keys of the list entries above them                                      *)
RECURSIVE xml_copy_marked(_)
xml_copy_marked(x) ==
    LET mark == \E z \in Range(x.c) : z.f \cap {"MARK", "CHANGE"} # {}
        One(z) == IF "MARK" \in z.f THEN <<z>>
                  ELSE (IF "CHANGE" \in z.f THEN <<xml_copy_marked(z)>> ELSE <<>>)
                       \o (IF mark /\ IsKey(x, z) THEN <<z>> ELSE <<>>)
    IN [x EXCEPT !.c = FlattenSeq(Map(One, @)), !.f = {}]
------------------------------------------------------------------------------
(* The data of a tree are its leafs, presence containers and list entries,  *)
(* each named by the path of names and keys to it; defaults and containers  *)
(* without presence are not data.                                           *)

Ident(x) == <<x.y, CASE Kw[x.y] = "list" -> Map(LAMBDA k : KeyVal(x, k), Y[x.y].keys)
                     [] Kw[x.y] = "leaf-list" -> <<x.b>>
                     [] OTHER -> <<>>>>

Own(x, q) ==
    CASE Kw[x.y] \in {"leaf", "leaf-list"} -> {[p |-> q, b |-> x.b]}
      [] Kw[x.y] = "container" /\ ~Y[x.y].presence -> {}
      [] OTHER -> {[p |-> q, b |-> None]}

(* dflt: the defaults instead *)
RECURSIVE Data(_, _, _)
Data(x, p, dflt) ==
    UNION {LET q == Append(p, Ident(z))
           IN (IF ("DEFAULT" \in z.f) = dflt THEN Own(z, q) ELSE {}) \cup Data(z, q, dflt)
           : z \in Range(x.c)}
==============================================================================
