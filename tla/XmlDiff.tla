------------------------------- MODULE XmlDiff -------------------------------
(* Comparing two sorted trees, merging one into another, and the three-way  *)
(* rebase of a private candidate (lib/src/clixon_xml_diff.c).  A node of a  *)
(* tree is named by its path: the indices of the children down to it.       *)
EXTENDS XmlTree

(* xml_tree_equal: 0 in the code *)
RECURSIVE xml_tree_equal(_, _)
xml_tree_equal(x0, x1) ==
    /\ Len(x0.c) = Len(x1.c)
    /\ \A i \in DOMAIN x0.c :
         /\ x0.c[i].y = x1.c[i].y
         /\ xml_cmp(x0.c[i], x1.c[i], FALSE) = 0
         /\ IF Kw[x0.c[i].y] = "leaf" THEN x0.c[i].b = x1.c[i].b
            ELSE xml_tree_equal(x0.c[i], x1.c[i])

------------------------------------------------------------------------------
(* The difference of two trees *)

NoDiff == [del |-> {}, add |-> {}, chg |-> {}]
DiffUnion(d, e) == [del |-> d.del \cup e.del, add |-> d.add \cup e.add, chg |-> d.chg \cup e.chg]

(* xml_diff_ordered_by_user: the children from i on of the same list *)
SameListFrom(c, i) == {k \in i..Len(c) : \A j \in i..k : c[j].y = c[i].y}

(* xml_diff1 from the children i and j on: the deleted nodes of x0 (first), *)
(* the added nodes of x1 (second) and the changed leafs of both.  From the  *)
(* first entry that differs, all of a user-ordered list is replaced.        *)
(* DiffStep: what the children i and j contribute, and how far to go on.    *)
Del(p0, ks) == [NoDiff EXCEPT !.del = {Append(p0, k) : k \in ks}]
Add(p1, ks) == [NoDiff EXCEPT !.add = {Append(p1, k) : k \in ks}]

RECURSIVE xml_diff1(_, _, _, _, _, _)
DiffLists(r0, r1, p0, p1) ==
    [d |-> DiffUnion(Del(p0, r0), Add(p1, r1)), i |-> Cardinality(r0), j |-> Cardinality(r1)]
DiffStep(x0, x1, p0, p1, i, j, z0, z1, eq) ==
    CASE eq # 0 /\ z0.y = z1.y /\ Y[z0.y].user ->
           DiffLists(SameListFrom(x0.c, i), SameListFrom(x1.c, j), p0, p1)
      [] eq < 0 /\ (z0.y = z1.y => ~Y[z0.y].user) -> [d |-> Del(p0, {i}), i |-> 1, j |-> 0]
      [] eq > 0 /\ (z0.y = z1.y => ~Y[z0.y].user) -> [d |-> Add(p1, {j}), i |-> 0, j |-> 1]
      [] eq = 0 /\ z0.y # z1.y -> [d |-> DiffUnion(Del(p0, {i}), Add(p1, {j})), i |-> 1, j |-> 1]
      [] eq = 0 /\ z0.y = z1.y /\ Kw[z0.y] = "leaf" ->
           [d |-> [NoDiff EXCEPT !.chg = IF z0.b = z1.b THEN {}
                                         ELSE {<<Append(p0, i), Append(p1, j)>>}],
            i |-> 1, j |-> 1]
      [] OTHER -> [d |-> xml_diff1(z0, z1, Append(p0, i), Append(p1, j), 1, 1), i |-> 1, j |-> 1]
DiffOn(x0, x1, p0, p1, i, j, s) ==
    DiffUnion(s.d, xml_diff1(x0, x1, p0, p1, i + s.i, j + s.j))
xml_diff1(x0, x1, p0, p1, i, j) ==
    IF i > Len(x0.c) THEN Add(p1, j..Len(x1.c))
    ELSE IF j > Len(x1.c) THEN Del(p0, i..Len(x0.c))
    ELSE DiffOn(x0, x1, p0, p1, i, j,
                DiffStep(x0, x1, p0, p1, i, j, x0.c[i], x1.c[j], xml_cmp(x0.c[i], x1.c[j], FALSE)))

xml_diff(x0, x1) == xml_diff1(x0, x1, <<>>, <<>>, 1, 1)

RECURSIVE At(_, _)
At(x, p) == IF p = <<>> THEN x ELSE At(x.c[p[1]], Tail(p))

(* The nodes of a tree *)
RECURSIVE NodesOf(_, _)
NodesOf(x, p) == UNION {{Append(p, i)} \cup NodesOf(x.c[i], Append(p, i)) : i \in DOMAIN x.c}

------------------------------------------------------------------------------
(* Merging *)

(* xml_merge1 and xml_merge_recurse: the children of x1 into x0.  Children  *)
(* are matched first (to) and merged after; a default in x1 gives way to    *)
(* what is in x0; a list entry that is new is not added with dontadd.       *)
RECURSIVE xml_merge(_, _, _)
MergeInto(x, z, i, dontadd) ==
    IF i = 0 \/ "DEFAULT" \in z.f THEN x
    ELSE [x EXCEPT !.c[i] = IF Kw[z.y] \in {"leaf", "leaf-list"} THEN [@ EXCEPT !.b = z.b]
                            ELSE xml_merge(@, z, dontadd)]
MergeNew(x, z, i, dontadd) ==
    IF i # 0 \/ (Kw[z.y] = "list" /\ dontadd) THEN x
    ELSE [x EXCEPT !.c = xml_insert(@, z, "last", None).c]
MergeBy(x0, x1, to, dontadd) ==
    FoldLeft(LAMBDA x, k : MergeNew(x, x1.c[k], to[k], dontadd),
             FoldLeft(LAMBDA x, k : MergeInto(x, x1.c[k], to[k], dontadd), x0, Indices(to)),
             Indices(to))
xml_merge(x0, x1, dontadd) ==
    MergeBy(x0, x1, Map(LAMBDA z : match_base_child(x0.c, z), x1.c), dontadd)

------------------------------------------------------------------------------
(* Rebase: x0 was running when the candidate was created, x1 is the         *)
(* candidate, x2 is running now.                                            *)

NoRebase == [conflict |-> FALSE, add |-> <<>>, rm |-> {}, chg |-> {}]
RebaseUnion(d, e) ==
    [conflict |-> d.conflict \/ e.conflict, add |-> d.add \o e.add,
     rm |-> d.rm \cup e.rm, chg |-> d.chg \cup e.chg]
RebaseConflict(cond) == [NoRebase EXCEPT !.conflict = cond]

(* xml_node_same: a node that is not there is after all others *)
NodeSame(eq, z0, z1) == IF eq = 0 /\ z0.y # z1.y THEN 1 ELSE eq
xml_node_same(c0, i, c1, j) ==
    CASE i > Len(c0) /\ j > Len(c1) -> 0
      [] i > Len(c0) /\ j <= Len(c1) -> 1
      [] i <= Len(c0) /\ j > Len(c1) -> -1
      [] OTHER -> NodeSame(xml_cmp(c0[i], c1[j], FALSE), c0[i], c1[j])

(* xml_node_eq *)
xml_node_eq(z0, z1) == Kw[z0.y] = "leaf" => z0.b = z1.b

(* A node of x1 that is not in x0 *)
RebaseAdded(z1, x2, i2, same20, same12) ==
    RebaseConflict(same20 < 0 /\
        IF same12 = 0 THEN ~xml_tree_equal(z1, x2.c[i2]) \/ Kw[z1.y] = "leaf"
        ELSE Kw[z1.y] = "leaf-list")

(* A node in all three *)
RebaseKept(z0, z1, z2, p) ==
    IF ~xml_node_eq(z1, z0) THEN RebaseConflict(~xml_node_eq(z2, z0))
    ELSE [NoRebase EXCEPT !.chg = IF xml_node_eq(z2, z0) THEN {} ELSE {<<p, z2.b>>}]

(* xml_rebase from the children i0, i1 and i2 on; p: path of x1.  A node    *)
(* that is first in x2 and in x1 is passed over with that of x1.            *)
RECURSIVE xml_rebase(_, _, _, _, _, _, _)
RebaseStep(x0, x1, x2, p, i0, i1, i2, same10, same20) ==
    CASE same10 < 0 ->
           [d |-> RebaseAdded(x1.c[i1], x2, i2, same20, xml_node_same(x1.c, i1, x2.c, i2)),
            k |-> <<0, 1, IF same20 < 0 THEN 1 ELSE 0>>]
      [] same10 = 0 /\ same20 < 0 ->
           [d |-> [NoRebase EXCEPT !.add = <<<<p, x2.c[i2]>>>>], k |-> <<0, 0, 1>>]
      [] same10 = 0 /\ same20 = 0 ->
           [d |-> RebaseUnion(RebaseKept(x0.c[i0], x1.c[i1], x2.c[i2], Append(p, i1)),
                              xml_rebase(x0.c[i0], x1.c[i1], x2.c[i2], Append(p, i1), 1, 1, 1)),
            k |-> <<1, 1, 1>>]
      [] same10 = 0 /\ same20 > 0 ->
           [d |-> IF xml_tree_equal(x0.c[i0], x1.c[i1]) THEN [NoRebase EXCEPT !.rm = {Append(p, i1)}]
                  ELSE RebaseConflict(TRUE), k |-> <<1, 1, 0>>]
      [] same10 > 0 /\ same20 < 0 -> [d |-> NoRebase, k |-> <<0, 0, 1>>]
      [] same10 > 0 /\ same20 = 0 ->
           [d |-> RebaseConflict(~xml_tree_equal(x0.c[i0], x2.c[i2])), k |-> <<1, 0, 1>>]
      [] same10 > 0 /\ same20 > 0 -> [d |-> RebaseConflict(TRUE), k |-> <<1, 0, 0>>]
RebaseOn(x0, x1, x2, p, i0, i1, i2, s) ==
    RebaseUnion(s.d, xml_rebase(x0, x1, x2, p, i0 + s.k[1], i1 + s.k[2], i2 + s.k[3]))
xml_rebase(x0, x1, x2, p, i0, i1, i2) ==
    IF i0 > Len(x0.c) /\ i1 > Len(x1.c) /\ i2 > Len(x2.c) THEN NoRebase
    ELSE RebaseOn(x0, x1, x2, p, i0, i1, i2,
                  RebaseStep(x0, x1, x2, p, i0, i1, i2, xml_node_same(x1.c, i1, x0.c, i0),
                             xml_node_same(x2.c, i2, x0.c, i0)))

(* diff_rebase_exec: additions (appended), removals and changes of values *)
Changed(chg, q, b) == IF \E e \in chg : e[1] = q THEN (CHOOSE e \in chg : e[1] = q)[2] ELSE b
RECURSIVE diff_rebase_exec(_, _, _)
diff_rebase_exec(x, p, dr) ==
    LET keep == SelectSeq(Indices(x.c), LAMBDA i : Append(p, i) \notin dr.rm)
        new == SelectSeq(dr.add, LAMBDA a : a[1] = p)
        One(i) == [diff_rebase_exec(x.c[i], Append(p, i), dr)
                     EXCEPT !.b = Changed(dr.chg, Append(p, i), @)]
    IN [x EXCEPT !.c = Map(One, keep) \o Map(LAMBDA a : a[2], new)]
==============================================================================
