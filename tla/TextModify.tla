----------------------------- MODULE TextModify -----------------------------
(* Applying an edit tree with its NETCONF operations to the cached tree of  *)
(* a datastore, filling in defaults, what is written to the file            *)
(* (lib/src/clixon_datastore_write.c) and how it is read back               *)
(* (lib/src/clixon_datastore_read.c).                                       *)
(*                                                                          *)
(* An edit tree is a tree whose nodes also have the attributes operation,   *)
(* insert and value or key ("" and None: not given).  Access control is not *)
(* consulted (no NACM), and an edit has nodes of one case of a choice only. *)
EXTENDS XmlDefault

Edit(y, b, c, op) ==
    [y |-> y, b |-> b, c |-> c, f |-> {}, op |-> op, ins |-> "", at |-> None]

(* Identities of matched children between the two passes of text_modify *)
Marks == <<"m1", "m2", "m3", "m4">>

RemoveChild(x, i) == [x EXCEPT !.c = RemoveAt(@, i)]

------------------------------------------------------------------------------
(* Choices *)

(* choice_is_other: are two nodes in different cases of a choice, or of a   *)
(* choice that theirs are nested in?                                        *)
RECURSIVE choice_is_other(_, _, _, _, _, _)
choice_is_other(y0, case0, choice0, y1, case1, choice1) ==
    IF choice0 = choice1 THEN (case0 = "" /\ y0 # y1) \/ case0 # case1
    ELSE LET up0 == yang_choice_case_get(choice0)
             up1 == yang_choice_case_get(choice1)
         IN \/ up0 # <<>> /\ choice_is_other(choice0, up0[1], up0[2], y1, case1, choice1)
            \/ up1 # <<>> /\ choice_is_other(choice0, case0, choice0, choice1, up1[1], up1[2])

(* find_first_op_recurse: the first operation in the tree other than none *)
RECURSIVE find_first_op_recurse(_, _)
find_first_op_recurse(x, op) ==
    LET own == IF op = "none" /\ x.op # "" THEN x.op ELSE op
    IN IF own # "none" THEN own
       ELSE FoldLeft(LAMBDA o, z : find_first_op_recurse(z, o), own, x.c)

(* choice_other_match: remove from x0 the nodes of cases other than that of *)
(* x1c; deleting a node of another case is an error                         *)
InOtherCase(y0, cc0, y1, cc1) ==
    cc0 # <<>> /\ cc1 # <<>> /\ choice_is_other(y0, cc0[1], cc0[2], y1, cc1[1], cc1[2])
OtherCase(y0, y1) == InOtherCase(y0, yang_choice_case_get(y0), y1, yang_choice_case_get(y1))
ChoiceMatch(x0, x1c, op) ==
    CASE op \in {"remove", "none"} -> [st |-> "ok", x |-> x0]
      [] op = "delete" ->
           [st |-> IF \E z \in Range(x0.c) : OtherCase(z.y, x1c.y) THEN "fail" ELSE "ok", x |-> x0]
      [] OTHER -> [st |-> "ok", x |-> [x0 EXCEPT !.c = SelectSeq(@, LAMBDA z : ~OtherCase(z.y, x1c.y))]]
choice_other_match_keeps(x0, x1c, op) == [st |-> "ok", x |-> x0]
choice_other_match(x0, x1c, op) == ChoiceMatch(x0, x1c, find_first_op_recurse(x1c, op))

------------------------------------------------------------------------------
(* text_modify: apply x1 to child i of xp (0: there is none), the last of   *)
(* chain.  The result is "ok", "fail" (an rpc-error) or "error" (the call   *)
(* fails), and xp as it then is: a failure does not undo what was done.     *)

Result(st, xp) == [st |-> st, xp |-> xp]

(* The insert attribute, of user-ordered lists and leaf-lists only *)
Insert(x1) == IF Y[x1.y].user THEN x1.ins ELSE ""
NoPoint(x1) == Insert(x1) \in {"before", "after"} /\ x1.at = None

(* Is an existing node removed before the new one is made? *)
Recreates(x1, op) == op \in {"create", "replace"} \/ (op = "merge" /\ Insert(x1) # "")

(* A new node *)
New(x1, b, op) == [Xml(x1.y, b, <<>>) EXCEPT !.f = IF op = "none" THEN {"NONE"} ELSE {}]

(* xml_insert at the place the insert attribute says *)
InsertDone(xp, r) == Result(IF r.err THEN "error" ELSE "ok", [xp EXCEPT !.c = r.c])
InsertNew(xp, x0, x1) ==
    InsertDone(xp, xml_insert(xp.c, xml_flag_set(x0, {"ADD"}),
                              IF Insert(x1) = "" THEN "last" ELSE Insert(x1), x1.at))

(* create, replace, merge and none of a leaf or leaf-list entry *)
LeafOld_default(x0, x1, op) ==
    IF x1.b = None \/ x1.b = x0.b THEN x0 ELSE [x0 EXCEPT !.b = x1.b, !.f = @ \cup {"ADD"}]
LeafOld(x0, x1, op) ==
    IF x1.b = None \/ x1.b = x0.b THEN IF op = "none" THEN x0 ELSE xml_flag_reset(x0, {"DEFAULT"})
    ELSE [x0 EXCEPT !.b = x1.b, !.f = (@ \cup {"ADD"}) \ {"DEFAULT"}]
LeafPut(xp, i, x1, op) ==
    IF op = "create" /\ i # 0 /\ "DEFAULT" \notin xp.c[i].f THEN Result("fail", xp)
    ELSE IF i = 0 \/ Recreates(x1, op)
    THEN InsertNew(IF i = 0 THEN xp ELSE RemoveChild(xp, i), New(x1, x1.b, op), x1)
    ELSE Result("ok", [xp EXCEPT !.c[i] = LeafOld(@, x1, op)])

(* delete and remove of a leaf or leaf-list entry: of the value given *)
LeafRemove(xp, i, x1, op) ==
    LET equal == i # 0 /\ xp.c[i].y = x1.y /\ x1.b \in {None, xp.c[i].b}
    IN IF op = "delete" /\ (equal => "DEFAULT" \in xp.c[i].f) THEN Result("fail", xp)
       ELSE Result("ok", IF equal THEN xml_flag_set(RemoveChild(xp, i), {"DEL"}) ELSE xp)

(* delete and remove of a container or list entry *)
NodeRemove(xp, i, op) ==
    IF op = "delete" /\ (i # 0 => "DEFAULT" \in xp.c[i].f) THEN Result("fail", xp)
    ELSE Result("ok", IF i = 0 THEN xp ELSE xml_flag_set(RemoveChild(xp, i), {"DEL"}))

(* First pass over the children of x1: drop the other cases, and find the   *)
(* child of x0 each one edits                                               *)
MarkChild(x, i, k) ==
    IF i # 0 /\ x.c[i].f \cap Range(Marks) = {} THEN [x EXCEPT !.c[i].f = @ \cup {Marks[k]}] ELSE x
FirstMatch(r, x1c, k) ==
    Result(r.st, IF r.st = "ok" THEN MarkChild(r.x, match_base_child(r.x.c, x1c), k) ELSE r.x)
FirstPass(x0, x1, op) ==
    FoldLeft(LAMBDA w, k : IF w.st # "ok" THEN w
                           ELSE FirstMatch(choice_other_match(w.xp, x1.c[k], op), x1.c[k], k),
             Result("ok", x0), Indices(x1.c))

(* Second pass: edit the child that was marked *)
Marked(c, k) == IF \A z \in Range(c) : Marks[k] \notin z.f THEN 0
                ELSE CHOOSE i \in DOMAIN c : Marks[k] \in c[i].f
Unmark(x, j, k) == IF j = 0 THEN x ELSE [x EXCEPT !.c[j].f = @ \ {Marks[k]}]

(* Back at the parent: a new node is inserted, unless all in it was none *)
NodeNew(xp, kept, x1) ==
    IF "NONE" \in kept.f /\ kept.c = <<>> THEN Result("ok", xp) ELSE InsertNew(xp, kept, x1)
NodePut(xp, i, x1, done) ==
    CASE i # 0 -> Result(done.st, [xp EXCEPT !.c[i] = done.xp])
      [] i = 0 /\ done.st # "ok" -> Result(done.st, xp)
      [] OTHER -> NodeNew(xp, xml_tree_prune_flagged_sub(done.xp, "NONE").x, x1)

RECURSIVE text_modify(_, _, _, _)
SecondChild(up, x, j, x1, k, op) == text_modify(Append(up, Unmark(x, j, k)), j, x1.c[k], op)
SecondPass(up, first, x1, op) ==
    FoldLeft(LAMBDA w, k : IF w.st # "ok" THEN w
                           ELSE SecondChild(up, w.xp, Marked(w.xp.c, k), x1, k, op),
             first, Indices(x1.c))
Children(up, xp, i, x1, op) ==
    NodePut(xp, i, x1,
            SecondPass(Append(up, xp), FirstPass(IF i # 0 THEN xp.c[i] ELSE New(x1, None, op), x1, op),
                       x1, op))
Modify(chain, xp, i, x1, op) ==
    LET leaf == Kw[x1.y] \in {"leaf", "leaf-list"}
        removes == op \in {"delete", "remove"}
        again == i # 0 /\ Recreates(x1, op)
        exists == /\ i # 0
                  /\ "DEFAULT" \notin xp.c[i].f
                  /\ ~xml_default_nopresence(xp.c[i], 0, {}).rm
    IN IF (\E w \in Range(Y[x1.y].awhen) : ~xpath_vec_bool(w, chain)) \/ NoPoint(x1)
       THEN Result("fail", xp)
       ELSE CASE leaf /\ removes -> LeafRemove(xp, i, x1, op)
              [] leaf /\ ~removes -> LeafPut(xp, i, x1, op)
              [] ~leaf /\ removes -> NodeRemove(xp, i, op)
              [] ~leaf /\ op = "create" /\ exists -> Result("fail", xp)
              [] OTHER -> Children(Front(chain), IF again THEN RemoveChild(xp, i) ELSE xp,
                                   IF again THEN 0 ELSE i, x1, op)
text_modify(chain, i, x1, op0) ==
    Modify(chain, Last(chain), i, x1, IF x1.op = "" THEN op0 ELSE x1.op)

(* text_modify_top: replace and delete first remove everything; a top node  *)
(* of another case is removed                                               *)
TopChild(x, i, x1c, op) ==
    LET other == i # 0 /\ x.c[i].y # x1c.y
    IN text_modify(<<IF other THEN RemoveChild(x, i) ELSE x>>, IF other THEN 0 ELSE i, x1c, op)
TopChildren(x, x1, op) ==
    FoldLeft(LAMBDA w, x1c : IF w.st # "ok" THEN w
                             ELSE TopChild(w.xp, match_base_child(w.xp.c, x1c), x1c, op),
             Result("ok", x), x1.c)
text_modify_top(x0t, x1t, op0) ==
    LET op == IF x1t.op = "" THEN op0 ELSE x1t.op
        clear == op \in {"replace", "delete"} \/ (op = "remove" /\ x1t.c = <<>>)
    IN TopChildren(IF clear THEN [x0t EXCEPT !.c = <<>>] ELSE x0t, x1t, op)

(* xml_mark_added_ancestors: mark the ancestors of what was added or deleted *)
MarkAncestor(x, c) ==
    [x EXCEPT !.c = c, !.f = IF \E z \in Range(c) : z.f \cap {"ADD", "DEL", "CHANGE"} # {}
                             THEN @ \cup {"CHANGE"} ELSE @]
RECURSIVE xml_mark_added_ancestors(_)
xml_mark_added_ancestors(x) ==
    MarkAncestor(x, Map(LAMBDA z : IF z.f \cap {"ADD", "DEL"} # {} THEN z
                                   ELSE xml_mark_added_ancestors(z), x.c))

(* The rest of xmldb_put: prune, fill in defaults twice, reset the flags *)
PutReset(d, g) ==
    [x |-> xml_apply_reset(d.x, {"NONE", "ADD", "DEL", "CHANGE"}), caches |-> [n |-> d.ncache, g |-> g]]
PutAgain(d, g) == PutReset(xml_default_recurse(d.x, <<>>, {"ADD", "DEL"}, d.ncache), g)
PutGlobal(r) == PutAgain(xml_default_recurse(r.x, <<>>, {"ADD", "DEL"}, r.caches.n), r.caches.g)
PutDefaults(x, ca) ==
    PutGlobal(xml_global_defaults(
      xml_default_nopresence(xml_mark_added_ancestors(xml_tree_prune_flagged_sub(x, "NONE").x),
                             3, {"ADD", "DEL"}).x, ca))

(* xmldb_write_cache2file: what is written *)
RECURSIVE xmldb_dump(_)
xmldb_dump(x) ==
    Xml(x.y, x.b, Map(xmldb_dump, SelectSeq(x.c, xml2output_wdef)))

(* get_cache_from_file: read, sort and fill in defaults *)
CacheRead(d, g) == [x |-> d.x, caches |-> [n |-> d.ncache, g |-> g]]
CacheDefaults(r) == CacheRead(xml_default_recurse(r.x, <<>>, {}, r.caches.n), r.caches.g)
get_cache_from_file(f, ca) == CacheDefaults(xml_global_defaults(xml_sort_recurse(f), ca))

NoCaches == [n |-> NoCache, g |-> NoXml]
==============================================================================
