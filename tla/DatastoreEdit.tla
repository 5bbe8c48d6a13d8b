--------------------------- MODULE DatastoreEdit ----------------------------
(* A datastore under edit-config: xmldb_put() edits the cache and writes    *)
(* the file; after a restart the file is read back.                         *)
EXTENDS TextModify

CONSTANTS
    Files,    \* what the file of the datastore may hold at first
    Edits,    \* the edit trees of clients
    Ops,      \* their default operations
    MaxEdits  \* number of edits

VARIABLES
    tree,    \* the cached tree of the datastore
    file,    \* the tree in the file of the datastore
    caches,  \* [n |-> nopresence caches in YANG, g |-> global-defaults-config]
    edit     \* the last edit and what came of it

editVars == <<tree, file, caches, edit>>

NoEdit == [x |-> Edit(Top, None, <<>>, ""), op |-> "", st |-> "", nr |-> 0]

(* xmldb_get_cache of a backend that has just started *)
EditInit ==
    \E f \in Files : \E r \in {get_cache_from_file(f, NoCaches)} :
      /\ tree = r.x
      /\ caches = r.caches
      /\ file = f
      /\ edit = NoEdit

(* xmldb_put: the whole call *)
xmldb_put(x1, op) ==
    /\ edit.nr < MaxEdits
    /\ \E m \in {text_modify_top(tree, x1, op)} :
         /\ edit' = [x |-> x1, op |-> op, st |-> m.st, nr |-> edit.nr + 1]
         /\ IF m.st = "ok"
            THEN \E d \in {PutDefaults(m.xp, caches)} :
                   /\ tree' = d.x
                   /\ caches' = d.caches
                   /\ file' = xmldb_dump(d.x)
            ELSE tree' = m.xp /\ UNCHANGED <<file, caches>>

(* The backend restarts: the caches are gone, the file is read *)
Restart ==
    /\ edit # NoEdit
    /\ \E r \in {get_cache_from_file(file, NoCaches)} :
         /\ tree' = r.x
         /\ caches' = r.caches
         /\ edit' = [NoEdit EXCEPT !.nr = edit.nr]
         /\ UNCHANGED file

EditNext ==
    \/ \E x1 \in Edits, op \in Ops : xmldb_put(x1, op)
    \/ Restart

EditSpec == EditInit /\ [][EditNext]_editVars

------------------------------------------------------------------------------
(* What an edit means *)

Conflicts(d, q) ==
    \E i \in DOMAIN q : /\ Len(d.p) >= i
                        /\ SubSeq(d.p, 1, i - 1) = SubSeq(q, 1, i - 1)
                        /\ OtherCase(d.p[i][1], q[i][1])

(* The data D.D after x1 has been applied at path q by operation op; op0 is *)
(* that of its parent, own what must exist for a child of x1 to exist.      *)
(* D.dflt: the defaults, which only matter to a delete of another case.     *)
RECURSIVE Applied(_, _, _, _, _)
AppliedBelow(D, x1, q, own, op) ==
    FoldLeft(LAMBDA e, z : Applied(e, z, q, own, op), D,
             SelectSeq(x1.c, LAMBDA z : z.y \notin Range(Y[x1.y].keys)))
AppliedAs(D, x1, q, own, op, op0) ==
    LET under == {d \in D.D : IsPrefix(q, d.p)}
        other == {d \in D.D : Conflicts(d, q)}
    IN CASE \/ op = "delete" /\ under = {} /\ Own(x1, q) # {}
            \/ op = "delete" /\ op0 = "none" /\ \E d \in D.dflt : Conflicts(d, q)
            \/ op = "create" /\ under # {} -> [D EXCEPT !.ok = FALSE]
         [] op \in {"delete", "remove"} ->
              [D EXCEPT !.D = @ \ (under \cup IF op0 = "none" THEN {} ELSE other)]
         [] op = "none" -> AppliedBelow(D, x1, q, own, op)
         [] OTHER ->
              AppliedBelow([D EXCEPT !.D = ((@ \ other) \ IF op = "replace" THEN under
                                                          ELSE {d \in under : d.p = q}) \cup own],
                           x1, q, own, op)
Needs(x1, q) ==
    Own(x1, q) \cup UNION {Own(z, Append(q, Ident(z))) : z \in {z \in Range(x1.c) : IsKey(x1, z)}}
Applied(D, x1, p, above, op0) ==
    IF ~D.ok THEN D
    ELSE AppliedAs(D, x1, Append(p, Ident(x1)), above \cup Needs(x1, Append(p, Ident(x1))),
                   IF x1.op = "" THEN op0 ELSE x1.op, op0)

AppliedTop(x, x1, op) ==
    FoldLeft(LAMBDA e, z : Applied(e, z, <<>>, {}, op),
             [ok |-> TRUE, D |-> IF op = "replace" THEN {} ELSE Data(x, <<>>, FALSE),
              dflt |-> Data(x, <<>>, TRUE)], x1.c)
(* The values of the user-ordered leaf-lists, by path *)
RECURSIVE Orders(_, _)
Orders(x, p) ==
    {[p |-> Append(p, y), s |-> Map(LAMBDA z : z.b, s)] :
       <<y, s>> \in {<<y, SelectSeq(x.c, LAMBDA z : z.y = y)>> :
                       y \in {z.y : z \in {z \in Range(x.c) : Y[z.y].user}}}}
    \cup UNION {Orders(z, Append(p, z.y)) : z \in Range(x.c)}

OrderAt(x, p) ==
    LET o == {o \in Orders(x, <<>>) : o.p = p} IN IF o = {} THEN <<>> ELSE (CHOOSE e \in o : TRUE).s

(* The entries of user-ordered leaf-lists in an edit, with their path *)
RECURSIVE Entries(_, _)
Entries(x, p) ==
    {[p |-> Append(p, z.y), e |-> z] : z \in {z \in Range(x.c) : Y[z.y].user}}
    \cup UNION {Entries(z, Append(p, z.y)) : z \in Range(x.c)}

Placed(s, z) ==
    LET rest == SelectSeq(s, LAMBDA v : v # z.b)
        at == CHOOSE i \in 0..Len(rest) : rest = <<>> \/ (i > 0 /\ rest[i] = z.at)
    IN CASE z.ins = "first" -> <<z.b>> \o rest
         [] z.ins = "after" -> IF rest = <<>> THEN <<z.b>> ELSE InsertAt(rest, at + 1, z.b)
         [] z.ins = "" -> IF Contains(s, z.b) THEN s ELSE Append(s, z.b)

OrderedAs(x1) ==
    \A o \in Orders(tree', <<>>) :
      LET e == {e \in Entries(x1, <<>>) : e.p = o.p}
          old == OrderAt(tree, o.p)
      IN IF e = {} THEN o.s = old
         ELSE LET z == (CHOOSE f \in e : TRUE).e
              IN o.s = IF z.op = "remove" THEN SelectSeq(old, LAMBDA v : v # z.b) ELSE Placed(old, z)

------------------------------------------------------------------------------
(* Properties *)

RECURSIVE SortedBelow(_)
SortedBelow(x) == xml_sort_verify(x.c) /\ \A z \in Range(x.c) : SortedBelow(z)

(* Siblings stay sorted through edits, defaults and restarts, also when an  *)
(* edit fails half way: the binary searches of match_base_child and         *)
(* xml_insert rely on it.                                                   *)
TreeSorted == xml_sort_verify(tree.c) /\ \A z \in Range(tree.c) : SortedBelow(z)

(* An edit that xmldb_put accepts changes the explicit data as the          *)
(* operations of NETCONF say, and puts user-ordered entries where the       *)
(* insert attribute says; it refuses exactly the deletes of what is not     *)
(* there and the creates of what is.  Two exceptions are the code's: under  *)
(* a default operation other than none, a delete or remove of a node of a   *)
(* case also removes the other cases (choice_other_match looks at the       *)
(* inherited operation); under none, a delete is refused when another case  *)
(* has defaults.                                                            *)
EditMeans ==
    [][edit'.st \in {"ok", "fail"} =>
         \E r \in {AppliedTop(tree, edit'.x, edit'.op)} :
           /\ (edit'.st = "ok") = r.ok
           /\ r.ok => r.D = Data(tree', <<>>, FALSE) /\ OrderedAs(edit'.x)]_editVars

RECURSIVE Defaults(_)
Defaults(x) == [x EXCEPT !.f = @ \cap {"DEFAULT"}, !.c = Map(Defaults, @)]

(* What xmldb_put wrote is what it has in the cache: a backend that         *)
(* restarts after a successful edit reads back the same tree, its defaults  *)
(* and their flags included, although the file holds no defaults.           *)
ReloadSame ==
    edit.st = "ok" => Defaults(get_cache_from_file(file, NoCaches).x) = Defaults(tree)

==============================================================================
