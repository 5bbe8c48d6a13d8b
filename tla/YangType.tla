------------------------------ MODULE YangType ------------------------------
(***************************************************************************)
(* Parsed YANG statements, the lookups among them, and YANG types:         *)
(* clixon_yang.c, clixon_yang_module.c, clixon_yang_type.c and the type    *)
(* part of clixon_validate.c.                                              *)
(*                                                                         *)
(* yang_stmt objects live in a heap  y = [n, ok] : y.n is the sequence of  *)
(* all objects ever allocated, an object's index is its pointer and 0 is   *)
(* NULL.  y.ok becomes FALSE when a function returns -1: everything on the *)
(* way up then gives up as well and the caller abandons the load.          *)
(*                                                                         *)
(* The text of a module is a nested record [kw, arg, path, list, sub].     *)
(* arg is the pair <<prefix, identifier>> nodeid_split() makes of the      *)
(* argument (prefix "" when there is none); path is the argument of the    *)
(* statements whose argument is a path, as a sequence of such pairs; list  *)
(* is the argument of the statements whose argument is a list (the keys of *)
(* a list, the parts of a range, the terms of an if-feature).              *)
(***************************************************************************)
EXTENDS Integers, Sequences, FiniteSets, SequencesExt

CONSTANT
  YVals   \* function from the values tried to what the lexical conversions
          \* make of them: [num: the number in a singleton set or {}, len,
          \* words, pats: the patterns that match, ident: <<module, identity>>]

YangValues == YVals
NoName == <<"", "">>
NoCv == [t |-> "", v |-> NoName]
NoType == [res |-> 0, cvv |-> <<>>, pats |-> <<>>, regexps |-> <<>>]

(***************************************************************************)
(* The heap.  ys_new() zeroes an object; ys_cp() copies it with everything *)
(* below it.  The original of a copy is the statement of the source text   *)
(* it goes back to, through every intermediate copy.                       *)
(***************************************************************************)
ys_new(st, p) ==
  [kw |-> st.kw, arg |-> st.arg, path |-> st.path, list |-> st.list, parent |-> p,
   ch |-> <<>>, orig |-> 0, my |-> 0, when |-> "", fl |-> {}, cv |-> NoCv,
   cvec |-> <<>>, num |-> 0, cache |-> NoType]

Keyword(y, i) == y.n[i].kw
Name(y, i) == y.n[i].arg[2]
SubStmts(y, i) == y.n[i].ch
OfKw(y, i, kws) == SelectSeq(SubStmts(y, i), LAMBDA c : Keyword(y, c) \in kws)
Failed(y) == [y EXCEPT !.ok = FALSE]
Then(y, z) == IF y.ok THEN z ELSE y
Check(y, b) == [y EXCEPT !.ok = @ /\ b]
Flag(y, i, f) == [y EXCEPT !.n[i].fl = @ \cup {f}]
Unflag(y, i, f) == [y EXCEPT !.n[i].fl = @ \ {f}]
Flagged(y, i, f) == f \in y.n[i].fl

yn_insert(y, p, c) == [y EXCEPT !.n[p].ch = Append(@, c), !.n[c].parent = p]
ys_prune_self(y, c) ==
  [y EXCEPT !.n[y.n[c].parent].ch = SelectSeq(@, LAMBDA d : d # c)]

\* Every statement at and below i, parents first: the order of yang_apply().
RECURSIVE Subtree(_, _)
Subtree(y, i) == FoldLeft(LAMBDA s, c : s \o Subtree(y, c), <<i>>, SubStmts(y, i))

\* yang_orig_set() records the original of the original.
yang_orig_get(y, i) == y.n[i].orig
RootOrig(y, i) == IF y.n[i].orig # 0 THEN y.n[i].orig ELSE i

\* The first call wins: an entry that exists is kept.
yang_mymodule_set(y, i, m) == [y EXCEPT !.n[i].my = IF @ = 0 THEN m ELSE @]
yang_when_set(y, i, w) == [y EXCEPT !.n[i].when = IF @ = "" THEN w ELSE @]

\* The new object is the next free index; its subtree follows it.
ys_cp_one(y, i) ==
  [y EXCEPT !.n = Append(@, [y.n[i] EXCEPT !.parent = 0, !.ch = <<>>, !.cache = NoType,
                                           !.orig = RootOrig(y, i)])]

RECURSIVE ys_dup(_, _)
ys_dup(y, i) ==
  LET new == Len(y.n) + 1
  IN Then(y, FoldLeft(LAMBDA w, c : Then(w, yn_insert(ys_dup(w, c), new, Len(w.n) + 1)),
                      ys_cp_one(y, i), SubStmts(y, i)))

(***************************************************************************)
(* Lookups.  A module is looked up in its specification by name; a         *)
(* statement of a module is also found in the submodules it includes.      *)
(***************************************************************************)
FirstStmt(s) == IF s = <<>> THEN 0 ELSE Head(s)
OrElse(i, other) == IF i # 0 THEN i ELSE other

RECURSIVE ys_spec(_, _)
ys_spec(y, i) == IF i = 0 \/ Keyword(y, i) = "spec" THEN i ELSE ys_spec(y, y.n[i].parent)

Modules == {"module", "submodule"}

yang_find_module_by_name(y, spec, name) ==
  FirstStmt(SelectSeq(SubStmts(y, spec), LAMBDA m : Keyword(y, m) \in Modules /\ Name(y, m) = name))

RECURSIVE FindIn(_, _, _, _, _)
FindIn(y, i, kw, id, visiting) ==
  LET own == SelectSeq(SubStmts(y, i), LAMBDA c : Keyword(y, c) = kw /\ id \in {"", Name(y, c)})
      InSub(found, c) ==
        OrElse(found, FindIn(y, yang_find_module_by_name(y, ys_spec(y, i), Name(y, c)), kw, id, visiting \cup {i}))
  IN IF i \in {0} \cup visiting THEN 0
     ELSE OrElse(FirstStmt(own), IF Keyword(y, i) \notin Modules \/ kw = "namespace" THEN 0
                               ELSE FoldLeft(InSub, 0, OfKw(y, i, {"include"})))

\* The first statement of a keyword (and identifier, "" for any) below i.
yang_find(y, i, kw, id) == FindIn(y, i, kw, id, {})
Has(y, i, kw) == yang_find(y, i, kw, "") # 0
StmtName(y, i) == IF i = 0 THEN "" ELSE Name(y, i)
ArgOf(y, i, kw) == StmtName(y, yang_find(y, i, kw, ""))

\* The module whose data a statement is: that of its text, unless an augment or
\* a uses has moved a copy into another one.
RECURSIVE ys_module(_, _)
ys_module(y, i) ==
  IF i = 0 \/ Keyword(y, i) = "spec" THEN 0
  ELSE IF Keyword(y, i) \in Modules THEN i
  ELSE IF y.n[i].my # 0 THEN y.n[i].my
  ELSE ys_module(y, y.n[i].parent)

RECURSIVE RealOf(_, _)
RealOf(y, m) ==
  IF m = 0 \/ Keyword(y, m) = "module" THEN m
  ELSE RealOf(y, yang_find_module_by_name(y, ys_spec(y, m), ArgOf(y, m, "belongs-to")))
ys_real_module(y, i) == RealOf(y, ys_module(y, i))

yang_find_myprefix(y, i) == ArgOf(y, ys_real_module(y, i), "prefix")
yang_find_mynamespace(y, i) == ArgOf(y, ys_real_module(y, i), "namespace")

\* The import statements a statement's text sees: its own module's and, of a
\* submodule, those of the module it belongs to.
ImportsOf(y, m) ==
  OfKw(y, m, {"import"}) \o (IF Keyword(y, m) = "submodule" THEN OfKw(y, RealOf(y, m), {"import"}) ELSE <<>>)
ScopeImports(y, i) == ImportsOf(y, ys_module(y, RootOrig(y, i)))

\* The instance's own prefix first, then that of the original text's module, the
\* instance's imports and those the original text sees.
ModuleNamed(y, owners, imports) ==
  IF owners # <<>> THEN owners[1]
  ELSE IF imports = <<>> THEN 0
  ELSE yang_find(y, ys_spec(y, imports[1]), "module", Name(y, imports[1]))
PrefixIn(y, my, i, prefix) ==
  ModuleNamed(y,
    SelectSeq(<<my, ys_module(y, RootOrig(y, i))>>, LAMBDA m : ArgOf(y, RealOf(y, m), "prefix") = prefix),
    SelectSeq(OfKw(y, my, {"import"}) \o ScopeImports(y, i), LAMBDA c : ArgOf(y, c, "prefix") = prefix))
yang_find_module_by_prefix(y, i, prefix) ==
  IF ys_module(y, i) = 0 THEN 0 ELSE PrefixIn(y, ys_module(y, i), i, prefix)

yang_find_module_by_namespace(y, spec, ns) ==
  FirstStmt(SelectSeq(SubStmts(y, spec), LAMBDA m : yang_find(y, m, "namespace", ns) # 0))

(***************************************************************************)
(* Schema nodes by name.  A choice is transparent: what its cases hold is  *)
(* found as well as the choice itself.                                     *)
(***************************************************************************)
DataNodes == {"container", "leaf", "list", "leaf-list", "anyxml", "anydata"}
SchemaNodes == DataNodes \cup {"rpc", "choice", "case", "input", "output", "notification", "action"}
DataNode(y, i) == Keyword(y, i) \in DataNodes
yang_schemanode(y, i) == Keyword(y, i) \in SchemaNodes

RECURSIVE yang_find_schemanode(_, _, _)
yang_find_schemanode(y, i, id) ==
  LET InCase(found, c) ==
        IF found # 0 THEN found
        ELSE IF Keyword(y, c) = "case" THEN yang_find_schemanode(y, c, id)
        ELSE IF yang_schemanode(y, c) /\ Name(y, c) = id THEN c ELSE 0
      Here(found, c) ==
        IF found # 0 \/ ~yang_schemanode(y, c) THEN found
        ELSE IF Name(y, c) = id \/ (id \in {"input", "output"} /\ Keyword(y, c) = id) THEN c
        ELSE IF Keyword(y, c) = "choice" THEN FoldLeft(InCase, 0, SubStmts(y, c)) ELSE 0
      InSub(found, c) ==
        IF found # 0 THEN found
        ELSE yang_find_schemanode(y, yang_find_module_by_name(y, ys_spec(y, i), Name(y, c)), id)
      own == FoldLeft(Here, 0, SubStmts(y, i))
  IN IF own # 0 \/ Keyword(y, i) \notin Modules THEN own
     ELSE FoldLeft(InSub, 0, OfKw(y, i, {"include"}))

\* One step of a leafref's path over the schema: ".." climbs to a data node or
\* to the module, a prefix is looked at only on the top.
RECURSIVE DataParentOf(_, _)
DataParentOf(y, i) ==
  LET p == y.n[i].parent
  IN IF p = 0 THEN i
     ELSE IF DataNode(y, p) \/ Keyword(y, p) \in Modules THEN p ELSE DataParentOf(y, p)

yang_find_module_by_prefix_yspec(y, spec, prefix) ==
  FirstStmt(SelectSeq(SubStmts(y, spec), LAMBDA m : Keyword(y, m) = "module" /\ ArgOf(y, m, "prefix") = prefix))

LeafrefTop(y, i, prefix) ==
  OrElse(OrElse(yang_find_module_by_prefix(y, i, prefix),
                yang_find_module_by_prefix_yspec(y, ys_spec(y, i), prefix)), i)
LeafrefStep(y, i, step) ==
  IF step[2] = ".." THEN DataParentOf(y, i)
  ELSE IF step[2] = "/" THEN ys_module(y, i)
  ELSE yang_find_schemanode(y, IF Keyword(y, i) \in Modules /\ step[1] # "" THEN LeafrefTop(y, i, step[1]) ELSE i,
                            step[2])
LeafrefTarget(y, i, path) ==
  FoldLeft(LAMBDA at, step : IF at = 0 THEN 0 ELSE LeafrefStep(y, at, step), i, path)

(***************************************************************************)
(* Types.  A type name leads through typedefs to a built-in type.  The     *)
(* innermost range or length applies; the patterns of all of them do.      *)
(* Patterns are compiled once, into the cache of a type statement, and are *)
(* matched only from there.                                                *)
(***************************************************************************)
\* ytmap2 and yang2cv_type: the representation of each built-in type
CvType ==
  [int8 |-> "int8", uint8 |-> "uint8", string |-> "string", bits |-> "string",
   enumeration |-> "string", identityref |-> "string", boolean |-> "bool",
   empty |-> "void", decimal64 |-> "dec64", leafref |-> "rest", union |-> "rest"]
IntRange == [int8 |-> <<-128, 127>>, uint8 |-> <<0, 255>>]
yang_builtin(t) == t \in DOMAIN CvType

TypeScopes == {"module", "submodule", "container", "list", "grouping"}
\* Looks for an identifier of a keyword in the scopes around i, innermost first.
RECURSIVE FindUp(_, _, _, _)
FindUp(y, i, kw, id) ==
  IF i = 0 \/ Keyword(y, i) = "spec" THEN 0
  ELSE OrElse(IF Keyword(y, i) \in TypeScopes THEN yang_find(y, i, kw, id) ELSE 0,
              FindUp(y, y.n[i].parent, kw, id))
FindNamed(y, at, up, kw, name) ==
  IF name[1] = "" THEN FindUp(y, up, kw, name[2])
  ELSE yang_find(y, yang_find_module_by_prefix(y, at, name[1]), kw, name[2])

yang_find_identity(y, i, name) == FindNamed(y, i, i, "identity", name)

Pattern(y, c) == [pat |-> Name(y, c), invert |-> yang_find(y, c, "modifier", "invert-match") # 0]
Limits(y, limit, inherited) == IF limit # 0 THEN y.n[limit].cvec ELSE inherited
yang_type_resolve_restrictions(y, yt, r) ==
  LET pats == OfKw(y, yt, {"pattern"})
  IN [r EXCEPT !.cvv = Limits(y, FirstStmt(OfKw(y, yt, {"length"}) \o OfKw(y, yt, {"range"})), @),
               !.pats = @ \o [k \in DOMAIN pats |-> Pattern(y, pats[k])]]

yang_type_cache_get2(y, yt) == y.n[yt].cache
RECURSIVE yang_type_resolve(_, _, _)
TypeRestricted(y, yt, r) == IF r.res = 0 THEN NoType ELSE yang_type_resolve_restrictions(y, yt, r)
ResolveTypedef(y, yt, td, rt) == IF rt \in {0, yt} THEN NoType ELSE yang_type_resolve(y, td, rt)
TypeOfTypedef(y, yt, td) == ResolveTypedef(y, yt, td, yang_find(y, td, "type", ""))
yang_type_resolve(y, ys, yt) ==
  LET name == y.n[yt].arg
  IN IF yang_type_cache_get2(y, yt) # NoType THEN yang_type_cache_get2(y, yt)
     ELSE TypeRestricted(y, yt, IF name[1] = "" /\ yang_builtin(name[2]) THEN [NoType EXCEPT !.res = yt]
                            ELSE TypeOfTypedef(y, yt, FindNamed(y, yt, ys, "typedef", name)))

\* A copy's type is resolved where its text stands, unless the type itself was
\* replaced by a refine or a deviation.
TypeAt(y, at, yt) == IF yt = 0 THEN NoType ELSE yang_type_resolve(y, at, yt)
TypeFrom(y, at) == TypeAt(y, at, yang_find(y, at, "type", ""))
TypeWhere(y, i, own) ==
  IF own = 0 THEN NoType
  ELSE TypeFrom(y, IF y.n[i].orig # 0 /\ ~Flagged(y, own, "REFINE") THEN y.n[i].orig ELSE i)
yang_type_get(y, i) == TypeWhere(y, i, yang_find(y, i, "type", ""))

yang_type_cache_set2(y, yt, r) == [y EXCEPT !.n[yt].cache = r]
TypeResolved(y, yt, r) == yang_type_cache_set2(Check(y, r.res # 0), yt, [r EXCEPT !.regexps = r.pats])
ys_resolve_type(y, yt) == TypeResolved(y, yt, yang_type_resolve(y, y.n[yt].parent, yt))

yang_type2cv(y, i) == CvType[Name(y, yang_type_get(y, i).res)]
(***************************************************************************)
(* Whether a value is one of a leaf's type.                                *)
(***************************************************************************)
\* The parser of a representation (CLIgen's cv_parse1)
cv_parse1(cvtype, v) ==
  CASE cvtype \in DOMAIN IntRange -> \E n \in YangValues[v].num : IntRange[cvtype][1] <= n /\ n <= IntRange[cvtype][2]
    [] cvtype = "bool" -> v \in {"true", "false"}
    [] cvtype = "void" -> v = ""
    [] OTHER -> TRUE

\* A bound that is not followed by an upper one stands for a single value.
Bounds(cvv) ==
  {<<cvv[k].v, IF k < Len(cvv) /\ cvv[k + 1].k = "range_max" THEN cvv[k + 1].v ELSE cvv[k].v>> :
     k \in {j \in DOMAIN cvv : cvv[j].k = "range_min"}}

cv_validate_pattern(regexps, v) == \A p \in Range(regexps) : (p.pat \in YangValues[v].pats) # p.invert

CvInRange(cvtype, cvv, v) ==
  LET size == IF cvtype \in DOMAIN IntRange THEN YangValues[v].num ELSE {YangValues[v].len}
  IN cvv # <<>> => \E n \in size, b \in Bounds(cvv) : b[1] <= n /\ n <= b[2]
CvNamed(y, yt, v) ==
  LET Named(kw, w) == \E c \in Range(OfKw(y, yt, {kw})) : Name(y, c) = w
  IN /\ Name(y, yt) = "enumeration" => Named("enum", v)
     /\ Name(y, yt) = "bits" => \A w \in YangValues[v].words : Named("bit", w)
cv_validate1(y, r, v) ==
  LET cvtype == CvType[Name(y, r.res)]
  IN /\ CvInRange(cvtype, r.cvv, v)
     /\ CvNamed(y, r.res, v)
     /\ cvtype \in {"string", "rest"} => cv_validate_pattern(r.regexps, v)

\* A leafref is of the type of the leaf it refers to.  The path is followed from
\* the original text, and from the copy when it leads nowhere from there or to a
\* leaf of a grouping, which has no representation of its own.
BetterLeaf(y, ends) == IF ends[1] # 0 /\ y.n[ends[1]].cv # NoCv THEN ends[1] ELSE ends[2]
LeafrefLeaf(y, i, path) ==
  LET starts == <<RootOrig(y, i), i>>
  IN BetterLeaf(y, [k \in {1, 2} |-> LeafrefTarget(y, starts[k], path)])

RECURSIVE ys_cv_validate(_, _, _)
RECURSIVE ys_cv_validate_union_one(_, _, _, _)
ValidateTarget(y, ref, v) ==
  ref # 0 /\ y.n[ref].cv # NoCv /\ cv_parse1(y.n[ref].cv.t, v) /\ ys_cv_validate(y, ref, v)
ys_cv_validate_leafref(y, i, yrestype, v) ==
  ValidateTarget(y, LeafrefLeaf(y, i, y.n[yang_find(y, yrestype, "path", "")].path), v)
ys_cv_validate_union(y, i, yrestype, v) ==
  \E yt \in Range(OfKw(y, yrestype, {"type"})) : ys_cv_validate_union_one(y, i, yt, v)
ValidateAs(y, i, r, v, member) ==
  CASE Name(y, r.res) = "union" -> ys_cv_validate_union(y, i, r.res, v)
    [] Name(y, r.res) = "leafref" -> ys_cv_validate_leafref(y, i, r.res, v)
    [] OTHER -> (member => cv_parse1(CvType[Name(y, r.res)], v)) /\ cv_validate1(y, r, v)
ys_cv_validate_union_one(y, i, yt, v) == ValidateAs(y, i, yang_type_resolve(y, i, yt), v, TRUE)
ys_cv_validate(y, i, v) ==
  Keyword(y, i) \notin {"leaf", "leaf-list"} \/ ValidateAs(y, i, yang_type_get(y, i), v, FALSE)

\* The value's module is the one its prefix leads to in the XML; what is derived
\* from the base is recorded with the base.  Only the first base counts.
DerivedFrom(y, id, v) == id # 0 /\ YangValues[v].ident \in Range(y.n[id].cvec)
BaseHas(y, base, v) == base # 0 /\ DerivedFrom(y, yang_find_identity(y, base, y.n[base].arg), v)
validate_identityref(y, yrestype, v) == BaseHas(y, yang_find(y, yrestype, "base", ""), v)

RECURSIVE xml_yang_validate_leaf_union(_, _, _, _)
LeafUnionMember(y, i, yt, r, v) ==
  IF Name(y, r.res) = "leafref" THEN TRUE   \* its instance decides
  ELSE IF Name(y, r.res) = "identityref" THEN validate_identityref(y, r.res, v)
  ELSE IF Name(y, yt) = "union" THEN xml_yang_validate_leaf_union(y, i, r.res, v)
  ELSE ys_cv_validate_union_one(y, i, yt, v)
xml_yang_validate_leaf_union(y, i, yrestype, v) ==
  \E yt \in Range(OfKw(y, yrestype, {"type"})) : LeafUnionMember(y, i, yt, yang_type_resolve(y, i, yt), v)

\* The part of the validation of a leaf that its value and the schema decide.
\* That the instance a leafref needs exists is left to module Validate.
AcceptsAs(y, i, r, v) ==
  IF Name(y, r.res) = "union" THEN xml_yang_validate_leaf_union(y, i, r.res, v)
  ELSE /\ y.n[i].cv # NoCv =>
            /\ cv_parse1(y.n[i].cv.t, v)
            /\ (Name(y, r.res) # "leafref" \/ Has(y, r.res, "require-instance")) => ys_cv_validate(y, i, v)
       /\ Name(y, r.res) = "identityref" => validate_identityref(y, r.res, v)
LeafAccepts(y, i, v) == AcceptsAs(y, i, yang_type_get(y, i), v)
=============================================================================
