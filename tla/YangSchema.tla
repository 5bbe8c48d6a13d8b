----------------------------- MODULE YangSchema -----------------------------
(***************************************************************************)
(* From YANG text to a resolved schema: clixon_yang_parse_lib.c, the       *)
(* populate part of clixon_yang.c, clixon_yang_cardinality.c, the          *)
(* yang-library of clixon_yang_module.c and clixon_yang_schema_mount.c.    *)
(*                                                                         *)
(* A load parses a module and everything it imports, sorts the new modules *)
(* by import and then takes them through one phase after the other:        *)
(* features, populate, types, groupings, augments, deviations, populate2.  *)
(* A phase of a new module may change modules of an earlier load.          *)
(***************************************************************************)
EXTENDS YangType

CONSTANTS
  YDirs,       \* function from directories to their files in the order of their
               \* names: [name, rev ("" when the file name has none), text]
  YDomainDir,  \* function from domains to directories; domain "" is the main one
  YFeatures,   \* the CLICON_FEATUREs: pairs <<module, feature>>, "*" for any
  YOptions,    \* boolean options that are set
  YLoads,      \* the loads that may be asked for: [op, name, rev]
  YIllegal,    \* names of the modules that are not legal YANG
  YMountPoints,\* instances of mount points: function from xpath to the schema
               \* node of the instance, as a path of names
  YLibs,       \* yang-libraries a plugin may announce: [domain, mods]
  YMaxLoads, YMaxMounts   \* bounds on the requests

VARIABLES
  yfiles,      \* the directories and their files
  yang,        \* the heap
  ywork,       \* what a load has yet to do: the specification, the phases of its
               \* modules, the xpath of a mount
  yreq,        \* the requests so far, in order
  ymount       \* function from xpaths to the library last announced there

yangVars == <<yfiles, yang, ywork, yreq, ymount>>
NoLib == [domain |-> "", mods |-> <<>>]
(***************************************************************************)
(* Parsing.  Files of a module are ordered by revision; the last one that  *)
(* matches is taken, from the directory of the domain or else from the     *)
(* search path.                                                            *)
(***************************************************************************)
ys_parse_sub(st) ==
  /\ st.kw = "modifier" => st.arg[2] = "invert-match"
  /\ st.kw = "status" => st.arg[2] \in {"current", "deprecated", "obsolete"}
  /\ st.kw \in {"min-elements", "max-elements"} =>
       (st.kw = "max-elements" /\ st.arg[2] = "unbounded") \/ YangValues[st.arg[2]].num # {}

RECURSIVE yang_parse_str(_, _, _)
yang_parse_str(y, p, st) ==
  LET new == Len(y.n) + 1
      y1 == [y EXCEPT !.n = Append(@, ys_new(st, p)), !.ok = @ /\ ys_parse_sub(st)]
  IN Then(y, FoldLeft(LAMBDA w, s : yang_parse_str(w, new, s), yn_insert(y1, p, new), st.sub))

yang_file_find_match(name, rev, domain) ==
  LET In(dir) == SelectSeq(yfiles[dir], LAMBDA f : f.name = name /\ rev \in {"", f.rev})
      own == In(YDomainDir[domain])
  IN IF own # <<>> THEN own ELSE In("search")

\* A module whose file or whose revision is not what its name says is refused.
Revisions(revf, revm) == "" \in {revf, revm} \/ revf = revm
ParsedAs(y, m, name, file) == Check(y, Name(y, m) = name /\ Revisions(file.rev, ArgOf(y, m, "revision")))
ParseLast(y, spec, name, files) ==
  IF files = <<>> THEN Failed(y)
  ELSE ParsedAs(yang_parse_str(y, spec, files[Len(files)].text), Len(y.n) + 1, name, files[Len(files)])
yang_parse_module(y, spec, name, rev, domain) ==
  ParseLast(y, spec, name, yang_file_find_match(name, rev, domain))

DomainOf(y, spec) == Name(y, y.n[spec].parent)

RECURSIVE yang_parse_recurse(_, _)
RecurseInto(y, m, c, real) ==
  IF ~y.ok THEN y
  ELSE IF Keyword(y, c) = "include" /\ ArgOf(y, m, "belongs-to") # Name(y, real) THEN Failed(y)
  ELSE yang_parse_recurse(y, m)
RecurseAll(y, m, spec, real) ==
  LET One(w, c) ==
        IF ~w.ok \/ yang_find(w, spec, IF Keyword(w, c) = "import" THEN "module" ELSE "submodule", Name(w, c)) # 0
        THEN w
        ELSE RecurseInto(yang_parse_module(w, spec, Name(w, c), ArgOf(w, c, "revision-date"), DomainOf(w, spec)),
                         Len(w.n) + 1, c, real)
  IN IF real = 0 THEN Failed(y) ELSE FoldLeft(One, y, OfKw(y, m, {"import", "include"}))
yang_parse_recurse(y, m) == RecurseAll(y, m, ys_spec(y, m), RealOf(y, m))

(***************************************************************************)
(* Modules are sorted so that each comes after what it imports.  A module  *)
(* of an earlier load is marked and not visited again.                     *)
(***************************************************************************)
RECURSIVE ys_visit(_, _)
Visited(w, m) == [y |-> Flag(Unflag(w.y, m, "TMP"), m, "MARK"), list |-> Append(w.list, m)]
ys_visit(w, m) ==
  LET y == w.y
      Named1(c) == OrElse(yang_find(y, ys_spec(y, m), "module", Name(y, c)),
                          yang_find(y, ys_spec(y, m), "submodule", Name(y, c)))
  IN IF ~y.ok \/ Flagged(y, m, "MARK") THEN w
     ELSE IF Flagged(y, m, "TMP")
     THEN [w EXCEPT !.y = Check(y, Keyword(y, m) = "submodule")]
     ELSE Visited(FoldLeft(LAMBDA v, c : ys_visit(v, Named1(c)), [w EXCEPT !.y = Flag(y, m, "TMP")],
                           OfKw(y, m, {"import", "include"})), m)

yang_sort_modules(y, new) ==
  LET All(w) == [w EXCEPT !.y = Check(@, Len(w.list) = Len(new))]
  IN All(FoldLeft(LAMBDA v, m : IF v.y.n[m].fl \cap {"MARK", "TMP"} # {} THEN v ELSE ys_visit(v, m),
                  [y |-> y, list |-> <<>>], new))

(***************************************************************************)
(* The statements each statement may have: the table of RFC 7950.          *)
(***************************************************************************)
DataDefs == {"container", "leaf", "list", "leaf-list", "anydata", "choice", "uses"}
Scoped == DataDefs \cup {"typedef", "grouping", "must"}
ModuleOrder ==
  [kw \in Scoped \cup {"namespace", "prefix", "belongs-to", "import", "include", "revision", "augment",
           "deviation", "rpc", "identity", "feature", "extension", "notification"} |->
     CASE kw \in {"namespace", "prefix", "belongs-to"} -> 0
       [] kw \in {"import", "include"} -> 1
       [] kw = "revision" -> 3
       [] OTHER -> 4]
YcOnce(pk) ==
  CASE pk = "leaf" -> {"type", "default", "config", "mandatory", "when"}
    [] pk = "leaf-list" -> {"type", "config", "when", "min-elements", "max-elements"}
    [] pk = "list" -> {"key", "config", "when", "min-elements", "max-elements"}
    [] pk = "typedef" -> {"type", "default"}
    [] pk = "type" -> {"range", "length", "path", "require-instance"}
    [] pk \in Modules -> {"namespace", "prefix", "belongs-to"}
    [] pk = "rpc" -> {"input", "output"}
    [] OTHER -> {"config", "when", "presence", "mandatory", "prefix"}
YcNeeds(pk) ==
  CASE pk \in {"leaf", "leaf-list", "typedef"} -> {"type"}
    [] pk = "import" -> {"prefix"}
    [] pk = "module" -> {"namespace", "prefix"}
    [] pk = "submodule" -> {"belongs-to"}
    [] pk = "deviation" -> {"deviate"}
    [] OTHER -> {}
YcMay(pk) ==
  CASE pk \in Modules -> DOMAIN ModuleOrder \ {"must"}
    [] pk \in {"leaf", "leaf-list"} ->
         YcOnce(pk) \cup {"default", "must", "if-feature"}
    [] pk \in {"container", "list", "input", "output", "notification", "grouping", "case"} ->
         Scoped \cup {"key", "config", "when", "presence", "if-feature", "unique", "min-elements",
                      "max-elements", "action"}
    [] pk = "choice" -> (DataDefs \ {"uses"}) \cup {"case", "when", "default", "mandatory", "config", "if-feature"}
    [] pk = "type" -> YcOnce(pk) \cup {"pattern", "enum", "bit", "base", "type"}
    [] pk = "uses" -> {"refine", "augment", "when", "if-feature"}
    [] pk = "augment" -> DataDefs \cup {"case", "when", "if-feature", "notification", "action"}
    [] pk = "deviate" -> {"type", "default", "config", "mandatory", "must", "min-elements", "max-elements", "unique"}
    [] pk = "refine" -> {"default", "config", "mandatory", "must", "presence", "min-elements", "max-elements", "if-feature"}
    [] pk = "deviation" -> {"deviate"}
    [] pk = "typedef" -> YcOnce(pk)
    [] OTHER -> {"prefix", "base", "input", "output", "revision-date", "value", "position", "modifier",
                 "if-feature", "argument"}

yang_cardinality_one(y, i) ==
  LET pk == Keyword(y, i)
      chs == SelectSeq(SubStmts(y, i), LAMBDA c : Keyword(y, c) # "unknown")
      Nr(kw) == Len(OfKw(y, i, {kw}))
  IN \/ pk = "unknown"
     \/ /\ \A k \in DOMAIN chs : Keyword(y, chs[k]) \in YcMay(pk)
        /\ pk \in Modules => \A j, k \in DOMAIN chs :
             j < k => ModuleOrder[Keyword(y, chs[j])] <= ModuleOrder[Keyword(y, chs[k])]
        /\ \A kw \in YcNeeds(pk) : Has(y, i, kw)
        /\ \A kw \in YcOnce(pk) : Nr(kw) <= 1
yang_cardinality(y, m) ==
  Check(y, \A i \in Range(Subtree(y, m)) : yang_cardinality_one(y, i))
yang_cardinality_interval_max(pk, ck) == IF ck \in YcOnce(pk) THEN 1 ELSE 2

(***************************************************************************)
(* Features.  A statement whose if-feature is false goes away; a           *)
(* configuration node leaves an empty anydata behind, so that data of it   *)
(* can still be stored.  State nodes are not known as such yet.            *)
(***************************************************************************)
RECURSIVE yang_config_ancestor(_, _)
yang_config_ancestor(y, i) ==
  i = 0 \/ /\ ~Flagged(y, i, "STATE_LOCAL")
           /\ Keyword(y, i) \notin {"input", "output", "notification"}
           /\ yang_config_ancestor(y, y.n[i].parent)

ys_populate_feature(y, i) ==
  LET m == Name(y, ys_module(y, i))
      on == YFeatures \cap ({m, "*"} \X {Name(y, i), "*"}) # {}
  IN [y EXCEPT !.n[i].cv = [t |-> "bool", v |-> <<"", IF on THEN "true" ELSE "false">>]]

\* A feature of a module that is not yet processed is populated when asked for.
Feature(y, i, name) ==
  yang_find(y, IF name[1] = "" THEN ys_real_module(y, i)
               ELSE RealOf(y, yang_find_module_by_prefix(y, i, name[1])), "feature", name[2])
FeatureOn(y, on, f) == [y |-> y, on |-> Append(on, y.n[f].cv.v[2] = "true")]
FeatureState(w, f) ==
  IF f = 0 THEN [w EXCEPT !.y = Failed(@)]
  ELSE FeatureOn(IF w.y.n[f].cv = NoCv THEN ys_populate_feature(w.y, f) ELSE w.y, w.on, f)
if_feature_check(w, i, name) == FeatureState(w, Feature(w.y, i, name))

\* list: the operator of the terms in path, "and" or "or", and "not" first
FeatureDecided(w, op) ==
  [w EXCEPT !.on = CASE op = "or" -> \E k \in DOMAIN @ : @[k]
                     [] op = "and" -> \A k \in DOMAIN @ : @[k]
                     [] op = "not" -> \A k \in DOMAIN @ : ~@[k]]
if_feature_expr(y, i) ==
  FeatureDecided(FoldLeft(LAMBDA v, name : if_feature_check(v, i, name), [y |-> y, on |-> <<>>], y.n[i].path),
          y.n[i].list[1])

RECURSIVE yang_features(_, _)
yang_features(y, i) ==   \* [y, on]
  LET Drop(w, c) ==
        IF DataNode(w, c) /\ yang_config_ancestor(w, c)
        THEN Flag([w EXCEPT !.n[c].kw = "anydata", !.n[c].ch = <<>>], c, "DISABLED")
        ELSE ys_prune_self(w, c)
      Kept(r, c) == IF r.on THEN r ELSE [y |-> Drop(r.y, c), on |-> TRUE]
      One(w, c) == IF ~w.on \/ ~w.y.ok THEN w
                   ELSE IF Keyword(y, c) = "if-feature" THEN if_feature_expr(w.y, c)
                   ELSE IF Keyword(y, c) = "feature" THEN [w EXCEPT !.y = ys_populate_feature(w.y, c)]
                   ELSE Kept(yang_features(w.y, c), c)
  IN FoldLeft(One, [y |-> y, on |-> TRUE], SubStmts(y, i))

(***************************************************************************)
(* Populate: what each statement of a new module records about itself.     *)
(***************************************************************************)
yang_cvec_add(y, i, v) == [y EXCEPT !.n[i].cvec = Append(@, v)]
yang_cvec_rm(y, i, v) == [y EXCEPT !.n[i].cvec = SelectSeq(@, LAMBDA z : z # v)]

\* An identity is recorded with all it is derived from, up to one that has it.
RECURSIVE AddDerived(_, _, _)
AddDerived(y, i, idref) ==
  LET To(w, base) ==
        IF base = 0 THEN Failed(w)
        ELSE IF idref \in Range(w.n[base].cvec) THEN w
        ELSE AddDerived(yang_cvec_add(w, base, idref), base, idref)
  IN FoldLeft(LAMBDA w, c : To(w, yang_find_identity(w, i, w.n[c].arg)), y, OfKw(y, i, {"base"}))
ys_populate_identity(y, i) == AddDerived(y, i, <<Name(y, ys_module(y, i)), Name(y, i)>>)

PrefixedDefault(y, i, r, def) ==
  IF r.res = 0 THEN Failed(y)
  ELSE IF def # 0 /\ Name(y, r.res) = "identityref" /\ y.n[def].arg[1] = ""
  THEN [y EXCEPT !.n[def].arg[1] = yang_find_myprefix(y, i)]
  ELSE y
ys_populate_leaf1(y, i) == PrefixedDefault(y, i, yang_type_get(y, i), yang_find(y, i, "default", ""))

\* "min" and "max" are the limits of the representation.
Limit(cvtype) == IF cvtype \in DOMAIN IntRange THEN IntRange[cvtype] ELSE <<0, 2147483647>>
bound_add(w, k, v, cvtype) ==
  LET Add(nr) == [cvec |-> w.cvec \o SetToSeq({[k |-> k, v |-> n] : n \in nr}), ok |-> w.ok /\ nr # {}]
  IN Add(CASE v = "min" -> {Limit(cvtype)[1]}
           [] v = "max" -> {Limit(cvtype)[2]}
           [] OTHER -> {n \in YangValues[v].num : Limit(cvtype)[1] <= n /\ n <= Limit(cvtype)[2]})
range_parse(y, i, cvtype) ==
  LET One(w, p) == bound_add(w, p[1], p[2], cvtype)
      parts == y.n[i].list
      bounds == FoldLeft(LAMBDA b, p : b \o (IF Len(p) = 1 THEN <<<<"range_min", p[1]>>>>
                                            ELSE <<<<"range_min", p[1]>>, <<"range_max", p[2]>>>>), <<>>, parts)
      Set(w) == [y EXCEPT !.n[i].cvec = w.cvec, !.ok = @ /\ w.ok]
  IN Set(FoldLeft(One, [cvec |-> <<>>, ok |-> TRUE], bounds))
RangeOf(y, i, r) ==
  IF r.res = 0 \/ Keyword(y, y.n[i].parent) # "type" THEN Failed(y)
  ELSE IF CvType[Name(y, r.res)] \notin DOMAIN IntRange THEN Failed(y)
  ELSE range_parse(y, i, CvType[Name(y, r.res)])
ys_populate_range(y, i) == RangeOf(y, i, yang_type_resolve(y, i, y.n[i].parent))
ys_populate_length(y, i) ==
  IF Keyword(y, y.n[i].parent) # "type" THEN Failed(y) ELSE range_parse(y, i, "uint64")

\* Enumerations are numbered upwards; an explicit value never goes back.
ys_populate_type_enum(y, i) ==
  LET Set(w, c, at) == [y |-> [w.y EXCEPT !.n[c].num = at], n |-> at + 1]
      Given(val, n) == IF val = "" THEN n ELSE Max({n} \cup YangValues[val].num)
  IN FoldLeft(LAMBDA w, c : Set(w, c, Given(ArgOf(w.y, c, "value"), w.n)), [y |-> y, n |-> 0], SubStmts(y, i)).y
ys_populate_type(y, i) ==
  LET Known(base) == base # 0 /\ yang_find_identity(y, i, y.n[base].arg) # 0
  IN CASE Name(y, i) = "decimal64" -> Check(y, Has(y, i, "fraction-digits"))
       [] Name(y, i) = "identityref" -> Check(y, Known(yang_find(y, i, "base", "")))
       [] Name(y, i) = "enumeration" -> ys_populate_type_enum(y, i)
       [] OTHER -> y

\* How many levels above its node an expression looks: the longest run of parent
\* steps, -1 when it starts from the root.
must_depth_walk(path) ==
  LET Step(w, s) == LET d == IF s[2] = ".." THEN w.d + 1 ELSE 0
                    IN [d |-> d, max |-> IF d > w.max THEN d ELSE w.max]
  IN FoldLeft(Step, [d |-> 0, max |-> 0], path).max
ys_populate_xpath_depth(y, i) ==
  LET path == y.n[i].path
  IN [y EXCEPT !.n[i].num = IF path # <<>> /\ path[1][2] = "/" THEN -1 ELSE must_depth_walk(path)]

\* A use of an extension is kept with the module it stands in, wherever it is
\* copied, and the extension knows its uses.
UsesExtension(y, i, ext) ==
  LET Known(w) == yang_cvec_add(w, ext, i)
  IN IF ext = 0 THEN Failed(y)
     ELSE IF y.n[i].list # <<>> /\ ~Has(y, ext, "argument") THEN Failed(y)
     ELSE Known(yang_mymodule_set(y, i, ys_module(y, i)))
ys_populate_unknown(y, i) ==
  UsesExtension(y, i, yang_find(y, yang_find_module_by_prefix(y, i, y.n[i].arg[1]), "extension", Name(y, i)))

ys_populate_module_submodule(y, i) ==
  LET all == <<i>> \o OfKw(y, i, {"import"})
      Distinct(pre) == \A j, k \in DOMAIN pre : pre[j] = pre[k] => j = k
  IN Check(y, Distinct([k \in DOMAIN all |-> ArgOf(y, all[k], "prefix")]))

ys_populate_list(y, i) ==
  LET k == yang_find(y, i, "key", "") IN IF k = 0 THEN y ELSE [y EXCEPT !.n[i].cvec = y.n[k].list]
ys_populate_unique(y, i) == [y EXCEPT !.n[i].cvec = y.n[i].list]

ys_populate(y, i) ==
  LET kw == Keyword(y, i)
  IN CASE ~y.ok -> y
       [] kw = "identity" -> ys_populate_identity(y, i)
       [] kw \in {"leaf", "leaf-list"} -> ys_populate_leaf1(y, i)
       [] kw = "length" -> ys_populate_length(y, i)
       [] kw = "range" -> ys_populate_range(y, i)
       [] kw = "list" -> ys_populate_list(y, i)
       [] kw = "unique" -> ys_populate_unique(y, i)
       [] kw \in Modules -> ys_populate_module_submodule(y, i)
       [] kw = "type" -> ys_populate_type(y, i)
       [] kw \in {"must", "path", "when"} -> ys_populate_xpath_depth(y, i)
       [] kw = "unknown" -> ys_populate_unknown(y, i)
       [] OTHER -> y

(***************************************************************************)
(* Schema node identifiers.  A prefix is that of the module the identifier *)
(* stands in, or of one of its imports; the name alone selects a child.    *)
(***************************************************************************)
\* xml_nsctx_yang and xml_nsctx_get: the namespace of a prefix at i, "" for none
NsOf(y, i, prefix) ==
  LET Latest(hit) == IF hit = <<>> THEN ""
                     ELSE ArgOf(y, yang_find(y, ys_spec(y, i), "module", Name(y, hit[Len(hit)])), "namespace")
  IN IF prefix \in {"", yang_find_myprefix(y, i)} THEN yang_find_mynamespace(y, i)
     ELSE Latest(SelectSeq(ScopeImports(y, i), LAMBDA c : ArgOf(y, c, "prefix") = prefix))
ModuleOfPrefix(y, i, prefix) == yang_find_module_by_namespace(y, ys_spec(y, i), NsOf(y, i, prefix))

\* An rpc without input or output gets an empty one when it is referred to.
Stmt(kw, id, list) == [kw |-> kw, arg |-> <<"", id>>, path |-> <<>>, list |-> list, sub |-> <<>>]
NewBelow(y, p, st) == yn_insert([y EXCEPT !.n = Append(@, ys_new(st, p))], p, Len(y.n) + 1)
StepTo(y, at, id, found) ==
  IF found = 0 /\ Keyword(y, at) \in {"rpc", "action"} /\ id \in {"input", "output"}
  THEN [y |-> NewBelow(y, at, Stmt(id, "", <<>>)), at |-> Len(y.n) + 1]
  ELSE [y |-> y, at |-> found]
NodeidStep(w, i, step) ==   \* w: [y, at]; at = 0: no such node
  IF ~w.y.ok \/ w.at = 0 THEN w
  ELSE IF ModuleOfPrefix(w.y, i, step[1]) = 0 THEN [w EXCEPT !.y = Failed(@)]
  ELSE StepTo(w.y, w.at, step[2], yang_find_schemanode(w.y, w.at, step[2]))
schema_nodeid_iterate(y, i, from, path) ==
  FoldLeft(LAMBDA w, step : NodeidStep(w, i, step), [y |-> y, at |-> from], path)

NodeidFrom(y, i, m, path) ==
  IF m = 0 THEN [y |-> Failed(y), at |-> 0] ELSE schema_nodeid_iterate(y, i, m, path)
yang_abs_schema_nodeid(y, i, path) == NodeidFrom(y, i, ModuleOfPrefix(y, i, path[1][1]), path)
yang_desc_schema_nodeid(y, i, path) == schema_nodeid_iterate(y, i, i, path)

(***************************************************************************)
(* Populate2: what leaves need once every statement is in its place.       *)
(***************************************************************************)
\* The default of a leaf is its own or that of the typedef its built-in type
\* stands in; a leaf-list collects its defaults.
LeafDefaults(y, i, t, vals, own) ==
  LET fromType == ~own /\ (y.n[i].cvec # <<>> \/ ArgOf(y, i, "min-elements") \notin {"", "0"})
  IN IF \E k \in DOMAIN vals : ~cv_parse1(t, vals[k][2]) THEN Failed(y)
     ELSE IF Keyword(y, i) = "leaf-list"
     THEN [y EXCEPT !.n[i].cv = [t |-> t, v |-> NoName],
                    !.n[i].cvec = IF fromType THEN @ ELSE @ \o vals]
     ELSE [y EXCEPT !.n[i].cv = [t |-> t, v |-> IF vals = <<>> THEN NoName ELSE vals[1]]]
LeafOfType(y, i, res, own) ==
  LET td == y.n[res].parent
      def == IF own # <<>> \/ td = i THEN own ELSE OfKw(y, td, {"default"})
  IN LeafDefaults(y, i, CvType[Name(y, res)], [k \in DOMAIN def |-> y.n[def[k]].arg], own # <<>>)
LeafTyped(y, i, r) == IF r.res = 0 THEN Failed(y) ELSE LeafOfType(y, i, r.res, OfKw(y, i, {"default"}))
ys_populate_leaf2(y, i) == LeafTyped(y, i, yang_type_get(y, i))

\* The prefix a namespace has in module m, "" when it has none
yang_find_prefix_by_namespace(y, m, ns) ==
  LET imps == SelectSeq(ImportsOf(y, m), LAMBDA c :
                ArgOf(y, yang_find(y, ys_spec(y, m), "module", Name(y, c)), "namespace") = ns)
      First(is) == IF is = <<>> THEN "" ELSE ArgOf(y, is[1], "prefix")
  IN IF yang_find_mynamespace(y, m) = ns THEN yang_find_myprefix(y, m) ELSE First(imps)

yang_extension_value(y, i, name, ns) ==
  {y.n[c].list : c \in {c \in Range(OfKw(y, i, {"unknown"})) :
     y.n[c].arg = <<yang_find_prefix_by_namespace(y, ys_module(y, c), ns), name>>}}

yang_schema_mount_point0(y, i) ==
  /\ Keyword(y, i) \in {"container", "list"}
  /\ yang_extension_value(y, i, "mount-point", "urn:mount") \ {<<>>} # {}

MountPointFlag(y, i) == IF y.ok /\ yang_schema_mount_point0(y, i) THEN Flag(y, i, "MTPOINT_POTENTIAL") ELSE y
ys_populate2(y, i) ==
  MountPointFlag(
    CASE Keyword(y, i) \in {"leaf", "leaf-list"} -> ys_populate_leaf2(y, i)
      [] Keyword(y, i) = "config" -> IF Name(y, i) = "false" THEN Flag(y, y.n[i].parent, "STATE_LOCAL")
                                ELSE Check(y, Name(y, i) = "true")
      [] Keyword(y, i) \in {"mandatory", "require-instance"} -> Check(y, Name(y, i) \in {"true", "false"})
      [] OTHER -> y, i)

\* At and below a statement, but not into groupings and augments, which are only
\* text
Phase(y, mods, Op(_, _)) ==
  IF y.ok THEN FoldLeft(LAMBDA w, m : IF w.ok THEN Op(w, m) ELSE w, y, mods) ELSE y
RECURSIVE Populate2(_, _)
Populate2(y, i) ==
  LET Inside2(w) == Phase(w, SubStmts(w, i), Populate2)
  IN IF Keyword(y, i) \in {"augment", "grouping"} THEN y ELSE Inside2(ys_populate2(y, i))

(***************************************************************************)
(* Augments.  Copies of the nodes go into the target and belong to the     *)
(* augmenting module.                                                      *)
(***************************************************************************)
AugmentKinds == {"container", "leaf", "list", "leaf-list", "choice", "anydata", "uses", "unknown"}
MayHold(target) ==
  CASE target \in {"container", "list"} -> AugmentKinds \cup {"action", "notification"}
    [] target \in {"case", "input", "output", "notification"} -> AugmentKinds
    [] target = "choice" -> (AugmentKinds \ {"uses", "unknown"}) \cup {"case", "anyxml"}
    [] OTHER -> SchemaNodes \cup {"unknown"}

\* Mutant: the copy is left to the module it is put into.
Adopt_unowned(y, aug, target, new) ==
  LET in == yn_insert(Unflag(y, new, "GROUPING"), target, new)
  IN IF Has(y, aug, "when") THEN yang_when_set(in, new, ArgOf(y, aug, "when")) ELSE in
\* The copy, which is the object new, belongs to the augmenting module.
Adopt(y, aug, target, new) ==
  LET in == yn_insert(yang_mymodule_set(Unflag(y, new, "GROUPING"), new, ys_module(y, aug)), target, new)
  IN IF Has(y, aug, "when") THEN yang_when_set(in, new, ArgOf(y, aug, "when")) ELSE in
AugmentWith(y, aug, target, c) ==
  Then(y, Populate2(Adopt(ys_dup(y, c), aug, target, Len(y.n) + 1), Len(y.n) + 1))

\* In a container or list a child of the wrong kind is skipped; elsewhere it ends
\* the augment.
AugmentTarget(t, aug, kind) ==
  LET kids == SelectSeq(SubStmts(t.y, aug), LAMBDA c : /\ yang_schemanode(t.y, c) \/ Keyword(t.y, c) = "unknown"
                                                    /\ ~Flagged(t.y, c, "DISABLED"))
      One(w, c) == IF ~w.y.ok \/ w.stop THEN w
                   ELSE IF Keyword(t.y, c) \in MayHold(kind) THEN [w EXCEPT !.y = AugmentWith(@, aug, t.at, c)]
                   ELSE [w EXCEPT !.stop = kind \notin {"container", "list"}]
  IN FoldLeft(One, [y |-> t.y, stop |-> FALSE], kids).y
AugmentAt(t, aug) ==
  IF ~t.y.ok THEN t.y
  ELSE IF t.at = 0 THEN Check(t.y, "CLICON_YANG_AUGMENT_ACCEPT_BROKEN" \in YOptions)
  ELSE IF Keyword(t.y, t.at) = "anydata" THEN t.y
  ELSE AugmentTarget(t, aug, Keyword(t.y, t.at))
yang_augment_node(y, aug) ==
  LET up == y.n[aug].parent
  IN AugmentAt(IF Keyword(y, up) = "uses" THEN yang_desc_schema_nodeid(y, y.n[up].parent, y.n[aug].path)
               ELSE yang_abs_schema_nodeid(y, aug, y.n[aug].path), aug)

yang_augment_module(y, m) == Phase(y, OfKw(y, m, {"augment"}), yang_augment_node)

(***************************************************************************)
(* Groupings.  A grouping is expanded once, in place; a uses then gets a   *)
(* copy of its nodes, refined, right after the uses statement.             *)
(***************************************************************************)
\* In the module, or in the module it is a part of and its other submodules
ys_grouping_module_resolve(y, m, name) ==
  OrElse(yang_find(y, m, "grouping", name), yang_find(y, RealOf(y, m), "grouping", name))

RECURSIVE GroupingAbove(_, _, _)
GroupingFrom(y, up, name) ==
  IF up = 0 THEN 0
  ELSE IF Keyword(y, up) = "spec" THEN 0
  ELSE IF Keyword(y, up) \in Modules THEN ys_grouping_module_resolve(y, up, name)
  ELSE OrElse(yang_find(y, up, "grouping", name), GroupingAbove(y, up, name))
GroupingAbove(y, i, name) == GroupingFrom(y, OrElse(y.n[i].my, y.n[i].parent), name)

RECURSIVE ys_grouping_resolve(_, _, _)
ys_grouping_resolve(y, i, name) ==
  LET In(m) == IF m = 0 THEN 0 ELSE ys_grouping_module_resolve(y, m, name[2])
  IN IF i = 0 THEN 0
     ELSE OrElse(IF name[1] = "" THEN GroupingAbove(y, i, name[2]) ELSE In(yang_find_module_by_prefix(y, i, name[1])),
                 ys_grouping_resolve(y, y.n[i].orig, name))

RefineOnce == {"default", "config", "mandatory", "presence", "min-elements", "max-elements"}
ys_do_refine(y, refine, t) ==
  LET given == {Keyword(y, c) : c \in Range(SubStmts(y, refine))} \cap RefineOnce
      y1 == [y EXCEPT !.n[t].ch = SelectSeq(@, LAMBDA c : Keyword(y, c) \notin given)]
  IN FoldLeft(LAMBDA w, c : yn_insert(ys_dup(w, c), t, Len(w.n) + 1), y1, SubStmts(y, refine))

ys_iskey(y, i, p) == Keyword(y, i) = "leaf" /\ Keyword(y, p) = "list" /\ Name(y, i) \in Range(y.n[p].cvec)

RECURSIVE Ancestors(_, _)
Ancestors(y, i) == IF i = 0 THEN {} ELSE {i} \cup Ancestors(y, y.n[i].parent)

RECURSIVE yang_expand_grouping(_, _)

\* The copy stands beside the grouping while it is refined.
RefineAt(t, refine) ==
  IF ~t.y.ok \/ t.at = 0 THEN t.y
  ELSE IF Keyword(t.y, t.at) \in {"anydata", "anyxml"} THEN t.y
  ELSE ys_do_refine(t.y, refine, t.at)
Refined(y, uses, g, copy) ==
  LET One(w, c) == RefineAt(yang_desc_schema_nodeid(w, copy, w.n[c].path), c)
  IN ys_prune_self(Phase(yn_insert(ys_dup(y, g), y.n[g].parent, copy), OfKw(y, uses, {"refine"}), One), copy)

\* The nodes of the copy move below n, after the uses statement at position pos.
Spliced(y, copy, n, when, pos) ==
  LET kids == SelectSeq(SubStmts(y, copy), LAMBDA c : yang_schemanode(y, c) \/ Keyword(y, c) = "unknown")
      Move(w, c) == Flag(IF when = "" THEN [w EXCEPT !.n[c].parent = n]
                         ELSE yang_when_set([w EXCEPT !.n[c].parent = n], c, when), c, "GROUPING")
      Insert(w) == [w EXCEPT !.n[n].ch = SubSeq(@, 1, pos) \o kids \o SubSeq(@, pos + 1, Len(@))]
  IN IF ~y.ok THEN y
     ELSE IF when # "" /\ \E c \in Range(kids) : ys_iskey(y, c, n) THEN Failed(y)
     ELSE Insert(FoldLeft(Move, y, kids))

SpliceCopy(y, n, uses, pos, g) ==
  IF ~y.ok THEN y
  ELSE Spliced(Refined(y, uses, g, Len(y.n) + 1), Len(y.n) + 1, n, ArgOf(y, uses, "when"), pos)
UseGrouping(y, n, uses, pos, g) ==
  IF g = 0 \/ g \in Ancestors(y, n) THEN Failed(y)
  ELSE SpliceCopy(IF Flagged(y, g, "GROUPING") THEN y ELSE yang_expand_grouping(Flag(y, g, "GROUPING"), g),
                  n, uses, pos, g)
yang_expand_uses_node(y, n, uses, pos) ==
  UseGrouping(y, n, uses, pos, ys_grouping_resolve(y, uses, y.n[uses].arg))

RECURSIVE ExpandUses(_, _, _)
UsesDone(y, n, s, pos) ==
  IF ~y.ok THEN y ELSE ExpandUses(yang_augment_module(Flag(y, s, "GROUPING"), s), n, pos + 1)
ExpandUses(y, n, pos) ==
  LET s == SubStmts(y, n)[pos]
  IN IF ~y.ok \/ pos > Len(SubStmts(y, n)) THEN y
     ELSE IF Keyword(y, s) # "uses" \/ Flagged(y, s, "GROUPING") THEN ExpandUses(y, n, pos + 1)
     ELSE UsesDone(yang_expand_uses_node(y, n, s, pos), n, s, pos)

ExpandBelow(y, n) ==
  LET Down(w, c) == IF Keyword(w, c) = "grouping" /\ Flagged(w, c, "GROUPING") THEN w
                    ELSE yang_expand_grouping(IF Keyword(w, c) = "grouping" THEN Flag(w, c, "GROUPING") ELSE w, c)
  IN Phase(y, SubStmts(y, n), Down)
yang_expand_grouping(y, n) == ExpandBelow(ExpandUses(y, n, 1), n)

(***************************************************************************)
(* Deviations                                                              *)
(***************************************************************************)
\* A copy of a statement of the deviation, its types resolved where they stand
DeviateWith(y, dev, c, target) ==
  LET new == Len(y.n) + 1
      Resolve(w, i) == IF Keyword(w, i) = "type" THEN ys_resolve_type(w, i) ELSE w
      Mark(w, i) == Flag(w, i, "REFINE")
      Copied(w) == yn_insert(Phase(ys_prune_self(Phase(w, Subtree(w, new), Resolve), new), Subtree(w, new), Mark),
                             target, new)
  IN Copied(yn_insert(ys_dup(y, c), dev, new))

DeviateOne(y, dev, c, target, old) ==
  LET op == Name(y, dev)
      single == yang_cardinality_interval_max(Keyword(y, target), Keyword(y, c)) = 1
  IN IF \/ op \notin {"add", "replace", "delete"}
        \/ op = "add" /\ old # 0 /\ single
        \/ op # "add" /\ old = 0
     THEN Failed(y)
     ELSE IF op = "delete" THEN ys_prune_self(y, old)
     ELSE DeviateWith(IF op = "add" THEN y ELSE ys_prune_self(y, old), dev, c, target)
Deviate(y, dev, target) ==
  LET One(w, c) == IF Keyword(w, c) = "unknown" THEN w
                   ELSE DeviateOne(w, dev, c, target, yang_find(w, target, Keyword(w, c), ""))
  IN IF Name(y, dev) = "not-supported" THEN Flag(y, target, "NOT_SUPPORT")
     ELSE Phase(y, SubStmts(y, dev), One)

\* A target that does not exist is passed over.
DeviateAt(t, i) ==
  LET One(w, d) == Deviate(w, d, t.at)
  IN IF t.at = 0 THEN t.y ELSE Phase(t.y, OfKw(t.y, i, {"deviate"}), One)
yang_deviation(y, i) == DeviateAt(yang_abs_schema_nodeid(y, i, y.n[i].path), i)

(***************************************************************************)
(* The phases of a load.  "new" are the modules it brought, in the order   *)
(* they were read; "sorted" the same ones with imports first.  A phase is  *)
(* one step; nothing else happens until the load is done.                  *)
(***************************************************************************)
yang_myroot(y, i) ==
  LET top == {a \in Ancestors(y, i) : y.n[a].parent # 0 /\ Keyword(y, y.n[a].parent) \in Modules}
  IN IF Keyword(y, i) \in Modules \/ top = {} THEN 0 ELSE CHOOSE a \in top : TRUE
RECURSIVE ListsHaveKeys(_, _)
ListsHaveKeys(y, i) ==
  LET root == yang_myroot(y, i)
  IN \/ ~yang_config_ancestor(y, i)
     \/ root # 0 /\ Keyword(y, root) = "rpc"
     \/ /\ Keyword(y, i) = "list" /\ root # 0 => Has(y, i, "key")
        /\ yang_schemanode(y, i) \/ Keyword(y, i) \in Modules =>
             \A c \in Range(SubStmts(y, i)) : ListsHaveKeys(y, c)
ys_list_check(y, m) == Check(y, ListsHaveKeys(y, m))

Features(y, m) == yang_features(y, m).y
RECURSIVE Populate(_, _)
Populate(y, i) == LET Inner(w) == Phase(w, SubStmts(w, i), Populate) IN Inner(ys_populate(y, i))
RECURSIVE ResolveTypes(_, _)
ResolveTypes(y, i) ==
  LET Inner(w) == Phase(w, SubStmts(w, i), ResolveTypes)
  IN Inner(IF Keyword(y, i) = "type" THEN ys_resolve_type(y, i) ELSE y)
Deviations(y, m) == Phase(y, OfKw(y, m, {"deviation"}), yang_deviation)

NewIn(y, spec, modmin) == SubSeq(SubStmts(y, spec), modmin + 1, Len(SubStmts(y, spec)))

\* yang_parse_post: what is to be done with the new modules of a specification,
\* phase by phase.  Until everything that is imported has been read the modules
\* are not known.
Job(phase, mods) == <<[do |-> phase, mods |-> mods]>>
PostBegin(y, spec, modmin) ==
  Job("yang_parse_recurse", NewIn(y, spec, modmin)) \o Job("yang_sort_modules", <<modmin>>)
PostPhases(new, sorted) ==
  Job("yang_cardinality", new) \o Job("yang_features", new) \o Job("ys_populate", new)
  \o Job("ys_resolve_type", new) \o Job("yang_expand_grouping", sorted)
  \o Job("yang_augment_module", sorted) \o Job("yang_deviation", new)
  \o Job("ys_populate2", sorted) \o Job("ys_list_check", sorted) \o Job("yang_cardinality", sorted)
yang_parse_post(y, do, mods) ==
  CASE do = "yang_parse_recurse" -> Phase(y, mods, yang_parse_recurse)
    [] do = "yang_cardinality" -> Phase(y, mods, yang_cardinality)
    [] do = "yang_features" -> Phase(y, mods, Features)
    [] do = "ys_populate" -> Phase(y, mods, Populate)
    [] do = "ys_resolve_type" -> Phase(y, mods, ResolveTypes)
    [] do = "yang_expand_grouping" -> Phase(y, mods, yang_expand_grouping)
    [] do = "yang_augment_module" -> Phase(y, mods, yang_augment_module)
    [] do = "yang_deviation" -> Phase(y, mods, Deviations)
    [] do = "ys_populate2" -> Phase(y, mods, Populate2)
    [] do = "ys_list_check" -> Phase(y, mods, ys_list_check)

(***************************************************************************)
(* Loading into the specification of the datastores                        *)
(***************************************************************************)
TopSpec == 3
InSpec(y, spec, name) ==
  SelectSeq(SubStmts(y, spec), LAMBDA m : Keyword(y, m) \in Modules /\ Name(y, m) = name)

\* The modules of a specification with what a read has added, and the work that
\* leaves: none when nothing was read or the reading failed
Read(y, y1) ==
  [y |-> y1, todo |-> IF y1 = y \/ ~y1.ok THEN <<>> ELSE PostBegin(y1, TopSpec, Len(SubStmts(y, TopSpec)))]

yang_spec_parse_module(y, name, rev) ==
  LET there == SelectSeq(InSpec(y, TopSpec, name),
                         LAMBDA m : Keyword(y, m) = "module" /\ rev \in {"", ArgOf(y, m, "revision")})
  IN Read(y, IF there # <<>> THEN y ELSE yang_parse_module(y, TopSpec, name, rev, ""))

\* A file given by its name: the module in it may have any name.
yang_spec_parse_file(y, dir, name, rev) ==
  LET file == SelectSeq(yfiles[dir], LAMBDA f : f.name = name /\ f.rev = rev)
  IN Read(y, IF yang_find(y, TopSpec, "module", name) # 0 THEN y
             ELSE IF file = <<>> THEN Failed(y) ELSE yang_parse_str(y, TopSpec, file[1].text))

\* Of the files of a module in a directory the one without a revision is taken,
\* or else the last.  A module that is loaded is passed over.
DirTakes(files) ==
  SelectSeq(files, LAMBDA f : LET same == SelectSeq(files, LAMBDA g : g.name = f.name)
                              IN f = IF same[1].rev = "" THEN same[1] ELSE same[Len(same)])
yang_spec_load_dir(y, dir) ==
  LET One(w, f) ==
        LET m == Len(w.n) + 1
            w1 == yang_parse_str(w, TopSpec, f.text)
        IN IF ~w.ok \/ InSpec(w, TopSpec, f.name) # <<>> THEN w
           ELSE Check(w1, "" \in {f.rev, ArgOf(w1, m, "revision")} \/ f.rev = ArgOf(w1, m, "revision"))
  IN Read(y, FoldLeft(One, y, DirTakes(yfiles[dir])))

(***************************************************************************)
(* The yang-library of a specification, and a specification from one       *)
(***************************************************************************)
\* yang_modules_state_build: the modules and their revisions
yang_modules_state_build(y, spec) ==
  LET mods == OfKw(y, spec, {"module"})
  IN [k \in DOMAIN mods |-> [name |-> Name(y, mods[k]), rev |-> ArgOf(y, mods[k], "revision")]]

LibModule == [name |-> "ietf-yang-library", rev |-> "2019"]
yang_lib2yspec(y, spec, lib) ==
  LET Known(w, x) == LET ms == InSpec(w, spec, x.name)
                     IN ms # <<>> /\ ArgOf(w, ms[1], "revision") \in {"", x.rev}
      One(w, x) == IF ~w.y.ok THEN w
                   ELSE IF Known(w.y, x) THEN [w EXCEPT !.skipped = @ + 1]
                   ELSE [w EXCEPT !.y = yang_parse_module(w.y, spec, x.name, x.rev, lib.domain)]
      w == FoldLeft(One, [y |-> y, skipped |-> 0], Append(lib.mods, LibModule))
      modmin == Len(SubStmts(w.y, spec)) - (1 + Len(lib.mods) - w.skipped)
  IN IF ~w.y.ok \/ modmin < 0 THEN [y |-> Failed(w.y), todo |-> <<>>]
     ELSE [y |-> w.y, todo |-> PostBegin(w.y, spec, modmin)]

(***************************************************************************)
(* Schema mounts.  A specification belongs to a domain, is named by the    *)
(* digest of the library it was made from and lists the xpaths it is       *)
(* mounted at; equal libraries share it.                                   *)
(***************************************************************************)
YMounts == 1
ydomain_new(y, domain) == NewBelow(y, YMounts, Stmt("domain", domain, <<>>))
yspec_new1(y, ydomain, digest) == NewBelow(y, ydomain, Stmt("spec", "", digest))
xyanglib_digest(lib) == [k \in DOMAIN lib.mods |-> <<lib.mods[k].name, lib.mods[k].rev>>]

yang_mount_get(y, xpath) ==
  LET specs == FoldLeft(LAMBDA s, d : s \o SubStmts(y, d), <<>>, SubStmts(y, YMounts))
  IN FirstStmt(SelectSeq(specs, LAMBDA s : Flagged(y, s, "SPEC_MOUNT") /\ xpath \in Range(y.n[s].cvec)))

\* yang_mount_xmnt2ymnt_xpath: the schema node of an instance of a mount point
MountNode(y, xpath) ==
  LET p == YMountPoints[xpath]
  IN FoldLeft(LAMBDA at, id : IF at = 0 THEN 0 ELSE yang_find_schemanode(y, at, id),
              yang_find_module_by_name(y, TopSpec, Head(p)), Tail(p))

xml_yang_mount_get(y, xpath) ==
  LET i == MountNode(y, xpath) IN i # 0 /\ Flagged(y, i, "MTPOINT_POTENTIAL")

yang_schema_yanglib_mount_parse(y, xpath, lib) ==
  LET d0 == yang_find(y, YMounts, "domain", lib.domain)
      y1 == IF d0 # 0 THEN y ELSE ydomain_new(y, lib.domain)
      d == IF d0 # 0 THEN d0 ELSE Len(y1.n)
      digest == xyanglib_digest(lib)
      s0 == FirstStmt(SelectSeq(SubStmts(y1, d), LAMBDA s : y1.n[s].list = digest))
      y2 == IF s0 # 0 THEN y1 ELSE Flag(yspec_new1(y1, d, digest), Len(y1.n) + 1, "SPEC_MOUNT")
      s == IF s0 # 0 THEN s0 ELSE Len(y2.n)
      y3 == yang_cvec_add(y2, s, xpath)
      r == IF s0 # 0 THEN [y |-> y3, todo |-> <<>>] ELSE yang_lib2yspec(y3, s, lib)
  IN [r EXCEPT !.todo = @ \o Job("yang_mount_set", <<s>>)]

\* The failing branch: the specification, the last thing that was allocated, goes
\* away with all its modules, and the data of the mount point is anydata.
MountFails(y, s) ==
  LET y1 == ys_prune_self(y, s) IN [y1 EXCEPT !.ok = TRUE, !.n = SubSeq(@, 1, s - 1)]

(***************************************************************************)
(* The system: modules are loaded when the daemon starts; mount points get *)
(* their schema when data below them is first bound, from the library a    *)
(* plugin announces for that device at that time, and may lose it again.   *)
(***************************************************************************)
NoWork == [spec |-> 0, todo |-> <<>>, xpath |-> ""]
YangInit ==
  /\ yfiles = YDirs
  /\ yang = NewBelow(NewBelow([n |-> <<ys_new(Stmt("mounts", "", <<>>), 0)>>, ok |-> TRUE],
                              YMounts, Stmt("domain", "top", <<>>)), 2, Stmt("spec", "data", <<>>))
  /\ ywork = NoWork
  /\ yreq = <<>>
  /\ ymount = [x \in DOMAIN YMountPoints |-> NoLib]

RequestNr(ops) == Len(SelectSeq(yreq, LAMBDA l : l.op \in ops))
Load(l) ==
  /\ yang.ok /\ ywork = NoWork /\ RequestNr({"module", "file", "dir"}) < YMaxLoads
  /\ \E r \in {CASE l.op = "module" -> yang_spec_parse_module(yang, l.name, l.rev)
                 [] l.op = "file" -> yang_spec_parse_file(yang, "search", l.name, l.rev)
                 [] l.op = "dir" -> yang_spec_load_dir(yang, l.name)} :
       /\ yang' = r.y
       /\ ywork' = IF r.todo = <<>> THEN NoWork ELSE [spec |-> TopSpec, todo |-> r.todo, xpath |-> ""]
  /\ yreq' = Append(yreq, l)
  /\ UNCHANGED <<yfiles, ymount>>

\* A mount point with a schema keeps it.
yang_schema_mount_yspec(x, lib) ==
  /\ yang.ok /\ ywork = NoWork /\ lib.mods # <<>> /\ RequestNr({"mount"}) < YMaxMounts
  /\ xml_yang_mount_get(yang, x)
  /\ yang_mount_get(yang, x) = 0
  /\ \E r \in {yang_schema_yanglib_mount_parse(yang, x, lib)} :
       LET s == r.todo[Len(r.todo)].mods[1]
       IN IF r.y.ok THEN yang' = r.y /\ ywork' = [spec |-> s, todo |-> r.todo, xpath |-> x]
          ELSE yang' = MountFails(r.y, s) /\ ywork' = NoWork
  /\ ymount' = [ymount EXCEPT ![x] = lib]
  /\ yreq' = Append(yreq, [op |-> "mount", name |-> x, rev |-> ""])
  /\ UNCHANGED yfiles

\* The next step of a load.  A load of the daemon that fails ends the daemon, one
\* of a mount point leaves the mount point without a schema.
PostStep ==
  LET w == ywork.todo[1]
      Rest == IF Len(ywork.todo) = 1 THEN NoWork ELSE [ywork EXCEPT !.todo = Tail(@)]
      NextWork(y) == /\ ywork' = IF y.ok THEN Rest ELSE NoWork
                     /\ yang' = IF y.ok \/ ywork.spec = TopSpec THEN y ELSE MountFails(y, ywork.spec)
  IN /\ ywork # NoWork
     /\ \/ /\ w.do \notin {"yang_sort_modules", "yang_mount_set"}
           /\ \E y \in {yang_parse_post(yang, w.do, w.mods)} : NextWork(y)
        \/ /\ w.do = "yang_sort_modules"
           /\ \E s \in {yang_sort_modules(yang, NewIn(yang, ywork.spec, w.mods[1]))} :
                IF s.y.ok
                THEN /\ yang' = s.y
                     /\ ywork' = [ywork EXCEPT !.todo = PostPhases(NewIn(yang, ywork.spec, w.mods[1]), s.list) \o Tail(@)]
                ELSE NextWork(s.y)
        \/ /\ w.do = "yang_mount_set"
           /\ NextWork(Flag(yang, MountNode(yang, ywork.xpath), "MTPOINT"))
     /\ UNCHANGED <<yfiles, yreq, ymount>>

yang_schema_yspec_rm(x) ==
  /\ yang.ok /\ ywork = NoWork
  /\ LET s == yang_mount_get(yang, x)
     IN s # 0 /\ yang' = yang_cvec_rm(yang, s, x)
  /\ ymount' = [ymount EXCEPT ![x] = NoLib]
  /\ UNCHANGED <<yfiles, yreq, ywork>>

\* A plugin may also announce the modules of the daemon itself.
OwnLib == [domain |-> "own", mods |-> yang_modules_state_build(yang, TopSpec)]
YangNext ==
  \/ PostStep
  \/ \E l \in YLoads : Load(l)
  \/ \E x \in DOMAIN YMountPoints, lib \in YLibs \cup {OwnLib} : yang_schema_mount_yspec(x, lib)
  \/ \E x \in DOMAIN YMountPoints : yang_schema_yspec_rm(x)

YangSpec == YangInit /\ [][YangNext]_yangVars

(***************************************************************************)
(* The reference: what RFC 7950 says the schema of a set of modules is,    *)
(* read off the nested text, without a heap, copies, caches or an order of *)
(* modules.  An environment env = [mod, up] is a place in a text: its      *)
(* module or submodule and the statements around it, innermost first.      *)
(***************************************************************************)
RefText(m) == LET f == SelectSeq(yfiles["search"], LAMBDA g : g.name = m) IN f[Len(f)].text
Exists(m) == \E k \in DOMAIN yfiles["search"] : yfiles["search"][k].name = m
Subs(st, kw) == SelectSeq(st.sub, LAMBDA s : s.kw = kw)
SubArg(st, kw) == LET s == Subs(st, kw) IN IF s = <<>> THEN "" ELSE s[1].arg[2]
StmtsNamed(st, kw, id) == SelectSeq(st.sub, LAMBDA s : s.kw = kw /\ s.arg[2] = id)
TopEnv(m) == [mod |-> m, up |-> <<RefText(m)>>]
Inside(env, st) == [env EXCEPT !.up = <<st>> \o @]

RECURSIVE RefClosure(_)
RefClosure(ms) ==
  LET more == UNION {{s.arg[2] : s \in Range(Subs(RefText(m), "import") \o Subs(RefText(m), "include"))} :
                     m \in {m \in ms : Exists(m)}}
  IN IF more \subseteq ms THEN ms ELSE RefClosure(ms \cup more)

RefReal(m) == IF RefText(m).kw = "module" THEN m ELSE SubArg(RefText(m), "belongs-to")
RefNs(m) == SubArg(RefText(RefReal(m)), "namespace")
RefParts(m) == {RefReal(m)} \cup {s.arg[2] : s \in Range(Subs(RefText(RefReal(m)), "include"))}
RefImport(m, p) ==
  LET own == SubArg(RefText(RefReal(m)), "prefix")
      hit == SelectSeq(Subs(RefText(m), "import"), LAMBDA s : SubArg(s, "prefix") = p)
  IN IF p \in {"", own} THEN m ELSE hit[1].arg[2]

\* The definition a name has at a place, and the place of the definition
RefLookup(env, kw, name) ==
  LET levels == {k \in DOMAIN env.up : StmtsNamed(env.up[k], kw, name[2]) # <<>>}
      k == CHOOSE k \in levels : \A j \in levels : k <= j
      m == CHOOSE q \in RefParts(RefImport(env.mod, name[1])) : StmtsNamed(RefText(q), kw, name[2]) # <<>>
  IN IF name[1] = "" /\ levels # {}
     THEN [st |-> StmtsNamed(env.up[k], kw, name[2])[1], env |-> [env EXCEPT !.up = SubSeq(@, k, Len(@))]]
     ELSE [st |-> StmtsNamed(RefText(m), kw, name[2])[1], env |-> TopEnv(m)]

RefFeature(env, name) ==
  YFeatures \cap ({RefReal(RefImport(env.mod, name[1])), "*"} \X {name[2], "*"}) # {}
RefOn(env, st) ==
  \A s \in Range(Subs(st, "if-feature")) :
    CASE s.list[1] = "and" -> \A n \in Range(s.path) : RefFeature(env, n)
      [] s.list[1] = "or" -> \E n \in Range(s.path) : RefFeature(env, n)
      [] s.list[1] = "not" -> \A n \in Range(s.path) : ~RefFeature(env, n)

\* The entries of the reference, a set of pairs of a path and what is there: the
\* text of its properties and the place in which its names and its type are to be
\* understood
RefPath(env, path) == [k \in DOMAIN path |-> <<RefNs(RefImport(env.mod, path[k][1])), path[k][2]>>]
Replaced(e, subs) ==
  LET given == {s.kw : s \in Range(subs)} \cap RefineOnce
  IN [e EXCEPT !.sub = SelectSeq(@, LAMBDA s : s.kw \notin given) \o subs]
OnEntry(R, path, Op(_)) == {IF r[1] = path THEN <<path, Op(r[2])>> ELSE r : r \in R}
WithWhen(R, when, depth) ==
  {IF Len(r[1]) # depth \/ when = "" THEN r ELSE <<r[1], [r[2] EXCEPT !.when = @ \cup {when}]>> : r \in R}

RECURSIVE RefBelow(_, _, _, _)
RefNode(st, env, ns, path) ==
  {<<path, [path |-> path, kw |-> st.kw, sub |-> st.sub, env |-> env, type |-> [sts |-> Subs(st, "type"), env |-> env],
            when |-> {s.arg[2] : s \in Range(Subs(st, "when"))}]>>}
  \cup RefBelow(st.sub, Inside(env, st), ns, path)
RefUses(st, env, ns, pre, d) ==
  LET At(p) == pre \o [k \in DOMAIN p |-> <<ns, p[k][2]>>]
      refined == FoldLeft(LAMBDA R, r : OnEntry(R, At(r.path), LAMBDA e : Replaced(e, r.sub)),
                          RefBelow(d.st.sub, Inside(d.env, d.st), ns, pre), Subs(st, "refine"))
      added == UNION {WithWhen(RefBelow(a.sub, Inside(env, a), ns, At(a.path)), SubArg(a, "when"), Len(At(a.path)) + 1) :
                      a \in Range(Subs(st, "augment"))}
  IN WithWhen(refined \cup added, SubArg(st, "when"), Len(pre) + 1)
RefBelow(sts, env, ns, pre) ==
  LET At(st) == Append(pre, <<ns, IF st.kw \in {"input", "output"} THEN st.kw ELSE st.arg[2]>>)
      One(st) == IF ~RefOn(env, st) THEN {}
                 ELSE IF st.kw \in SchemaNodes THEN RefNode(st, env, ns, At(st))
                 ELSE IF st.kw = "uses" THEN RefUses(st, env, ns, pre, RefLookup(env, "grouping", st.arg)) ELSE {}
  IN UNION {One(sts[k]) : k \in DOMAIN sts}

\* Augments apply to what other augments added, in whatever order they come.
RECURSIVE RefAugment(_, _)
RefAugment(R, todo) ==
  LET Target(a) == RefPath(TopEnv(a.mod), a.st.path)
      There(p) == \E r \in R :
                    \/ r[1] = p
                    \/ r[2].kw = "rpc" /\ p \in {Append(r[1], <<r[1][1][1], d>>) : d \in {"input", "output"}}
      New(a) == WithWhen(RefBelow(a.st.sub, Inside(TopEnv(a.mod), a.st), RefNs(a.mod), Target(a)),
                         SubArg(a.st, "when"), Len(a.st.path) + 1)
      With(ready) == IF ready = <<>> THEN R
                     ELSE RefAugment(R \cup New(ready[1]), SelectSeq(todo, LAMBDA b : b # ready[1]))
  IN With(SelectSeq(todo, LAMBDA a : There(Target(a))))

RefDeviate(R, d) ==
  LET env == TopEnv(d.mod)
      Gone(path, p) == Len(path) >= Len(p) /\ SubSeq(path, 1, Len(p)) = p
      One(Q, dev, p) ==
        LET Without(e) == [e EXCEPT !.sub = SelectSeq(@, LAMBDA s :
                             \A t \in Range(dev.sub) : s.kw # t.kw \/ s.arg # t.arg)]
            Typed(e) == IF Subs(dev, "type") = <<>> THEN e
                        ELSE [e EXCEPT !.type = [sts |-> Subs(dev, "type"), env |-> env]]
            Plain == SelectSeq(dev.sub, LAMBDA s : s.kw # "type")
        IN CASE dev.arg[2] = "not-supported" -> {r \in Q : ~Gone(r[1], p)}
             [] dev.arg[2] = "add" -> OnEntry(Q, p, LAMBDA e : [e EXCEPT !.sub = @ \o dev.sub])
             [] dev.arg[2] = "delete" -> OnEntry(Q, p, Without)
             [] dev.arg[2] = "replace" -> OnEntry(Q, p, LAMBDA e : Typed(Replaced(e, Plain)))
  IN FoldLeft(LAMBDA Q, dev : One(Q, dev, RefPath(env, d.st.path)), R, Subs(d.st, "deviate"))

ModuleSeq(ms) ==
  LET files == SelectSeq(yfiles["search"], LAMBDA f : f.name \in ms /\ f.text = RefText(f.name))
  IN [k \in DOMAIN files |-> files[k].name]
\* The statements of a kind in the text of the modules, each with its module
RefStmts(ms, kw) ==
  FoldLeft(LAMBDA s, m : s \o [k \in DOMAIN Subs(RefText(m), kw) |-> [mod |-> m, st |-> Subs(RefText(m), kw)[k]]],
           <<>>, ModuleSeq(ms))
RefEntries(ms) ==
  FoldLeft(RefDeviate,
           RefAugment(UNION {RefBelow(RefText(m).sub, TopEnv(m), RefNs(m), <<>>) : m \in ms},
                      SelectSeq(RefStmts(ms, "augment"), LAMBDA a : RefOn(TopEnv(a.mod), a.st))),
           RefStmts(ms, "deviation"))

\* The values of a type: those of the type it is derived from that also meet the
\* restrictions at hand.
RECURSIVE RefBase(_)
RefBase(ty) ==
  IF ty.st.arg[1] = "" /\ yang_builtin(ty.st.arg[2]) THEN ty
  ELSE LET d == RefLookup(ty.env, "typedef", ty.st.arg)
       IN RefBase([st |-> Subs(d.st, "type")[1], env |-> d.env])
RefWithin(parts, base, n) ==
  LET Bound(b) == CASE b = "min" -> Limit(CvType[base])[1]
                    [] b = "max" -> Limit(CvType[base])[2]
                    [] OTHER -> CHOOSE x \in YangValues[b].num : TRUE
  IN \E p \in Range(parts) : Bound(p[1]) <= n /\ n <= Bound(p[Len(p)])
RefRestricts(st, base, v) ==
  /\ \A r \in Range(Subs(st, "range")) : \E n \in YangValues[v].num : RefWithin(r.list, base, n)
  /\ \A r \in Range(Subs(st, "length")) : RefWithin(r.list, base, YangValues[v].len)
  /\ \A p \in Range(Subs(st, "pattern")) : (p.arg[2] \in YangValues[v].pats) = (Subs(p, "modifier") = <<>>)

RefIdentity(env, name) == <<RefReal(RefImport(env.mod, name[1])), name[2]>>
RECURSIVE RefDerives(_, _)
RefDerives(i, base) ==
  \E b \in Range(Subs(StmtsNamed(RefText(i[1]), "identity", i[2])[1], "base")) :
    LET up == RefIdentity(TopEnv(i[1]), b.arg) IN up = base \/ RefDerives(up, base)

RefTarget(e, ty) ==
  LET ns == e.path[Len(e.path)][1]
      Step(at, s) == CASE s[2] = ".." -> SubSeq(at, 1, Len(at) - 1)
                       [] s[2] = "/" -> <<>>
                       [] OTHER -> Append(at, <<IF s[1] = "" THEN ns ELSE RefNs(RefImport(ty.env.mod, s[1])), s[2]>>)
  IN FoldLeft(Step, e.path, Subs(ty.st, "path")[1].path)

RECURSIVE RefAccepts(_, _, _, _, _)
RefAccepts(ms, R, e, ty, v) ==
  LET d == RefLookup(ty.env, "typedef", ty.st.arg)
      base == ty.st.arg[2]
      ident == YangValues[v].ident
      Member(t) == RefAccepts(ms, R, e, [ty EXCEPT !.st = t], v)
      At(f) == RefAccepts(ms, R, f, [st |-> f.type.sts[1], env |-> f.type.env], v)
      Target == \A r \in R : r[1] = RefTarget(e, ty) => At(r[2])
  IN IF ty.st.arg[1] # "" \/ ~yang_builtin(base)
     THEN /\ RefAccepts(ms, R, e, [st |-> Subs(d.st, "type")[1], env |-> d.env], v)
          /\ RefRestricts(ty.st, RefBase(ty).st.arg[2], v)
     ELSE /\ RefRestricts(ty.st, base, v)
          /\ CASE base = "union" -> \E t \in Range(Subs(ty.st, "type")) : Member(t)
               [] base = "leafref" -> Subs(ty.st, "require-instance") # <<>> => Target
               [] base = "enumeration" -> StmtsNamed(ty.st, "enum", v) # <<>>
               [] base = "bits" -> \A w \in YangValues[v].words : StmtsNamed(ty.st, "bit", w) # <<>>
               [] base = "identityref" ->
                    /\ ident[1] \in ms /\ StmtsNamed(RefText(ident[1]), "identity", ident[2]) # <<>>
                    /\ RefDerives(ident, RefIdentity(ty.env, Subs(ty.st, "base")[1].arg))
               [] OTHER -> cv_parse1(CvType[base], v)

RECURSIVE RefDefault(_)
RefDefault(ty) ==
  LET d == RefLookup(ty.env, "typedef", ty.st.arg)
      def == Subs(d.st, "default")
  IN IF ty.st.arg[1] = "" /\ yang_builtin(ty.st.arg[2]) THEN <<>>
     ELSE IF def # <<>> THEN def ELSE RefDefault([st |-> Subs(d.st, "type")[1], env |-> d.env])

\* What is compared of a schema node
Ids(sts) == [k \in DOMAIN sts |-> sts[k].arg[2]]
RefView(ms, R, e) ==
  LET ty == [st |-> e.type.sts[1], env |-> e.type.env]
      typed == e.kw \in {"leaf", "leaf-list"}
      Above(p) == Len(p) <= Len(e.path) /\ SubSeq(e.path, 1, Len(p)) = p
      own == Subs(e, "default")
  IN [path |-> e.path, kw |-> e.kw, when |-> e.when,
      config |-> \A r \in R : Above(r[1]) => SubArg(r[2], "config") # "false" /\ (r[2].kw = "rpc" => r[1] = e.path),
      mandatory |-> SubArg(e, "mandatory"), max |-> SubArg(e, "max-elements"),
      keys |-> IF Subs(e, "key") = <<>> THEN <<>> ELSE Subs(e, "key")[1].list,
      dflt |-> Ids(IF own # <<>> \/ ~typed THEN own ELSE RefDefault(ty)),
      mount |-> \E s \in Range(Subs(e, "unknown")) :
                  s.arg[2] = "mount-point" /\ RefNs(RefImport(e.env.mod, s.arg[1])) = "urn:mount",
      vals |-> {v \in DOMAIN YangValues : typed /\ RefAccepts(ms, R, e, ty, v)}]
Hidden == {"input", "output"}
RefTree(ms) ==
  LET Shown(R) == {RefView(ms, R, r[2]) : r \in {q \in R : q[2].kw \notin Hidden}} IN Shown(RefEntries(ms))

View(y, i, path) ==
  LET typed == Keyword(y, i) \in {"leaf", "leaf-list"}
      own == OfKw(y, i, {"default"})
      dflt == CASE Keyword(y, i) = "leaf" -> IF y.n[i].cv.v = NoName THEN <<>> ELSE <<y.n[i].cv.v>>
                [] Keyword(y, i) = "leaf-list" -> y.n[i].cvec
                [] OTHER -> [k \in DOMAIN own |-> y.n[own[k]].arg]
  IN [path |-> path, kw |-> Keyword(y, i),
      when |-> {Name(y, c) : c \in Range(OfKw(y, i, {"when"}))} \cup ({y.n[i].when} \ {""}),
      config |-> yang_config_ancestor(y, i), mandatory |-> ArgOf(y, i, "mandatory"),
      max |-> ArgOf(y, i, "max-elements"),
      keys |-> IF Keyword(y, i) = "list" THEN y.n[i].cvec ELSE <<>>,
      dflt |-> [k \in DOMAIN dflt |-> dflt[k][2]], mount |-> Flagged(y, i, "MTPOINT_POTENTIAL"),
      vals |-> {v \in DOMAIN YangValues : typed /\ LeafAccepts(y, i, v)}]
RECURSIVE Views(_, _, _)
Views(y, i, pre) ==
  UNION {LET path == Append(pre, <<yang_find_mynamespace(y, c), IF Keyword(y, c) \in Hidden THEN Keyword(y, c) ELSE Name(y, c)>>)
         IN (IF Keyword(y, c) \in Hidden THEN {} ELSE {View(y, c, path)}) \cup Views(y, c, path) :
         c \in {d \in Range(SubStmts(y, i)) : yang_schemanode(y, d) /\ y.n[d].fl \cap {"DISABLED", "NOT_SUPPORT"} = {}}}
Schema(y, spec) == UNION {Views(y, m, <<>>) : m \in Range(SubStmts(y, spec))}

\* An incremental validation looks far enough above every must expression.
Climb(path) ==
  FoldLeft(LAMBDA w, s : LET d == IF s[2] = ".." THEN w.d + 1 ELSE w.d - 1
                         IN [d |-> d, max |-> IF d > w.max THEN d ELSE w.max],
           [d |-> 0, max |-> 0], path).max
DepthsSuffice(y, spec) ==
  \A i \in Range(Subtree(y, spec)) :
    Keyword(y, i) \in {"must", "when", "path"} => y.n[i].num = -1 \/ Climb(y.n[i].path) <= y.n[i].num

Legal(ms) == \A m \in ms : Exists(m) /\ m \notin YIllegal
Asked ==
  UNION {CASE l.op = "dir" -> {f.name : f \in Range(yfiles[l.name])}
           [] l.op = "mount" -> {}
           [] OTHER -> {l.name} : l \in Range(yreq)}
Announced(lib) == {x.name : x \in Range(Append(lib.mods, LibModule))}
Agrees(spec, ms) == Schema(yang, spec) = RefTree(ms) /\ DepthsSuffice(yang, spec)

\* Whatever modules are loaded, in whatever order and in however many loads, and
\* whatever is mounted and unmounted meanwhile: a load fails exactly when one of
\* the modules it needs is missing or not legal, and the schema the phases of
\* yang_parse_post() leave behind, in the daemon's specification and in that of
\* each mount point, is the one RFC 7950 gives the modules: the same nodes in the
\* same namespaces, with the same types, defaults, keys and conditions.
SchemaResolved ==
  LET top == RefClosure(Asked)
      Theirs(x) == RefClosure(Announced(ymount[x]))
      Mounted == {x \in DOMAIN ymount : ymount[x] # NoLib}
      Works == {x \in Mounted : Legal(Theirs(x))}
  IN ywork = NoWork =>
     /\ yang.ok <=> Legal(top)
     /\ yang.ok => /\ \A x \in DOMAIN ymount : yang_mount_get(yang, x) = 0 <=> x \notin Works
                   /\ \A p \in {<<TopSpec, top>>} \cup {<<yang_mount_get(yang, x), Theirs(x)>> : x \in Works} :
                        Agrees(p[1], p[2])
=============================================================================
