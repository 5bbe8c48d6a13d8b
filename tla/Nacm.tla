-------------------------------- MODULE Nacm --------------------------------
(* Access control by the rules of RFC 8341 (lib/src/clixon_nacm.c), as the  *)
(* backend applies it to a request (from_client_msg): to the RPC itself, to *)
(* the data a get returns and to the data an edit writes.                   *)
(*                                                                          *)
(* A rule is a record: module name, what it is for ("" the whole module,    *)
(* "rpc", "path" or "notification") with its argument, the access           *)
(* operations and the action.  A path is a sequence of steps <<name, key>>; *)
(* without a key (None) a step names every entry of a list.  A node of a    *)
(* tree is named by the indices of the children down to it.                 *)
EXTENDS XmlDiff, Call

CONSTANTS
    NacmConfigs,  \* the contents of the nacm container of running
    NacmTrees,    \* trees that are read or written
    NacmRpcs,     \* names of RPCs
    NacmUsers,    \* names of users and of peers
    NacmModule,   \* the module of each data node
    Credentials,  \* CLICON_NACM_CREDENTIALS: "none", "exact" or "except"
    Recovery,     \* CLICON_NACM_RECOVERY_USER
    OsGroups      \* the groups of the peer in the operating system

------------------------------------------------------------------------------
(* Rules *)

match_access(rule, modes) == "*" \in rule.ops \/ rule.ops \cap modes # {}

(* nacm_external_groups_add: the groups of the peer, if the user is the peer *)
nacm_external_groups_add(n, peer, user) ==
    IF n.external /\ (Credentials = "none" \/ peer = user)
    THEN {g \in DOMAIN n.groups : g \in OsGroups[peer]} ELSE {}

Groups(n, peer, user) ==
    {g \in DOMAIN n.groups : user \in n.groups[g]} \cup nacm_external_groups_add(n, peer, user)

(* The rules of the lists for one of the groups, in order *)
Applicable(n, groups) ==
    FlattenSeq(Map(LAMBDA l : l.rules, SelectSeq(n.lists, LAMBDA l : l.groups \cap groups # {})))

nacm_rule_rpc(rpc, module, rule) ==
    /\ rule.module \in {"*", module}
    /\ rule.what \in {"", "rpc"}
    /\ rule.what = "rpc" => rule.arg \in {"*", rpc}
    /\ match_access(rule, {"exec"})

(* nacm_rpc; the action of the first rule that matches *)
RpcDefault(n, rpc) == rpc \notin {"kill-session", "delete-config"} /\ n.exec = "permit"

RpcFirst(n, rpc, rules) == IF rules = <<>> THEN RpcDefault(n, rpc) ELSE Head(rules).action = "permit"

nacm_rpc(n, peer, user, rpc, module) ==
    \/ rpc = "close-session"
    \/ RpcFirst(n, rpc, SelectSeq(Applicable(n, Groups(n, peer, user)),
                                  LAMBDA r : nacm_rule_rpc(rpc, module, r)))

------------------------------------------------------------------------------
(* Data nodes *)

(* clixon_xml_find_instance_id: the nodes a path names *)
RECURSIVE find_instance_id(_, _, _)
find_instance_id(x, path, p) ==
    IF path = <<>> THEN {p}
    ELSE UNION {find_instance_id(x.c[i], Tail(path), Append(p, i)) :
                  i \in {i \in DOMAIN x.c :
                           /\ x.c[i].y = path[1][1]
                           /\ path[1][2] # None => KeyVal(x.c[i], Y[x.c[i].y].keys[1]) = path[1][2]}}

AccessModes(access) == IF access = "read" THEN {"read"} ELSE {access, "write"}

(* nacm_datanode_prepare: the rules for an access, with the nodes of xt they *)
(* name                                                                      *)
Prepared(xt, rule) ==
    [rule |-> rule, xpathvec |-> IF rule.what = "path" THEN find_instance_id(xt, rule.arg, <<>>) ELSE {}]

nacm_datanode_prepare(n, xt, access, groups) ==
    Map(LAMBDA r : Prepared(xt, r),
        SelectSeq(Applicable(n, groups),
                  LAMBDA r : r.what \in {"", "path"} /\ match_access(r, AccessModes(access))))

(* nacm_data_read_xrule_xml, nacm_data_write_xrule_xml: does a rule match? *)
nacm_xrule_xml(pv, y, p) ==
    /\ pv.rule.module \in {"*", NacmModule[y]}
    /\ pv.rule.what = "path" => \E q \in pv.xpathvec : IsPrefix(q, p)

FirstAction(pvs) == IF pvs = <<>> THEN "none" ELSE Head(pvs).rule.action

NodeAction(pvs, y, p) == FirstAction(SelectSeq(pvs, LAMBDA pv : nacm_xrule_xml(pv, y, p)))

(* nacm_datanode_read_recurse: the flags DENY and ADD; below a node that is *)
(* denied no rule is looked at                                              *)
ReadAction(x, action) ==
    CASE action = "deny" -> xml_flag_set(x, {"DENY"})
      [] action = "permit" -> xml_flag_set(x, {"ADD"})
      [] OTHER -> x

RECURSIVE nacm_datanode_read_recurse(_, _, _)
ReadBelow(x, pvs, p) ==
    IF "DENY" \in x.f THEN x
    ELSE [x EXCEPT !.c = [i \in DOMAIN @ |-> nacm_datanode_read_recurse(@[i], pvs, Append(p, i))]]
nacm_datanode_read_recurse(x, pvs, p) ==
    ReadBelow(IF x.y = Top THEN x ELSE ReadAction(x, NodeAction(pvs, x.y, p)), pvs, p)

(* Mutant: the keys stay whether anything else of the entry does or not *)
MarkKeys_keeps(x, w) == [x |-> [x EXCEPT !.c = w.c], mark |-> w.mark \/ \E i \in DOMAIN x.c : IsKey(x, x.c[i])]

(* xml_tree_mark_flagged_sub: DENY for what has no ADD at or below it; the  *)
(* keys of an entry go with the rest of it                                  *)
MarkKeys(x, w) ==
    [x |-> [x EXCEPT !.c = IF w.mark THEN w.c
                           ELSE Map(LAMBDA z : IF IsKey(x, z) THEN xml_flag_set(z, {"DENY"}) ELSE z, w.c)],
     mark |-> w.mark]

MarkSub(w, r) ==
    [c |-> Append(w.c, IF r.mark THEN r.x ELSE xml_flag_set(r.x, {"DENY"})), mark |-> w.mark \/ r.mark]

RECURSIVE xml_tree_mark_flagged_sub(_)
xml_tree_mark_flagged_sub(x) ==
    LET Step(w, z) ==
          CASE "ADD" \in z.f -> [c |-> Append(w.c, z), mark |-> TRUE]
            [] "ADD" \notin z.f /\ IsKey(x, z) -> [w EXCEPT !.c = Append(@, z)]
            [] OTHER -> MarkSub(w, xml_tree_mark_flagged_sub(z))
    IN MarkKeys(x, FoldLeft(Step, [c |-> <<>>, mark |-> FALSE], x.c))

(* nacm_datanode_read1 *)
ReadDefault(n, x) == IF n.read = "deny" THEN xml_tree_mark_flagged_sub(x).x ELSE x

nacm_datanode_read1(n, peer, user, xt) ==
    xml_apply_reset(ReadDefault(n, nacm_datanode_read_recurse(xml_apply_reset(xt, {"DENY", "ADD"}),
        nacm_datanode_prepare(n, xt, "read", Groups(n, peer, user)), <<>>)), {"ADD"})

nacm_datanode_read_prune(x) == xml_tree_prune_flags(x, "DENY")

(* nacm_datanode_write_recurse, nacm_datanode_write *)
WriteAction(n, action) == action = "permit" \/ (action = "none" /\ n.write = "permit")

RECURSIVE nacm_datanode_write_recurse(_, _, _, _)
nacm_datanode_write_recurse(n, x, pvs, p) ==
    /\ x.y # Top => WriteAction(n, NodeAction(pvs, x.y, p))
    /\ \A i \in DOMAIN x.c : nacm_datanode_write_recurse(n, x.c[i], pvs, Append(p, i))

nacm_datanode_write(n, peer, user, xt, access) ==
    IF Groups(n, peer, user) = {} THEN n.write # "deny"
    ELSE nacm_datanode_write_recurse(n, xt,
           nacm_datanode_prepare(n, xt, access, Groups(n, peer, user)), <<>>)

------------------------------------------------------------------------------
(* The request *)

(* nacm_proxyuser_member: CLICON_RESTCONF_USER, added by nacm_init *)
Proxies == {"www-data"}

(* nacm_access_check *)
nacm_access_check(n, peer, user) ==
    \/ ~n.enable
    \/ /\ user = Recovery
       /\ \/ peer = Recovery
          \/ Credentials = "none"
          \/ Credentials = "except" /\ (peer = "root" \/ Recovery \in Proxies)

(* verify_nacm_user *)
verify_nacm_user(peer, user, rpc) ==
    \/ Credentials = "none"
    \/ rpc = "close-session"
    \/ Credentials = "except" /\ (peer = "root" \/ peer \in Proxies)
    \/ peer = user

(* nacm_access_pre: the rules of running or, in mode external, of a file;   *)
(* without rules everything is permitted                                    *)
nacm_access_pre(n, peer, user) ==
    n.mode = "disabled" \/ ~n.present \/ nacm_access_check(n, peer, user)

(* The checks of from_client_msg *)
Admitted(n, r) ==
    \/ nacm_access_pre(n, r.peer, r.user)
    \/ verify_nacm_user(r.peer, r.user, r.rpc) /\ nacm_rpc(n, r.peer, r.user, r.rpc, r.module)

(* get_nacm_and_reply *)
get_nacm_and_reply(n, r) ==
    IF nacm_access_pre(n, r.peer, r.user) THEN r.tree
    ELSE nacm_datanode_read_prune(nacm_datanode_read1(n, r.peer, r.user, r.tree))

(* The check of an edit, as text_modify_top makes it of a replace *)
EditPermitted(n, r) ==
    \/ nacm_access_pre(n, r.peer, r.user)
    \/ nacm_datanode_write(n, r.peer, r.user, r.tree, "update")

(* A request of a user: what nacm makes of it *)
Handled(n, r) ==
    CASE r.rpc = "get" -> <<get_nacm_and_reply(n, r)>>
      [] r.rpc = "edit-config" -> IF EditPermitted(n, r) THEN <<r.tree>> ELSE <<>>
      [] OTHER -> <<NoXml>>

NacmRequest(r) == Returns(r, IF Admitted(r.n, r) THEN Handled(r.n, r) ELSE <<>>)

(* The commands of the CLI that a user is not shown: by the names on the    *)
(* path of a schema node.  A rule for a whole module that permits reading   *)
(* ends the filter, and in a list with group "*" every user with a group is. *)
nacm_path_normalize(arg) == Map(LAMBDA s : s[1], arg)

FilterRules(n, groups) ==
    SelectSeq(FlattenSeq(Map(LAMBDA l : l.rules,
                SelectSeq(n.lists, LAMBDA l : groups # {} /\ (l.groups \cap groups # {} \/ "*" \in l.groups)))),
              LAMBDA r : match_access(r, {"read"}))

(* nacm_autocli_filter_build; on: is there a filter? *)
nacm_autocli_filter_build(n, rules) ==
    [on |-> n.enable /\ ~\E i \in DOMAIN rules : rules[i].what # "path" /\ rules[i].action = "permit",
     deny |-> n.read = "deny",
     paths |-> {nacm_path_normalize(rules[i].arg) :
                  i \in {i \in DOMAIN rules : rules[i].what = "path" /\ (rules[i].action = "deny") # (n.read = "deny")}}]

nacm_autocli_yang_skip(naf, path) ==
    /\ naf.on
    /\ IF naf.deny THEN ~\E f \in naf.paths : IsPrefix(f, path) \/ IsPrefix(path, f) ELSE path \in naf.paths

(* The nodes of a tree for which the user is shown commands *)
NamesTo(x, p) == [i \in DOMAIN p |-> At(x, SubSeq(p, 1, i)).y]

NacmFilter(n, peer, user, tree) ==
    LET naf == nacm_autocli_filter_build(n, FilterRules(n, Groups(n, peer, user)))
    IN Returns([fn |-> "filter", n |-> n, peer |-> peer, user |-> user, tree |-> tree],
               <<{p \in NodesOf(tree, <<>>) : ~nacm_autocli_yang_skip(naf, NamesTo(tree, p))}>>)

NacmNext ==
    \/ \E n \in NacmConfigs, peer \in NacmUsers, user \in NacmUsers, tree \in NacmTrees :
         NacmFilter(n, peer, user, tree)
    \/ \E n \in NacmConfigs, peer \in NacmUsers, user \in NacmUsers, rpc \in NacmRpcs, tree \in NacmTrees :
         NacmRequest([fn |-> "nacm", n |-> n, peer |-> peer, user |-> user, rpc |-> rpc,
                      module |-> "nc", tree |-> tree])

------------------------------------------------------------------------------
(* What the rules say, independently of how they are evaluated *)

(* Does a path cover a node?  By the names and keys of its ancestors *)
Covers(path, x, p) ==
    /\ Len(path) <= Len(p)
    /\ \A i \in DOMAIN path :
         LET z == At(x, SubSeq(p, 1, i))
         IN z.y = path[i][1] /\ (path[i][2] # None => KeyVal(z, Y[z.y].keys[1]) = path[i][2])

(* The first rule of the user's that satisfies M, or what applies by default *)
Decided(n, r, M(_), default) ==
    LET all == FlattenSeq(Map(LAMBDA l : Map(LAMBDA e : [e |-> e, g |-> l.groups], l.rules), n.lists))
        mine == {i \in DOMAIN all : M(all[i].e) /\ \E g \in all[i].g \cap DOMAIN n.groups :
                   r.user \in n.groups[g] \/ (n.external /\ r.peer = r.user /\ g \in OsGroups[r.peer])}
    IN IF mine = {} THEN default ELSE all[CHOOSE i \in mine : \A j \in mine : i <= j].e.action

NodeDecided(n, r, p, modes, default) ==
    Decided(n, r, LAMBDA e : /\ e.ops \cap modes # {}
                             /\ e.module \in {"*", NacmModule[At(r.tree, p).y]}
                             /\ e.what \in {"", "path"}
                             /\ e.what = "path" => Covers(e.arg, r.tree, p), default)

(* A node is returned unless it or a node above it is denied.  By default   *)
(* of deny it, or a node above or below it, must be permitted, or it is the *)
(* key of an entry that is returned.                                        *)
Readable(n, r) ==
    LET dec == [p \in NodesOf(r.tree, <<>>) |-> NodeDecided(n, r, p, {"*", "read"}, "none")]
        Up(p) == {SubSeq(p, 1, i) : i \in 1..Len(p)}
        open == {p \in DOMAIN dec : \A q \in Up(p) : dec[q] # "deny"}
        some == {p \in open : (\E q \in Up(p) : dec[q] = "permit")
                              \/ (\E q \in open : IsPrefix(p, q) /\ dec[q] = "permit")}
    IN IF n.read = "permit" THEN open
       ELSE some \cup {p \in open : Len(p) > 1 /\ Front(p) \in some
                                    /\ IsKey(At(r.tree, Front(p)), At(r.tree, p))}

RECURSIVE Restricted(_, _, _)
Restricted(x, p, P) ==
    [x EXCEPT !.c = Map(LAMBDA i : Restricted(x.c[i], Append(p, i), P),
                        SelectSeq(Indices(x.c), LAMBDA i : Append(p, i) \in P))]

(* Every request is decided by the first rule, in the order of the lists,   *)
(* of a group of the user that matches it, and by the default where none    *)
(* does: whether an RPC runs, which nodes a get returns, whether an edit is *)
(* accepted.  The code finds the nodes of a path first, marks a copy of the *)
(* tree and prunes it.  And with a default of deny the filter of the CLI    *)
(* hides nothing that a get returns, the keys of entries apart.             *)
RulesDecide ==
  /\ call.fn = "filter" /\ call.n.read = "deny" /\ call.peer = call.user =>
       \A p \in Readable(call.n, call) :
         p \in result[1] \/ (Len(p) > 1 /\ IsKey(At(call.tree, Front(p)), At(call.tree, p)))
  /\ call.fn = "nacm" /\ call.n.enable /\ call.user # Recovery /\ call.peer = call.user =>
      LET n == call.n
          exec == Decided(n, call, LAMBDA e : /\ e.ops \cap {"*", "exec"} # {}
                                              /\ e.module \in {"*", "nc"}
                                              /\ \/ e.what = ""
                                                 \/ e.what = "rpc" /\ e.arg \in {"*", call.rpc},
                          IF call.rpc \in {"kill-session", "delete-config"} THEN "deny" ELSE n.exec)
          written == \A p \in NodesOf(call.tree, <<>>) :
                       NodeDecided(n, call, p, {"*", "update", "write"}, n.write) = "permit"
      IN result = CASE exec = "deny" -> <<>>
                    [] exec = "permit" /\ call.rpc = "get" ->
                         <<Restricted(call.tree, <<>>, Readable(n, call))>>
                    [] exec = "permit" /\ call.rpc = "edit-config" ->
                         IF written THEN <<call.tree>> ELSE <<>>
                    [] OTHER -> <<NoXml>>
=============================================================================
