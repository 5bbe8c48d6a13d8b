-------------------------------- MODULE Snmp --------------------------------
(* The SNMP subagent (apps/snmp): the handlers of scalars and tables that    *)
(* the agent library calls for every variable of a request, one mode after  *)
(* the other, and the rows that wait for their RowStatus outside of the      *)
(* datastore.  An operation is                                              *)
(*    [fn |-> "snmp", mode |-> "get" | "getnext" | "set", vbs, old]          *)
(* with variables [obj, val]; "old" says the GETNEXT cache is a second old.  *)
EXTENDS ClientIpc

(* SNMP error codes *)
noError == 0
genErr == 5
wrongType == 7
inconsistentValue == 12
commitFailed == 14
notWritable == 17
noSuchObject == 128
noSuchInstance == 129

InTable(vb) == vb.obj \in {"rowstatus", "column", "rocolumn", "nocolumn"}

(* The datastore node of a variable *)
NodeOf(vb) ==
    CASE vb.obj = "rowstatus" -> "row"
      [] vb.obj = "column" -> "col"
      [] OTHER -> vb.val

-----------------------------------------------------------------------------
(* SET *)

snmp_scalar_set(vb) == <<clicon_rpc_edit_config("candidate", "merge", NodeOf(vb))>>

(* snmp_cache_row_op: the row leaves the cache, and is sent if rpc is set *)
snmp_cache_row_op(s, op, rpc) ==
    IF s.status = 0 /\ ~s.col THEN <<>>
    ELSE IF rpc THEN <<clicon_rpc_edit_config("candidate", op, "row")>> ELSE <<>>

(* snmp_cache_set on RowStatus: the requests, and the cache.  A row created   *)
(* to wait is cached as notInService(2), which an activation does not take   *)
(* for createAndWait(5).                                                     *)
snmp_cache_set(s, vb) ==
    CASE vb.val = "createAndGo" ->
            [rpcs |-> snmp_scalar_set(vb), cache |-> [s EXCEPT !.status = 1]]
      [] vb.val = "active" ->
            [rpcs |-> (IF s.status = 5 THEN snmp_cache_row_op(s, "merge", TRUE) ELSE <<>>)
                        \o snmp_scalar_set(vb),
             cache |-> [s EXCEPT !.status = 1]]
      [] vb.val = "destroy" ->
            [rpcs |-> snmp_cache_row_op(s, "delete", s.status # 2),
             cache |-> [s EXCEPT !.status = 0, !.col = FALSE]]
      [] OTHER ->
            [rpcs |-> <<>>, cache |-> [s EXCEPT !.status = 2]]

(* snmp_table_rowstatus_get *)
snmp_table_rowstatus_get(s) == s.status

(* snmp_table_set: [err, rpcs, cache].  A value of the wrong type is         *)
(* reported, and set all the same.                                           *)
snmp_table_set(s, vb) ==
    LET err == IF vb.val = "mistyped" THEN wrongType ELSE noError
        rowstatus == snmp_table_rowstatus_get(s)
        nothing(e) == [err |-> e, rpcs |-> <<>>, cache |-> s]
    IN  CASE vb.obj = "nocolumn" -> nothing(noSuchObject)
          [] vb.obj = "rocolumn" -> nothing(notWritable)
          [] vb.obj = "rowstatus" ->
                LET r == snmp_cache_set(s, vb) IN [err |-> err, rpcs |-> r.rpcs, cache |-> r.cache]
          [] rowstatus \in {0, 3, 6} -> nothing(inconsistentValue)
          [] rowstatus \in {1, 4} -> [err |-> err, rpcs |-> snmp_scalar_set(vb), cache |-> s]
          [] OTHER -> [err |-> err, rpcs |-> <<>>, cache |-> [s EXCEPT !.col = TRUE]]

(* What ACTION sets for a variable *)
SetOf(s, vb) ==
    IF InTable(vb) THEN snmp_table_set(s, vb)
    ELSE [err |-> noError, rpcs |-> snmp_scalar_set(vb), cache |-> s]

(* A handler that is through with a variable *)
Dealt(err, broke, s) == [todo |-> "handled", rpc |-> NoRpc, err |-> err, broke |-> broke, s |-> s]

Sends(m, s) == [todo |-> "send", rpc |-> m, err |-> noError, broke |-> FALSE, s |-> s]

(* The requests of ACTION: the edits, then validate; a candidate that does   *)
(* not validate is discarded                                                 *)
Action(s, vb, rs) ==
    LET set == SetOf(s, vb)
        n == Len(set.rpcs)
        k == Len(rs)
        failed == \E j \in 1..k : j <= n /\ Retval(set.rpcs[j], rs[j]) < 0
        valid == Retval(clicon_rpc_validate("candidate"), rs[n + 1])
    IN  CASE failed -> Dealt(genErr, TRUE, set.cache)
          [] k < n -> Sends(set.rpcs[k + 1], s)
          [] k = n -> Sends(clicon_rpc_validate("candidate"), s)
          [] valid < 0 -> Dealt(genErr, TRUE, set.cache)
          [] valid = 1 -> Dealt(set.err, FALSE, set.cache)
          [] k = n + 1 -> Sends(clicon_rpc_discard_changes, s)
          [] OTHER -> Dealt(commitFailed, TRUE, set.cache)

CommitMode(s, rs) ==
    LET done == Retval(clicon_rpc_commit(FALSE, FALSE), rs[1])
    IN  CASE rs = <<>> -> Sends(clicon_rpc_commit(FALSE, FALSE), s)
          [] done = 1 -> Dealt(noError, FALSE, s)
          [] done < 0 -> Dealt(genErr, TRUE, s)
          [] Len(rs) = 1 -> Sends(clicon_rpc_discard_changes, s)
          [] OTHER -> Dealt(commitFailed, TRUE, s)

UndoMode(s, rs) ==
    IF rs = <<>> THEN Sends(clicon_rpc_discard_changes, s)
    ELSE Dealt(IF Retval(clicon_rpc_discard_changes, rs[1]) < 0 THEN genErr ELSE noError, FALSE, s)

(* RESERVE1: writable, and of the type of the leaf (a table checks in ACTION) *)
Reserve1(s, vb) ==
    CASE vb.obj = "ronly" -> Dealt(notWritable, TRUE, s)
      [] ~InTable(vb) /\ vb.val = "mistyped" -> Dealt(wrongType, FALSE, s)
      [] OTHER -> Dealt(noError, FALSE, s)

-----------------------------------------------------------------------------
(* GET and GETNEXT *)

(* snmp_scalar_get: the cached row first, then the datastore; a leaf that is  *)
(* not there has its default, or does not exist                              *)
snmp_scalar_get(s, vb, rs) ==
    CASE vb.obj = "rowstatus" /\ s.status # 0 -> Dealt(noError, FALSE, s)
      [] vb.obj = "column" /\ s.col -> Dealt(noError, FALSE, s)
      [] rs = <<>> -> Sends(clixon_rpc_get1, s)
      [] rs[1] = Failure -> Dealt(genErr, TRUE, s)
      [] rs[1].tag # "data" -> Dealt(genErr, TRUE, s)
      [] NodeOf(vb) \in rs[1].data -> Dealt(noError, FALSE, s)
      [] OTHER -> Dealt(noSuchInstance, FALSE, s)

snmp_table_get(s, vb, rs) ==
    IF vb.obj = "nocolumn" THEN Dealt(noSuchInstance, FALSE, s) ELSE snmp_scalar_get(s, vb, rs)

(* table_getnext_cache: the table as read at most a second ago *)
table_getnext_cache(s, old, rs) == IF s.table # <<>> /\ ~old THEN s.table ELSE rs

snmp_table_getnext(s, vb, old, rs) ==
    LET t == table_getnext_cache(s, old, rs)
    IN  CASE t = <<>> -> Sends(clixon_rpc_get1, s)
          [] t[1] = Failure \/ t[1].tag # "data" -> Dealt(genErr, TRUE, [s EXCEPT !.table = <<>>])
          [] "row" \in t[1].data -> Dealt(noError, FALSE, [s EXCEPT !.table = t])
          [] OTHER -> Dealt(noSuchObject, FALSE, [s EXCEPT !.table = t])

-----------------------------------------------------------------------------
(* One variable in one mode *)

clixon_snmp_scalar_handler1(s, vb, op, rs) ==
    CASE s.mode = "get" -> snmp_scalar_get(s, vb, rs)
      [] s.mode = "reserve1" -> Reserve1(s, vb)
      [] s.mode = "action" -> Action(s, vb, rs)
      [] s.mode = "commit" -> CommitMode(s, rs)
      [] s.mode = "undo" -> UndoMode(s, rs)
      [] OTHER -> Dealt(noError, FALSE, s)

clixon_snmp_table_handler1(s, vb, op, rs) ==
    CASE s.mode = "get" -> snmp_table_get(s, vb, rs)
      [] s.mode = "getnext" -> snmp_table_getnext(s, vb, op.old, rs)
      [] s.mode = "reserve1" -> Reserve1(s, vb)
      [] s.mode = "action" -> Action(s, vb, rs)
      [] s.mode = "commit" -> CommitMode(s, rs)
      [] s.mode = "undo" -> UndoMode(s, rs)
      [] OTHER -> Dealt(noError, FALSE, s)

(* The loops over the variables of a handler end at the first that fails *)
clixon_snmp_scalar_handler(s, op, rs) == clixon_snmp_scalar_handler1(s, op.vbs[s.i], op, rs)

clixon_snmp_table_handler(s, op, rs) ==
    IF s.broke THEN Dealt(noError, TRUE, s) ELSE clixon_snmp_table_handler1(s, op.vbs[s.i], op, rs)

(* The agent library: every mode for every variable; RESERVE1, RESERVE2,     *)
(* ACTION and COMMIT in turn, FREE or UNDO after an error                    *)
NextMode(op, s) ==
    CASE s.mode \in {"get", "getnext", "commit", "free", "undo"} /\ ~(s.mode = "commit" /\ s.err # noError) -> "idle"
      [] s.mode \in {"reserve1", "reserve2"} /\ s.err # noError -> "free"
      [] s.mode \in {"action", "commit"} /\ s.err # noError -> "undo"
      [] s.mode = "reserve1" -> "reserve2"
      [] s.mode = "reserve2" -> "action"
      [] OTHER -> "commit"

FirstMode(op) == IF op.mode = "set" THEN "reserve1" ELSE op.mode

(* A step of the subagent: a request, the next variable, or the answer *)
snmp_step(op, s, rs) ==
    LET h == IF InTable(op.vbs[s.i]) THEN clixon_snmp_table_handler(s, op, rs)
             ELSE clixon_snmp_scalar_handler(s, op, rs)
        t == [h.s EXCEPT !.err = IF @ = noError THEN h.err ELSE @, !.broke = h.broke /\ InTable(op.vbs[s.i])]
        mode == NextMode(op, t)
    IN  CASE h.todo = "send" -> [todo |-> "send", rpc |-> h.rpc, code |-> 0, loc |-> s]
          [] s.i < Len(op.vbs) ->
                [todo |-> "call", rpc |-> NoRpc, code |-> 0, loc |-> [t EXCEPT !.i = @ + 1]]
          [] mode = "idle" ->
                [todo |-> "done", rpc |-> NoRpc, code |-> t.err,
                 loc |-> [t EXCEPT !.mode = "idle", !.i = 1, !.broke = FALSE, !.err = noError]]
          [] OTHER ->
                [todo |-> "call", rpc |-> NoRpc, code |-> 0,
                 loc |-> [t EXCEPT !.mode = mode, !.i = 1, !.broke = FALSE]]
=============================================================================
