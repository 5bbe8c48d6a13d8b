------------------------------- MODULE CliOps -------------------------------
(* The commands of the CLI (apps/cli): the requests each makes of the        *)
(* backend, in order, and when it gives up.  A command is                    *)
(*    [fn |-> "cli", cmd, node, db, fault]                                   *)
(* and ends with 0, or with -1 and an error.                                 *)
EXTENDS ClientIpc

(* Whether a command takes a reply for a failure: a function that fails, or  *)
(* an rpc-error in a reply that the command looks into                       *)
Refused(m, r) ==
    \/ Retval(m, r) < (IF m.ret = "bool" THEN 1 ELSE 0)
    \/ m.ret = "tree" /\ r.tag \notin {"ok", "data"}

(* A command that makes its requests one after the other *)
Chain(ms, rs) ==
    LET k == Len(rs)
    IN  CASE k > 0 /\ Refused(ms[k], rs[k]) -> Ends_with(-1)
          [] k = Len(ms) -> Ends_with(0)
          [] OTHER -> Ask(ms[k + 1])

Local == Ends_with(0)

-----------------------------------------------------------------------------
(* Editing: a path of the syntax tree becomes the path of an instance, which  *)
(* the backend turns into XML                                                 *)

(* mtpoint_paths: the path of a mount-point comes before the path under it *)
mtpoint_paths(c) == c.fault # "mount"

cli_apipath(c) == mtpoint_paths(c) /\ c.fault # "path"

cli_dbxml(c, op, rs) ==
    IF ~cli_apipath(c) THEN Ends_with(-1)
    ELSE Chain(<<clixon_rpc_api_path2xml, clicon_rpc_edit_config("candidate", op, c.node)>>, rs)

cli_set(c, rs) == cli_dbxml(c, "replace", rs)

cli_merge(c, rs) == cli_dbxml(c, "merge", rs)

cli_create(c, rs) == cli_dbxml(c, "create", rs)

cli_remove(c, rs) == cli_dbxml(c, "remove", rs)

cli_del(c, rs) == cli_dbxml(c, "remove", rs)

delete_all(c, rs) == IF c.fault = "db" THEN Ends_with(-1) ELSE Chain(<<clicon_rpc_delete_config(c.db)>>, rs)

(* cli_copy_config: what is read from a datastore is merged into it under     *)
(* another key                                                                *)
cli_copy_config(c, rs) ==
    CASE c.fault \in {"args", "from"} -> Ends_with(-1)
      [] Len(rs) = 1 /\ ~Refused(clixon_rpc_get_config1(c.db), rs[1]) /\ rs[1].data = {} -> Ends_with(-1)
      [] OTHER -> Chain(<<clixon_rpc_get_config1(c.db), clicon_rpc_edit_config(c.db, "merge", c.node)>>, rs)

(* load_config_file: the file is parsed, then merged or made the candidate *)
load_config_file(c, rs) ==
    IF c.fault \in {"args", "file", "parse"} THEN Ends_with(-1)
    ELSE Chain(<<clicon_rpc_edit_config("candidate", "merge", c.node)>>, rs)

save_config_file(c, rs) ==
    IF c.fault \in {"args", "db"} THEN Ends_with(-1) ELSE Chain(<<clixon_rpc_get_config1(c.db)>>, rs)

db_copy(c, rs) == Chain(<<clicon_rpc_copy_config("running", c.db)>>, rs)

-----------------------------------------------------------------------------
(* Transactions and sessions *)

cli_commit(c, rs) == Chain(<<clicon_rpc_commit(c.fault = "confirmed", c.fault = "cancel")>>, rs)

cli_validate(c, rs) == Chain(<<clicon_rpc_validate("candidate")>>, rs)

discard_changes(c, rs) == Chain(<<clicon_rpc_discard_changes>>, rs)

cli_update(c, rs) == Chain(<<clicon_rpc_update>>, rs)

cli_lock(c, rs) == Chain(<<clicon_rpc_lock(c.db)>>, rs)

cli_unlock(c, rs) == Chain(<<clicon_rpc_unlock(c.db)>>, rs)

(* A session id of 0 is ignored *)
cli_kill_session(c, rs) == IF c.fault = "zero" THEN Local ELSE Chain(<<clicon_rpc_kill_session>>, rs)

cli_quit == Local

-----------------------------------------------------------------------------
(* Showing *)

(* compare_db_names, compare_dbs *)
compare_dbs(c, rs) ==
    IF c.fault = "format" THEN Ends_with(-1)
    ELSE Chain(<<clixon_rpc_get_config1("running"), clixon_rpc_get_config1(c.db)>>, rs)

(* cli_show_common: an rpc-error is printed, and the command succeeds; the    *)
(* backend translates what is neither XML nor NETCONF                         *)
cli_show_common(c, rs) ==
    LET get == IF c.fault = "state" THEN clixon_rpc_get1 ELSE clixon_rpc_get_config1(c.db)
    IN  CASE c.fault = "state" /\ c.db # "running" -> Ends_with(-1)
          [] rs = <<>> -> Ask(get)
          [] Retval(get, rs[1]) < 0 -> Ends_with(-1)
          [] rs[1].tag # "data" \/ rs[1].data = {} -> Ends_with(0)
          [] c.fault # "text" -> Ends_with(0)
          [] Len(rs) = 1 -> Ask(clixon_rpc_translate_format)
          [] OTHER -> Ends_with(IF Refused(clixon_rpc_translate_format, rs[2]) THEN -1 ELSE 0)

cli_show_config(c, rs) == IF c.fault = "args" THEN Ends_with(-1) ELSE cli_show_common(c, rs)

(* show_conf_xpath, cli_show_auto_mode: the path is translated first *)
cli_show_auto_mode(c, rs) ==
    CASE rs = <<>> -> Ask(clixon_rpc_config_path_info)
      [] Refused(clixon_rpc_config_path_info, rs[1]) -> Ends_with(-1)
      [] OTHER -> cli_show_common(c, Tail(rs))

cli_show_auto(c, rs) == IF ~cli_apipath(c) THEN Ends_with(-1) ELSE cli_show_common(c, rs)

cli_show_config_info(c, rs) ==
    IF ~cli_apipath(c) THEN Ends_with(-1) ELSE Chain(<<clixon_rpc_config_path_info>>, rs)

(* expand_dbvar: a path the backend cannot translate is translated here; an   *)
(* rpc-error completes nothing                                                *)
expand_dbvar(c, rs) ==
    CASE c.fault \in {"args", "db"} \/ ~cli_apipath(c) -> Ends_with(-1)
      [] rs = <<>> -> Ask(clixon_rpc_config_path_info)
      [] Len(rs) = 1 -> Ask(clixon_rpc_get_config1(c.db))
      [] OTHER -> Ends_with(IF rs[2] = Failure THEN -1 ELSE 0)

cli_show_sessions(c, rs) == Chain(<<clixon_rpc_get1, clixon_rpc_get1>>, rs)

(* cli_pagination: running is locked while its pages are read, a full page   *)
(* being followed by another, and unlocked whatever happened                  *)
cli_pagination(c, rs) ==
    LET get == clicon_rpc_get_pageable_list("running")
        k == Len(rs)
        last == IF Refused(get, rs[2]) \/ c.node \notin rs[2].data THEN 2 ELSE 3
    IN  CASE rs = <<>> -> Ask(clicon_rpc_lock("running"))
          [] k = 1 -> IF Refused(clicon_rpc_lock("running"), rs[1]) THEN Ends_with(-1) ELSE Ask(get)
          [] k < last -> Ask(get)
          [] k = last -> Ask(clicon_rpc_unlock("running"))
          [] OTHER -> Ends_with(IF Refused(get, rs[last]) THEN -1 ELSE 0)

(* cli_show_statistics: the sum, then each type of object *)
cli_show_statistics(c, rs) ==
    IF c.fault = "cli" THEN Local
    ELSE Chain(<<clicon_rpc_netconf(Rpc("stats", "tree")), clicon_rpc_netconf(Rpc("stats", "tree"))>>, rs)

-----------------------------------------------------------------------------
(* Other requests *)

cli_debug_backend(c, rs) == IF c.fault = "level" THEN Ends_with(-1) ELSE Chain(<<clicon_rpc_debug>>, rs)

(* cli_debug_restconf, clicon_rpc_restconf_debug: an edit and a commit; a     *)
(* commit that is refused returns 0, which the command takes for success      *)
cli_debug_restconf(c, rs) ==
    LET edit == clicon_rpc_edit_config("candidate", "merge", c.node)
    IN  CASE c.fault = "level" -> Ends_with(-1)
          [] rs = <<>> -> Ask(edit)
          [] Len(rs) = 1 -> IF Refused(edit, rs[1]) THEN Ends_with(-1) ELSE Ask(clicon_rpc_commit(FALSE, FALSE))
          [] OTHER -> Ends_with(IF Retval(clicon_rpc_commit(FALSE, FALSE), rs[2]) < 0 THEN -1 ELSE 0)

cli_restart_plugin(c, rs) == Chain(<<clicon_rpc_restart_plugin>>, rs)

cli_process_control(c, rs) ==
    IF c.fault = "operation" THEN Ends_with(-1)
    ELSE Chain(<<clicon_rpc_netconf(Rpc("process-control", "tree"))>>, rs)

cli_ping(c, rs) == Chain(<<clicon_rpc_netconf(Rpc("ping", "tree"))>>, rs)

cli_cache_clear(c, rs) == Chain(<<clixon_rpc_clixon_cache>>, rs)

(* cli_notify, cli_notification_register: one subscription of a stream *)
cli_notify(c, rs) == IF c.fault = "subscribed" THEN Ends_with(-1) ELSE Chain(<<clicon_rpc_create_subscription>>, rs)

(* cli_terminate closes the session, if there was one *)
cli_terminate(c, rs) == Chain(<<clicon_rpc_close_session>>, rs)

-----------------------------------------------------------------------------
(* clicon_parse: the command a line matches.  A function that fails prints   *)
(* its error and the CLI goes on.                                            *)
clicon_parse(c, rs) ==
    CASE c.fault = "nomatch" -> Ends_with(-1)
      [] c.cmd = "set" -> cli_set(c, rs)
      [] c.cmd = "merge" -> cli_merge(c, rs)
      [] c.cmd = "create" -> cli_create(c, rs)
      [] c.cmd = "remove" -> cli_remove(c, rs)
      [] c.cmd = "delete" -> cli_del(c, rs)
      [] c.cmd = "delete-all" -> delete_all(c, rs)
      [] c.cmd = "copy-key" -> cli_copy_config(c, rs)
      [] c.cmd = "load" -> load_config_file(c, rs)
      [] c.cmd = "save" -> save_config_file(c, rs)
      [] c.cmd = "copy" -> db_copy(c, rs)
      [] c.cmd = "commit" -> cli_commit(c, rs)
      [] c.cmd = "validate" -> cli_validate(c, rs)
      [] c.cmd = "discard" -> discard_changes(c, rs)
      [] c.cmd = "update" -> cli_update(c, rs)
      [] c.cmd = "lock" -> cli_lock(c, rs)
      [] c.cmd = "unlock" -> cli_unlock(c, rs)
      [] c.cmd = "kill" -> cli_kill_session(c, rs)
      [] c.cmd = "compare" -> compare_dbs(c, rs)
      [] c.cmd = "show" -> cli_show_config(c, rs)
      [] c.cmd = "show-xpath" -> cli_show_auto_mode(c, rs)
      [] c.cmd = "show-auto" -> cli_show_auto(c, rs)
      [] c.cmd = "info" -> cli_show_config_info(c, rs)
      [] c.cmd = "complete" -> expand_dbvar(c, rs)
      [] c.cmd = "sessions" -> cli_show_sessions(c, rs)
      [] c.cmd = "page" -> cli_pagination(c, rs)
      [] c.cmd = "statistics" -> cli_show_statistics(c, rs)
      [] c.cmd = "debug" -> cli_debug_backend(c, rs)
      [] c.cmd = "debug-restconf" -> cli_debug_restconf(c, rs)
      [] c.cmd = "restart" -> cli_restart_plugin(c, rs)
      [] c.cmd = "process" -> cli_process_control(c, rs)
      [] c.cmd = "ping" -> cli_ping(c, rs)
      [] c.cmd = "cache" -> cli_cache_clear(c, rs)
      [] c.cmd = "notify" -> cli_notify(c, rs)
      [] c.cmd = "exit" -> cli_terminate(c, rs)
      [] OTHER -> cli_quit
=============================================================================
