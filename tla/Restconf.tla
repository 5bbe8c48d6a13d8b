------------------------------ MODULE Restconf ------------------------------
(* What a RESTCONF request does (apps/restconf): from the resource and the   *)
(* method to the requests it makes of the backend, and from their replies to *)
(* the HTTP status.  A request is                                            *)
(*    [fn |-> "restconf", method, res, ds, node, media, fault]               *)
(* where "fault" names the one thing that is wrong with it, if any.          *)
EXTENDS ClientIpc

CONSTANT UpdateStartup  \* feature startup, and not CLICON_RESTCONF_STARTUP_DONTUPDATE

-----------------------------------------------------------------------------
(* Errors *)

(* netconf_restconf_map, first match; -1 if none *)
restconf_err2code(tag) ==
    CASE tag \in {"in-use", "lock-denied", "resource-denied", "data-exists", "data-missing"} -> 409
      [] tag \in {"invalid-value", "missing-attribute", "bad-attribute", "unknown-attribute",
                  "missing-element", "bad-element", "unknown-element", "unknown-namespace",
                  "malformed-message"} -> 400
      [] tag = "too-big" -> 413
      [] tag = "access-denied" -> 403
      [] tag = "operation-not-supported" -> 405
      [] tag = "operation-failed" -> 412
      [] tag \in {"rollback-failed", "partial-operation"} -> 500
      [] OTHER -> -1

(* api_return_err: a code of its own, or that of the error tag.  Two         *)
(* messages are told apart by their text.                                    *)
api_return_err(tag, msg, code0) ==
    LET code == restconf_err2code(tag)
    IN  IF code0 # 0 THEN code0
        ELSE IF code = -1 THEN 500
        ELSE IF code = 403 /\ msg = "unauthorized" THEN 401
        ELSE IF tag = "invalid-value" /\ msg = "method" THEN 404
        ELSE code

api_return_err0(tag) == Ends_with(api_return_err(tag, "", 0))

restconf_method_notallowed == api_return_err0("operation-not-supported")

restconf_not_acceptable == Ends_with(api_return_err("operation-not-supported", "", 406))

restconf_unsupported_media == Ends_with(api_return_err("operation-not-supported", "", 415))

restconf_notimplemented == Ends_with(api_return_err("operation-not-supported", "", 501))

(* restconf_content_type, restconf_media_str2int: what the body is taken for *)
restconf_content_type(q) ==
    IF q.media \in {"xml", "json", "patch-xml", "patch-json"} THEN q.media ELSE "none"

(* A handler that fails (-1) closes the connection without an answer *)
Unanswered == Ends_with(-1)

(* Mutant: the error in a reply is not looked for *)
Answered_any(r, code) == IF r = Failure THEN Unanswered ELSE Ends_with(code)

(* A reply of the backend: the error it holds, or the continuation's code *)
Answered(r, code) ==
    IF r = Failure THEN Unanswered
    ELSE IF r.tag \in {"ok", "data"} THEN Ends_with(code)
    ELSE api_return_err0(r.tag)

-----------------------------------------------------------------------------
(* Writing.  Each is one <edit-config> of the candidate that commits at once; *)
(* the datastore of the URI decides only whether startup is updated.         *)

EditAndCommit(q, op) ==
    clicon_rpc_netconf([clicon_rpc_edit_config("candidate", op, q.node) EXCEPT
        !.auto = TRUE, !.startup = q.ds = "none" /\ UpdateStartup])

(* restconf_insert_attributes: "point" must translate to an instance *)
restconf_insert_attributes(q) == q.fault # "point"

(* The tag of the error a request is refused with, "media" for a body that is *)
(* neither XML nor JSON, or "ok" *)
Refuse(tag) == IF tag = "media" THEN restconf_unsupported_media ELSE api_return_err0(tag)

(* api_data_post: the path, then the one child the body adds to it *)
PostBody(q) ==
    IF q.fault = "path" THEN "unknown-element"
    ELSE IF q.fault = "empty" THEN "malformed-message"
    ELSE IF restconf_content_type(q) \notin {"xml", "json"} THEN "media"
    ELSE IF q.fault \in {"parse", "many", "namespace"} THEN "malformed-message"
    ELSE "ok"

api_data_post(q, rs) ==
    IF PostBody(q) # "ok" THEN Refuse(PostBody(q))
    ELSE IF ~restconf_insert_attributes(q) THEN Unanswered
    ELSE IF rs = <<>> THEN Ask(EditAndCommit(q, "create"))
    ELSE Answered(rs[1], 201)

(* match_list_keys: the keys of the path are those of the body *)
match_list_keys(q) == q.fault # "keys"

(* api_data_write: the path, and that there is a body *)
WriteTarget(q) ==
    CASE q.fault = "path" -> "unknown-element"
      [] q.fault = "empty" -> "malformed-message"
      [] OTHER -> "ok"

(* ... the body as one instance *)
WriteBody(q) ==
    IF restconf_content_type(q) \notin {"xml", "json"} THEN "media"
    ELSE IF q.fault \in {"parse", "many", "namespace"} THEN "malformed-message"
    ELSE "ok"

(* ... which is the instance the path names *)
WriteMatch(q) ==
    IF q.fault = "name" THEN "bad-element"
    ELSE IF q.res # "top" /\ ~match_list_keys(q) THEN "operation-failed"
    ELSE "ok"

api_data_write(q, plain_patch, rs) ==
    IF WriteTarget(q) # "ok" THEN Refuse(WriteTarget(q))
    ELSE IF WriteBody(q) # "ok" THEN Refuse(WriteBody(q))
    ELSE IF WriteMatch(q) # "ok" THEN Refuse(WriteMatch(q))
    ELSE IF q.res # "top" /\ ~restconf_insert_attributes(q) THEN Unanswered
    ELSE IF rs = <<>> THEN Ask(EditAndCommit(q, IF plain_patch THEN "merge-existing" ELSE "replace"))
    ELSE Answered(rs[1], IF rs[1].existed THEN 204 ELSE 201)

api_data_put(q, rs) == api_data_write(q, FALSE, rs)

(* A YANG patch is compiled in only with CLIXON_YANG_PATCH *)
api_data_patch(q, rs) ==
    CASE restconf_content_type(q) \in {"xml", "json"} -> api_data_write(q, TRUE, rs)
      [] restconf_content_type(q) \in {"patch-xml", "patch-json"} -> restconf_notimplemented
      [] OTHER -> restconf_unsupported_media

api_data_delete(q, rs) ==
    IF q.fault = "path" THEN api_return_err0("unknown-element")
    ELSE IF rs = <<>> THEN Ask(EditAndCommit(q, "delete"))
    ELSE Answered(rs[1], 204)

-----------------------------------------------------------------------------
(* Reading *)

(* where_predicate_valid: quotes are closed, and only names, values and "="  *)
(* stand outside them                                                        *)
where_predicate_valid(q) == q.fault # "where"

(* The query of a page of a list *)
PageQuery(q) ==
    IF q.fault = "path" THEN "unknown-element"
    ELSE IF q.fault = "not-list" THEN "bad-element"
    ELSE IF q.fault \in {"content", "depth", "limit", "offset"} \/ ~where_predicate_valid(q) THEN "bad-attribute"
    ELSE "ok"

api_data_pagination(q, rs) ==
    IF PageQuery(q) # "ok" THEN api_return_err0(PageQuery(q))
    ELSE IF rs = <<>> THEN Ask(clicon_rpc_get_pageable_list("running"))
    ELSE IF rs[1] = Failure THEN api_return_err0("operation-failed")
    ELSE Answered(rs[1], 200)

(* The query of a GET or a HEAD; a list with paging parameters is a page *)
GetQuery(q) == IF q.fault \in {"content", "depth"} THEN "bad-attribute" ELSE "ok"

api_data_get2(q, rs, head) ==
    IF q.fault = "path" THEN api_return_err0("unknown-element")
    ELSE IF ~head /\ q.res = "list" THEN api_data_pagination(q, rs)
    ELSE IF GetQuery(q) # "ok" THEN api_return_err0(GetQuery(q))
    ELSE IF rs = <<>> THEN Ask(clixon_rpc_get1)
    ELSE IF rs[1] = Failure THEN api_return_err0("operation-failed")
    ELSE IF rs[1].tag # "data" THEN api_return_err0(rs[1].tag)
    ELSE IF q.res # "top" /\ q.node \notin rs[1].data THEN Ends_with(api_return_err("invalid-value", "", 404))
    ELSE Ends_with(200)

api_data_head(q, rs) == api_data_get2(q, rs, TRUE)

api_data_get(q, rs) ==
    IF q.media = "pagination" THEN api_data_pagination(q, rs) ELSE api_data_get2(q, rs, FALSE)

api_data_options == Ends_with(200)

-----------------------------------------------------------------------------
(* Operations *)

(* api_operations_post_input, json_rpc_transform: one "input", or 400 *)
json_rpc_transform(q) == IF q.fault = "input" THEN "malformed-message" ELSE "ok"

api_operations_post_input(q) ==
    IF q.fault = "parse" THEN "malformed-message"
    ELSE IF restconf_content_type(q) = "json" THEN json_rpc_transform(q)
    ELSE IF restconf_content_type(q) = "xml" THEN
            IF q.fault \in {"many", "input"} THEN "malformed-message" ELSE "ok"
    ELSE "media"

(* A reply without content is 204 *)
api_operations_post_output(r) == IF r.tag = "ok" THEN 204 ELSE 200

(* The operation a path names *)
OperationOf(q) ==
    IF q.fault \in {"noname", "nomodule"} THEN "operation-failed"
    ELSE IF q.fault = "norpc" THEN "missing-element"
    ELSE IF q.fault # "empty" /\ api_operations_post_input(q) # "ok" THEN api_operations_post_input(q)
    ELSE IF q.fault \in {"bind", "validate"} THEN "bad-element"
    ELSE "ok"

api_operations_post(q, rs) ==
    IF OperationOf(q) # "ok" THEN Refuse(OperationOf(q))
    ELSE IF q.fault = "local" THEN Ends_with(204)
    ELSE IF rs = <<>> THEN Ask(clicon_rpc_netconf(Rpc("example", "tree")))
    ELSE Answered(rs[1], api_operations_post_output(rs[1]))

api_operations_get == Ends_with(200)

api_operations(q, rs) ==
    CASE q.method = "GET" -> api_operations_get
      [] q.method = "POST" -> api_operations_post(q, rs)
      [] OTHER -> Ends_with(api_return_err("invalid-value", "operations", 0))

-----------------------------------------------------------------------------
(* Dispatch *)

ReadOnly(q) == q.ds \in {"running", "intended", "dynamic", "operational"}

(* api_data: a PATCH of a read-only datastore is answered 405, and then made *)
(* all the same: the status is the first answer, the requests are the        *)
(* patch's.  A POST is not refused at all.                                   *)
api_data(q, rs) ==
    CASE q.method = "OPTIONS" -> api_data_options
      [] q.method = "HEAD" -> IF q.ds = "dynamic" THEN restconf_method_notallowed ELSE api_data_head(q, rs)
      [] q.method = "GET" -> api_data_get(q, rs)
      [] q.method = "POST" -> api_data_post(q, rs)
      [] q.method = "PUT" -> IF ReadOnly(q) THEN restconf_method_notallowed ELSE api_data_put(q, rs)
      [] q.method = "PATCH" ->
            LET p == api_data_patch(q, rs)
            IN  IF ReadOnly(q) /\ p.todo = "done" THEN restconf_method_notallowed ELSE p
      [] q.method = "DELETE" -> IF ReadOnly(q) THEN restconf_method_notallowed ELSE api_data_delete(q, rs)
      [] OTHER -> Ends_with(api_return_err("invalid-value", "method", 0))

api_root_restconf_exact(q) ==
    IF q.method \in {"HEAD", "GET"} THEN Ends_with(200) ELSE restconf_method_notallowed

api_yang_library_version == Ends_with(200)

api_operational_state == restconf_notimplemented

api_well_known(q) ==
    IF q.method \in {"HEAD", "GET"} THEN Ends_with(200) ELSE restconf_method_notallowed

(* restconf_authentication_cb: a plugin's answer, or the configured type *)
restconf_authentication_cb(q) == q.fault # "auth"

(* The datastores a URI may name *)
Datastores == {"none", "running", "candidate", "startup"}

(* http_data_check_file_path: each directory of the path in turn, then the  *)
(* file; 0 if it may be sent                                                *)
http_data_check_file_path(q) ==
    CASE q.fault = "missing-dir" -> 404
      [] q.fault \in {"not-dir", "tilde"} -> 403
      [] q.fault = "missing-file" -> 404
      [] q.fault \in {"outside", "not-regular", "unreadable"} -> 403
      [] OTHER -> 0

api_http_data_err(code) == Ends_with(code)

api_http_data_file(q) ==
    IF http_data_check_file_path(q) # 0 THEN api_http_data_err(http_data_check_file_path(q))
    ELSE IF q.fault = "accept" THEN restconf_not_acceptable
    ELSE IF q.fault = "resized" THEN api_http_data_err(500)
    ELSE Ends_with(200)

api_http_data(q) ==
    IF q.fault = "not-data" THEN api_http_data_err(404)
    ELSE IF q.method \notin {"GET", "HEAD", "OPTIONS"} THEN api_http_data_err(405)
    ELSE IF q.fault \in {"query", "body"} THEN api_http_data_err(400)
    ELSE IF ~restconf_authentication_cb(q) THEN Ends_with(api_return_err("access-denied", "unauthorized", 0))
    ELSE IF q.method = "OPTIONS" THEN Ends_with(200)
    ELSE api_http_data_file(q)

api_root_restconf(q, rs) ==
    IF q.fault = "accept" THEN restconf_not_acceptable
    ELSE IF q.res = "root" THEN api_root_restconf_exact(q)
    ELSE IF ~restconf_authentication_cb(q) THEN Ends_with(api_return_err("access-denied", "unauthorized", 0))
    ELSE IF q.res = "yang-library-version" THEN api_yang_library_version
    ELSE IF q.res \in {"data", "top", "list"} THEN
            IF q.ds = "operational" THEN api_operational_state
            ELSE IF q.ds \notin Datastores THEN api_return_err0("invalid-value")
            ELSE api_data(q, rs)
    ELSE IF q.res = "operations" THEN api_operations(q, rs)
    ELSE api_return_err0("invalid-value")

(* The tree a request's path belongs to *)
restconf_request(q, rs) ==
    IF q.res = "well-known" THEN api_well_known(q)
    ELSE IF q.res = "file" THEN api_http_data(q)
    ELSE api_root_restconf(q, rs)
=============================================================================
