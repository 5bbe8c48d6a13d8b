-------------------------------- MODULE Gnmi --------------------------------
(* The gNMI server (apps/grpc): what the four calls of the service ask of    *)
(* the backend, and the gRPC status they end with.  A call is                *)
(*    [fn |-> "gnmi", path, deletes, replaces, updates, paths, fault]        *)
(* with sequences of [node, value] and "fault" the one thing that is wrong.  *)
EXTENDS ClientIpc

(* gRPC status codes *)
GRPC_OK == 0
GRPC_INVALID_ARGUMENT == 3
GRPC_ALREADY_EXISTS == 6
GRPC_PERMISSION_DENIED == 7
GRPC_FAILED_PRECONDITION == 9
GRPC_UNIMPLEMENTED == 12
GRPC_INTERNAL == 13

(* netconf_grpc_map *)
gnmi_errtag2status(tag) ==
    CASE tag \in {"invalid-value", "too-big", "missing-attribute", "bad-attribute",
                  "unknown-attribute", "missing-element", "bad-element", "unknown-element",
                  "unknown-namespace", "malformed-message"} -> GRPC_INVALID_ARGUMENT
      [] tag = "access-denied" -> GRPC_PERMISSION_DENIED
      [] tag = "data-exists" -> GRPC_ALREADY_EXISTS
      [] tag \in {"rollback-failed", "partial-operation"} -> GRPC_INTERNAL
      [] tag = "operation-not-supported" -> GRPC_UNIMPLEMENTED
      [] OTHER -> GRPC_FAILED_PRECONDITION

(* gnmi_rpc_send: whether the reply is good, and the status if it is not; a  *)
(* request that could not be sent leaves the status as it was                *)
Good(r) == r.tag \in {"ok", "data"}

gnmi_rpc_send(r, status) == IF r = Failure THEN status ELSE gnmi_errtag2status(r.tag)

-----------------------------------------------------------------------------
gnmi_capabilities == Ends_with(GRPC_OK)

(* gnmi_get_one_path: names the XPath cannot hold are refused; an element no *)
(* module knows makes the path the root                                      *)
gnmi_get_one_path(gpath) ==
    IF gpath.value = "badname" THEN NoRpc ELSE clixon_rpc_get1

(* The values of the paths, one after the other.  An rpc-error is returned as *)
(* a value.                                                                   *)
OnePathEach(paths, rs) ==
    LET k == Len(rs)
    IN  CASE k > 0 /\ rs[k] = Failure -> Ends_with(GRPC_INTERNAL)
          [] k = Len(paths) -> Ends_with(GRPC_OK)
          [] gnmi_get_one_path(paths[k + 1]) = NoRpc -> Ends_with(GRPC_INVALID_ARGUMENT)
          [] OTHER -> Ask(gnmi_get_one_path(paths[k + 1]))

gnmi_get(op, rs) ==
    CASE op.fault = "unpack" -> Ends_with(GRPC_INVALID_ARGUMENT)
      [] op.paths = <<>> -> Ends_with(GRPC_OK)
      [] OTHER -> OnePathEach(op.paths, rs)

gnmi_subscribe(op, rs) ==
    CASE op.fault \in {"unpack", "poll", "nolist"} -> Ends_with(GRPC_INVALID_ARGUMENT)
      [] op.fault = "stream" -> Ends_with(GRPC_UNIMPLEMENTED)
      [] OTHER -> OnePathEach(op.paths, rs)

-----------------------------------------------------------------------------
(* gnmi_extract_value_string: an update without a value is skipped *)
gnmi_extract_value_string(u) == u.value # "none"

Valued(us) == SelectSeq(us, gnmi_extract_value_string)

(* gnmi_path_to_xml, gnmi_edit_candidate: one edit of the candidate, or NoRpc *)
(* if a name is not valid                                                     *)
gnmi_path_to_xml(u) == u.value # "badname"

gnmi_edit_candidate(op, u) ==
    IF gnmi_path_to_xml(u)
    THEN clicon_rpc_netconf(clicon_rpc_edit_config("candidate", op, u.node))
    ELSE NoRpc

EditsOf(op, us) == [i \in DOMAIN us |-> gnmi_edit_candidate(op, us[i])]

(* gnmi_set: the deletes, the replaces and the updates, then one commit; what *)
(* fails on the way is discarded                                              *)
gnmi_set(op, rs) ==
    LET edits == EditsOf("remove", op.deletes) \o EditsOf("replace", Valued(op.replaces))
                    \o EditsOf("merge", Valued(op.updates))
        n == Len(edits)
        k == Len(rs)
        bad == IF \E j \in 1..k : ~Good(rs[j]) THEN CHOOSE j \in 1..k : ~Good(rs[j]) ELSE 0
        status == IF bad = 0 THEN GRPC_FAILED_PRECONDITION
                  ELSE gnmi_rpc_send(rs[bad], GRPC_FAILED_PRECONDITION)
    IN  CASE op.fault = "unpack" -> Ends_with(GRPC_INVALID_ARGUMENT)
          [] bad # 0 /\ k = bad -> Ask(clicon_rpc_discard_changes)
          [] bad # 0 -> Ends_with(status)
          [] k < n /\ edits[k + 1] = NoRpc -> Ask(clicon_rpc_discard_changes)
          [] k > 0 /\ k <= n /\ edits[k] = NoRpc -> Ends_with(GRPC_INVALID_ARGUMENT)
          [] k < n -> Ask(edits[k + 1])
          [] n = 0 \/ k = n + 1 -> Ends_with(GRPC_OK)
          [] OTHER -> Ask(clicon_rpc_netconf(clicon_rpc_commit(FALSE, FALSE)))

-----------------------------------------------------------------------------
(* on_frame_recv_cb: the call a finished stream's path names *)
on_frame_recv_cb(op, rs) ==
    CASE op.path = "Capabilities" -> gnmi_capabilities
      [] op.path = "Get" -> gnmi_get(op, rs)
      [] op.path = "Set" -> gnmi_set(op, rs)
      [] op.path = "Subscribe" -> gnmi_subscribe(op, rs)
      [] OTHER -> Ends_with(GRPC_UNIMPLEMENTED)
=============================================================================
