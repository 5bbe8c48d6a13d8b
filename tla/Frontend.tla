------------------------------ MODULE Frontend ------------------------------
(* A front-end at work: it performs one operation after the other, each a    *)
(* sequence of requests to a backend that may crash and come back between    *)
(* any two messages, while another client uses the same candidate.           *)
EXTENDS Restconf, Snmp, Gnmi, CliOps

CONSTANTS
    Requests,   \* the operations asked for first
    FollowUps,  \* and those asked for after an SNMP operation
    MaxLate     \* crashes that lose a reply rather than a request

-----------------------------------------------------------------------------
(* The next step of the operation *)
StepOf(op, loc, rs) ==
    LET p == CASE op.fn = "restconf" -> restconf_request(op, rs)
               [] op.fn = "gnmi" -> on_frame_recv_cb(op, rs)
               [] OTHER -> clicon_parse(op, rs)
    IN  IF op.fn = "snmp" THEN snmp_step(op, loc, rs)
        ELSE [todo |-> p.todo, rpc |-> p.rpc, code |-> p.code, loc |-> loc]

(* An operation arrives; the subagent keeps its cached row from one to the next *)
Begin ==
    /\ fe.op = NoOp \/ (fe.over /\ fe.op.fn = "snmp" /\ fe.nr < 2)
    /\ net.wire = "idle"
    /\ \E op \in (IF fe.op = NoOp THEN Requests ELSE FollowUps) :
          fe' = [fe EXCEPT !.op = op, !.rs = <<>>, !.code = 0, !.over = FALSE, !.nr = @ + 1,
                    !.loc = IF op.fn = "snmp" THEN [@ EXCEPT !.mode = FirstMode(op)] ELSE @]
    /\ ghost' = [Quiet EXCEPT !.disturbed = srv.candidate # srv.running]
    /\ UNCHANGED <<srv, net>>

Advance ==
    /\ fe.op # NoOp /\ ~fe.over
    /\ net.wire = "idle"
    /\ \E p \in {StepOf(fe.op, fe.loc, fe.rs)} :
          CASE p.todo = "send" -> clicon_rpc_msg(session_id_check(p.rpc))
            [] p.todo = "call" ->
                  /\ fe' = [fe EXCEPT !.loc = p.loc, !.rs = <<>>]
                  /\ UNCHANGED <<srv, net, ghost>>
            [] OTHER ->
                  /\ fe' = [fe EXCEPT !.loc = p.loc, !.rs = <<>>, !.code = p.code, !.over = TRUE]
                  /\ UNCHANGED <<srv, net, ghost>>

-----------------------------------------------------------------------------
(* What the operation asks for, of a configuration *)

Nodes_of(us) == {us[i].node : i \in DOMAIN us}

Intended(op, c) ==
    CASE op.fn = "restconf" -> IF op.method = "DELETE" THEN op.node \notin c ELSE op.node \in c
      [] op.fn = "gnmi" -> 
            LET added == Nodes_of(Valued(op.replaces)) \cup Nodes_of(Valued(op.updates))
            IN  added \subseteq c /\ (Nodes_of(op.deletes) \ added) \cap c = {}
      [] op.fn = "snmp" -> \A i \in DOMAIN op.vbs : op.vbs[i].obj = "scalar" => op.vbs[i].val \in c
      [] OTHER -> TRUE

(* The message on the wire: the <hello> of a new connection comes first *)
OnTheWire == IF net.wire = "hello" THEN create_hello ELSE net.msg

(* The backend takes a request and answers it; when it is killed in between, *)
(* the work is done and the answer is not heard                              *)
ServeMsg(late) ==
    /\ net.inbox = "request"
    /\ late => srv.crashes < MaxLate
    /\ \E r \in {Serve(srv, OnTheWire, "front")} :
          /\ srv' = IF late THEN [r[1] EXCEPT !.up = FALSE, !.candidate = r[1].running,
                                              !.locks = Unlocked, !.crashes = @ + 1]
                    ELSE r[1]
          /\ net' = [net EXCEPT !.inbox = IF late THEN "eof" ELSE "reply",
                                !.reply = IF late THEN Failure ELSE r[2]]
          /\ ghost' = [ghost EXCEPT
                !.changed = @ \/ r[1].running # srv.running,
                !.applied = @ \/ ( /\ OnTheWire.auto \/ OnTheWire.op = "commit"
                                   /\ r[2].tag = "ok"
                                   /\ Intended(fe.op, r[1].running) ),
                !.crashed = @ \/ late]
    /\ UNCHANGED fe

(* A crash loses the candidate and the locks: running is what is stored *)
BackendDown ==
    /\ srv.up /\ srv.crashes < MaxCrash
    /\ srv' = [srv EXCEPT !.up = FALSE, !.candidate = srv.running, !.locks = Unlocked, !.crashes = @ + 1]
    /\ net' = IF net.wire = "idle" THEN net ELSE [net EXCEPT !.inbox = "eof", !.reply = Failure]
    /\ ghost' = [ghost EXCEPT !.crashed = TRUE]
    /\ UNCHANGED fe

BackendUp ==
    /\ ~srv.up
    /\ srv' = [srv EXCEPT !.up = TRUE, !.gen = @ + 1]
    /\ UNCHANGED <<net, fe, ghost>>

(* The other client *)
RivalRequests ==
    {clicon_rpc_edit_config("candidate", "merge", n) : n \in {BadNode, PickyNode}} \cup
    {clicon_rpc_commit(FALSE, FALSE), clicon_rpc_discard_changes, clicon_rpc_lock("candidate")}

Rival ==
    /\ srv.up /\ srv.rivals < MaxRival
    /\ fe.op # NoOp /\ ~fe.over
    /\ \E m \in RivalRequests :
          \E r \in {Serve(srv, m, "rival")} :
             srv' = [r[1] EXCEPT !.rivals = @ + 1]
    /\ ghost' = [ghost EXCEPT !.disturbed = TRUE]
    /\ UNCHANGED <<net, fe>>

FrontNext ==
    \/ Begin
    \/ Advance
    \/ Receive
    \/ ServeMsg(FALSE)
    \/ ServeMsg(TRUE)
    \/ BackendDown
    \/ BackendUp
    \/ Rival

-----------------------------------------------------------------------------
(* An operation that is to change running *)
Writing(op) ==
    CASE op.fn = "restconf" -> op.res \in {"data", "top"} /\ op.method \in {"POST", "PUT", "PATCH", "DELETE"}
      [] op.fn = "gnmi" -> op.path = "Set" /\ op.deletes \o Valued(op.replaces) \o Valued(op.updates) # <<>>
      [] op.fn = "snmp" -> op.mode = "set"
      [] OTHER -> op.cmd = "commit" /\ op.fault = "none"

Succeeded ==
    IF fe.op.fn = "restconf" THEN fe.code \in 200..299 ELSE fe.code = 0

(* api_data lets a PATCH of a read-only datastore through after its 405 *)
PatchedReadOnly(op) == op.fn = "restconf" /\ op.method = "PATCH" /\ ReadOnly(op)

(* The status a client is given tells what became of its operation.          *)
(* Success of a write means that running took it: always for RESTCONF, whose *)
(* write is one request that edits and commits, whatever other clients do    *)
(* and even if the backend is restarted meanwhile and the request is sent    *)
(* again; for SNMP, gNMI and the CLI, whose edits and commit are separate    *)
(* requests, unless another client used the candidate or the backend was     *)
(* restarted.  An error means that running did not change, unless the answer *)
(* was lost with the backend, and that no edit is left in the candidate for  *)
(* a later commit to pick up (api_data_write, snmp handlers, gnmi_set).      *)
(* A page-wise show has given its lock on running back (cli_pagination).     *)
StatusTruthful ==
    fe.over =>
        /\ Writing(fe.op) /\ Succeeded =>
              ghost.applied \/ (fe.op.fn # "restconf" /\ (ghost.disturbed \/ ghost.crashed))
        /\ ~Succeeded => ~ghost.changed \/ ghost.crashed \/ PatchedReadOnly(fe.op)
        /\ ~Succeeded /\ fe.op.fn # "cli" /\ ~ghost.disturbed /\ ~ghost.crashed =>
              srv.candidate = srv.running
        /\ fe.op.fn = "cli" /\ ~ghost.crashed =>
              (srv.locks["running"] = "front" <=> fe.op.cmd = "lock" /\ Succeeded)
=============================================================================
