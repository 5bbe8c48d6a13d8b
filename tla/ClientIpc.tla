----------------------------- MODULE ClientIpc -----------------------------
(* The client side of the internal NETCONF: the clicon_rpc_ functions the   *)
(* front-ends call (lib/src/clixon_proto_client.c), the cached socket they   *)
(* share (clicon_rpc_msg), and what a front-end sees of a backend that may   *)
(* crash and restart between any two of its messages while another client   *)
(* edits the same candidate.                                                *)
EXTENDS Integers, Sequences, FiniteSets

CONSTANTS
    Nodes,      \* the nodes a configuration may hold
    Under,      \* the nodes that exist only under a node
    BadNode,    \* a configuration with it does not validate
    PickyNode,  \* one with it validates, but a plugin refuses to commit it
    MaxCrash,   \* crashes of the backend
    MaxRival    \* requests of the other client

VARIABLES
    srv,    \* the backend, as its clients see it
    net,    \* the client's socket, session and the message in flight
    fe,     \* the operation the front-end performs
    ghost   \* what became of the operation, for the properties

frontVars == <<srv, net, fe, ghost>>

-----------------------------------------------------------------------------
(* The messages.  "ret" is how the function that sends one reads the reply:  *)
(* "plain" makes an rpc-error a failure, "bool" returns 0 on it and 1 on ok, *)
(* "tree" hands the reply to the caller.                                     *)

NoChange == [op |-> "none", node |-> BadNode]

Rpc(op, ret) ==
    [op |-> op, ret |-> ret, db |-> "candidate", from |-> "running", edit |-> NoChange,
     auto |-> FALSE, startup |-> FALSE, persistent |-> FALSE]

NoRpc == Rpc("no", "plain")

create_hello == Rpc("hello", "plain")

clicon_hello_req == create_hello

clixon_rpc_get_config1(db) == [Rpc("get-config", "tree") EXCEPT !.db = db]

clicon_rpc_edit_config(db, op, node) ==
    [Rpc("edit-config", "plain") EXCEPT !.db = db, !.edit = [op |-> op, node |-> node]]

clicon_rpc_copy_config(db1, db2) ==
    [Rpc("copy-config", "plain") EXCEPT !.from = db1, !.db = db2]

(* <delete-config> is sent as an <edit-config> that deletes the top node *)
clicon_rpc_delete_config(db) ==
    [Rpc("edit-config", "plain") EXCEPT !.db = db, !.edit = [op |-> "delete-all", node |-> BadNode]]

clicon_rpc_lock(db) == [Rpc("lock", "plain") EXCEPT !.db = db]

clicon_rpc_unlock(db) == [Rpc("unlock", "plain") EXCEPT !.db = db]

clixon_rpc_get1 == [Rpc("get", "tree") EXCEPT !.db = "running"]

clicon_rpc_get_pageable_list(db) == [Rpc("get", "tree") EXCEPT !.db = db]

clicon_rpc_close_session == Rpc("close-session", "plain")

clicon_rpc_kill_session == Rpc("kill-session", "plain")

clicon_rpc_validate(db) == [Rpc("validate", "bool") EXCEPT !.db = db]

clicon_rpc_commit(confirmed, cancel) ==
    Rpc(IF cancel THEN "cancel-commit" ELSE IF confirmed THEN "confirmed-commit"
        ELSE "commit", "bool")

clicon_rpc_discard_changes == Rpc("discard-changes", "plain")

(* Only a subscription has a socket of its own *)
clicon_rpc_create_subscription == [Rpc("create-subscription", "plain") EXCEPT !.persistent = TRUE]

clicon_rpc_update == Rpc("update", "plain")

clicon_rpc_debug == Rpc("debug", "plain")

clixon_rpc_clixon_cache == Rpc("clixon-cache", "plain")

clixon_rpc_config_path_info == Rpc("config-path-info", "plain")

clixon_rpc_api_path2xml == clixon_rpc_config_path_info

clixon_rpc_translate_format == Rpc("translate-format", "plain")

clicon_rpc_restart_plugin == Rpc("restart-plugin", "plain")

(* A message the caller wrote itself *)
clicon_rpc_netconf(m) == [m EXCEPT !.ret = "tree"]

(* The value the function of message m returns on reply r *)
Failure == [tag |-> "failure", data |-> {}, existed |-> FALSE]

Retval(m, r) ==
    IF r = Failure THEN -1
    ELSE IF m.ret = "tree" THEN 0
    ELSE IF r.tag \in {"ok", "data"} THEN IF m.ret = "bool" THEN 1 ELSE 0
    ELSE IF m.ret = "bool" THEN 0 ELSE -1

-----------------------------------------------------------------------------
(* The backend as its clients see it: one request at a time, done whole.    *)

Answer(tag) == [tag |-> tag, data |-> {}, existed |-> FALSE]

Validates(c) == BadNode \notin c

Commits(c) == Validates(c) /\ PickyNode \notin c

(* text_modify on a flat configuration: <<tag, configuration>> *)
Edited(c, e) ==
    IF e.op = "create" /\ e.node \in c THEN <<"data-exists", c>>
    ELSE IF e.op \in {"delete", "merge-existing"} /\ e.node \notin c THEN <<"data-missing", c>>
    ELSE IF e.op \in {"create", "merge", "merge-existing", "replace"} THEN
            <<"ok", c \cup {e.node} \cup {n \in Nodes : e.node \in Under[n]}>>
    ELSE IF e.op \in {"delete", "remove"} THEN <<"ok", c \ ({e.node} \cup Under[e.node])>>
    ELSE IF e.op = "delete-all" THEN <<"ok", {}>>
    ELSE <<"ok", c>>

(* from_client_edit_config: with autocommit a candidate that does not commit *)
(* is put back to running                                                    *)
ServeEdit(s, m) ==
    LET e == Edited(s[m.db], m.edit)
        c == e[2]
        ok == [tag |-> "ok", data |-> {}, existed |-> m.edit.node \in s[m.db]]
    IN  IF e[1] # "ok" THEN <<s, Answer(e[1])>>
        ELSE IF ~m.auto THEN <<[s EXCEPT ![m.db] = c], ok>>
        ELSE IF Commits(c) THEN
                <<[s EXCEPT !.running = c, !.candidate = c,
                            !.startup = IF m.startup THEN c ELSE @], ok>>
        ELSE <<[s EXCEPT !.candidate = s.running], Answer("operation-failed")>>

ServeCommit(s) ==
    IF Commits(s.candidate)
    THEN <<[s EXCEPT !.running = s.candidate], Answer("ok")>>
    ELSE <<s, Answer("operation-failed")>>

ServeLock(s, m, who) ==
    IF m.op = "unlock" /\ s.locks[m.db] # who THEN <<s, Answer("lock-denied")>>
    ELSE IF m.op = "unlock" THEN <<[s EXCEPT !.locks[m.db] = "none"], Answer("ok")>>
    ELSE IF s.locks[m.db] # "none" THEN <<s, Answer("lock-denied")>>
    ELSE IF m.db = "candidate" /\ s.candidate # s.running THEN <<s, Answer("lock-denied")>>
    ELSE <<[s EXCEPT !.locks[m.db] = who], Answer("ok")>>

(* Whether another client than who holds the lock on a datastore *)
Locked(s, db, who) == s.locks[db] \notin {"none", who}

(* The locks of a client go with its session *)
Released(s, who) ==
    [s EXCEPT !.locks = [db \in DOMAIN @ |-> IF @[db] = who THEN "none" ELSE @[db]]]

(* What request m of client who does to backend s, and the reply *)
Serve(s, m, who) ==
    IF m.op \in {"edit-config", "copy-config", "discard-changes"} /\ Locked(s, m.db, who) THEN
            <<s, Answer("lock-denied")>>
    ELSE IF m.op = "commit" /\ (Locked(s, "candidate", who) \/ Locked(s, "running", who)) THEN
            <<s, Answer("in-use")>>
    ELSE IF m.op = "edit-config" THEN ServeEdit(s, m)
    ELSE IF m.op = "commit" THEN ServeCommit(s)
    ELSE IF m.op = "discard-changes" THEN <<[s EXCEPT !.candidate = s.running], Answer("ok")>>
    ELSE IF m.op = "validate" THEN
            <<s, Answer(IF Validates(s[m.db]) THEN "ok" ELSE "operation-failed")>>
    ELSE IF m.op = "copy-config" THEN <<[s EXCEPT ![m.db] = s[m.from]], Answer("ok")>>
    ELSE IF m.op \in {"lock", "unlock"} THEN ServeLock(s, m, who)
    ELSE IF m.op \in {"get", "get-config"} THEN
            <<s, [tag |-> "data", data |-> s[m.db], existed |-> FALSE]>>
    ELSE IF m.op = "close-session" THEN <<Released(s, who), Answer("ok")>>
    ELSE IF m.op = "kill-session" THEN <<Released(s, "rival"), Answer("ok")>>
    ELSE <<s, Answer("ok")>>

-----------------------------------------------------------------------------
(* The operations of the front-ends are programs: given the replies so far,  *)
(* the next request to send, or the status the operation ends with.          *)

Ask(m) == [todo |-> "send", rpc |-> m, code |-> 0]

Ends_with(code) == [todo |-> "done", rpc |-> NoRpc, code |-> code]

NoOp == [fn |-> "none"]

(* What an SNMP subagent remembers: the row of its cache (the RowStatus, 0 if  *)
(* none, and whether it holds the column), the table GETNEXT walks, and the    *)
(* mode and the variable under way                                             *)
Loc0 == [status |-> 0, col |-> FALSE, table |-> <<>>, mode |-> "idle", i |-> 1, err |-> 0, broke |-> FALSE]

(* Nothing under way *)
Rest0 == [op |-> NoOp, nr |-> 0, loc |-> Loc0, rs |-> <<>>, code |-> 0, over |-> FALSE]

Quiet == [applied |-> FALSE, changed |-> FALSE, disturbed |-> FALSE, crashed |-> FALSE]

Unlocked == [db \in {"running", "candidate", "startup"} |-> "none"]

FrontInit(configs) ==
    /\ \E c \in configs :
          srv = [up |-> TRUE, gen |-> 1, running |-> c, candidate |-> c, startup |-> c,
                 locks |-> Unlocked, crashes |-> 0, rivals |-> 0]
    /\ net = [sock |-> 0, conn |-> 0, sid |-> 0, wire |-> "idle", inbox |-> "none", cached |-> FALSE,
              msg |-> NoRpc, reply |-> Failure]
    /\ fe = Rest0
    /\ ghost = Quiet

(* The front-end is not part of the run *)
FrontRests ==
    /\ srv = [up |-> FALSE, gen |-> 0, running |-> {}, candidate |-> {}, startup |-> {},
              locks |-> Unlocked, crashes |-> 0, rivals |-> 0]
    /\ net = [sock |-> 0, conn |-> 0, sid |-> 0, wire |-> "idle", inbox |-> "none", cached |-> FALSE,
              msg |-> NoRpc, reply |-> Failure]
    /\ fe = Rest0
    /\ ghost = Quiet

(* A connected socket carries a message to a live backend, or reads as closed *)
Inbox(sock) == IF srv.up /\ srv.gen = sock THEN "request" ELSE "eof"

(* clixon_rpc_connect: the socket, or 0 if no backend listens *)
clixon_rpc_connect == IF srv.up THEN srv.gen ELSE 0

(* clixon_rpc_msg2: the message is written, then its reply is awaited *)
clixon_rpc_msg2(sock, wire, n) == [n EXCEPT !.conn = sock, !.wire = wire, !.inbox = Inbox(sock)]

(* The reply reaches the operation; the one to a <hello> is the session id.  *)
(* The socket is kept for the next message, but for one that failed, that of *)
(* a subscription and that of a session that was closed.                     *)
Return(r, n) ==
    /\ net' = [n EXCEPT !.wire = "idle", !.inbox = "none", !.msg = NoRpc, !.reply = Failure,
                        !.conn = 0,
                        !.sid = IF n.msg.op = "hello" /\ r # Failure THEN 1 ELSE @,
                        !.sock = IF n.msg.persistent THEN @
                                 ELSE IF r = Failure \/ n.msg.op = "close-session" THEN 0
                                 ELSE n.conn]
    /\ fe' = IF n.msg.op = "hello" /\ r # Failure THEN fe ELSE [fe EXCEPT !.rs = Append(@, r)]
    /\ UNCHANGED <<srv, ghost>>

(* clicon_rpc_msg, and clicon_rpc_msg_persistent, which always connects: a    *)
(* new connection begins with a <hello>                                      *)
clicon_rpc_msg(m) ==
    LET n == [net EXCEPT !.msg = m]
        fresh == m.persistent \/ net.sock = 0
    IN  IF fresh /\ clixon_rpc_connect = 0
        THEN Return(Failure, n)
        ELSE /\ net' = IF fresh
                       THEN [clixon_rpc_msg2(clixon_rpc_connect, "hello", n) EXCEPT !.cached = FALSE]
                       ELSE [clixon_rpc_msg2(net.sock, "rpc", n) EXCEPT !.cached = TRUE]
             /\ UNCHANGED <<srv, fe, ghost>>

(* session_id_check: the first request of a process is preceded by a <hello> *)
session_id_check(m) == IF net.sid = 0 /\ ~m.persistent THEN clicon_hello_req ELSE m

(* The reply, or the end of the connection.  The request of a cached socket  *)
(* that was closed is sent again on a new one, without a <hello>.            *)
Receive ==
    /\ net.wire # "idle"
    /\ net.inbox \in {"reply", "eof"}
    /\ IF net.inbox = "reply" /\ net.wire = "hello" THEN
              /\ net' = clixon_rpc_msg2(net.conn, "rpc", net)
              /\ UNCHANGED <<srv, fe, ghost>>
       ELSE IF net.inbox = "reply" THEN Return(net.reply, net)
       ELSE IF net.wire = "rpc" /\ net.cached /\ clixon_rpc_connect # 0 THEN
              /\ net' = clixon_rpc_msg2(clixon_rpc_connect, "resend", net)
              /\ UNCHANGED <<srv, fe, ghost>>
       ELSE Return(Failure, net)
=============================================================================
