--------------------------- MODULE NetconfServer -----------------------------
(* The NETCONF front end (apps/netconf): one process per client, between    *)
(* the client's byte stream on stdin and the backend.  A callback reads     *)
(* what has come, takes messages out of it by the framing in force, RFC     *)
(* 6242's end-of-message tag until a hello has asked for chunks, and        *)
(* answers each one.  A read returns any part of what the client has sent.  *)
(*                                                                          *)
(* A character is a string, "nl" a line break.  A message is a record: its  *)
(* body is a sequence of characters that stands for the XML and identifies  *)
(* it, the other fields say what the parser makes of it.                    *)
EXTENDS Integers, Sequences, SequencesExt, FiniteSets

CONSTANTS
    Messages,   \* what clients send
    Scripts,    \* sequences of [m |-> a message, chunks |-> its chunks' sizes]
    BaseCap,    \* CLICON_NETCONF_BASE_CAPABILITY
    HelloOptional,  \* CLICON_NETCONF_HELLO_OPTIONAL
    PrivateCand,    \* CLICON_XMLDB_PRIVATE_CANDIDATE
    BufSize,    \* BUFSIZ
    ChunkMax,   \* UINT32_MAX
    MaxNotes    \* notifications the backend sends

VARIABLES
    wire,    \* characters sent and not yet read
    script,  \* what the client sends
    nsent,   \* how many messages of it are sent
    ns,      \* the session, see NoSession
    nwire,   \* notifications on the sockets of subscriptions
    noted    \* notifications written to the client

ncVars == <<wire, script, nsent, ns, nwire, noted>>

Eom == <<"]", "]", ">", "]", "]", ">">>
Digits == <<"0", "1", "2", "3", "4", "5", "6", "7", "8", "9">>
IsDigit(ch) == Contains(Digits, ch)
Value(ch) == (CHOOSE i \in DOMAIN Digits : Digits[i] = ch) - 1

------------------------------------------------------------------------------
(* Output *)

netconf_framing_preamble(n) == <<"nl", "#", Digits[n + 1], "nl">>
netconf_framing_postamble(framing) == IF framing = "eom" THEN Eom ELSE <<"nl", "#", "#", "nl">>

(* netconf_output_encap; a client may split a body into chunks *)
RECURSIVE InChunks(_, _)
InChunks(body, chunks) ==
    IF chunks = <<>> THEN <<>>
    ELSE netconf_framing_preamble(Head(chunks)) \o SubSeq(body, 1, Head(chunks))
           \o InChunks(SubSeq(body, Head(chunks) + 1, Len(body)), Tail(chunks))

netconf_output_encap(framing, body, chunks) ==
    (IF framing = "eom" THEN body ELSE InChunks(body, chunks)) \o netconf_framing_postamble(framing)

------------------------------------------------------------------------------
(* Input *)

(* detect_endtag: a character that does not continue the tag starts over, *)
(* without being looked at as its first                                   *)
detect_endtag(ch, state) ==
    IF ch # Eom[state + 1] THEN [found |-> FALSE, state |-> 0]
    ELSE [found |-> state + 1 = Len(Eom), state |-> (state + 1) % Len(Eom)]

(* netconf_input_chunked_framing: what becomes of a character: it is part   *)
(* of the framing (0) or of the message (1), or ends the message (2)        *)
To(ret, state, size) == [ret |-> ret, state |-> state, size |-> size]

netconf_input_chunked_framing(ch, state, size) ==
    CASE state = 0 /\ ch = "nl" -> To(0, 1, size)
      [] state \in {1, 5} /\ ch = "#" -> To(0, state + 1, size)
      [] state = 2 /\ ch = "#" -> To(2, 0, size)
      [] state \in {2, 6} /\ IsDigit(ch) /\ ch # "0" -> To(0, 3, Value(ch))
      [] state = 3 /\ IsDigit(ch) /\ size <= (ChunkMax - Value(ch)) \div 10 -> To(0, 3, size * 10 + Value(ch))
      [] state = 3 /\ ch = "nl" -> To(0, 4, size)
      [] state = 4 /\ size > 0 -> To(1, 4, size - 1)
      [] state = 4 /\ size = 0 /\ ch = "nl" -> To(0, 5, size)
      [] state = 6 /\ ch = "#" -> To(0, 7, size)
      [] state = 7 /\ ch = "nl" -> To(2, 0, size)
      [] OTHER -> To(-1, 0, size)

------------------------------------------------------------------------------
(* Messages *)

NoSession == [framing |-> "eom", state |-> 0, size |-> 0, msg |-> <<>>, hello |-> 0, subs |-> 0,
              out |-> <<>>, forwarded |-> <<>>, eof |-> FALSE]

(* An answer on stdout, in the framing in force *)
netconf_output(s, m, what) == [s EXCEPT !.out = Append(@, [m |-> m.id, what |-> what, framing |-> s.framing])]

(* clicon_rpc_netconf_xml: the backend is asked, and its answer passed on *)
clicon_rpc_netconf_xml(s, m) == netconf_output([s EXCEPT !.forwarded = Append(@, m.id)], m, m.reply)

(* The process ends: an error of the callback, or end of file *)
Ends(s) == [s EXCEPT !.eof = TRUE]

(* netconf_hello_msg *)
netconf_hello_msg(s, m) ==
    LET h == [s EXCEPT !.hello = @ + 1, !.framing = IF 11 \in m.caps /\ BaseCap > 0 THEN "chunked" ELSE @]
    IN IF \/ m.session_id
          \/ 10 \notin m.caps /\ ~(11 \in m.caps /\ BaseCap > 0)
          \/ PrivateCand /\ "priv" \notin m.caps
       THEN Ends(h) ELSE h

(* A subtree filter is applied here, to data and not to an error *)
netconf_get_config_subtree(m) == IF m.filter = "subtree" /\ m.reply = "data" THEN "filtered" ELSE m.reply

netconf_get(s, m) ==
    CASE m.filter \in {"none", "subtree"} ->
           netconf_output([s EXCEPT !.forwarded = Append(@, m.id)], m, netconf_get_config_subtree(m))
      [] m.filter = "xpath" -> clicon_rpc_netconf_xml(s, m)
      [] OTHER -> netconf_output(s, m, "operation-failed")

netconf_get_config(s, m) == netconf_get(s, m)

(* get_edit_opts: other than test-then-set and stop-on-error is not supported *)
get_edit_opts(m) == [valid |-> m.opts # "invalid", default |-> m.opts # "other"]

netconf_edit_config(s, m) ==
    CASE ~get_edit_opts(m).valid -> netconf_output(s, m, "invalid-value")
      [] get_edit_opts(m).valid /\ ~get_edit_opts(m).default -> netconf_output(s, m, "operation-not-supported")
      [] OTHER -> clicon_rpc_netconf_xml(s, m)

(* netconf_create_subscription: over a socket of its own, on which the      *)
(* notifications come                                                       *)
netconf_create_subscription(s, m) ==
    IF m.filter \notin {"none", "xpath"} THEN netconf_output(s, m, "operation-failed")
    ELSE clicon_rpc_netconf_xml([s EXCEPT !.subs = @ + IF m.reply = "ok" THEN 1 ELSE 0], m)

(* netconf_application_rpc: a callback of a plugin of the front end, if     *)
(* there is one, or the backend; unknown is answered here                   *)
netconf_application_rpc(s, m) ==
    CASE m.known = "local" -> netconf_output(s, m, "local")
      [] m.known = "backend" -> clicon_rpc_netconf_xml(s, m)
      [] OTHER -> netconf_output(s, m, "operation-failed")

netconf_rpc_dispatch(s, m) ==
    CASE m.op \in {"copy-config", "delete-config", "lock", "unlock", "kill-session", "validate", "commit",
                   "cancel-commit", "discard-changes", "action"} -> clicon_rpc_netconf_xml(s, m)
      [] m.op = "get" -> netconf_get(s, m)
      [] m.op = "get-config" -> netconf_get_config(s, m)
      [] m.op = "edit-config" -> netconf_edit_config(s, m)
      [] m.op = "close-session" -> Ends(clicon_rpc_netconf_xml(s, m))
      [] m.op = "create-subscription" -> netconf_create_subscription(s, m)
      [] OTHER -> netconf_application_rpc(s, m)

netconf_rpc_message(s, m) ==
    CASE s.hello = 0 /\ ~HelloOptional -> Ends(netconf_output(s, m, "operation-failed"))
      [] (s.hello > 0 \/ HelloOptional) /\ ~m.valid -> netconf_output(s, m, "rpc-error")
      [] OTHER -> netconf_rpc_dispatch(s, m)

netconf_input_packet(s, m) ==
    CASE m.name = "rpc" /\ ~m.ns -> netconf_output(s, m, "unknown-namespace")
      [] m.name = "rpc" /\ m.ns -> netconf_rpc_message(s, m)
      [] m.name = "hello" /\ m.ns -> netconf_hello_msg(s, m)
      [] OTHER -> Ends(s)

(* netconf_input_frame2: the message, if the body is one *)
Known == Messages
netconf_input_frame2(body) == {m \in Known : m.body = body}

Frame(s, body) ==
    LET ms == netconf_input_frame2(body)
    IN IF ms = {} THEN netconf_output(s, [id |-> "?"], "operation-failed")
       ELSE netconf_input_packet(s, CHOOSE m \in ms : TRUE)

(* A message is complete, or not *)
Taken(s, body, complete) ==
    IF complete THEN Frame([s EXCEPT !.msg = <<>>], body) ELSE [s EXCEPT !.msg = body]

(* netconf_input_msg2 for one character *)
netconf_input_msg2(s, ch) ==
    IF s.framing = "eom"
    THEN LET d == detect_endtag(ch, s.state)
             body == Append(s.msg, ch)
         IN Taken([s EXCEPT !.state = d.state],
                  IF d.found THEN SubSeq(body, 1, Len(body) - Len(Eom)) ELSE body, d.found)
    ELSE LET c == netconf_input_chunked_framing(ch, s.state, s.size)
             t == [s EXCEPT !.state = c.state, !.size = c.size]
         IN IF c.ret = -1 THEN Ends(t)
            ELSE Taken(t, IF c.ret = 1 THEN Append(s.msg, ch) ELSE s.msg, c.ret = 2)

(* Mutant: what was read of an incomplete message is not kept for the next  *)
(* callback                                                                 *)
netconf_input_cb_drops(n) ==
    /\ ~ns.eof
    /\ n <= Len(wire)
    /\ ns' = [FoldLeft(LAMBDA s, ch : IF s.eof THEN s ELSE netconf_input_msg2(s, ch), ns, SubSeq(wire, 1, n))
                EXCEPT !.msg = <<>>]
    /\ wire' = SubSeq(wire, n + 1, Len(wire))
    /\ UNCHANGED <<script, nsent, nwire, noted>>

(* netconf_input_cb: n characters are read *)
netconf_input_cb(n) ==
    /\ ~ns.eof
    /\ n <= Len(wire)
    /\ ns' = FoldLeft(LAMBDA s, ch : IF s.eof THEN s ELSE netconf_input_msg2(s, ch), ns, SubSeq(wire, 1, n))
    /\ wire' = SubSeq(wire, n + 1, Len(wire))
    /\ UNCHANGED <<script, nsent, nwire, noted>>

(* The client sends its next message, framed as the hellos have agreed      *)
ClientSend ==
    /\ nsent < Len(script)
    /\ LET x == script[nsent + 1]
       IN wire' = wire \o netconf_output_encap(x.framing, x.m.body, x.chunks)
    /\ nsent' = nsent + 1
    /\ UNCHANGED <<script, ns, nwire, noted>>

(* send_msg_notify: the backend writes a notification to a subscriber *)
send_msg_notify ==
    /\ ns.subs > 0 /\ ~ns.eof
    /\ Len(noted) + Len(nwire) < MaxNotes
    /\ nwire' = Append(nwire, IF nwire = <<>> THEN (IF noted = <<>> THEN 1 ELSE Last(noted) + 1) ELSE Last(nwire) + 1)
    /\ UNCHANGED <<wire, script, nsent, ns, noted>>

(* clixon_msg_rcv11 reads until a message ends where a read does, so k      *)
(* messages may come as one                                                 *)
clixon_msg_rcv11(msgs, k) == SubSeq(msgs, 1, k)

(* netconf_notification_cb: the first of what came is passed on *)
netconf_notification_cb(k) ==
    /\ ~ns.eof
    /\ k <= Len(nwire)
    /\ noted' = Append(noted, Head(clixon_msg_rcv11(nwire, k)))
    /\ nwire' = SubSeq(nwire, k + 1, Len(nwire))
    /\ UNCHANGED <<wire, script, nsent, ns>>

NcInit ==
    /\ wire = <<>> /\ nwire = <<>> /\ noted = <<>>
    /\ ns = NoSession /\ nsent = 0
    /\ script \in Scripts

NcNext ==
    \/ ClientSend
    \/ \E n \in 1..BufSize : netconf_input_cb(n)
    \/ send_msg_notify
    \/ \E k \in 1..MaxNotes : netconf_notification_cb(k)

------------------------------------------------------------------------------
(* The session that handles the messages one by one, as they were sent *)
Handling(msgs) ==
    FoldLeft(LAMBDA s, x : IF s.eof THEN s ELSE Frame(s, x.m.body), NoSession, msgs)

(* Wherever reads split the stream, and whether a client waits for answers  *)
(* or sends ahead, the messages are handled one by one, in order, each once *)
(* and in the framing agreed on, and none after the session has ended.      *)
(* Notifications are passed on in order, none twice; some may be left out,  *)
(* see clixon_msg_rcv11.                                                    *)
MessagesInOrder ==
    /\ LET all == Handling(SubSeq(script, 1, nsent))
       IN /\ IsPrefix(ns.out, all.out)
          /\ IsPrefix(ns.forwarded, all.forwarded)
          /\ wire = <<>> => /\ ns.out = all.out
                            /\ ns.forwarded = all.forwarded
                            /\ ns.framing = all.framing
                            /\ ns.msg = <<>>
    /\ \A i, j \in DOMAIN noted : i < j => noted[i] < noted[j]
==============================================================================
