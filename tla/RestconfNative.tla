--------------------------- MODULE RestconfNative ----------------------------
(* The native RESTCONF daemon as a server of connections: its listening and  *)
(* call-home sockets, TLS accept, HTTP/1 input with its header timer, HTTP/2 *)
(* streams, event streams with the backend socket and timer they register,   *)
(* and the closing of a connection from each of the callbacks that may do    *)
(* it.  Request handlers proper are in Restconf; here a request is its kind. *)
(* The handler of a socket reads until a request is whole, so one callback   *)
(* is one action.                                                            *)
EXTENDS Integers

CONSTANTS
  SocketConf,   \* restconf_socket: name -> [ssl, callhome, periodic, idle, max]
  MaxConns,     \* bound on the connections made in a behaviour
  MaxRequests,  \* bound on the requests sent in a behaviour
  MaxFails,     \* bound on the failed connects counted for a persistent call-home
  Http2Plain    \* CLICON_RESTCONF_HTTP2_PLAIN
VARIABLE rn

Socks == SocketConf
NoParams == [req |-> 0, kind |-> "none", clen |-> 0]

(* up: phase of main; home: call-home state per socket, with the number of   *)
(* registered callhome timers; conns: the live restconf_conn structs; ev:    *)
(* the events registered with a connection as argument, <<kind, conn, fd>>;  *)
(* params: the http parameters kept in the handle, shared by all requests;   *)
(* begun: requests whose header has been read and whose body has not; and    *)
(* of the past only: last, the last request run and whether it is the one    *)
(* that asked for it, and mixed, what clients did that the daemon does not keep apart.      *)
RnInit ==
  rn = [up |-> "start", home |-> [k \in DOMAIN Socks |-> [timers |-> 0, attempts |-> 0, used |-> FALSE]],
        conns |-> <<>>, ev |-> {}, params |-> NoParams, begun |-> {}, nr |-> 0, req |-> 0, fds |-> 0,
        last |-> [own |-> TRUE, kind |-> "none", whole |-> TRUE], mixed |-> {}]
RnRests == rn = [up |-> "rests"]

Unreg(s, e) == [s EXCEPT !.ev = @ \ {e}]
Reg(s, e) == [s EXCEPT !.ev = @ \cup {e}]

----------------------------------------------------------------------------
(* Timers of a connection and of a call-home socket                          *)

restconf_header_timer_reg(s, c) ==
  IF s.conns[c].header THEN s ELSE [Reg(s, <<"header", c, 0>>) EXCEPT !.conns[c].header = TRUE]
restconf_header_timer_unreg_none(s, c) == [s EXCEPT !.conns[c].header = FALSE]
restconf_header_timer_unreg(s, c) ==
  IF ~s.conns[c].header THEN s ELSE [Unreg(s, <<"header", c, 0>>) EXCEPT !.conns[c].header = FALSE]
restconf_idle_timer_unreg(s, c) == Unreg(s, <<"idle", c, 0>>)
restconf_idle_timer(s, c) == [Reg(s, <<"idle", c, 0>>) EXCEPT !.conns[c].active = FALSE]

(* After a connection that was up, or after the last attempt, a periodic     *)
(* call-home waits for its next period and counts attempts anew              *)
restconf_callhome_timer(s, k, status) ==
  LET next == Socks[k].periodic /\ (status = 1 \/ s.home[k].attempts >= Socks[k].max) IN
  [s EXCEPT !.home[k].timers = @ + 1, !.home[k].attempts = IF next THEN 0 ELSE @]

----------------------------------------------------------------------------
(* Closing                                                                   *)

(* stream_close: the registration of rc_event_stream and one stream timer    *)
stream_close(s, c) ==
  LET timers == {e \in s.ev : e[1] = "end" /\ e[2] = c}
      first == {e \in timers : \A f \in timers : e[3] <= f[3]} IN
  [s EXCEPT !.ev = (@ \ {<<"stream", c, s.conns[c].es>>}) \ first, !.conns[c].es = 0]

restconf_connection_close1(s, c) ==
  LET k == s.conns[c].sock
      quiet == restconf_header_timer_unreg(Unreg(s, <<"read", c, 0>>), c)
      homed == IF ~Socks[k].callhome THEN quiet
               ELSE restconf_callhome_timer(IF Socks[k].periodic THEN restconf_idle_timer_unreg(quiet, c) ELSE quiet, k, 1) IN
  IF homed.conns[c].es # 0 THEN stream_close(homed, c) ELSE homed

restconf_conn_free(s, c) ==
  [s EXCEPT !.conns = [d \in DOMAIN @ \ {c} |-> @[d]],
            !.begun = {b \in @ : b[1] # c},
            !.mixed = IF \E b \in s.begun : b[1] = c THEN @ \cup {"interrupted"} ELSE @]

restconf_close_ssl_socket(s, c) == restconf_conn_free(restconf_connection_close1(s, c), c)

----------------------------------------------------------------------------
(* Running a request                                                         *)

Mixing(s) == IF s.begun # {} THEN {"interrupted"} ELSE {}

(* A request is begun by its header: the parameters of the handle are set,   *)
(* and a header without Content-Length leaves the one that is there          *)
BeginRequest(s, c, kind) ==
  LET r == s.req + 1 IN
  [s EXCEPT !.req = r, !.begun = @ \cup {<<c, r>>},
            !.params = [req |-> r, kind |-> kind, clen |-> IF kind = "post" THEN 1 ELSE s.params.clen],
            !.mixed = @ \cup Mixing(s)]

http1_native_clear_input(s) == [s EXCEPT !.params = NoParams]

(* The socket of a new subscription is registered for the stream, and a      *)
(* timer if the socket has a stream timeout                                  *)
stream_sockets_setup(s, c, timeout, fd) ==
  LET t == [Reg(s, <<"stream", c, fd>>) EXCEPT !.conns[c].es = fd, !.fds = fd] IN
  IF timeout THEN Reg(t, <<"end", c, fd>>) ELSE t

(* The socket of the subscription, none if the backend refused it            *)
restconf_subscription(s, subscribed) == IF subscribed THEN s.fds + 1 ELSE -1

api_stream(s, c, subscribed, timeout) ==
  LET besock == restconf_subscription(s, subscribed) IN
  IF besock # -1 THEN stream_sockets_setup(s, c, timeout, besock) ELSE s

(* restconf_connection_sanity: a peer whose certificate does not verify, or  *)
(* plain HTTP/2 where it is not enabled, is refused                          *)
restconf_connection_sanity(s, c) ==
  LET x == s.conns[c] IN
  /\ x.ssl \/ x.proto # 2 \/ Http2Plain
  /\ x.ssl => x.cert

(* The request in the parameters runs on behalf of request own of c.  The    *)
(* reply is whole when it has a length or an end: not after rc_event_stream  *)
(* is set                                                                    *)
Run(s, c, own, subscribed, timeout) ==
  LET sane == restconf_connection_sanity(s, c)
      t == [s EXCEPT !.last = [own |-> own = s.params.req, kind |-> s.params.kind, whole |-> TRUE],
                     !.begun = @ \ {<<c, own>>},
                     !.mixed = IF s.conns[c].es # 0 THEN @ \cup {"shared"} ELSE @]
      u == IF ~sane THEN [t EXCEPT !.conns[c].exit = TRUE]
           ELSE IF s.params.kind = "stream" THEN api_stream(t, c, subscribed, timeout) ELSE t IN
  [u EXCEPT !.params = NoParams, !.last.whole = u.conns[c].es = 0]

----------------------------------------------------------------------------
(* HTTP/1                                                                    *)

(* Upgrade to HTTP/2: the parameters stay for the same request to be run on  *)
(* stream 1                                                                  *)
http1_upgrade_http2(s, c) == s.params.kind = "upgrade" /\ Http2Plain /\ restconf_connection_sanity(s, c)
restconf_http2_upgrade(s, c, own) ==
  Run([s EXCEPT !.conns[c].proto = 2, !.params.kind = "get"], c, own, FALSE, FALSE)

(* The reply is written: the connection ends if the peer is gone or refused  *)
Http1Replied(s, c, written) ==
  IF ~written \/ s.conns[c].exit THEN restconf_close_ssl_socket(s, c) ELSE [s EXCEPT !.conns[c].part = FALSE]

(* A whole request: run, and reply                                           *)
restconf_http1_path_root(s, c, own, subscribed, timeout, written) ==
  IF http1_upgrade_http2(s, c)
  THEN IF written THEN restconf_http2_upgrade([s EXCEPT !.conns[c].part = FALSE], c, own)
       ELSE restconf_close_ssl_socket(s, c)
  ELSE Http1Replied(Run(s, c, own, subscribed, timeout), c, written)

(* http1_check_content_length before the input is looked at: status 1        *)
BodyExpected(s) == s.params.clen > 0

(* One run of the handler.  in is what the peer sends before the handler     *)
(* returns: part of a header, a whole request, one that does not parse, one  *)
(* whose body is too large, or one broken off in its body                    *)
restconf_http1_process(s, c, in, subscribed, timeout, written) ==
  LET head == restconf_header_timer_unreg(s, c) IN
  IF BodyExpected(s)
  THEN restconf_http1_path_root([s EXCEPT !.req = @ + 1, !.mixed = @ \cup Mixing(s)],
                                c, s.req + 1, subscribed, timeout, written)
  ELSE CASE in = "part" -> [restconf_header_timer_reg(s, c) EXCEPT !.conns[c].part = TRUE]
         [] in = "bad" -> restconf_close_ssl_socket(http1_native_clear_input(head), c)
         [] in = "huge" -> LET t == BeginRequest(head, c, "post") IN
              restconf_close_ssl_socket([http1_native_clear_input(t) EXCEPT !.begun = @ \ {<<c, t.req>>}], c)
         [] in = "aborted" -> restconf_close_ssl_socket(BeginRequest(head, c, "post"), c)
         [] OTHER -> restconf_http1_path_root(BeginRequest(head, c, in), c, s.req + 1, subscribed, timeout, written)

----------------------------------------------------------------------------
(* HTTP/2                                                                    *)

(* http2_exec with no path in the parameters fails, and the daemon with it   *)
http2_exec(s, c, own, subscribed, timeout) ==
  IF s.params.req = 0 THEN [s EXCEPT !.up = "end"] ELSE Run(s, c, own, subscribed, timeout)

(* The frames of one read: the header of a request with a body, the end of   *)
(* such a body, or a request without a body                                  *)
restconf_http2_process(s, c, in, own, subscribed, timeout) ==
  CASE s.conns[c].exit -> s
    [] ~s.conns[c].exit /\ in = "bad" -> restconf_close_ssl_socket(s, c)
    [] ~s.conns[c].exit /\ in = "header" -> BeginRequest(s, c, "post")
    [] ~s.conns[c].exit /\ in = "data" -> http2_exec(s, c, own, subscribed, timeout)
    [] OTHER -> http2_exec(BeginRequest(s, c, in), c, s.req + 1, subscribed, timeout)

----------------------------------------------------------------------------
(* Accepting                                                                 *)

restconf_conn_new(s, k, proto, cert) ==
  [s EXCEPT !.nr = @ + 1,
            !.conns = [c \in DOMAIN @ \cup {s.nr + 1} |->
              IF c \in DOMAIN @ THEN @[c]
              ELSE [sock |-> k, ssl |-> Socks[k].ssl, cert |-> cert, proto |-> proto, header |-> FALSE,
                    part |-> FALSE, exit |-> FALSE, es |-> 0, active |-> FALSE]]]

(* The session of the negotiated protocol is set up and the socket watched   *)
Watched(s, c) == Reg(s, <<"read", c, 0>>)

(* The handshake fails, no common protocol is negotiated or the HTTP/2       *)
(* session cannot be set up: the connection is closed before it is watched   *)
restconf_ssl_accept_client(s, k, proto, cert) ==
  LET t == restconf_conn_new(s, k, proto, cert) IN
  IF proto = 0 THEN restconf_close_ssl_socket(t, t.nr) ELSE Watched(t, t.nr)
ssl_alpn_check(k) == IF Socks[k].ssl THEN {0, 1, 2} ELSE {1}

----------------------------------------------------------------------------
(* The callbacks                                                             *)

Running_rn == rn.up = "run"
Live(c) == c \in DOMAIN rn.conns

(* main: the configuration comes from the backend or from a file; without a  *)
(* valid one the daemon ends.  openssl_init_socket: a call-home socket must  *)
(* use TLS; a listening socket whose address is not available is skipped     *)
RnStart ==
  /\ rn.up = "start"
  /\ \/ rn' = [rn EXCEPT !.up = "end"]
     \/ \E missing \in SUBSET {k \in DOMAIN Socks : ~Socks[k].callhome} :
          rn' = [rn EXCEPT !.up = IF \E k \in DOMAIN Socks : Socks[k].callhome /\ ~Socks[k].ssl THEN "end" ELSE "run",
                           !.home = [k \in DOMAIN Socks |->
                             [@[k] EXCEPT !.timers = IF Socks[k].callhome THEN 1 ELSE 0, !.used = k \notin missing]]]

restconf_accept_client ==
  /\ Running_rn /\ rn.nr < MaxConns
  /\ \E k \in DOMAIN Socks, cert \in BOOLEAN :
       /\ ~Socks[k].callhome /\ rn.home[k].used
       /\ cert \/ Socks[k].ssl
       /\ \E proto \in ssl_alpn_check(k) : rn' = restconf_ssl_accept_client(rn, k, proto, cert)

restconf_callhome_cb ==
  /\ Running_rn
  /\ \E k \in DOMAIN Socks :
       /\ rn.home[k].timers > 0
       /\ LET s == [rn EXCEPT !.home[k].timers = @ - 1] IN
          \/ /\ Socks[k].periodic \/ rn.home[k].attempts < MaxFails
             /\ rn' = restconf_callhome_timer([s EXCEPT !.home[k].attempts = (@ + 1) % 256], k, 0)
          \/ /\ rn.nr < MaxConns
             /\ \E proto \in ssl_alpn_check(k), cert \in BOOLEAN :
                  LET t == restconf_ssl_accept_client([s EXCEPT !.home[k].attempts = 0], k, proto, cert) IN
                  rn' = IF proto # 0 /\ Socks[k].periodic /\ Socks[k].idle THEN restconf_idle_timer(t, t.nr) ELSE t

(* Input on the socket of a connection                                       *)
restconf_connection ==
  /\ Running_rn
  /\ \E c \in DOMAIN rn.conns, subscribed, timeout, written \in BOOLEAN :
       LET s == [rn EXCEPT !.conns[c].active = TRUE] IN
       /\ <<"read", c, 0>> \in rn.ev
       /\ timeout => subscribed
       /\ \/ /\ ~subscribed /\ written
             /\ rn' = restconf_close_ssl_socket(s, c)
          \/ /\ rn.conns[c].proto = 1 /\ rn.req < MaxRequests
             /\ \E in \in {"part", "bad", "huge", "aborted", "get", "post", "stream", "upgrade"} :
                  /\ subscribed => in = "stream" \/ BodyExpected(s)
                  /\ written \/ in \in {"get", "post", "stream", "upgrade"}
                  /\ rn' = restconf_http1_process(s, c, in, subscribed, timeout, written)
          \/ /\ rn.conns[c].proto = 2 /\ written
             /\ \E in \in {"bad", "header", "get", "stream"} :
                  /\ rn.req < MaxRequests
                  /\ subscribed => in = "stream"
                  /\ rn' = restconf_http2_process(s, c, in, 0, subscribed, timeout)
          \/ /\ rn.conns[c].proto = 2 /\ written
             /\ \E b \in rn.begun :
                  /\ b[1] = c
                  /\ subscribed => rn.params.kind = "stream"
                  /\ rn' = restconf_http2_process(s, c, "data", b[2], subscribed, timeout)

restconf_header_timeout_cb ==
  /\ Running_rn
  /\ \E c \in DOMAIN rn.conns :
       /\ <<"header", c, 0>> \in rn.ev
       /\ rn' = restconf_close_ssl_socket([Unreg(rn, <<"header", c, 0>>) EXCEPT !.conns[c].header = FALSE], c)

(* Closed if nothing was read since the timer was set, else set again        *)
restconf_idle_cb ==
  /\ Running_rn
  /\ \E c \in DOMAIN rn.conns :
       /\ <<"idle", c, 0>> \in rn.ev
       /\ LET s == Unreg(rn, <<"idle", c, 0>>) IN
          rn' = IF rn.conns[c].active THEN restconf_idle_timer(s, c) ELSE restconf_close_ssl_socket(s, c)

(* A notification is written to the peer; the end of the backend's socket    *)
(* closes the connection.  A registration that outlived its connection       *)
(* reads freed memory: the daemon is taken to end                            *)
stream_native_backend_cb ==
  /\ Running_rn
  /\ \E e \in rn.ev :
       /\ e[1] = "stream"
       /\ rn' = IF Live(e[2]) THEN restconf_close_ssl_socket(rn, e[2]) ELSE [rn EXCEPT !.up = "end"]
stream_timeout_end ==
  /\ Running_rn
  /\ \E e \in rn.ev :
       /\ e[1] = "end"
       /\ rn' = IF Live(e[2]) THEN restconf_close_ssl_socket([Unreg(rn, e) EXCEPT !.conns[e[2]].exit = TRUE], e[2])
                ELSE [rn EXCEPT !.up = "end"]

(* SIGTERM: the event loop ends, every socket, connection and timer is gone  *)
restconf_native_terminate ==
  /\ Running_rn
  /\ rn' = [rn EXCEPT !.up = "end", !.conns = <<>>, !.ev = {}, !.begun = {}, !.params = NoParams,
                      !.home = [k \in DOMAIN Socks |-> [@[k] EXCEPT !.timers = 0]]]

RnNext ==
  \/ RnStart
  \/ restconf_accept_client
  \/ restconf_callhome_cb
  \/ restconf_connection
  \/ restconf_header_timeout_cb
  \/ restconf_idle_cb
  \/ stream_native_backend_cb
  \/ stream_timeout_end
  \/ restconf_native_terminate

----------------------------------------------------------------------------
(* While the daemon runs, whatever order timers, peers and the backend act   *)
(* in: a call-home socket has either its timer or one connection, never none *)
(* (the peer would not be called again) and never two; a connection is       *)
(* watched, and has a header, idle or stream registration exactly when its   *)
(* struct says so; no registration outlives its connection.  A request runs  *)
(* with its own parameters and is answered in full.  Two uses are left out,  *)
(* which the code does not keep apart: requests that overlap or break off    *)
(* share the parameters of the handle, and a connection with an event stream *)
(* takes no further request (restconf_connection_close1, callhome_timer,     *)
(* stream_close, restconf_http1_process).                                    *)
ConnectionsTended ==
  rn.up = "run" =>
    /\ \A k \in DOMAIN Socks : Socks[k].callhome =>
         LET own == {c \in DOMAIN rn.conns : rn.conns[c].sock = k} IN
         \/ rn.home[k].timers = 1 /\ own = {}
         \/ rn.home[k].timers = 0 /\ \E c \in own : own = {c}
    /\ \A c \in DOMAIN rn.conns :
         LET x == rn.conns[c] IN
         /\ <<"read", c, 0>> \in rn.ev
         /\ x.header <=> <<"header", c, 0>> \in rn.ev
         /\ x.part => x.header
         /\ Socks[x.sock].callhome /\ Socks[x.sock].periodic /\ Socks[x.sock].idle <=> <<"idle", c, 0>> \in rn.ev
         /\ x.es # 0 => <<"stream", c, x.es>> \in rn.ev
    /\ "shared" \notin rn.mixed =>
         /\ \A e \in rn.ev : Live(e[2]) /\ (e[1] \in {"stream", "end"} => rn.conns[e[2]].es = e[3])
         /\ rn.last.kind # "stream" => rn.last.whole
    /\ "interrupted" \notin rn.mixed => rn.last.own
=============================================================================
