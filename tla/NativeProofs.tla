---------------------------- MODULE NativeProofs ----------------------------
(* Proofs about the native HTTP server of the RESTCONF daemon: the          *)
(* connections, the callbacks registered for them, and their requests.      *)
EXTENDS RestconfNative, TLAPS

------------------------------------------------------------------------------
(* The RESTCONF daemon.  What a callback does to the daemon is a function of *)
(* its state s: the properties are stated of a state, so that they can be    *)
(* followed through the calls a callback makes.                              *)

NativeSpec == RnInit /\ [][RnNext]_rn

Fields == {"up", "home", "conns", "ev", "params", "begun", "nr", "req", "fds", "last", "mixed"}

Conn(x) ==
    /\ DOMAIN x = {"sock", "ssl", "cert", "proto", "header", "part", "exit", "es", "active"}
    /\ x.sock \in DOMAIN Socks /\ x.es \in Nat /\ x.header \in BOOLEAN

Event(s, e) ==
    /\ e = <<e[1], e[2], e[3]>> /\ e[2] \in 1..s.nr /\ e[3] \in Nat
    /\ IF e[1] \in {"stream", "end"} THEN e[3] # 0 ELSE e[1] \in {"read", "header", "idle"} /\ e[3] = 0

Shape(s) ==
    /\ DOMAIN s = Fields
    /\ DOMAIN s.home = DOMAIN Socks
    /\ \A k \in DOMAIN Socks : DOMAIN s.home[k] = {"timers", "attempts", "used"} /\ s.home[k].timers \in Nat
    /\ s.nr \in Nat /\ s.fds \in Nat
    /\ DOMAIN s.conns \subseteq 1..s.nr /\ \A c \in DOMAIN s.conns : Conn(s.conns[c])
    /\ \A e \in s.ev : Event(s, e)
    /\ DOMAIN s.last = {"own", "kind", "whole"}

(* A call-home socket waits for its timer or has its one connection *)
CalledAt(s, k) ==
    IF Socks[k].callhome
    THEN \/ s.home[k].timers = 1 /\ \A c \in DOMAIN s.conns : s.conns[c].sock # k
         \/ /\ s.home[k].timers = 0
            /\ \E c \in DOMAIN s.conns : \A d \in DOMAIN s.conns : s.conns[d].sock = k <=> d = c
    ELSE s.home[k].timers = 0

CalledHome(s) == \A k \in DOMAIN Socks : CalledAt(s, k)

Idles(k) == Socks[k].callhome /\ Socks[k].periodic /\ Socks[k].idle

(* The timers of connection c are those its struct knows of *)
Timed(s, c) ==
    /\ s.conns[c].header <=> <<"header", c, 0>> \in s.ev
    /\ Idles(s.conns[c].sock) <=> <<"idle", c, 0>> \in s.ev

Watches(s, c) ==
    /\ Timed(s, c) /\ <<"read", c, 0>> \in s.ev
    /\ s.conns[c].es # 0 => <<"stream", c, s.conns[c].es>> \in s.ev

(* Without a second request on a connection with an event stream *)
Clean(s) ==
    "shared" \notin s.mixed =>
        /\ \A e \in s.ev : e[2] \in DOMAIN s.conns /\ (e[1] \in {"stream", "end"} => s.conns[e[2]].es = e[3])
        /\ s.last.kind # "stream" => s.last.whole

(* Without requests that overlap, the parameters are those of the request    *)
(* that is begun                                                             *)
Parted(s) ==
    \/ s.begun = {} /\ s.params = NoParams
    \/ \E b \in s.begun : /\ b = <<b[1], b[2]>> /\ s.begun = {b}
                          /\ s.params.req = b[2] /\ s.params.clen = 1

Apart(s) == "interrupted" \notin s.mixed => s.last.own /\ Parted(s)

(* The connections and events of a state, and which of them have no part of  *)
(* a request: all but those in X, whose request is being handled             *)
Sound(s, X) ==
    /\ Shape(s) /\ CalledHome(s) /\ Clean(s)
    /\ \A c \in DOMAIN s.conns : Watches(s, c)
    /\ \A c \in DOMAIN s.conns \ X : s.conns[c].part => s.conns[c].header

Tidy(s) == Sound(s, {}) /\ Apart(s)

Fresh(s) ==
    /\ Shape(s) /\ Clean(s) /\ Apart(s)
    /\ s.conns = <<>> /\ s.ev = {}

NativeInv ==
    /\ rn.up = "start" => Fresh(rn)
    /\ rn.up = "run" => Tidy(rn)

------------------------------------------------------------------------------
(* A step that makes and ends no connection *)
LEMMA SoundBy ==
    ASSUME NEW s, NEW t, NEW X, NEW Y, Sound(s, X), DOMAIN t = Fields,
           t.home = s.home, t.nr = s.nr, t.fds \in Nat, DOMAIN t.last = {"own", "kind", "whole"},
           DOMAIN t.conns = DOMAIN s.conns,
           \A c \in DOMAIN s.conns : Conn(t.conns[c]) /\ t.conns[c].sock = s.conns[c].sock,
           \A e \in t.ev : e \in s.ev \/ Event(s, e),
           Clean(t), \A c \in DOMAIN s.conns : Watches(t, c),
           \A c \in DOMAIN s.conns \ Y : t.conns[c].part => t.conns[c].header
    PROVE  Sound(t, Y)
<1>1. Shape(s) /\ CalledHome(s)
  BY DEF Sound
<1>2. \A e \in t.ev : Event(s, e)
  BY <1>1 DEF Shape
<1>3. \A e \in t.ev : Event(t, e)
  BY <1>2 DEF Event
<1>4. Shape(t)
  BY <1>1, <1>3 DEF Shape
<1>5. CalledHome(t)
  BY <1>1 DEF CalledHome, CalledAt
<1> QED
  BY <1>4, <1>5 DEF Sound

(* ... and leaves the event streams alone *)
LEMMA CleanBy ==
    ASSUME NEW s, NEW t, Clean(s),
           DOMAIN t.conns = DOMAIN s.conns, \A c \in DOMAIN s.conns : t.conns[c].es = s.conns[c].es,
           \A e \in t.ev : e \in s.ev \/ (e[2] \in DOMAIN s.conns /\ e[1] \notin {"stream", "end"}),
           "shared" \notin t.mixed =>
               "shared" \notin s.mixed /\ (t.last.kind # "stream" => t.last.whole)
    PROVE  Clean(t)
<1> SUFFICES ASSUME "shared" \notin t.mixed
             PROVE  \A e \in t.ev : e[2] \in DOMAIN t.conns /\
                       (e[1] \in {"stream", "end"} => t.conns[e[2]].es = e[3])
  BY DEF Clean
<1> SUFFICES ASSUME NEW e \in t.ev
             PROVE  e[2] \in DOMAIN t.conns /\ (e[1] \in {"stream", "end"} => t.conns[e[2]].es = e[3])
  OBVIOUS
<1>1. e \in s.ev => e[2] \in DOMAIN s.conns /\ (e[1] \in {"stream", "end"} => s.conns[e[2]].es = e[3])
  BY DEF Clean
<1> QED
  BY <1>1

(* Two connections of the same make *)
Alike(x, y) == Conn(x) /\ x.sock = y.sock /\ x.es = y.es /\ x.header = y.header

(* What a step leaves alone that touches no registration *)
LEMMA SoundKept ==
    ASSUME NEW s, NEW t, NEW X, NEW Y, Sound(s, X), DOMAIN t = Fields,
           t.home = s.home, t.ev = s.ev, t.nr = s.nr, t.fds = s.fds,
           DOMAIN t.last = {"own", "kind", "whole"},
           "shared" \notin t.mixed =>
               "shared" \notin s.mixed /\ (t.last.kind # "stream" => t.last.whole),
           DOMAIN t.conns = DOMAIN s.conns,
           \A c \in DOMAIN s.conns : Alike(t.conns[c], s.conns[c]),
           \A c \in DOMAIN s.conns \ Y : t.conns[c].part => t.conns[c].header
    PROVE  Sound(t, Y)
<1>1. Shape(s) /\ Clean(s) /\ \A c \in DOMAIN s.conns : Watches(s, c)
  BY DEF Sound
<1>2. \A c \in DOMAIN s.conns : Watches(t, c)
  BY <1>1, Zenon DEF Watches, Timed, Alike
<1>3. Clean(t)
  BY <1>1, CleanBy DEF Alike
<1>4. t.fds \in Nat
  BY <1>1 DEF Shape
<1> QED
  BY <1>2, <1>3, <1>4, SoundBy DEF Alike

(* restconf_header_timer_unreg: the registration goes with the mark *)
LEMMA HeaderOff ==
    ASSUME NEW s, NEW c, Sound(s, {}), c \in DOMAIN s.conns,
           NEW t, t = restconf_header_timer_unreg(s, c)
    PROVE  /\ Sound(t, {c})
           /\ t.up = s.up /\ t.params = s.params /\ t.begun = s.begun /\ t.req = s.req
           /\ t.last = s.last /\ t.mixed = s.mixed /\ DOMAIN t.conns = DOMAIN s.conns
<1> DEFINE h == <<"header", c, 0>>
<1>0. Shape(s) /\ Clean(s) /\ \A d \in DOMAIN s.conns : Watches(s, d)
  BY DEF Sound
<1>1. CASE ~s.conns[c].header
  <2>1. t = s
    BY <1>1 DEF restconf_header_timer_unreg
  <2> QED
    BY <2>1 DEF Sound
<1>2. CASE s.conns[c].header
  <2>1. t = [Unreg(s, h) EXCEPT !.conns[c].header = FALSE]
    BY <1>2 DEF restconf_header_timer_unreg
  <2>2. /\ DOMAIN t = Fields /\ t.home = s.home /\ t.nr = s.nr /\ t.fds = s.fds /\ t.up = s.up
        /\ t.params = s.params /\ t.begun = s.begun /\ t.req = s.req /\ t.last = s.last /\ t.mixed = s.mixed
        /\ t.ev = s.ev \ {h}
    BY <1>0, <2>1 DEF Unreg, Shape, Fields
  <2>3. /\ DOMAIN t.conns = DOMAIN s.conns
        /\ \A d \in DOMAIN s.conns : d # c => t.conns[d] = s.conns[d]
        /\ t.conns[c] = [s.conns[c] EXCEPT !.header = FALSE]
    BY <1>0, <2>1 DEF Unreg, Shape, Fields
  <2>4. /\ Conn(t.conns[c]) /\ t.conns[c].sock = s.conns[c].sock /\ t.conns[c].es = s.conns[c].es
        /\ t.conns[c].header = FALSE
    BY <1>0, <2>3 DEF Shape, Conn
  <2>5. \A d \in DOMAIN s.conns : Conn(t.conns[d]) /\ t.conns[d].sock = s.conns[d].sock /\ t.conns[d].es = s.conns[d].es
    BY <1>0, <2>3, <2>4, Zenon DEF Shape
  <2>6. "shared" \notin t.mixed => "shared" \notin s.mixed /\ (t.last.kind # "stream" => t.last.whole)
    BY <1>0, <2>2 DEF Clean
  <2>7. Clean(t)
    BY <1>0, <2>2, <2>3, <2>5, <2>6, CleanBy
  <2>8. \A d \in DOMAIN s.conns : Watches(t, d)
    BY <1>0, <2>2, <2>3, <2>4, Zenon DEF Watches, Timed
  <2>9. \A d \in DOMAIN s.conns \ {c} : t.conns[d].part => t.conns[d].header
    BY <2>3 DEF Sound
  <2>10. t.fds \in Nat /\ DOMAIN t.last = {"own", "kind", "whole"}
    BY <1>0, <2>2 DEF Shape
  <2>11. Sound(t, {c})
    BY <2>2, <2>3, <2>5, <2>7, <2>8, <2>9, <2>10, SoundBy
  <2> QED
    BY <2>2, <2>3, <2>11
<1> QED
  BY <1>0, <1>1, <1>2 DEF Shape, Conn

(* The header timer of c is registered *)
LEMMA HeaderRegistered ==
    ASSUME NEW s, NEW c, NEW t, Sound(s, {}), c \in DOMAIN s.conns,
           DOMAIN t = Fields, t.home = s.home, t.nr = s.nr, t.fds = s.fds,
           t.last = s.last, t.mixed = s.mixed, t.ev = s.ev \cup {<<"header", c, 0>>},
           DOMAIN t.conns = DOMAIN s.conns,
           \A d \in DOMAIN s.conns : d # c => t.conns[d] = s.conns[d],
           Conn(t.conns[c]), t.conns[c].sock = s.conns[c].sock, t.conns[c].es = s.conns[c].es,
           t.conns[c].header = TRUE
    PROVE  Sound(t, {})
<1> DEFINE h == <<"header", c, 0>>
<1>0. Shape(s) /\ Clean(s) /\ \A d \in DOMAIN s.conns : Watches(s, d)
  BY DEF Sound
<1>1. \A d \in DOMAIN s.conns : Conn(t.conns[d]) /\ t.conns[d].sock = s.conns[d].sock /\ t.conns[d].es = s.conns[d].es
  BY <1>0 DEF Shape
<1>2. Event(s, h) /\ h[2] = c /\ h[1] = "header"
  BY <1>0 DEF Shape, Event
<1>3. "shared" \notin t.mixed => "shared" \notin s.mixed /\ (t.last.kind # "stream" => t.last.whole)
  BY <1>0 DEF Clean
<1>4. Clean(t)
  <2>1. \A e \in t.ev : e \in s.ev \/ (e[2] \in DOMAIN s.conns /\ e[1] \notin {"stream", "end"})
    BY <1>2
  <2> QED
    BY <1>0, <1>1, <1>3, <2>1, CleanBy
<1>5. \A d \in DOMAIN s.conns : Watches(t, d)
  <2> SUFFICES ASSUME NEW d \in DOMAIN s.conns
               PROVE  Watches(t, d)
    OBVIOUS
  <2>1. Watches(s, d)
    BY <1>0
  <2>2. CASE d = c
    BY <2>1, <2>2 DEF Watches, Timed
  <2>3. CASE d # c
    BY <2>1, <2>3 DEF Watches, Timed
  <2> QED
    BY <2>2, <2>3
<1>6. \A d \in DOMAIN s.conns \ {} : t.conns[d].part => t.conns[d].header
  BY DEF Sound
<1>7. t.fds \in Nat /\ DOMAIN t.last = {"own", "kind", "whole"}
  BY <1>0 DEF Shape
<1>8. \A e \in t.ev : e \in s.ev \/ Event(s, e)
  BY <1>2
<1> QED
  BY <1>1, <1>4, <1>5, <1>6, <1>7, <1>8, SoundBy

(* restconf_header_timer_reg, for a header that is not whole *)
PartRead(s, c) == [restconf_header_timer_reg(s, c) EXCEPT !.conns[c].part = TRUE]

(* restconf_header_timer_reg, for a request that is read in part: the mark   *)
(* and the registration come together                                        *)
LEMMA HeaderOn ==
    ASSUME NEW s, NEW c, Sound(s, {}), c \in DOMAIN s.conns,
           NEW t, t = PartRead(s, c)
    PROVE  /\ Sound(t, {})
           /\ t.up = s.up /\ t.params = s.params /\ t.begun = s.begun
           /\ t.last = s.last /\ t.mixed = s.mixed
<1> DEFINE h == <<"header", c, 0>>
           u == restconf_header_timer_reg(s, c)
<1>0. Shape(s) /\ Watches(s, c)
  BY DEF Sound
<1>1. /\ DOMAIN u = Fields /\ u.home = s.home /\ u.nr = s.nr /\ u.fds = s.fds /\ u.up = s.up
      /\ u.params = s.params /\ u.begun = s.begun /\ u.last = s.last /\ u.mixed = s.mixed
      /\ u.ev = s.ev \cup {h}
      /\ DOMAIN u.conns = DOMAIN s.conns
      /\ \A d \in DOMAIN s.conns : d # c => u.conns[d] = s.conns[d]
      /\ Conn(u.conns[c]) /\ u.conns[c].sock = s.conns[c].sock /\ u.conns[c].es = s.conns[c].es
      /\ u.conns[c].header = TRUE
  <2>1. CASE s.conns[c].header
    BY <1>0, <2>1 DEF restconf_header_timer_reg, Shape, Watches, Timed, Conn
  <2>2. CASE ~s.conns[c].header
    <3>1. u = [Reg(s, h) EXCEPT !.conns[c].header = TRUE]
      BY <2>2 DEF restconf_header_timer_reg
    <3> HIDE DEF u
    <3>2. /\ DOMAIN u = Fields /\ u.home = s.home /\ u.nr = s.nr /\ u.fds = s.fds /\ u.up = s.up
          /\ u.params = s.params /\ u.begun = s.begun /\ u.last = s.last /\ u.mixed = s.mixed
          /\ u.ev = s.ev \cup {h}
      BY <1>0, <3>1 DEF Reg, Shape, Fields
    <3>3. /\ DOMAIN u.conns = DOMAIN s.conns
          /\ \A d \in DOMAIN s.conns : d # c => u.conns[d] = s.conns[d]
          /\ u.conns[c] = [s.conns[c] EXCEPT !.header = TRUE]
      BY <1>0, <3>1 DEF Reg, Shape, Fields
    <3> QED
      BY <1>0, <3>2, <3>3 DEF Shape, Conn
  <2> QED
    BY <2>1, <2>2, Zenon
<1> HIDE DEF u
<1>2. /\ DOMAIN t = Fields /\ t.home = s.home /\ t.nr = s.nr /\ t.fds = s.fds /\ t.up = s.up
      /\ t.params = s.params /\ t.begun = s.begun /\ t.last = s.last /\ t.mixed = s.mixed /\ t.ev = s.ev \cup {h}
  BY <1>1 DEF Fields, PartRead, u
<1>3. /\ DOMAIN t.conns = DOMAIN s.conns
      /\ \A d \in DOMAIN s.conns : d # c => t.conns[d] = s.conns[d]
      /\ t.conns[c] = [u.conns[c] EXCEPT !.part = TRUE]
  BY <1>1, Zenon DEF Fields, PartRead, u
<1>4. /\ Conn(t.conns[c]) /\ t.conns[c].sock = s.conns[c].sock /\ t.conns[c].es = s.conns[c].es
      /\ t.conns[c].header = TRUE
  BY <1>1, <1>3 DEF Conn
<1>5. Sound(t, {})
  BY <1>2, <1>3, <1>4, HeaderRegistered, Zenon
<1> QED
  BY <1>2, <1>5

Begun(s, t, X, c, kind) ==
    /\ Sound(t, X) /\ t.up = s.up /\ t.conns = s.conns /\ t.last = s.last
    /\ t.begun = s.begun \cup {<<c, s.req + 1>>} /\ t.req = s.req + 1
    /\ DOMAIN t.params = {"req", "kind", "clen"} /\ t.params.req = s.req + 1
    /\ kind = "post" => t.params.clen = 1
    /\ "interrupted" \notin t.mixed => "interrupted" \notin s.mixed /\ s.begun = {}

(* The header of a request: only the request and its parameters change *)
LEMMA Begins ==
    ASSUME NEW s, NEW X, NEW c, NEW kind, NEW t, Sound(s, X), t = BeginRequest(s, c, kind)
    PROVE  Begun(s, t, X, c, kind)
<1>0. Shape(s) /\ Clean(s)
  BY DEF Sound
<1>1. /\ DOMAIN t = Fields /\ t.home = s.home /\ t.nr = s.nr /\ t.fds = s.fds /\ t.up = s.up
      /\ t.conns = s.conns /\ t.ev = s.ev /\ t.last = s.last /\ t.req = s.req + 1
      /\ t.begun = s.begun \cup {<<c, s.req + 1>>}
  BY <1>0 DEF BeginRequest, Shape, Fields
<1>2. /\ t.params = [req |-> s.req + 1, kind |-> kind, clen |-> IF kind = "post" THEN 1 ELSE s.params.clen]
      /\ t.mixed = s.mixed \cup Mixing(s)
  BY <1>0 DEF BeginRequest, Shape, Fields
<1>3. "interrupted" \notin t.mixed => "interrupted" \notin s.mixed /\ s.begun = {}
  BY <1>2 DEF Mixing
<1>4. "shared" \notin t.mixed => "shared" \notin s.mixed /\ (t.last.kind # "stream" => t.last.whole)
  BY <1>0, <1>1, <1>2 DEF Clean
<1>5. \A d \in DOMAIN s.conns : Alike(t.conns[d], s.conns[d])
  BY <1>0, <1>1 DEF Shape, Alike
<1>6. \A d \in DOMAIN s.conns \ X : t.conns[d].part => t.conns[d].header
  BY <1>1 DEF Sound
<1>7. DOMAIN t.last = {"own", "kind", "whole"}
  BY <1>0, <1>1 DEF Shape
<1>8. Sound(t, X)
  BY <1>1, <1>4, <1>5, <1>6, <1>7, SoundKept
<1> QED
  BY <1>1, <1>2, <1>3, <1>8 DEF Begun

(* The socket of a subscription is registered, and maybe its timer *)
StreamAdded(s, t, c) ==
    /\ DOMAIN t = Fields /\ t.home = s.home /\ t.nr = s.nr /\ t.fds = s.fds + 1 /\ t.up = s.up
    /\ t.begun = s.begun /\ t.last = s.last /\ t.mixed = s.mixed
    /\ DOMAIN t.conns = DOMAIN s.conns
    /\ \A d \in DOMAIN s.conns : d # c => t.conns[d] = s.conns[d]
    /\ t.conns[c] = [s.conns[c] EXCEPT !.es = s.fds + 1]
    /\ s.ev \cup {<<"stream", c, s.fds + 1>>} \subseteq t.ev
    /\ t.ev \subseteq s.ev \cup {<<"stream", c, s.fds + 1>>, <<"end", c, s.fds + 1>>}

(* stream_sockets_setup: what is registered for a new event stream *)
LEMMA StreamSetUp ==
    ASSUME NEW s, NEW c, Shape(s), c \in DOMAIN s.conns,
           NEW subscribed, NEW timeout, NEW t, t = api_stream(s, c, subscribed, timeout)
    PROVE  t = s \/ StreamAdded(s, t, c)
<1> DEFINE fd == s.fds + 1
           r == [Reg(s, <<"stream", c, fd>>) EXCEPT !.conns[c].es = fd, !.fds = fd]
<1>1. CASE ~subscribed
  BY <1>1 DEF api_stream, restconf_subscription
<1>2. CASE subscribed
  <2>1. fd # -1
    BY DEF Shape
  <2>2. t = IF timeout THEN Reg(r, <<"end", c, fd>>) ELSE r
    BY <1>2, <2>1 DEF api_stream, restconf_subscription, stream_sockets_setup
  <2>3. /\ DOMAIN r = Fields /\ r.home = s.home /\ r.nr = s.nr /\ r.fds = fd /\ r.up = s.up
        /\ r.begun = s.begun /\ r.last = s.last /\ r.mixed = s.mixed
        /\ r.ev = s.ev \cup {<<"stream", c, fd>>}
    BY DEF Shape, Fields, Reg
  <2>4. /\ DOMAIN r.conns = DOMAIN s.conns
        /\ \A d \in DOMAIN s.conns : d # c => r.conns[d] = s.conns[d]
        /\ r.conns[c] = [s.conns[c] EXCEPT !.es = fd]
    BY DEF Shape, Fields, Reg
  <2> HIDE DEF r
  <2>5. CASE timeout
    BY <2>2, <2>3, <2>4, <2>5 DEF Reg, Fields, StreamAdded
  <2>6. CASE ~timeout
    BY <2>2, <2>3, <2>4, <2>6 DEF StreamAdded
  <2> QED
    BY <2>5, <2>6
<1> QED
  BY <1>1, <1>2

(* api_stream on a connection with no event stream before, unless that is    *)
(* remembered as shared                                                      *)
LEMMA StreamSound ==
    ASSUME NEW s, NEW X, NEW c, Sound(s, X), c \in DOMAIN s.conns,
           s.conns[c].es = 0 \/ "shared" \in s.mixed, s.last.kind = "stream",
           NEW subscribed, NEW timeout, NEW t, t = api_stream(s, c, subscribed, timeout)
    PROVE  /\ Sound(t, X) /\ t.up = s.up /\ t.begun = s.begun /\ t.last = s.last /\ t.mixed = s.mixed
           /\ DOMAIN t.conns = DOMAIN s.conns
<1> DEFINE fd == s.fds + 1
           e1 == <<"stream", c, fd>>
           e2 == <<"end", c, fd>>
<1>0. Shape(s) /\ Clean(s) /\ \A d \in DOMAIN s.conns : Watches(s, d)
  BY DEF Sound
<1>1. CASE t = s
  BY <1>1
<1>2. CASE t # s
  <2>1. /\ DOMAIN t = Fields /\ t.home = s.home /\ t.nr = s.nr /\ t.fds = fd /\ t.up = s.up
        /\ t.begun = s.begun /\ t.last = s.last /\ t.mixed = s.mixed
        /\ DOMAIN t.conns = DOMAIN s.conns
        /\ \A d \in DOMAIN s.conns : d # c => t.conns[d] = s.conns[d]
        /\ t.conns[c] = [s.conns[c] EXCEPT !.es = fd]
        /\ s.ev \cup {e1} \subseteq t.ev
        /\ t.ev \subseteq s.ev \cup {e1, e2}
    <3>1. StreamAdded(s, t, c)
      BY <1>0, <1>2, StreamSetUp
    <3> QED
      BY <3>1 DEF StreamAdded
  <2>2. fd \in Nat /\ fd # 0 /\ c \in 1..s.nr /\ DOMAIN t.last = {"own", "kind", "whole"}
    BY <1>0, <2>1 DEF Shape
  <2>3. /\ Conn(t.conns[c]) /\ t.conns[c].sock = s.conns[c].sock /\ t.conns[c].header = s.conns[c].header
        /\ t.conns[c].part = s.conns[c].part /\ t.conns[c].es = fd
    BY <1>0, <2>1, <2>2 DEF Shape, Conn
  <2>4. Event(s, e1) /\ Event(s, e2) /\ e1[2] = c /\ e1[3] = fd /\ e2[2] = c /\ e2[3] = fd
    BY <2>2 DEF Event
  <2>5. \A e \in t.ev : e \in s.ev \/ Event(s, e)
    BY <2>1, <2>4
  <2>6. Clean(t)
    <3> SUFFICES ASSUME "shared" \notin s.mixed, NEW e \in t.ev
                 PROVE  e[2] \in DOMAIN s.conns /\ (e[1] \in {"stream", "end"} => t.conns[e[2]].es = e[3])
      BY <2>1 DEF Clean
    <3>1. CASE e \in {e1, e2}
      BY <2>3, <2>4, <3>1
    <3>2. CASE e \in s.ev
      <4>1. /\ e[2] \in DOMAIN s.conns /\ (e[1] \in {"stream", "end"} => s.conns[e[2]].es = e[3])
            /\ e[1] \in {"stream", "end"} => e[3] # 0
        BY <1>0, <3>2 DEF Clean, Shape, Event
      <4>2. e[1] \in {"stream", "end"} => e[2] # c
        BY <4>1
      <4> QED
        BY <2>1, <4>1, <4>2
    <3> QED
      BY <2>1, <3>1, <3>2
  <2>7. \A d \in DOMAIN s.conns : Watches(t, d)
    <3> SUFFICES ASSUME NEW d \in DOMAIN s.conns
                 PROVE  Watches(t, d)
      OBVIOUS
    <3>1. Watches(s, d)
      BY <1>0
    <3>2. /\ <<"header", d, 0>> \in t.ev <=> <<"header", d, 0>> \in s.ev
          /\ <<"idle", d, 0>> \in t.ev <=> <<"idle", d, 0>> \in s.ev
          /\ <<"read", d, 0>> \in s.ev => <<"read", d, 0>> \in t.ev
      BY <2>1
    <3>3. CASE d = c
      <4>1. <<"stream", d, t.conns[d].es>> \in t.ev
        BY <2>1, <2>3, <3>3, Zenon
      <4> QED
        BY <2>3, <3>1, <3>2, <3>3, <4>1 DEF Watches, Timed
    <3>4. CASE d # c
      <4>1. t.conns[d] = s.conns[d] /\ (<<"stream", d, s.conns[d].es>> \in s.ev => <<"stream", d, s.conns[d].es>> \in t.ev)
        BY <2>1, <3>4
      <4> QED
        BY <3>1, <3>2, <4>1 DEF Watches, Timed
    <3> QED
      BY <3>3, <3>4
  <2>8. \A d \in DOMAIN s.conns : Conn(t.conns[d]) /\ t.conns[d].sock = s.conns[d].sock
    BY <1>0, <2>1, <2>3, Zenon DEF Shape
  <2>9. \A d \in DOMAIN s.conns \ X : t.conns[d].part => t.conns[d].header
    BY <2>1, <2>3, Zenon DEF Sound
  <2>10. t.fds \in Nat /\ DOMAIN t = Fields /\ t.home = s.home /\ t.nr = s.nr /\ DOMAIN t.conns = DOMAIN s.conns
    BY <2>1, <2>2
  <2> HIDE DEF fd, e1, e2
  <2>11. Sound(t, X)
    BY <2>2, <2>5, <2>6, <2>7, <2>8, <2>9, <2>10, SoundBy
  <2> QED
    BY <2>1, <2>11
<1> QED
  BY <1>1, <1>2

(* A request runs: it is no longer begun, and the parameters are cleared *)
HasRun(s, t, X, c, own) ==
    /\ Sound(t, X) /\ t.up = s.up /\ DOMAIN t.conns = DOMAIN s.conns
    /\ t.begun = s.begun \ {<<c, own>>} /\ t.params = NoParams
    /\ own = s.params.req => t.last.own
    /\ "interrupted" \in s.mixed => "interrupted" \in t.mixed

(* Run: the request is no longer begun, and the parameters of the handle     *)
(* are cleared                                                               *)
LEMMA Runs ==
    ASSUME NEW s, NEW X, NEW c, NEW own, NEW subscribed, NEW timeout, NEW t,
           Sound(s, X), c \in DOMAIN s.conns, t = Run(s, c, own, subscribed, timeout)
    PROVE  HasRun(s, t, X, c, own)
<1> DEFINE t0 == [s EXCEPT !.last = [own |-> own = s.params.req, kind |-> s.params.kind, whole |-> TRUE],
                           !.begun = @ \ {<<c, own>>},
                           !.mixed = IF s.conns[c].es # 0 THEN @ \cup {"shared"} ELSE @]
           ex == [t0 EXCEPT !.conns[c].exit = TRUE]
           u == IF ~restconf_connection_sanity(s, c) THEN ex
                ELSE IF s.params.kind = "stream" THEN api_stream(t0, c, subscribed, timeout) ELSE t0
<1>0. Shape(s) /\ Clean(s)
  BY DEF Sound
<1>1. t = [u EXCEPT !.params = NoParams, !.last.whole = u.conns[c].es = 0]
  BY DEF Run
<1>2. /\ DOMAIN t0 = Fields /\ t0.home = s.home /\ t0.nr = s.nr /\ t0.fds = s.fds /\ t0.up = s.up
      /\ t0.conns = s.conns /\ t0.ev = s.ev /\ t0.begun = s.begun \ {<<c, own>>}
      /\ t0.last = [own |-> own = s.params.req, kind |-> s.params.kind, whole |-> TRUE]
      /\ t0.mixed = IF s.conns[c].es # 0 THEN s.mixed \cup {"shared"} ELSE s.mixed
  BY <1>0 DEF Shape, Fields
<1> HIDE DEF t0
<1>3. /\ DOMAIN t0.last = {"own", "kind", "whole"} /\ t0.last.own = (own = s.params.req)
      /\ t0.last.kind = s.params.kind /\ t0.last.whole = TRUE
      /\ "interrupted" \in s.mixed => "interrupted" \in t0.mixed
      /\ "shared" \notin t0.mixed => "shared" \notin s.mixed /\ s.conns[c].es = 0
  BY <1>2
<1>4. Sound(t0, X)
  <2>1. \A d \in DOMAIN s.conns : Alike(t0.conns[d], s.conns[d])
    BY <1>0, <1>2 DEF Shape, Alike
  <2>2. \A d \in DOMAIN s.conns \ X : t0.conns[d].part => t0.conns[d].header
    BY <1>2 DEF Sound
  <2>3. /\ DOMAIN t0 = Fields /\ t0.home = s.home /\ t0.nr = s.nr /\ t0.fds = s.fds
        /\ DOMAIN t0.conns = DOMAIN s.conns /\ t0.ev = s.ev
    BY <1>2
  <2> QED
    BY <1>3, <2>1, <2>2, <2>3, SoundKept
<1>5. /\ Sound(u, X) /\ u.up = s.up /\ u.begun = t0.begun /\ u.last = t0.last /\ u.mixed = t0.mixed
      /\ DOMAIN u.conns = DOMAIN s.conns
      /\ s.params.kind # "stream" => u.conns[c].es = s.conns[c].es
  <2>1. CASE ~restconf_connection_sanity(s, c)
    <3>1. u = ex
      BY <2>1
    <3>2. /\ DOMAIN ex = Fields /\ ex.home = s.home /\ ex.nr = s.nr /\ ex.fds = s.fds /\ ex.up = s.up
          /\ ex.ev = s.ev /\ ex.begun = t0.begun /\ ex.last = t0.last /\ ex.mixed = t0.mixed
      BY <1>2 DEF Fields
    <3>3. /\ DOMAIN ex.conns = DOMAIN s.conns
          /\ \A d \in DOMAIN s.conns : d # c => ex.conns[d] = s.conns[d]
          /\ ex.conns[c] = [s.conns[c] EXCEPT !.exit = TRUE]
      BY <1>2 DEF Fields
    <3> HIDE DEF ex, u
    <3>4. Alike(ex.conns[c], s.conns[c]) /\ ex.conns[c].part = s.conns[c].part
      BY <1>0, <3>3 DEF Shape, Conn, Alike
    <3>5. \A d \in DOMAIN s.conns : Alike(ex.conns[d], s.conns[d])
      BY <1>0, <3>3, <3>4, Zenon DEF Shape, Alike
    <3>6. \A d \in DOMAIN s.conns \ X : ex.conns[d].part => ex.conns[d].header
      BY <3>3, <3>4, Zenon DEF Sound, Alike
    <3>7. Sound(ex, X)
      BY <1>3, <3>2, <3>3, <3>5, <3>6, SoundKept
    <3> QED
      BY <3>1, <3>2, <3>3, <3>4, <3>7 DEF Alike
  <2>2. CASE restconf_connection_sanity(s, c) /\ s.params.kind = "stream"
    <3>1. u = api_stream(t0, c, subscribed, timeout)
      BY <2>2
    <3> HIDE DEF u
    <3>2. t0.conns[c].es = 0 \/ "shared" \in t0.mixed
      BY <1>2, <1>3
    <3>3. t0.last.kind = "stream" /\ c \in DOMAIN t0.conns
      BY <1>2, <1>3, <2>2
    <3> QED
      BY <1>2, <1>4, <2>2, <3>1, <3>2, <3>3, StreamSound
  <2>3. CASE restconf_connection_sanity(s, c) /\ s.params.kind # "stream"
    <3>1. u = t0
      BY <2>3
    <3> QED
      BY <1>2, <1>4, <3>1, Zenon
  <2> QED
    BY <2>1, <2>2, <2>3
<1> HIDE DEF u
<1>6. Shape(u)
  BY <1>5 DEF Sound
<1>7. /\ DOMAIN t = Fields /\ t.home = u.home /\ t.nr = u.nr /\ t.fds = u.fds /\ t.up = u.up
      /\ t.conns = u.conns /\ t.ev = u.ev /\ t.begun = u.begun /\ t.mixed = u.mixed /\ t.params = NoParams
      /\ t.last = [u.last EXCEPT !.whole = u.conns[c].es = 0]
  BY <1>1, <1>6 DEF Shape, Fields
<1>8. /\ DOMAIN t.last = {"own", "kind", "whole"} /\ t.last.own = t0.last.own /\ t.last.kind = s.params.kind
      /\ t.last.whole = (u.conns[c].es = 0)
  BY <1>3, <1>5, <1>7
<1>9. "shared" \notin t.mixed => "shared" \notin u.mixed /\ (t.last.kind # "stream" => t.last.whole)
  BY <1>3, <1>5, <1>7, <1>8, Zenon
<1>10. \A d \in DOMAIN u.conns : Alike(t.conns[d], u.conns[d])
  BY <1>6, <1>7 DEF Shape, Alike
<1>11. \A d \in DOMAIN u.conns \ X : t.conns[d].part => t.conns[d].header
  BY <1>5, <1>7 DEF Sound
<1>12. Sound(t, X)
  BY <1>5, <1>7, <1>8, <1>9, <1>10, <1>11, SoundKept
<1> QED
  BY <1>2, <1>3, <1>5, <1>7, <1>8, <1>12, Zenon DEF HasRun

------------------------------------------------------------------------------
(* Closing *)

(* The fields a timer of a connection or of a socket has nothing to do with *)
Untouched(s, t) ==
    /\ DOMAIN t = Fields /\ t.up = s.up /\ t.nr = s.nr /\ t.fds = s.fds /\ t.req = s.req
    /\ t.params = s.params /\ t.begun = s.begun /\ t.last = s.last /\ t.mixed = s.mixed

Homes(s) ==
    /\ DOMAIN s.home = DOMAIN Socks
    /\ \A k \in DOMAIN Socks : DOMAIN s.home[k] = {"timers", "attempts", "used"} /\ s.home[k].timers \in Nat

(* restconf_callhome_timer: one more timer for socket k *)
LEMMA CallhomeTimer ==
    ASSUME NEW s, DOMAIN s = Fields, Homes(s), NEW k \in DOMAIN Socks, NEW status,
           NEW t, t = restconf_callhome_timer(s, k, status)
    PROVE  /\ Untouched(s, t) /\ Homes(t) /\ t.conns = s.conns /\ t.ev = s.ev
           /\ t.home[k].timers = s.home[k].timers + 1
           /\ \A j \in DOMAIN Socks : j # k => t.home[j] = s.home[j]
<1> DEFINE next == Socks[k].periodic /\ (status = 1 \/ s.home[k].attempts >= Socks[k].max)
           a == IF next THEN 0 ELSE s.home[k].attempts
           h == [s.home[k] EXCEPT !.timers = s.home[k].timers + 1, !.attempts = a]
<1>1. t = [s EXCEPT !.home[k].timers = s.home[k].timers + 1, !.home[k].attempts = IF next THEN 0 ELSE @]
  BY DEF restconf_callhome_timer
<1> HIDE DEF next
<1>2. Untouched(s, t) /\ t.conns = s.conns /\ t.ev = s.ev
  BY <1>1 DEF Untouched, Fields
<1>3. /\ DOMAIN t.home = DOMAIN Socks /\ DOMAIN t.home[k] = {"timers", "attempts", "used"}
      /\ t.home[k].timers = s.home[k].timers + 1
      /\ \A j \in DOMAIN Socks : j # k => t.home[j] = s.home[j]
  BY <1>1 DEF Homes, Fields
<1> QED
  BY <1>2, <1>3 DEF Homes

(* stream_close: the socket and one timer of the event stream *)
LEMMA StreamClosed ==
    ASSUME NEW s, DOMAIN s = Fields, NEW c \in DOMAIN s.conns, NEW t, t = stream_close(s, c)
    PROVE  /\ Untouched(s, t) /\ t.home = s.home /\ DOMAIN t.conns = DOMAIN s.conns
           /\ \A d \in DOMAIN s.conns : d # c => t.conns[d] = s.conns[d]
           /\ t.ev \subseteq s.ev \ {<<"stream", c, s.conns[c].es>>}
           /\ \A e \in s.ev : e[2] # c => e \in t.ev
           /\ (\A e \in s.ev : e[1] = "end" /\ e[2] = c => e[3] = s.conns[c].es) /\ s.conns[c].es \in Nat =>
                 \A e \in t.ev : ~(e[1] = "end" /\ e[2] = c)
<1> DEFINE timers == {e \in s.ev : e[1] = "end" /\ e[2] = c}
           first == {e \in timers : \A f \in timers : e[3] <= f[3]}
           st == <<"stream", c, s.conns[c].es>>
<1>1. t = [s EXCEPT !.ev = (s.ev \ {st}) \ first, !.conns[c].es = 0]
  BY DEF stream_close
<1>2. st[2] = c
  OBVIOUS
<1>3. \A e \in first : e[2] = c
  OBVIOUS
<1>4. ASSUME \A e \in s.ev : e[1] = "end" /\ e[2] = c => e[3] = s.conns[c].es, s.conns[c].es \in Nat
      PROVE  timers \subseteq first
  BY <1>4
<1> HIDE DEF first, st
<1>5. /\ Untouched(s, t) /\ t.home = s.home /\ t.ev = (s.ev \ {st}) \ first
  BY <1>1 DEF Untouched, Fields
<1>6. /\ DOMAIN t.conns = DOMAIN s.conns
      /\ \A d \in DOMAIN s.conns : d # c => t.conns[d] = s.conns[d]
  BY <1>1 DEF Fields
<1>7. t.ev \subseteq s.ev \ {st} /\ \A e \in s.ev : e[2] # c => e \in t.ev
  BY <1>2, <1>3, <1>5
<1>8. ASSUME timers \subseteq first, NEW e \in t.ev
      PROVE  ~(e[1] = "end" /\ e[2] = c)
  BY <1>5, <1>8
<1> QED
  BY <1>4, <1>5, <1>6, <1>7, <1>8 DEF st

(* restconf_conn_free *)
LEMMA Freed ==
    ASSUME NEW s, DOMAIN s = Fields, NEW c, NEW t, t = restconf_conn_free(s, c)
    PROVE  /\ DOMAIN t = Fields /\ t.up = s.up /\ t.nr = s.nr /\ t.fds = s.fds
           /\ t.params = s.params /\ t.last = s.last /\ t.home = s.home /\ t.ev = s.ev
           /\ DOMAIN t.conns = DOMAIN s.conns \ {c}
           /\ \A d \in DOMAIN t.conns : t.conns[d] = s.conns[d]
           /\ t.begun = {b \in s.begun : b[1] # c}
           /\ t.mixed = IF \E b \in s.begun : b[1] = c THEN s.mixed \cup {"interrupted"} ELSE s.mixed
<1> DEFINE cs == [d \in DOMAIN s.conns \ {c} |-> s.conns[d]]
           bs == {b \in s.begun : b[1] # c}
           mx == IF \E b \in s.begun : b[1] = c THEN s.mixed \cup {"interrupted"} ELSE s.mixed
<1>1. t = [s EXCEPT !.conns = cs, !.begun = bs, !.mixed = mx]
  BY DEF restconf_conn_free
<1>2. DOMAIN cs = DOMAIN s.conns \ {c} /\ \A d \in DOMAIN cs : cs[d] = s.conns[d]
  OBVIOUS
<1> HIDE DEF cs, bs, mx
<1>3. /\ DOMAIN t = Fields /\ t.up = s.up /\ t.nr = s.nr /\ t.fds = s.fds
      /\ t.params = s.params /\ t.last = s.last /\ t.home = s.home /\ t.ev = s.ev
      /\ t.conns = cs /\ t.begun = bs /\ t.mixed = mx
  BY <1>1 DEF Fields
<1> QED
  BY <1>2, <1>3 DEF bs, mx

(* restconf_connection_close1: what is registered for c, and the timer for   *)
(* the next call home                                                        *)
Deregistered(s, t, c) ==
    /\ t.ev \subseteq s.ev \ {<<"read", c, 0>>}
    /\ \A e \in s.ev : e[2] # c => e \in t.ev
    /\ s.conns[c].header => <<"header", c, 0>> \notin t.ev

(* restconf_connection_close1 first ends the watch of the socket and the     *)
(* header timer                                                              *)
LEMMA QuietFields ==
    ASSUME NEW s, Shape(s), NEW c \in DOMAIN s.conns, NEW u, u = Unreg(s, <<"read", c, 0>>),
           NEW t, t = restconf_header_timer_unreg(u, c)
    PROVE  /\ Untouched(s, t) /\ t.home = s.home /\ DOMAIN t.conns = DOMAIN s.conns
           /\ \A d \in DOMAIN s.conns : d # c => t.conns[d] = s.conns[d]
           /\ t.conns[c].es = s.conns[c].es
           /\ Deregistered(s, t, c)
<1> DEFINE r == <<"read", c, 0>>
           h == <<"header", c, 0>>
<1>1. Untouched(s, u) /\ u.home = s.home /\ u.conns = s.conns /\ u.ev = s.ev \ {r}
  BY DEF Unreg, Untouched, Shape, Fields
<1>2. Conn(s.conns[c])
  BY DEF Shape
<1>3. h[2] = c /\ r[2] = c
  OBVIOUS
<1>4. CASE ~s.conns[c].header
  <2>1. t = u
    BY <1>1, <1>4 DEF restconf_header_timer_unreg
  <2>2. Deregistered(s, t, c)
    BY <1>1, <1>3, <1>4, <2>1, Zenon DEF Deregistered
  <2> QED
    BY <1>1, <2>1, <2>2, Zenon
<1>5. CASE s.conns[c].header
  <2> DEFINE v == Unreg(u, h)
  <2>1. Untouched(s, v) /\ v.home = s.home /\ v.conns = s.conns /\ v.ev = (s.ev \ {r}) \ {h}
    BY <1>1 DEF Unreg, Untouched, Fields
  <2>2. t = [v EXCEPT !.conns[c].header = FALSE]
    BY <1>1, <1>5 DEF restconf_header_timer_unreg
  <2> HIDE DEF v
  <2>3. Untouched(s, t) /\ t.home = s.home /\ t.ev = v.ev
    BY <2>1, <2>2 DEF Untouched, Fields
  <2>4. /\ DOMAIN t.conns = DOMAIN s.conns
        /\ \A d \in DOMAIN s.conns : d # c => t.conns[d] = s.conns[d]
        /\ t.conns[c] = [s.conns[c] EXCEPT !.header = FALSE]
    <3>1. t.conns = [v.conns EXCEPT ![c].header = FALSE]
      BY <2>1, <2>2 DEF Untouched, Fields
    <3> QED
      BY <2>1, <3>1
  <2>5. t.conns[c].es = s.conns[c].es
    BY <1>2, <2>4 DEF Conn
  <2>6. Deregistered(s, t, c)
    BY <1>3, <2>1, <2>3 DEF Deregistered
  <2> QED
    BY <2>3, <2>4, <2>5, <2>6
<1> QED
  BY <1>4, <1>5

Closed1(s, t, c, k) ==
    /\ Untouched(s, t) /\ Homes(t) /\ DOMAIN t.conns = DOMAIN s.conns
    /\ \A d \in DOMAIN s.conns : d # c => t.conns[d] = s.conns[d]
    /\ \A j \in DOMAIN Socks : j # k \/ ~Socks[k].callhome => t.home[j] = s.home[j]
    /\ Socks[k].callhome => t.home[k].timers = s.home[k].timers + 1
    /\ Deregistered(s, t, c)
    /\ Socks[k].callhome /\ Socks[k].periodic => <<"idle", c, 0>> \notin t.ev
    /\ s.conns[c].es # 0 => <<"stream", c, s.conns[c].es>> \notin t.ev
    /\ s.conns[c].es # 0 /\ (\A e \in s.ev : e[1] = "end" /\ e[2] = c => e[3] = s.conns[c].es) =>
          \A e \in t.ev : ~(e[1] = "end" /\ e[2] = c)

(* restconf_connection_close1: no timer or socket of the connection is left, *)
(* and the timer of a call-home socket is set                                *)
LEMMA Close1Fields ==
    ASSUME NEW s, Shape(s), NEW c \in DOMAIN s.conns, NEW k, k = s.conns[c].sock,
           NEW t, t = restconf_connection_close1(s, c)
    PROVE  Closed1(s, t, c, k)
<1> DEFINE quiet == restconf_header_timer_unreg(Unreg(s, <<"read", c, 0>>), c)
           i == <<"idle", c, 0>>
           p == IF Socks[k].periodic THEN restconf_idle_timer_unreg(quiet, c) ELSE quiet
           homed == IF ~Socks[k].callhome THEN quiet ELSE restconf_callhome_timer(p, k, 1)
<1>1. t = IF homed.conns[c].es # 0 THEN stream_close(homed, c) ELSE homed
  BY Zenon DEF restconf_connection_close1
<1>2. /\ Untouched(s, quiet) /\ quiet.home = s.home /\ DOMAIN quiet.conns = DOMAIN s.conns
      /\ \A d \in DOMAIN s.conns : d # c => quiet.conns[d] = s.conns[d]
      /\ quiet.conns[c].es = s.conns[c].es
      /\ Deregistered(s, quiet, c)
  BY QuietFields
<1>3. k \in DOMAIN Socks /\ s.conns[c].es \in Nat /\ Homes(s)
  BY DEF Shape, Conn, Homes
<1> HIDE DEF quiet
<1>4. /\ Untouched(s, p) /\ p.home = s.home /\ p.conns = quiet.conns /\ Deregistered(s, p, c)
      /\ Socks[k].periodic => i \notin p.ev
  <2>1. CASE ~Socks[k].periodic
    BY <1>2, <2>1
  <2>2. CASE Socks[k].periodic
    <3>1. p = [quiet EXCEPT !.ev = quiet.ev \ {i}]
      BY <2>2 DEF restconf_idle_timer_unreg, Unreg
    <3> HIDE DEF p
    <3>2. Untouched(s, p) /\ p.home = s.home /\ p.conns = quiet.conns /\ p.ev = quiet.ev \ {i}
      BY <1>2, <3>1 DEF Untouched, Fields
    <3>3. i[2] = c
      OBVIOUS
    <3>4. Deregistered(s, p, c)
      BY <1>2, <3>2, <3>3 DEF Deregistered
    <3> QED
      BY <3>2, <3>4
  <2> QED
    BY <2>1, <2>2
<1> HIDE DEF p, i
<1>5. /\ Untouched(s, homed) /\ Homes(homed) /\ homed.conns = quiet.conns /\ Deregistered(s, homed, c)
      /\ \A j \in DOMAIN Socks : j # k \/ ~Socks[k].callhome => homed.home[j] = s.home[j]
      /\ Socks[k].callhome => homed.home[k].timers = s.home[k].timers + 1
      /\ Socks[k].callhome /\ Socks[k].periodic => i \notin homed.ev
  <2>1. CASE ~Socks[k].callhome
    <3>1. homed = quiet
      BY <2>1
    <3>2. Homes(quiet)
      BY <1>2, <1>3 DEF Homes
    <3> QED
      BY <1>2, <2>1, <3>1, <3>2
  <2>2. CASE Socks[k].callhome
    <3>1. homed = restconf_callhome_timer(p, k, 1)
      BY <2>2
    <3> HIDE DEF homed
    <3>2. DOMAIN p = Fields /\ Homes(p)
      BY <1>3, <1>4 DEF Untouched, Homes
    <3>3. /\ Untouched(p, homed) /\ Homes(homed) /\ homed.conns = p.conns /\ homed.ev = p.ev
          /\ homed.home[k].timers = p.home[k].timers + 1
          /\ \A j \in DOMAIN Socks : j # k => homed.home[j] = p.home[j]
      BY <1>3, <3>1, <3>2, CallhomeTimer
    <3>4. Untouched(s, homed)
      BY <1>4, <3>3 DEF Untouched
    <3>5. Deregistered(s, homed, c)
      BY <1>4, <3>3 DEF Deregistered
    <3> QED
      BY <1>4, <2>2, <3>3, <3>4, <3>5
  <2> QED
    BY <2>1, <2>2, Zenon
<1> HIDE DEF homed
<1>6. homed.conns[c].es = s.conns[c].es /\ DOMAIN homed.conns = DOMAIN s.conns
  BY <1>2, <1>5
<1>7. CASE s.conns[c].es = 0
  <2>1. t = homed
    BY <1>1, <1>6, <1>7
  <2> QED
    BY <1>2, <1>5, <1>7, <2>1 DEF i, Closed1
<1>8. CASE s.conns[c].es # 0
  <2>1. t = stream_close(homed, c)
    BY <1>1, <1>6, <1>8
  <2>2. DOMAIN homed = Fields
    BY <1>5 DEF Untouched
  <2>3. /\ Untouched(homed, t) /\ t.home = homed.home /\ DOMAIN t.conns = DOMAIN homed.conns
        /\ \A d \in DOMAIN homed.conns : d # c => t.conns[d] = homed.conns[d]
        /\ t.ev \subseteq homed.ev \ {<<"stream", c, homed.conns[c].es>>}
        /\ \A e \in homed.ev : e[2] # c => e \in t.ev
        /\ (\A e \in homed.ev : e[1] = "end" /\ e[2] = c => e[3] = homed.conns[c].es) /\ homed.conns[c].es \in Nat =>
              \A e \in t.ev : ~(e[1] = "end" /\ e[2] = c)
    BY <1>6, <2>1, <2>2, StreamClosed
  <2>4. Untouched(s, t)
    BY <1>5, <2>3 DEF Untouched
  <2>5. Deregistered(s, t, c)
    BY <1>5, <2>3 DEF Deregistered
  <2>6. Homes(t)
    BY <1>5, <2>3 DEF Homes
  <2>7. homed.ev \subseteq s.ev
    BY <1>5 DEF Deregistered
  <2>8. (\A e \in s.ev : e[1] = "end" /\ e[2] = c => e[3] = s.conns[c].es) =>
              \A e \in t.ev : ~(e[1] = "end" /\ e[2] = c)
    BY <1>3, <1>6, <2>3, <2>7
  <2>9. \A d \in DOMAIN s.conns : d # c => t.conns[d] = s.conns[d]
    BY <1>2, <1>5, <2>3
  <2>10. /\ <<"stream", c, s.conns[c].es>> \notin t.ev
         /\ Socks[k].callhome /\ Socks[k].periodic => i \notin t.ev
    BY <1>5, <1>6, <2>3
  <2>11. /\ \A j \in DOMAIN Socks : j # k \/ ~Socks[k].callhome => t.home[j] = s.home[j]
         /\ Socks[k].callhome => t.home[k].timers = s.home[k].timers + 1
    BY <1>5, <2>3
  <2>12. DOMAIN t.conns = DOMAIN s.conns
    BY <1>6, <2>3
  <2> QED
    BY <2>4, <2>5, <2>6, <2>8, <2>9, <2>10, <2>11, <2>12 DEF i, Closed1
<1> QED
  BY <1>7, <1>8, Zenon

(* What closing c may rely on: the timers of c are marked in its struct *)
Closable(s, c) ==
    /\ Shape(s) /\ CalledHome(s) /\ Clean(s) /\ c \in DOMAIN s.conns
    /\ \A d \in DOMAIN s.conns \ {c} : Watches(s, d) /\ (s.conns[d].part => s.conns[d].header)
    /\ <<"header", c, 0>> \in s.ev => s.conns[c].header
    /\ <<"idle", c, 0>> \in s.ev => Idles(s.conns[c].sock)
    /\ "interrupted" \notin s.mixed => s.last.own /\ ((\A b \in s.begun : b[1] # c) => Parted(s))

(* restconf_close_ssl_socket leaves nothing of the connection behind *)
LEMMA Closes ==
    ASSUME NEW s, NEW c, NEW t, Closable(s, c), t = restconf_close_ssl_socket(s, c)
    PROVE  Tidy(t) /\ t.up = s.up
<1> DEFINE u == restconf_connection_close1(s, c)
           k == s.conns[c].sock
           es == s.conns[c].es
<1>0. /\ Shape(s) /\ CalledHome(s) /\ Clean(s) /\ c \in DOMAIN s.conns
      /\ \A d \in DOMAIN s.conns \ {c} : Watches(s, d) /\ (s.conns[d].part => s.conns[d].header)
  BY DEF Closable
<1>1. /\ Untouched(s, u) /\ Homes(u) /\ DOMAIN u.conns = DOMAIN s.conns
      /\ \A d \in DOMAIN s.conns : d # c => u.conns[d] = s.conns[d]
      /\ \A j \in DOMAIN Socks : j # k \/ ~Socks[k].callhome => u.home[j] = s.home[j]
      /\ Socks[k].callhome => u.home[k].timers = s.home[k].timers + 1
      /\ Deregistered(s, u, c)
      /\ Socks[k].callhome /\ Socks[k].periodic => <<"idle", c, 0>> \notin u.ev
      /\ es # 0 => <<"stream", c, es>> \notin u.ev
      /\ es # 0 /\ (\A e \in s.ev : e[1] = "end" /\ e[2] = c => e[3] = es) =>
            \A e \in u.ev : ~(e[1] = "end" /\ e[2] = c)
  <2>1. Closed1(s, u, c, k)
    BY <1>0, Close1Fields
  <2> HIDE DEF u
  <2> QED
    BY <2>1 DEF Closed1
<1>2. t = restconf_conn_free(u, c)
  BY DEF restconf_close_ssl_socket
<1> HIDE DEF u
<1>3. DOMAIN u = Fields
  BY <1>1 DEF Untouched
<1>4. /\ DOMAIN t = Fields /\ t.up = u.up /\ t.nr = u.nr /\ t.fds = u.fds
      /\ t.params = u.params /\ t.last = u.last /\ t.home = u.home /\ t.ev = u.ev
      /\ DOMAIN t.conns = DOMAIN u.conns \ {c}
      /\ \A d \in DOMAIN t.conns : t.conns[d] = u.conns[d]
      /\ t.begun = {b \in u.begun : b[1] # c}
      /\ t.mixed = IF \E b \in u.begun : b[1] = c THEN u.mixed \cup {"interrupted"} ELSE u.mixed
  BY <1>2, <1>3, Freed
<1>5. /\ DOMAIN t = Fields /\ t.up = s.up /\ t.nr = s.nr /\ t.fds = s.fds /\ t.params = s.params /\ t.last = s.last
      /\ t.begun = {b \in s.begun : b[1] # c}
      /\ t.mixed = IF \E b \in s.begun : b[1] = c THEN s.mixed \cup {"interrupted"} ELSE s.mixed
  BY <1>1, <1>4 DEF Untouched
<1>6. /\ DOMAIN t.conns = DOMAIN s.conns \ {c} /\ \A d \in DOMAIN t.conns : t.conns[d] = s.conns[d]
  BY <1>1, <1>4
<1>7. /\ Homes(t) /\ Deregistered(s, t, c)
      /\ \A j \in DOMAIN Socks : j # k \/ ~Socks[k].callhome => t.home[j] = s.home[j]
      /\ Socks[k].callhome => t.home[k].timers = s.home[k].timers + 1
  BY <1>1, <1>4 DEF Homes, Deregistered
<1>8. /\ Socks[k].callhome /\ Socks[k].periodic => <<"idle", c, 0>> \notin t.ev
      /\ es # 0 => <<"stream", c, es>> \notin t.ev
      /\ es # 0 /\ (\A e \in s.ev : e[1] = "end" /\ e[2] = c => e[3] = es) =>
            \A e \in t.ev : ~(e[1] = "end" /\ e[2] = c)
  BY <1>1, <1>4
<1>9. Shape(t)
  <2>1. \A e \in t.ev : e \in s.ev /\ Event(t, e)
    BY <1>0, <1>5, <1>7 DEF Shape, Event, Deregistered
  <2>2. DOMAIN t.conns \subseteq 1..t.nr /\ \A d \in DOMAIN t.conns : Conn(t.conns[d])
    BY <1>0, <1>5, <1>6 DEF Shape
  <2>3. t.nr \in Nat /\ t.fds \in Nat /\ DOMAIN t.last = {"own", "kind", "whole"}
    BY <1>0, <1>5 DEF Shape
  <2> QED
    BY <1>5, <1>7, <2>1, <2>2, <2>3 DEF Shape, Homes
<1>10. CalledHome(t)
  <2> SUFFICES ASSUME NEW j \in DOMAIN Socks
               PROVE  IF Socks[j].callhome
                      THEN \/ t.home[j].timers = 1 /\ \A d \in DOMAIN t.conns : t.conns[d].sock # j
                           \/ /\ t.home[j].timers = 0
                              /\ \E d \in DOMAIN t.conns : \A f \in DOMAIN t.conns : t.conns[f].sock = j <=> f = d
                      ELSE t.home[j].timers = 0
    BY DEF CalledHome, CalledAt
  <2>1. IF Socks[j].callhome
        THEN \/ s.home[j].timers = 1 /\ \A d \in DOMAIN s.conns : s.conns[d].sock # j
             \/ /\ s.home[j].timers = 0
                /\ \E d \in DOMAIN s.conns : \A f \in DOMAIN s.conns : s.conns[f].sock = j <=> f = d
        ELSE s.home[j].timers = 0
    BY <1>0 DEF CalledHome, CalledAt
  <2>2. CASE ~Socks[j].callhome
    BY <1>7, <2>1, <2>2
  <2>3. CASE Socks[j].callhome /\ j # k
    <3>1. t.home[j] = s.home[j]
      BY <1>7, <2>3
    <3>2. CASE s.home[j].timers = 1 /\ \A d \in DOMAIN s.conns : s.conns[d].sock # j
      BY <1>6, <2>3, <3>1, <3>2
    <3>3. CASE s.home[j].timers = 0
      <4>1. PICK d \in DOMAIN s.conns : \A f \in DOMAIN s.conns : s.conns[f].sock = j <=> f = d
        BY <2>1, <2>3, <3>3
      <4>2. d # c
        BY <1>0, <2>3, <4>1
      <4> QED
        BY <1>6, <2>3, <3>1, <3>3, <4>1, <4>2
    <3> QED
      BY <2>1, <2>3, <3>2, <3>3
  <2>4. CASE Socks[j].callhome /\ j = k
    <3>1. /\ s.home[j].timers = 0
          /\ \E d \in DOMAIN s.conns : \A f \in DOMAIN s.conns : s.conns[f].sock = j <=> f = d
      BY <1>0, <2>1, <2>4
    <3>2. \A f \in DOMAIN s.conns : s.conns[f].sock = j <=> f = c
      BY <1>0, <2>4, <3>1
    <3>3. t.home[j].timers = 1
      BY <1>7, <2>4, <3>1
    <3> QED
      BY <1>6, <2>4, <3>2, <3>3
  <2> QED
    BY <2>2, <2>3, <2>4
<1>11. Clean(t)
  <2> SUFFICES ASSUME "shared" \notin t.mixed
               PROVE  /\ \A e \in t.ev : e[2] \in DOMAIN t.conns /\
                            (e[1] \in {"stream", "end"} => t.conns[e[2]].es = e[3])
                      /\ t.last.kind # "stream" => t.last.whole
    BY DEF Clean
  <2>1. "shared" \notin s.mixed
    BY <1>5
  <2>2. /\ \A e \in s.ev : e[2] \in DOMAIN s.conns /\ (e[1] \in {"stream", "end"} => s.conns[e[2]].es = e[3])
        /\ s.last.kind # "stream" => s.last.whole
    BY <1>0, <2>1 DEF Clean
  <2>3. ASSUME NEW e \in t.ev
        PROVE  e \in s.ev /\ e[2] # c
    <3>1. e \in s.ev /\ e # <<"read", c, 0>> /\ Event(s, e)
      BY <1>0, <1>7 DEF Deregistered, Shape
    <3> SUFFICES ASSUME e[2] = c
                 PROVE  FALSE
      BY <3>1
    <3>2. CASE e[1] \in {"stream", "end"}
      <4>1. e[3] = es /\ es # 0 /\ e = <<e[1], c, es>>
        BY <2>2, <3>1, <3>2 DEF Event
      <4>2. \A f \in s.ev : f[1] = "end" /\ f[2] = c => f[3] = es
        BY <2>2
      <4> QED
        BY <1>8, <3>2, <4>1, <4>2
    <3>3. CASE e[1] \notin {"stream", "end"}
      <4>1. e = <<e[1], c, 0>> /\ e[1] \in {"read", "header", "idle"}
        BY <3>1, <3>3 DEF Event
      <4>2. CASE e = <<"header", c, 0>>
        BY <1>7, <3>1, <4>2 DEF Closable, Deregistered
      <4>3. CASE e = <<"idle", c, 0>>
        BY <1>8, <3>1, <4>3 DEF Closable, Idles
      <4> QED
        BY <3>1, <4>1, <4>2, <4>3
    <3> QED
      BY <3>2, <3>3
  <2> QED
    BY <1>5, <1>6, <2>2, <2>3
<1>12. \A d \in DOMAIN t.conns : Watches(t, d) /\ (t.conns[d].part => t.conns[d].header)
  <2> SUFFICES ASSUME NEW d \in DOMAIN t.conns
               PROVE  Watches(t, d) /\ (t.conns[d].part => t.conns[d].header)
    OBVIOUS
  <2>1. t.conns[d] = s.conns[d] /\ d # c /\ Watches(s, d) /\ (s.conns[d].part => s.conns[d].header)
    BY <1>0, <1>6
  <2>2. \A kind, fd : <<kind, d, fd>> \in t.ev <=> <<kind, d, fd>> \in s.ev
    <3>1. \A kind, fd : <<kind, d, fd>>[2] = d
      OBVIOUS
    <3> QED
      BY <1>7, <2>1, <3>1 DEF Deregistered
  <2> QED
    BY <2>1, <2>2 DEF Watches, Timed
<1>13. Apart(t)
  <2> SUFFICES ASSUME "interrupted" \notin t.mixed
               PROVE  t.last.own /\ Parted(t)
    BY DEF Apart
  <2>1. "interrupted" \notin s.mixed /\ \A b \in s.begun : b[1] # c
    BY <1>5
  <2>2. t.begun = s.begun
    BY <1>5, <2>1
  <2>3. s.last.own /\ Parted(s)
    BY <2>1 DEF Closable
  <2> QED
    BY <1>5, <2>2, <2>3 DEF Parted
<1> QED
  BY <1>5, <1>9, <1>10, <1>11, <1>12, <1>13 DEF Tidy, Sound

(* A connection that is watched as its struct says can be closed *)
LEMMA SoundCloses ==
    ASSUME NEW s, NEW c, NEW X, Sound(s, X), X \subseteq {c}, c \in DOMAIN s.conns,
           "interrupted" \notin s.mixed => s.last.own /\ ((\A b \in s.begun : b[1] # c) => Parted(s))
    PROVE  Closable(s, c)
<1>1. Watches(s, c)
  BY DEF Sound
<1> QED
  BY <1>1 DEF Sound, Closable, Watches, Timed

(* A step that is about requests only *)
LEMMA SoundSame ==
    ASSUME NEW s, NEW t, NEW X, NEW Y, Sound(s, X), X \subseteq Y, DOMAIN t = Fields,
           t.home = s.home, t.ev = s.ev, t.nr = s.nr, t.fds = s.fds, t.conns = s.conns, t.last = s.last,
           "shared" \in s.mixed => "shared" \in t.mixed
    PROVE  Sound(t, Y)
<1>0. Shape(s) /\ Clean(s)
  BY DEF Sound
<1>1. "shared" \notin t.mixed => "shared" \notin s.mixed /\ (t.last.kind # "stream" => t.last.whole)
  BY <1>0 DEF Clean
<1>2. DOMAIN t.last = {"own", "kind", "whole"} /\ \A d \in DOMAIN s.conns : Alike(t.conns[d], s.conns[d])
  BY <1>0 DEF Shape, Alike
<1>3. \A d \in DOMAIN s.conns \ Y : t.conns[d].part => t.conns[d].header
  BY DEF Sound
<1> QED
  BY <1>1, <1>2, <1>3, SoundKept

(* A step that changes a mark of c which no timer goes with *)
Marked(s, t, c) ==
    /\ DOMAIN t = Fields /\ t.home = s.home /\ t.ev = s.ev /\ t.nr = s.nr /\ t.fds = s.fds
    /\ t.last = s.last /\ t.mixed = s.mixed
    /\ DOMAIN t.conns = DOMAIN s.conns
    /\ \A d \in DOMAIN s.conns : d # c => t.conns[d] = s.conns[d]
    /\ \E m \in {"proto", "exit", "active", "part"} : \E v : t.conns[c] = [s.conns[c] EXCEPT ![m] = v]

(* A mark in the struct of a connection that no registration depends on *)
LEMMA MarkAlike ==
    ASSUME NEW s, NEW t, NEW c, Shape(s), c \in DOMAIN s.conns, Marked(s, t, c)
    PROVE  /\ Alike(t.conns[c], s.conns[c])
           /\ t.conns[c].part = s.conns[c].part \/ \E v : t.conns[c] = [s.conns[c] EXCEPT !.part = v]
<1>1. Conn(s.conns[c])
  BY DEF Shape
<1>0. PICK m \in {"proto", "exit", "active", "part"} : \E v : t.conns[c] = [s.conns[c] EXCEPT ![m] = v]
  BY Zenon DEF Marked
<1>2. PICK v : t.conns[c] = [s.conns[c] EXCEPT ![m] = v]
  BY <1>0, Zenon
<1>3. Alike(t.conns[c], s.conns[c])
  BY <1>1, <1>2 DEF Alike, Conn
<1>4. CASE m = "part"
  BY <1>2, <1>3, <1>4
<1>5. CASE m # "part"
  BY <1>1, <1>2, <1>3, <1>5 DEF Conn
<1> QED
  BY <1>4, <1>5, Zenon

(* ... leaves the connections and events as they should be *)
LEMMA SoundMarked ==
    ASSUME NEW s, NEW t, NEW X, NEW Y, NEW c, Sound(s, X), c \in DOMAIN s.conns, Marked(s, t, c),
           c \in Y \/ ~t.conns[c].part \/ (t.conns[c].part = s.conns[c].part /\ c \notin X),
           X \subseteq Y \cup {c}
    PROVE  Sound(t, Y)
<1>0. Shape(s) /\ Clean(s)
  BY DEF Sound
<1>1. Alike(t.conns[c], s.conns[c])
  BY <1>0, MarkAlike
<1>2. /\ DOMAIN t = Fields /\ t.home = s.home /\ t.ev = s.ev /\ t.nr = s.nr /\ t.fds = s.fds
      /\ t.last = s.last /\ t.mixed = s.mixed
      /\ DOMAIN t.conns = DOMAIN s.conns
      /\ \A d \in DOMAIN s.conns : d # c => t.conns[d] = s.conns[d]
  BY DEF Marked
<1>3. "shared" \notin t.mixed => "shared" \notin s.mixed /\ (t.last.kind # "stream" => t.last.whole)
  BY <1>0, <1>2 DEF Clean
<1>4. DOMAIN t.last = {"own", "kind", "whole"} /\ \A d \in DOMAIN s.conns : Alike(t.conns[d], s.conns[d])
  BY <1>0, <1>1, <1>2 DEF Shape, Alike
<1>5. \A d \in DOMAIN s.conns \ Y : t.conns[d].part => t.conns[d].header
  BY <1>1, <1>2 DEF Sound, Alike
<1> QED
  BY <1>2, <1>3, <1>4, <1>5, SoundKept

------------------------------------------------------------------------------
(* HTTP/1 *)

(* Request own of c is the one that is begun, and it has the parameters *)
Whole(s, c, own) ==
    "interrupted" \notin s.mixed =>
        /\ s.last.own /\ s.begun = {<<c, own>>}
        /\ DOMAIN s.params = {"req", "kind", "clen"} /\ s.params.req = own

(* A callback has left the daemon running, and as it should be *)
Settled(s, t) == Tidy(t) /\ t.up = s.up

(* The reply to a request that has run *)
LEMMA Replies ==
    ASSUME NEW s, NEW c, NEW written, Sound(s, {c}), c \in DOMAIN s.conns, Apart(s)
    PROVE  Settled(s, Http1Replied(s, c, written))
<1> DEFINE t == Http1Replied(s, c, written)
<1> SUFFICES Tidy(t) /\ t.up = s.up
  BY DEF Settled
<1> HIDE DEF t
<1>0. Shape(s)
  BY DEF Sound
<1>1. CASE ~written \/ s.conns[c].exit
  <2>1. t = restconf_close_ssl_socket(s, c)
    BY <1>1 DEF Http1Replied, t
  <2>2. Closable(s, c)
    BY SoundCloses DEF Apart
  <2> QED
    BY <2>1, <2>2, Closes
<1>2. CASE ~(~written \/ s.conns[c].exit)
  <2>1. t = [s EXCEPT !.conns[c].part = FALSE]
    BY <1>2 DEF Http1Replied, t
  <2>2. /\ DOMAIN t = Fields /\ t.home = s.home /\ t.ev = s.ev /\ t.nr = s.nr /\ t.fds = s.fds
        /\ t.last = s.last /\ t.mixed = s.mixed /\ t.up = s.up /\ t.begun = s.begun /\ t.params = s.params
    BY <1>0, <2>1 DEF Shape, Fields
  <2>3. /\ DOMAIN t.conns = DOMAIN s.conns
        /\ \A d \in DOMAIN s.conns : d # c => t.conns[d] = s.conns[d]
        /\ t.conns[c] = [s.conns[c] EXCEPT !.part = FALSE]
    BY <1>0, <2>1 DEF Shape, Fields
  <2>4. Marked(s, t, c)
    BY <2>2, <2>3, Zenon DEF Marked
  <2>5. ~t.conns[c].part
    BY <1>0, <2>3 DEF Shape, Conn
  <2>6. Sound(t, {})
    BY <2>4, <2>5, SoundMarked
  <2>7. Apart(t)
    BY <2>2 DEF Apart, Parted
  <2> QED
    BY <2>2, <2>6, <2>7 DEF Tidy
<1> QED
  BY <1>1, <1>2

(* The connection becomes one of HTTP/2, and the request runs as a get *)
LEMMA Upgrades ==
    ASSUME NEW s, NEW c, NEW own, Sound(s, {c}), c \in DOMAIN s.conns, Whole(s, c, own)
    PROVE  LET t == restconf_http2_upgrade([s EXCEPT !.conns[c].part = FALSE], c, own)
           IN  Tidy(t) /\ t.up = s.up
<1> DEFINE s1 == [s EXCEPT !.conns[c].part = FALSE]
           s2 == [s1 EXCEPT !.conns[c].proto = 2, !.params.kind = "get"]
           t == Run(s2, c, own, FALSE, FALSE)
<1> SUFFICES Tidy(t) /\ t.up = s.up
  BY Zenon DEF restconf_http2_upgrade
<1>0. Shape(s)
  BY DEF Sound
<1>1. /\ DOMAIN s1 = Fields /\ s1.home = s.home /\ s1.ev = s.ev /\ s1.nr = s.nr /\ s1.fds = s.fds
      /\ s1.last = s.last /\ s1.mixed = s.mixed /\ s1.up = s.up /\ s1.begun = s.begun /\ s1.params = s.params
  BY <1>0 DEF Shape, Fields
<1>2. /\ DOMAIN s1.conns = DOMAIN s.conns
      /\ \A d \in DOMAIN s.conns : d # c => s1.conns[d] = s.conns[d]
      /\ s1.conns[c] = [s.conns[c] EXCEPT !.part = FALSE]
  BY <1>0 DEF Shape, Fields
<1>3. /\ DOMAIN s2 = Fields /\ s2.home = s1.home /\ s2.ev = s1.ev /\ s2.nr = s1.nr /\ s2.fds = s1.fds
      /\ s2.last = s1.last /\ s2.mixed = s1.mixed /\ s2.up = s1.up /\ s2.begun = s1.begun
      /\ s2.params = [s1.params EXCEPT !.kind = "get"]
  BY <1>1 DEF Fields
<1>4. /\ DOMAIN s2.conns = DOMAIN s1.conns
      /\ \A d \in DOMAIN s1.conns : d # c => s2.conns[d] = s1.conns[d]
      /\ s2.conns[c] = [s1.conns[c] EXCEPT !.proto = 2]
  BY <1>1, <1>2 DEF Fields
<1> HIDE DEF s1, s2
<1>5. ~s1.conns[c].part /\ Marked(s, s1, c)
  BY <1>0, <1>1, <1>2, Zenon DEF Shape, Conn, Marked
<1>6. Sound(s1, {}) /\ Shape(s1)
  BY <1>5, SoundMarked, Zenon DEF Sound
<1>7. Marked(s1, s2, c) /\ s2.conns[c].part = s1.conns[c].part /\ c \in DOMAIN s1.conns
  BY <1>2, <1>3, <1>4, <1>6, Zenon DEF Marked, Shape, Conn
<1>8. Sound(s2, {}) /\ c \in DOMAIN s2.conns
  BY <1>4, <1>6, <1>7, SoundMarked, Zenon
<1>9. HasRun(s2, t, {}, c, own)
  BY <1>8, Runs, Zenon
<1> HIDE DEF t
<1>10. Apart(t)
  <2> SUFFICES ASSUME "interrupted" \notin t.mixed
               PROVE  t.last.own /\ Parted(t)
    BY DEF Apart
  <2>1. /\ s.begun = {<<c, own>>} /\ DOMAIN s.params = {"req", "kind", "clen"} /\ s.params.req = own
    BY <1>1, <1>3, <1>9 DEF Whole, HasRun
  <2>2. s2.params.req = own /\ s2.begun = {<<c, own>>}
    BY <1>1, <1>3, <2>1
  <2> QED
    BY <1>9, <2>2 DEF Parted, HasRun
<1> QED
  BY <1>1, <1>3, <1>9, <1>10 DEF Tidy, HasRun

(* A whole request of HTTP/1 *)
LEMMA PathRoot ==
    ASSUME NEW s, NEW c, NEW own, NEW subscribed, NEW timeout, NEW written,
           Sound(s, {c}), c \in DOMAIN s.conns, Whole(s, c, own)
    PROVE  Settled(s, restconf_http1_path_root(s, c, own, subscribed, timeout, written))
<1> DEFINE t == restconf_http1_path_root(s, c, own, subscribed, timeout, written)
<1> SUFFICES Tidy(t) /\ t.up = s.up
  BY DEF Settled
<1> HIDE DEF t
<1>1. CASE http1_upgrade_http2(s, c) /\ written
  <2> DEFINE u == restconf_http2_upgrade([s EXCEPT !.conns[c].part = FALSE], c, own)
  <2>1. t = u
    BY <1>1 DEF restconf_http1_path_root, t
  <2>2. Tidy(u) /\ u.up = s.up
    BY Upgrades
  <2> HIDE DEF u
  <2> QED
    BY <2>1, <2>2
<1>2. CASE http1_upgrade_http2(s, c) /\ ~written
  <2>1. t = restconf_close_ssl_socket(s, c)
    BY <1>2 DEF restconf_http1_path_root, t
  <2>2. <<c, own>>[1] = c
    OBVIOUS
  <2>3. "interrupted" \notin s.mixed => s.last.own /\ ((\A b \in s.begun : b[1] # c) => Parted(s))
    BY <2>2, Zenon DEF Whole
  <2> QED
    BY <2>1, <2>3, SoundCloses, Closes
<1>3. CASE ~http1_upgrade_http2(s, c)
  <2> DEFINE u == Run(s, c, own, subscribed, timeout)
  <2>1. t = Http1Replied(u, c, written)
    BY <1>3 DEF restconf_http1_path_root, t
  <2>2. HasRun(s, u, {c}, c, own)
    BY Runs
  <2> HIDE DEF u
  <2>3. Apart(u) /\ Sound(u, {c}) /\ c \in DOMAIN u.conns /\ u.up = s.up
    BY <2>2 DEF Apart, Parted, Whole, HasRun
  <2>4. Settled(u, Http1Replied(u, c, written))
    BY <2>3, Replies, Zenon
  <2> QED
    BY <2>1, <2>3, <2>4 DEF Settled
<1> QED
  BY <1>1, <1>2, <1>3

(* restconf_http1_process: whatever the peer sends, and whether or not it    *)
(* hears the reply                                                           *)
LEMMA Http1Step ==
    ASSUME NEW s, NEW c, NEW in, NEW subscribed, NEW timeout, NEW written, Tidy(s), c \in DOMAIN s.conns
    PROVE  Settled(s, restconf_http1_process(s, c, in, subscribed, timeout, written))
<1> DEFINE t == restconf_http1_process(s, c, in, subscribed, timeout, written)
<1> SUFFICES Tidy(t) /\ t.up = s.up
  BY DEF Settled
<1> HIDE DEF t
<1> DEFINE head == restconf_header_timer_unreg(s, c)
           r == s.req + 1
<1>0. Sound(s, {}) /\ Shape(s) /\ Apart(s)
  BY DEF Tidy, Sound
<1>1. CASE BodyExpected(s)
  <2> DEFINE u == [s EXCEPT !.req = s.req + 1, !.mixed = s.mixed \cup Mixing(s)]
  <2>1. t = restconf_http1_path_root(u, c, r, subscribed, timeout, written)
    BY <1>1 DEF t, restconf_http1_process
  <2>2. /\ DOMAIN u = Fields /\ u.home = s.home /\ u.ev = s.ev /\ u.nr = s.nr /\ u.fds = s.fds /\ u.conns = s.conns
        /\ u.last = s.last /\ u.up = s.up /\ u.mixed = s.mixed \cup Mixing(s)
    BY <1>0 DEF Shape, Fields
  <2> HIDE DEF u
  <2>3. Sound(u, {c})
    BY <1>0, <2>2, SoundSame
  <2>4. "interrupted" \in u.mixed
    <3> SUFFICES ASSUME "interrupted" \notin u.mixed
                 PROVE  FALSE
      OBVIOUS
    <3>1. "interrupted" \notin s.mixed /\ s.begun = {}
      BY <2>2 DEF Mixing
    <3>2. s.params = NoParams
      BY <1>0, <3>1 DEF Apart, Parted
    <3> QED
      BY <1>1, <3>2 DEF BodyExpected, NoParams
  <2>5. Whole(u, c, r) /\ c \in DOMAIN u.conns
    BY <2>2, <2>4 DEF Whole
  <2> HIDE DEF r
  <2>6. Settled(u, restconf_http1_path_root(u, c, r, subscribed, timeout, written))
    BY <2>3, <2>5, PathRoot, Zenon
  <2> QED
    BY <2>1, <2>2, <2>6 DEF Settled
<1>2. CASE ~BodyExpected(s)
  <2>1. /\ Sound(head, {c})
        /\ head.up = s.up /\ head.params = s.params /\ head.begun = s.begun /\ head.req = s.req
        /\ head.last = s.last /\ head.mixed = s.mixed /\ DOMAIN head.conns = DOMAIN s.conns
    BY <1>0, HeaderOff
  <2>2. t = CASE in = "part" -> PartRead(s, c)
              [] in = "bad" -> restconf_close_ssl_socket(http1_native_clear_input(head), c)
              [] in = "huge" -> restconf_close_ssl_socket(
                   [http1_native_clear_input(BeginRequest(head, c, "post")) EXCEPT
                      !.begun = @ \ {<<c, BeginRequest(head, c, "post").req>>}], c)
              [] in = "aborted" -> restconf_close_ssl_socket(BeginRequest(head, c, "post"), c)
              [] OTHER -> restconf_http1_path_root(BeginRequest(head, c, in), c, r, subscribed, timeout, written)
    BY <1>2 DEF t, restconf_http1_process, PartRead
  <2> HIDE DEF head
  <2>3. "interrupted" \notin s.mixed => s.begun = {} /\ s.params = NoParams /\ s.last.own
    <3>1. ~(s.params.clen = 1)
      BY <1>2 DEF BodyExpected
    <3> QED
      BY <1>0, <3>1 DEF Apart, Parted
  <2>4. ASSUME NEW kind, NEW u, u = BeginRequest(head, c, kind)
        PROVE  /\ Sound(u, {c}) /\ u.up = s.up /\ c \in DOMAIN u.conns /\ u.req = r /\ u.last = s.last
               /\ u.begun = s.begun \cup {<<c, r>>} /\ Whole(u, c, r) /\ <<c, r>> \in u.begun
    <3>1. /\ Sound(u, {c}) /\ u.up = head.up /\ u.conns = head.conns /\ u.last = head.last
          /\ u.begun = head.begun \cup {<<c, head.req + 1>>} /\ u.req = head.req + 1
          /\ DOMAIN u.params = {"req", "kind", "clen"} /\ u.params.req = head.req + 1
          /\ "interrupted" \notin u.mixed => "interrupted" \notin head.mixed /\ head.begun = {}
      <4>1. Begun(head, u, {c}, c, kind)
        BY <2>1, <2>4, Begins
      <4> QED
        BY <4>1 DEF Begun
    <3>2. DOMAIN u.params = {"req", "kind", "clen"} /\ u.params.req = r
      BY <2>1, <3>1
    <3>3. Whole(u, c, r)
      BY <2>1, <2>3, <3>1, <3>2 DEF Whole
    <3> QED
      BY <2>1, <3>1, <3>3
  <2>5. CASE in = "part"
    <3>1. t = PartRead(s, c)
      BY <2>2, <2>5
    <3>2. /\ Sound(t, {})
          /\ t.up = s.up /\ t.params = s.params /\ t.begun = s.begun
          /\ t.last = s.last /\ t.mixed = s.mixed
      BY <1>0, <3>1, HeaderOn
    <3> QED
      BY <1>0, <3>2 DEF Tidy, Apart, Parted
  <2>6. CASE in = "bad"
    <3> DEFINE u == http1_native_clear_input(head)
    <3>1. t = restconf_close_ssl_socket(u, c)
      BY <2>2, <2>6
    <3>2. Shape(head)
      BY <2>1 DEF Sound
    <3>3. /\ DOMAIN u = Fields /\ u.home = head.home /\ u.ev = head.ev /\ u.nr = head.nr /\ u.fds = head.fds
          /\ u.conns = head.conns /\ u.last = head.last /\ u.up = head.up /\ u.mixed = head.mixed
          /\ u.begun = head.begun /\ u.params = NoParams
      BY <3>2 DEF http1_native_clear_input, Shape, Fields
    <3> HIDE DEF u
    <3>4. Sound(u, {c}) /\ c \in DOMAIN u.conns
      BY <2>1, <3>3, SoundSame
    <3>5. "interrupted" \notin u.mixed => u.last.own /\ Parted(u)
      BY <2>1, <2>3, <3>3 DEF Parted
    <3> QED
      BY <2>1, <3>1, <3>3, <3>4, <3>5, SoundCloses, Closes
  <2>7. CASE in = "huge"
    <3> DEFINE b == BeginRequest(head, c, "post")
               u == [http1_native_clear_input(b) EXCEPT !.begun = @ \ {<<c, b.req>>}]
    <3>1. t = restconf_close_ssl_socket(u, c)
      BY <2>2, <2>7
    <3>2. /\ Sound(b, {c}) /\ b.up = s.up /\ c \in DOMAIN b.conns /\ b.req = r /\ b.last = s.last
          /\ b.begun = s.begun \cup {<<c, r>>} /\ Whole(b, c, r)
      BY <2>4
    <3> HIDE DEF b
    <3>3. Shape(b)
      BY <3>2 DEF Sound
    <3>4. /\ DOMAIN u = Fields /\ u.home = b.home /\ u.ev = b.ev /\ u.nr = b.nr /\ u.fds = b.fds
          /\ u.conns = b.conns /\ u.last = b.last /\ u.up = b.up /\ u.mixed = b.mixed
          /\ u.begun = b.begun \ {<<c, r>>} /\ u.params = NoParams
      BY <3>2, <3>3 DEF http1_native_clear_input, Shape, Fields
    <3> HIDE DEF u
    <3>5. Sound(u, {c}) /\ c \in DOMAIN u.conns
      BY <3>2, <3>4, SoundSame
    <3>6. "interrupted" \notin u.mixed => u.last.own /\ Parted(u)
      BY <3>2, <3>4 DEF Parted, Whole
    <3> QED
      BY <3>1, <3>2, <3>4, <3>5, <3>6, SoundCloses, Closes
  <2>8. CASE in = "aborted"
    <3> DEFINE u == BeginRequest(head, c, "post")
    <3>1. t = restconf_close_ssl_socket(u, c)
      BY <2>2, <2>8
    <3>2. /\ Sound(u, {c}) /\ u.up = s.up /\ c \in DOMAIN u.conns /\ Whole(u, c, r) /\ <<c, r>> \in u.begun
      BY <2>4
    <3> HIDE DEF u
    <3>3. <<c, r>>[1] = c
      OBVIOUS
    <3>4. "interrupted" \notin u.mixed => u.last.own /\ ((\A b \in u.begun : b[1] # c) => Parted(u))
      BY <3>2, <3>3 DEF Whole
    <3> QED
      BY <3>1, <3>2, <3>4, SoundCloses, Closes
  <2>9. CASE in \notin {"part", "bad", "huge", "aborted"}
    <3> DEFINE u == BeginRequest(head, c, in)
    <3>1. t = restconf_http1_path_root(u, c, r, subscribed, timeout, written)
      BY <2>2, <2>9
    <3>2. /\ Sound(u, {c}) /\ u.up = s.up /\ c \in DOMAIN u.conns /\ Whole(u, c, r)
      BY <2>4
    <3> HIDE DEF u
    <3> HIDE DEF r
    <3>3. Settled(u, restconf_http1_path_root(u, c, r, subscribed, timeout, written))
      BY <3>2, PathRoot, Zenon
    <3> QED
      BY <3>1, <3>2, <3>3 DEF Settled
  <2> QED
    BY <2>5, <2>6, <2>7, <2>8, <2>9
<1> QED
  BY <1>1, <1>2

(* A connection is closed by a callback that has done nothing else *)
LEMMA TidyCloses ==
    ASSUME NEW s, NEW c, Tidy(s), c \in DOMAIN s.conns
    PROVE  Settled(s, restconf_close_ssl_socket(s, c))
<1> DEFINE t == restconf_close_ssl_socket(s, c)
<1>1. Sound(s, {}) /\ ("interrupted" \notin s.mixed => s.last.own /\ Parted(s))
  BY DEF Tidy, Apart
<1>2. Closable(s, c)
  BY <1>1, SoundCloses
<1>3. Tidy(t) /\ t.up = s.up
  BY <1>2, Closes
<1> QED
  BY <1>3 DEF Settled

------------------------------------------------------------------------------
(* HTTP/2 *)

(* A callback has left the daemon as it should be, or it has ended *)
Over(s, t) == t.up = "end" \/ Settled(s, t)

(* http2_exec: the request that is begun runs, and no other is begun after   *)
LEMMA Executes ==
    ASSUME NEW s, NEW c, NEW own, NEW subscribed, NEW timeout, Sound(s, {}), c \in DOMAIN s.conns,
           "interrupted" \notin s.mixed => s.begun = {<<c, own>>} /\ s.params.req = own
    PROVE  Over(s, http2_exec(s, c, own, subscribed, timeout))
<1> DEFINE t == http2_exec(s, c, own, subscribed, timeout)
           u == Run(s, c, own, subscribed, timeout)
<1>1. CASE s.params.req = 0
  <2>1. t = [s EXCEPT !.up = "end"]
    BY <1>1 DEF http2_exec
  <2>2. DOMAIN s = Fields
    BY DEF Sound, Shape
  <2>3. t.up = "end"
    BY <2>1, <2>2 DEF Fields
  <2> QED
    BY <2>3 DEF Over
<1>2. CASE s.params.req # 0
  <2>1. t = u
    BY <1>2 DEF http2_exec
  <2>2. HasRun(s, u, {}, c, own)
    BY Runs
  <2> HIDE DEF u
  <2>3. Apart(u)
    BY <2>2 DEF Apart, Parted, HasRun
  <2>4. Settled(s, u)
    BY <2>2, <2>3 DEF Settled, Tidy, HasRun
  <2> QED
    BY <2>1, <2>4 DEF Over
<1> QED
  BY <1>1, <1>2

HasBegun(s, c, own) == \E b \in s.begun : b[1] = c /\ b[2] = own

(* restconf_http2_process: the frames of one read *)
LEMMA Http2Step ==
    ASSUME NEW s, NEW c, NEW in, NEW own, NEW subscribed, NEW timeout, Tidy(s), c \in DOMAIN s.conns,
           in = "data" => HasBegun(s, c, own)
    PROVE  Over(s, restconf_http2_process(s, c, in, own, subscribed, timeout))
<1> DEFINE t == restconf_http2_process(s, c, in, own, subscribed, timeout)
<1> SUFFICES Over(s, t)
  OBVIOUS
<1>0. Sound(s, {}) /\ Apart(s)
  BY DEF Tidy
<1>1. CASE s.conns[c].exit
  <2>1. t = s
    BY <1>1 DEF restconf_http2_process
  <2> QED
    BY <2>1 DEF Over, Settled
<1>2. CASE ~s.conns[c].exit /\ in = "bad"
  <2>1. t = restconf_close_ssl_socket(s, c)
    BY <1>2 DEF restconf_http2_process
  <2>2. Settled(s, restconf_close_ssl_socket(s, c))
    BY TidyCloses
  <2> QED
    BY <2>1, <2>2 DEF Over
<1>3. CASE ~s.conns[c].exit /\ in = "header"
  <2> DEFINE r == s.req + 1
  <2>1. t = BeginRequest(s, c, "post")
    BY <1>3 DEF restconf_http2_process
  <2> HIDE DEF t
  <2>2. /\ Sound(t, {}) /\ t.up = s.up /\ t.last = s.last
        /\ t.begun = s.begun \cup {<<c, s.req + 1>>}
        /\ t.params.req = s.req + 1 /\ t.params.clen = 1
        /\ "interrupted" \notin t.mixed => "interrupted" \notin s.mixed /\ s.begun = {}
    <3>1. Begun(s, t, {}, c, "post")
      BY <1>0, <2>1, Begins
    <3> QED
      BY <3>1 DEF Begun
  <2> HIDE DEF r
  <2>3. <<c, r>>[1] = c /\ <<c, r>>[2] = r
    OBVIOUS
  <2>4. ASSUME "interrupted" \notin t.mixed
        PROVE  t.last.own /\ Parted(t)
    <3>1. t.last.own /\ t.begun = {<<c, r>>} /\ t.params.req = r
      BY <1>0, <2>2, <2>4 DEF Apart, r
    <3> QED
      BY <2>2, <2>3, <3>1, Zenon DEF Parted
  <2> QED
    BY <2>2, <2>4 DEF Over, Settled, Tidy, Apart
<1>4. CASE ~s.conns[c].exit /\ in = "data"
  <2>1. t = http2_exec(s, c, own, subscribed, timeout)
    BY <1>4 DEF restconf_http2_process
  <2> HIDE DEF t
  <2>2. ASSUME "interrupted" \notin s.mixed
        PROVE  s.begun = {<<c, own>>} /\ s.params.req = own
    <3>1. PICK b \in s.begun : b[1] = c /\ b[2] = own
      BY <1>4 DEF HasBegun
    <3>2. b = <<b[1], b[2]>> /\ s.begun = {b} /\ s.params.req = b[2]
      BY <1>0, <2>2, <3>1 DEF Apart, Parted
    <3> QED
      BY <3>1, <3>2
  <2> QED
    BY <1>0, <2>1, <2>2, Executes
<1>5. CASE ~s.conns[c].exit /\ in \notin {"bad", "header", "data"}
  <2> DEFINE r == s.req + 1
  <2>0. PICK u : u = BeginRequest(s, c, in)
    OBVIOUS
  <2>1. t = http2_exec(u, c, r, subscribed, timeout)
    BY <1>5, <2>0 DEF restconf_http2_process
  <2> HIDE DEF t
  <2>2. /\ Sound(u, {}) /\ u.up = s.up /\ u.conns = s.conns
        /\ u.begun = s.begun \cup {<<c, s.req + 1>>} /\ u.params.req = s.req + 1
        /\ "interrupted" \notin u.mixed => "interrupted" \notin s.mixed /\ s.begun = {}
    <3>1. Begun(s, u, {}, c, in)
      BY <1>0, <2>0, Begins
    <3> QED
      BY <3>1 DEF Begun
  <2> HIDE DEF r
  <2>3. /\ c \in DOMAIN u.conns
        /\ "interrupted" \notin u.mixed => u.begun = {<<c, r>>} /\ u.params.req = r
    BY <2>2 DEF r
  <2>4. Over(u, http2_exec(u, c, r, subscribed, timeout))
    BY <2>2, <2>3, Executes
  <2> QED
    BY <2>1, <2>2, <2>4 DEF Over, Settled
<1> QED
  BY <1>1, <1>2, <1>3, <1>4, <1>5

------------------------------------------------------------------------------
(* Accepting *)

(* All but the call-home timers *)
Kept(s) ==
    /\ Shape(s) /\ Clean(s) /\ Apart(s)
    /\ \A c \in DOMAIN s.conns : Watches(s, c) /\ (s.conns[c].part => s.conns[c].header)

(* What a change of the call-home timers leaves as it is *)
LEMMA HomesOnly ==
    ASSUME NEW s, NEW t, Kept(s), Untouched(s, t), Homes(t), t.conns = s.conns, t.ev = s.ev
    PROVE  Kept(t)
<1>1. /\ DOMAIN t = Fields /\ t.nr = s.nr /\ t.fds = s.fds /\ t.params = s.params
      /\ t.begun = s.begun /\ t.last = s.last /\ t.mixed = s.mixed
  BY DEF Untouched
<1>2. Shape(s) /\ Clean(s) /\ Apart(s)
  BY DEF Kept
<1>3. \A e \in t.ev : Event(t, e)
  BY <1>1, <1>2 DEF Shape, Event
<1>4. Shape(t)
  BY <1>1, <1>2, <1>3 DEF Shape, Homes
<1>5. Clean(t) /\ Apart(t)
  BY <1>1, <1>2 DEF Clean, Apart, Parted
<1> QED
  BY <1>4, <1>5 DEF Kept, Watches, Timed

(* The timers and connections with which a connection of socket k may be     *)
(* made: the timer of a call-home socket has fired                           *)
Ready(s, k) ==
    /\ k \in DOMAIN Socks /\ s.home[k].timers = 0
    /\ Socks[k].callhome => \A c \in DOMAIN s.conns : s.conns[c].sock # k
    /\ \A j \in DOMAIN Socks : j # k => CalledAt(s, j)

(* c is a connection of socket k that nothing is registered for yet *)
NewConn(s, c, k) ==
    /\ Shape(s) /\ CalledHome(s) /\ Clean(s) /\ Apart(s)
    /\ c \in DOMAIN s.conns /\ s.conns[c].sock = k
    /\ ~s.conns[c].header /\ ~s.conns[c].part /\ s.conns[c].es = 0
    /\ \A e \in s.ev : e[2] # c
    /\ \A d \in DOMAIN s.conns \ {c} : Watches(s, d) /\ (s.conns[d].part => s.conns[d].header)

(* restconf_conn_new: the struct is new to every event *)
LEMMA ConnNew ==
    ASSUME NEW s, NEW k, NEW proto, NEW cert, NEW t, Kept(s), Ready(s, k),
           t = restconf_conn_new(s, k, proto, cert)
    PROVE  t.up = s.up /\ NewConn(t, t.nr, k)
<1> DEFINE c == s.nr + 1
           x == [sock |-> k, ssl |-> Socks[k].ssl, cert |-> cert, proto |-> proto, header |-> FALSE,
                 part |-> FALSE, exit |-> FALSE, es |-> 0, active |-> FALSE]
<1>0. /\ Shape(s) /\ Clean(s) /\ Apart(s)
      /\ \A d \in DOMAIN s.conns : Watches(s, d) /\ (s.conns[d].part => s.conns[d].header)
  BY DEF Kept
<1>1. /\ DOMAIN t = Fields /\ t.home = s.home /\ t.ev = s.ev /\ t.fds = s.fds /\ t.last = s.last /\ t.up = s.up
      /\ t.mixed = s.mixed /\ t.begun = s.begun /\ t.params = s.params /\ t.nr = c
      /\ t.conns = [d \in DOMAIN s.conns \cup {c} |-> IF d \in DOMAIN s.conns THEN s.conns[d] ELSE x]
  BY <1>0 DEF restconf_conn_new, Shape, Fields
<1>2. Conn(x) /\ x.sock = k /\ ~x.header /\ ~x.part /\ x.es = 0
  BY DEF Conn, Ready
<1> HIDE DEF x
<1>3. c \in Nat /\ c \notin 1..s.nr /\ \A d \in 1..s.nr : d \in 1..c
  BY <1>0 DEF Shape
<1>4. c \notin DOMAIN s.conns /\ \A e \in s.ev : e[2] # c
  BY <1>0, <1>3 DEF Shape, Event
<1>5. /\ DOMAIN t.conns = DOMAIN s.conns \cup {c} /\ t.conns[c] = x
      /\ \A d \in DOMAIN s.conns : t.conns[d] = s.conns[d]
  BY <1>1, <1>4
<1>6. c \in 1..c
  BY <1>0 DEF Shape
<1>7. \A e \in t.ev : Event(t, e)
  BY <1>0, <1>1, <1>3 DEF Shape, Event
<1> HIDE DEF c
<1>8. DOMAIN t.conns \subseteq 1..t.nr /\ \A d \in DOMAIN t.conns : Conn(t.conns[d])
  <2>1. DOMAIN s.conns \subseteq 1..s.nr /\ \A d \in DOMAIN s.conns : Conn(s.conns[d])
    BY <1>0 DEF Shape
  <2>2. t.nr = c
    BY <1>1
  <2>3. DOMAIN t.conns \subseteq 1..c
    BY <1>3, <1>5, <1>6, <2>1
  <2>4. \A d \in DOMAIN t.conns : Conn(t.conns[d])
    BY <1>2, <1>5, <2>1
  <2> QED
    BY <2>2, <2>3, <2>4
<1>9. Shape(t)
  BY <1>0, <1>1, <1>3, <1>7, <1>8 DEF Shape
<1>10. ASSUME NEW j \in DOMAIN Socks
       PROVE  CalledAt(t, j)
  <2>1. CASE j # k
    <3>1. CalledAt(s, j)
      BY <2>1 DEF Ready
    <3>2. t.home = s.home /\ t.conns[c].sock # j
      BY <1>1, <1>2, <1>5, <2>1
    <3>3. CASE ~Socks[j].callhome
      BY <3>1, <3>2, <3>3 DEF CalledAt
    <3>4. CASE Socks[j].callhome /\ s.home[j].timers = 1 /\ \A d \in DOMAIN s.conns : s.conns[d].sock # j
      BY <1>5, <3>2, <3>4 DEF CalledAt
    <3>5. CASE /\ Socks[j].callhome /\ s.home[j].timers = 0
               /\ \E b \in DOMAIN s.conns : \A d \in DOMAIN s.conns : s.conns[d].sock = j <=> d = b
      <4>1. PICK b \in DOMAIN s.conns : \A d \in DOMAIN s.conns : s.conns[d].sock = j <=> d = b
        BY <3>5
      <4>2. \A d \in DOMAIN t.conns : t.conns[d].sock = j <=> d = b
        BY <1>4, <1>5, <3>2, <4>1
      <4>3. b \in DOMAIN t.conns
        BY <1>5
      <4> QED
        BY <3>2, <3>5, <4>2, <4>3 DEF CalledAt
    <3> QED
      BY <3>1, <3>3, <3>4, <3>5 DEF CalledAt
  <2>2. CASE j = k
    <3>1. \A d \in DOMAIN t.conns : Socks[k].callhome => (t.conns[d].sock = k <=> d = c)
      BY <1>2, <1>5 DEF Ready
    <3>2. t.home[k].timers = 0 /\ c \in DOMAIN t.conns
      BY <1>1, <1>5 DEF Ready
    <3> QED
      BY <2>2, <3>1, <3>2 DEF CalledAt
  <2> QED
    BY <2>1, <2>2
<1>11. Clean(t)
  <2> SUFFICES ASSUME "shared" \notin t.mixed
               PROVE  /\ \A e \in t.ev : e[2] \in DOMAIN t.conns /\
                            (e[1] \in {"stream", "end"} => t.conns[e[2]].es = e[3])
                      /\ t.last.kind # "stream" => t.last.whole
    BY DEF Clean
  <2>1. /\ \A e \in s.ev : e[2] \in DOMAIN s.conns /\ (e[1] \in {"stream", "end"} => s.conns[e[2]].es = e[3])
        /\ s.last.kind # "stream" => s.last.whole
    BY <1>0, <1>1 DEF Clean
  <2> QED
    BY <1>1, <1>5, <2>1
<1>12. Apart(t)
  BY <1>0, <1>1 DEF Apart, Parted
<1>13. \A d \in DOMAIN s.conns : Watches(t, d) /\ (t.conns[d].part => t.conns[d].header)
  BY <1>0, <1>1, <1>5, Zenon DEF Watches, Timed
<1>14. c \in DOMAIN t.conns /\ t.conns[c].sock = k /\ ~t.conns[c].header /\ ~t.conns[c].part /\ t.conns[c].es = 0
  BY <1>2, <1>5
<1>15. CalledHome(t)
  BY <1>10 DEF CalledHome
<1>16. (\A e \in t.ev : e[2] # c) /\ DOMAIN t.conns \ {c} \subseteq DOMAIN s.conns
  BY <1>1, <1>4, <1>5
<1>17. NewConn(t, c, k)
  BY <1>9, <1>11, <1>12, <1>13, <1>14, <1>15, <1>16 DEF NewConn
<1> QED
  BY <1>1, <1>17

(* A connection whose handshake fails is closed before it is watched *)
LEMMA NewCloses ==
    ASSUME NEW s, NEW c, NEW k, NewConn(s, c, k)
    PROVE  Settled(s, restconf_close_ssl_socket(s, c))
<1> DEFINE t == restconf_close_ssl_socket(s, c)
<1>1. <<"header", c, 0>>[2] = c /\ <<"idle", c, 0>>[2] = c
  OBVIOUS
<1>2. <<"header", c, 0>> \notin s.ev /\ <<"idle", c, 0>> \notin s.ev
  BY <1>1 DEF NewConn
<1>3. Closable(s, c)
  BY <1>2 DEF NewConn, Closable, Apart
<1>4. Tidy(t) /\ t.up = s.up
  BY <1>3, Closes
<1> QED
  BY <1>4 DEF Settled

(* A new connection is watched, and timed if its socket says so *)
LEMMA Joins ==
    ASSUME NEW s, NEW c, NEW k, NEW t, NewConn(s, c, k), Untouched(s, t), t.home = s.home,
           DOMAIN t.conns = DOMAIN s.conns, \A d \in DOMAIN s.conns : d # c => t.conns[d] = s.conns[d],
           Alike(t.conns[c], s.conns[c]), ~t.conns[c].part,
           \A e : e \in t.ev <=> e \in s.ev \/ e = <<"read", c, 0>> \/ (Idles(k) /\ e = <<"idle", c, 0>>)
    PROVE  Settled(s, t)
<1>0. /\ Shape(s) /\ CalledHome(s) /\ Clean(s) /\ Apart(s)
      /\ c \in DOMAIN s.conns /\ s.conns[c].sock = k /\ ~s.conns[c].header /\ s.conns[c].es = 0
      /\ \A e \in s.ev : e[2] # c
      /\ \A d \in DOMAIN s.conns \ {c} : Watches(s, d) /\ (s.conns[d].part => s.conns[d].header)
  BY DEF NewConn
<1>1. /\ DOMAIN t = Fields /\ t.up = s.up /\ t.nr = s.nr /\ t.fds = s.fds
      /\ t.params = s.params /\ t.begun = s.begun /\ t.last = s.last /\ t.mixed = s.mixed
  BY DEF Untouched
<1>2. /\ <<"read", c, 0>>[2] = c /\ <<"idle", c, 0>>[2] = c /\ <<"header", c, 0>>[2] = c
      /\ <<"read", c, 0>>[1] = "read" /\ <<"idle", c, 0>>[1] = "idle"
      /\ <<"read", c, 0>>[3] = 0 /\ <<"idle", c, 0>>[3] = 0
      /\ <<"header", c, 0>> # <<"read", c, 0>> /\ <<"header", c, 0>> # <<"idle", c, 0>>
      /\ <<"idle", c, 0>> # <<"read", c, 0>>
  OBVIOUS
<1>3. c \in 1..s.nr
  BY <1>0 DEF Shape
<1>4. \A e \in t.ev : e \in s.ev \/ e = <<"read", c, 0>> \/ e = <<"idle", c, 0>>
  OBVIOUS
<1>5. Event(t, <<"read", c, 0>>) /\ Event(t, <<"idle", c, 0>>)
  BY <1>1, <1>3 DEF Event
<1>6. \A e \in s.ev : Event(t, e)
  BY <1>0, <1>1 DEF Shape, Event
<1>7. \A e \in t.ev : Event(t, e)
  BY <1>4, <1>5, <1>6
<1>8. \A d \in DOMAIN t.conns : Conn(t.conns[d]) /\ t.conns[d].sock = s.conns[d].sock
  BY <1>0 DEF Shape, Alike
<1>9. Shape(t)
  BY <1>0, <1>1, <1>7, <1>8 DEF Shape
<1>10. CalledHome(t)
  <2> SUFFICES ASSUME NEW j \in DOMAIN Socks
               PROVE  CalledAt(t, j)
    BY DEF CalledHome
  <2>1. CalledAt(s, j)
    BY <1>0 DEF CalledHome
  <2> QED
    BY <1>8, <2>1 DEF CalledAt
<1>11. Clean(t)
  <2>1. \A d \in DOMAIN s.conns : t.conns[d].es = s.conns[d].es
    BY DEF Alike
  <2>2. \A e \in t.ev : e \in s.ev \/ (e[2] \in DOMAIN s.conns /\ e[1] \notin {"stream", "end"})
    BY <1>0, <1>2, <1>4
  <2>3. "shared" \notin t.mixed => "shared" \notin s.mixed /\ (t.last.kind # "stream" => t.last.whole)
    BY <1>0, <1>1 DEF Clean
  <2> QED
    BY <1>0, <2>1, <2>2, <2>3, CleanBy
<1>12. Apart(t)
  BY <1>0, <1>1 DEF Apart, Parted
<1>13. Watches(t, c)
  <2>1. ~t.conns[c].header /\ t.conns[c].es = 0 /\ t.conns[c].sock = k
    BY <1>0 DEF Alike
  <2>2. <<"header", c, 0>> \notin s.ev /\ <<"idle", c, 0>> \notin s.ev
    BY <1>0, <1>2
  <2>3. /\ <<"header", c, 0>> \notin t.ev /\ <<"read", c, 0>> \in t.ev
        /\ <<"idle", c, 0>> \in t.ev <=> Idles(k)
    BY <1>2, <2>2
  <2> QED
    BY <2>1, <2>3 DEF Watches, Timed
<1>14. ASSUME NEW d \in DOMAIN s.conns \ {c}
       PROVE  Watches(t, d) /\ (t.conns[d].part => t.conns[d].header)
  <2>1. Watches(s, d) /\ (s.conns[d].part => s.conns[d].header) /\ t.conns[d] = s.conns[d]
    BY <1>0
  <2>2. /\ <<"header", d, 0>>[2] = d /\ <<"idle", d, 0>>[2] = d
        /\ \A i : <<"stream", d, i>>[2] = d
    OBVIOUS
  <2>3. \A e : e[2] = d => (e \in t.ev <=> e \in s.ev)
    BY <1>2
  <2>4. s.ev \subseteq t.ev
    OBVIOUS
  <2> QED
    BY <2>1, <2>2, <2>3, <2>4 DEF Watches, Timed
<1> QED
  BY <1>1, <1>9, <1>10, <1>11, <1>12, <1>13, <1>14 DEF Settled, Tidy, Sound

(* A client connects to a socket that has no idle timer *)
LEMMA AcceptStep ==
    ASSUME NEW s, NEW k, NEW proto, NEW cert, Kept(s), Ready(s, k), proto = 0 \/ ~Idles(k)
    PROVE  Settled(s, restconf_ssl_accept_client(s, k, proto, cert))
<1>1. PICK n : n = restconf_conn_new(s, k, proto, cert)
  OBVIOUS
<1>2. n.up = s.up /\ NewConn(n, n.nr, k)
  BY <1>1, ConnNew
<1>3. CASE proto = 0
  <2>1. restconf_ssl_accept_client(s, k, proto, cert) = restconf_close_ssl_socket(n, n.nr)
    BY <1>1, <1>3 DEF restconf_ssl_accept_client
  <2>2. Settled(n, restconf_close_ssl_socket(n, n.nr))
    BY <1>2, NewCloses
  <2> QED
    BY <1>2, <2>1, <2>2 DEF Settled
<1>4. CASE proto # 0
  <2>1. PICK t : t = Watched(n, n.nr)
    OBVIOUS
  <2>2. restconf_ssl_accept_client(s, k, proto, cert) = t
    BY <1>1, <1>4, <2>1 DEF restconf_ssl_accept_client
  <2>3. Shape(n) /\ n.nr \in DOMAIN n.conns /\ ~n.conns[n.nr].part
    BY <1>2 DEF NewConn
  <2>4. /\ Untouched(n, t) /\ t.home = n.home /\ t.conns = n.conns
        /\ t.ev = n.ev \cup {<<"read", n.nr, 0>>}
    BY <2>1, <2>3 DEF Watched, Reg, Untouched, Shape, Fields
  <2>5. Alike(t.conns[n.nr], n.conns[n.nr])
    BY <2>3, <2>4 DEF Shape, Alike
  <2>6. \A e : e \in t.ev <=> e \in n.ev \/ e = <<"read", n.nr, 0>> \/ (Idles(k) /\ e = <<"idle", n.nr, 0>>)
    BY <1>4, <2>4
  <2>7. Settled(n, t)
    BY <1>2, <2>3, <2>4, <2>5, <2>6, Joins
  <2> QED
    BY <1>2, <2>2, <2>7 DEF Settled
<1> QED
  BY <1>3, <1>4

(* The daemon connects to a peer that it gives an idle timer *)
LEMMA IdleStep ==
    ASSUME NEW s, NEW k, NEW proto, NEW cert, NEW t, Kept(s), Ready(s, k), proto # 0, Idles(k),
           t = restconf_ssl_accept_client(s, k, proto, cert)
    PROVE  Settled(s, restconf_idle_timer(t, t.nr))
<1>1. PICK n : n = restconf_conn_new(s, k, proto, cert)
  OBVIOUS
<1>2. n.up = s.up /\ NewConn(n, n.nr, k)
  BY <1>1, ConnNew
<1>3. t = Watched(n, n.nr)
  BY <1>1 DEF restconf_ssl_accept_client
<1>4. Shape(n) /\ n.nr \in DOMAIN n.conns /\ ~n.conns[n.nr].part
  BY <1>2 DEF NewConn
<1>5. /\ Untouched(n, t) /\ t.home = n.home /\ t.conns = n.conns
      /\ t.ev = n.ev \cup {<<"read", n.nr, 0>>}
  BY <1>3, <1>4 DEF Watched, Reg, Untouched, Shape, Fields
<1>6. PICK c : c = n.nr
  OBVIOUS
<1>7. PICK u : u = restconf_idle_timer(t, c)
  OBVIOUS
<1>8. /\ Untouched(n, u) /\ u.home = n.home
      /\ u.ev = t.ev \cup {<<"idle", c, 0>>}
      /\ u.conns = [t.conns EXCEPT ![c].active = FALSE]
  BY <1>5, <1>7, Zenon DEF restconf_idle_timer, Reg, Untouched, Fields
<1>9. /\ DOMAIN u.conns = DOMAIN n.conns /\ \A d \in DOMAIN n.conns : d # c => u.conns[d] = n.conns[d]
      /\ u.conns[c] = [n.conns[c] EXCEPT !.active = FALSE]
  BY <1>4, <1>5, <1>6, <1>8
<1>10. Alike(u.conns[c], n.conns[c]) /\ ~u.conns[c].part
  BY <1>4, <1>6, <1>9 DEF Shape, Alike, Conn
<1>11. \A e : e \in u.ev <=> e \in n.ev \/ e = <<"read", c, 0>> \/ (Idles(k) /\ e = <<"idle", c, 0>>)
  BY <1>5, <1>6, <1>8
<1>12. NewConn(n, c, k)
  BY <1>2, <1>6
<1>13. Settled(n, u)
  BY <1>8, <1>9, <1>10, <1>11, <1>12, Joins, Zenon
<1>14. t.nr = c
  BY <1>5, <1>6 DEF Untouched
<1> QED
  BY <1>2, <1>7, <1>13, <1>14 DEF Settled

------------------------------------------------------------------------------
(* The callbacks *)

(* The daemon is as it should be when its call-home timers are, and the rest *)
LEMMA TidyKept ==
    ASSUME NEW s
    PROVE  Tidy(s) <=> Kept(s) /\ CalledHome(s)
BY DEF Tidy, Kept, Sound

(* restconf_accept_client: a listening socket has no timer *)
LEMMA AcceptClientStep ==
    ASSUME Tidy(rn), restconf_accept_client
    PROVE  Over(rn, rn')
<1>1. PICK k \in DOMAIN Socks, cert \in BOOLEAN :
        /\ ~Socks[k].callhome
        /\ \E proto \in ssl_alpn_check(k) : rn' = restconf_ssl_accept_client(rn, k, proto, cert)
  BY DEF restconf_accept_client
<1>2. PICK proto : rn' = restconf_ssl_accept_client(rn, k, proto, cert)
  BY <1>1
<1>3. Kept(rn) /\ CalledHome(rn)
  BY TidyKept
<1>4. Ready(rn, k) /\ ~Idles(k)
  BY <1>1, <1>3 DEF CalledHome, CalledAt, Ready, Idles
<1>5. Settled(rn, restconf_ssl_accept_client(rn, k, proto, cert))
  BY <1>3, <1>4, AcceptStep
<1> QED
  BY <1>2, <1>5 DEF Over

Fired(s, k, n) == [[s EXCEPT !.home[k].timers = @ - 1] EXCEPT !.home[k].attempts = n]

(* The call-home timer of socket k fires: its connection may be made *)
LEMMA TimerFires ==
    ASSUME NEW s, NEW k \in DOMAIN Socks, NEW n, NEW t, Tidy(s), s.home[k].timers > 0,
           t = Fired(s, k, n)
    PROVE  /\ Socks[k].callhome /\ s.home[k].timers = 1
           /\ Kept(t) /\ Ready(t, k) /\ t.up = s.up /\ t.conns = s.conns /\ t.ev = s.ev
           /\ \A j \in DOMAIN Socks : j # k => t.home[j] = s.home[j]
<1>1. Kept(s) /\ CalledHome(s)
  BY TidyKept
<1>2. Socks[k].callhome /\ s.home[k].timers = 1 /\ \A c \in DOMAIN s.conns : s.conns[c].sock # k
  BY <1>1 DEF CalledHome, CalledAt
<1>3. Shape(s)
  BY <1>1 DEF Kept
<1>4. Untouched(s, t) /\ t.conns = s.conns /\ t.ev = s.ev
  BY <1>3 DEF Fired, Shape, Fields, Untouched
<1>5. /\ DOMAIN t.home = DOMAIN Socks /\ DOMAIN t.home[k] = {"timers", "attempts", "used"}
      /\ t.home[k].timers = s.home[k].timers - 1
      /\ \A j \in DOMAIN Socks : j # k => t.home[j] = s.home[j]
  BY <1>3 DEF Fired, Shape, Fields
<1>6. t.home[k].timers = 0
  BY <1>2, <1>5
<1>7. Homes(t)
  BY <1>3, <1>5, <1>6 DEF Homes, Shape
<1>8. Kept(t)
  BY <1>1, <1>4, <1>7, HomesOnly
<1>9. \A j \in DOMAIN Socks : j # k => CalledAt(t, j)
  BY <1>1, <1>4, <1>5 DEF CalledHome, CalledAt
<1>10. Ready(t, k)
  BY <1>2, <1>4, <1>6, <1>9 DEF Ready
<1> QED
  BY <1>2, <1>4, <1>5, <1>8, <1>10 DEF Untouched

(* restconf_callhome_cb: the attempt fails and the timer is set again, or    *)
(* the connection takes its place                                            *)
LEMMA CallhomeStep ==
    ASSUME Tidy(rn), restconf_callhome_cb
    PROVE  Over(rn, rn')
<1>1. PICK k \in DOMAIN Socks :
        /\ rn.home[k].timers > 0
        /\ LET s == [rn EXCEPT !.home[k].timers = @ - 1] IN
           \/ rn' = restconf_callhome_timer([s EXCEPT !.home[k].attempts = (@ + 1) % 256], k, 0)
           \/ \E proto \in ssl_alpn_check(k), cert \in BOOLEAN :
                LET t == restconf_ssl_accept_client([s EXCEPT !.home[k].attempts = 0], k, proto, cert) IN
                rn' = IF proto # 0 /\ Socks[k].periodic /\ Socks[k].idle THEN restconf_idle_timer(t, t.nr) ELSE t
  BY Zenon DEF restconf_callhome_cb
<1> DEFINE s == [rn EXCEPT !.home[k].timers = @ - 1]
           n == (s.home[k].attempts + 1) % 256
<1>2. CASE rn' = restconf_callhome_timer([s EXCEPT !.home[k].attempts = (@ + 1) % 256], k, 0)
  <2>0. [s EXCEPT !.home[k].attempts = (@ + 1) % 256] = Fired(rn, k, n)
    BY DEF Fired
  <2> HIDE DEF n
  <2> HIDE DEF s
  <2>1. PICK u : u = Fired(rn, k, n)
    OBVIOUS
  <2>2. rn' = restconf_callhome_timer(u, k, 0)
    BY <1>2, <2>0, <2>1
  <2>3. /\ Socks[k].callhome /\ rn.home[k].timers = 1
        /\ Kept(u) /\ Ready(u, k) /\ u.up = rn.up /\ u.conns = rn.conns /\ u.ev = rn.ev
    BY <1>1, <2>1, TimerFires
  <2>4. DOMAIN u = Fields /\ Homes(u)
    BY <2>3 DEF Kept, Shape, Homes
  <2>5. /\ Untouched(u, rn') /\ Homes(rn') /\ rn'.conns = u.conns /\ rn'.ev = u.ev
        /\ rn'.home[k].timers = u.home[k].timers + 1
        /\ \A j \in DOMAIN Socks : j # k => rn'.home[j] = u.home[j]
    BY <2>2, <2>4, CallhomeTimer
  <2>6. Kept(rn')
    BY <2>3, <2>5, HomesOnly
  <2>7. rn'.home[k].timers = 1
    BY <2>3, <2>5 DEF Ready
  <2>8. CalledHome(rn')
    BY <2>3, <2>5, <2>7 DEF CalledHome, CalledAt, Ready
  <2>9. Tidy(rn')
    BY <2>6, <2>8, TidyKept
  <2>10. rn'.up = rn.up
    BY <2>3, <2>5 DEF Untouched
  <2> QED
    BY <2>9, <2>10 DEF Over, Settled
<1>3. CASE \E proto \in ssl_alpn_check(k), cert \in BOOLEAN :
             LET t == restconf_ssl_accept_client([s EXCEPT !.home[k].attempts = 0], k, proto, cert) IN
             rn' = IF proto # 0 /\ Socks[k].periodic /\ Socks[k].idle THEN restconf_idle_timer(t, t.nr) ELSE t
  <2>0. [s EXCEPT !.home[k].attempts = 0] = Fired(rn, k, 0)
    BY DEF Fired
  <2> HIDE DEF s
  <2>1. PICK u : u = Fired(rn, k, 0)
    OBVIOUS
  <2>2. Socks[k].callhome /\ Kept(u) /\ Ready(u, k) /\ u.up = rn.up
    BY <1>1, <2>1, TimerFires
  <2>3. PICK proto, cert :
          LET t == restconf_ssl_accept_client(u, k, proto, cert) IN
          rn' = IF proto # 0 /\ Socks[k].periodic /\ Socks[k].idle THEN restconf_idle_timer(t, t.nr) ELSE t
    BY <1>3, <2>0, <2>1
  <2>4. PICK t : t = restconf_ssl_accept_client(u, k, proto, cert)
    OBVIOUS
  <2>5. CASE proto # 0 /\ Idles(k)
    <3>1. rn' = restconf_idle_timer(t, t.nr)
      BY <2>3, <2>4, <2>5 DEF Idles
    <3>2. Settled(u, restconf_idle_timer(t, t.nr))
      BY <2>2, <2>4, <2>5, IdleStep
    <3> QED
      BY <2>2, <3>1, <3>2 DEF Over, Settled
  <2>6. CASE proto = 0 \/ ~Idles(k)
    <3>1. rn' = restconf_ssl_accept_client(u, k, proto, cert)
      BY <2>2, <2>3, <2>6 DEF Idles
    <3>2. Settled(u, restconf_ssl_accept_client(u, k, proto, cert))
      BY <2>2, <2>6, AcceptStep
    <3> QED
      BY <2>2, <3>1, <3>2 DEF Over, Settled
  <2> QED
    BY <2>5, <2>6
<1> QED
  BY <1>1, <1>2, <1>3

Active(s, c) == [s EXCEPT !.conns[c].active = TRUE]

(* The mark that there was input on a connection *)
LEMMA Reads ==
    ASSUME NEW s, NEW c, NEW t, Tidy(s), c \in DOMAIN s.conns, t = Active(s, c)
    PROVE  Tidy(t) /\ t.up = s.up /\ t.begun = s.begun /\ c \in DOMAIN t.conns
<1>0. Sound(s, {}) /\ Shape(s) /\ Apart(s)
  BY DEF Tidy, Sound
<1>1. /\ DOMAIN t = Fields /\ t.home = s.home /\ t.ev = s.ev /\ t.nr = s.nr /\ t.fds = s.fds
      /\ t.last = s.last /\ t.mixed = s.mixed /\ t.up = s.up /\ t.begun = s.begun /\ t.params = s.params
  BY <1>0 DEF Active, Shape, Fields
<1>2. /\ DOMAIN t.conns = DOMAIN s.conns
      /\ \A d \in DOMAIN s.conns : d # c => t.conns[d] = s.conns[d]
      /\ t.conns[c] = [s.conns[c] EXCEPT !.active = TRUE]
  BY <1>0 DEF Active, Shape, Fields
<1>3. Marked(s, t, c) /\ t.conns[c].part = s.conns[c].part
  BY <1>0, <1>1, <1>2, Zenon DEF Marked, Shape, Conn
<1>4. Sound(t, {})
  BY <1>0, <1>3, SoundMarked
<1>5. Apart(t)
  BY <1>0, <1>1 DEF Apart, Parted
<1> QED
  BY <1>1, <1>2, <1>4, <1>5 DEF Tidy

(* restconf_connection: the peer closes, or sends by the protocol of the     *)
(* connection                                                                *)
LEMMA ConnectionStep ==
    ASSUME Tidy(rn), restconf_connection
    PROVE  Over(rn, rn')
<1>1. PICK c \in DOMAIN rn.conns, subscribed, timeout, written \in BOOLEAN :
        LET s == [rn EXCEPT !.conns[c].active = TRUE] IN
        /\ <<"read", c, 0>> \in rn.ev
        /\ timeout => subscribed
        /\ \/ /\ ~subscribed /\ written
              /\ rn' = restconf_close_ssl_socket(s, c)
           \/ /\ rn.conns[c].proto = 1 /\ rn.req < MaxRequests
              /\ \E in \in {"part", "bad", "huge", "aborted", "get", "post", "stream", "upgrade"} :
                   /\ subscribed => in = "stream" \/ BodyExpected(s)
                   /\ written \/ in \in {"get", "post", "stream", "upgrade"}
                   /\ rn' = restconf_http1_process(s, c, in, subscribed, timeout, written)
           \/ /\ rn.conns[c].proto = 2 /\ written
              /\ \E in \in {"bad", "header", "get", "stream"} :
                   /\ rn.req < MaxRequests
                   /\ subscribed => in = "stream"
                   /\ rn' = restconf_http2_process(s, c, in, 0, subscribed, timeout)
           \/ /\ rn.conns[c].proto = 2 /\ written
              /\ \E b \in rn.begun :
                   /\ b[1] = c
                   /\ subscribed => rn.params.kind = "stream"
                   /\ rn' = restconf_http2_process(s, c, "data", b[2], subscribed, timeout)
  BY Zenon DEF restconf_connection
<1>2. PICK s : s = Active(rn, c)
  OBVIOUS
<1>3. \/ rn' = restconf_close_ssl_socket(s, c)
      \/ \E in \in {"part", "bad", "huge", "aborted", "get", "post", "stream", "upgrade"} :
           rn' = restconf_http1_process(s, c, in, subscribed, timeout, written)
      \/ \E in \in {"bad", "header", "get", "stream"} :
           rn' = restconf_http2_process(s, c, in, 0, subscribed, timeout)
      \/ \E b \in rn.begun : b[1] = c /\ rn' = restconf_http2_process(s, c, "data", b[2], subscribed, timeout)
  BY <1>1, <1>2, Zenon DEF Active
<1>4. Tidy(s) /\ s.up = rn.up /\ s.begun = rn.begun /\ c \in DOMAIN s.conns
  BY <1>2, Reads
<1>5. Over(s, rn') => Over(rn, rn')
  BY <1>4 DEF Over, Settled
<1>6. CASE rn' = restconf_close_ssl_socket(s, c)
  <2>1. Settled(s, restconf_close_ssl_socket(s, c))
    BY <1>4, TidyCloses
  <2> QED
    BY <1>5, <1>6, <2>1 DEF Over
<1>7. ASSUME NEW in, rn' = restconf_http1_process(s, c, in, subscribed, timeout, written)
      PROVE  Over(rn, rn')
  <2>1. Settled(s, restconf_http1_process(s, c, in, subscribed, timeout, written))
    BY <1>4, Http1Step
  <2> QED
    BY <1>5, <1>7, <2>1 DEF Over
<1>8. ASSUME NEW in \in {"bad", "header", "get", "stream"},
             rn' = restconf_http2_process(s, c, in, 0, subscribed, timeout)
      PROVE  Over(rn, rn')
  <2>1. in # "data"
    OBVIOUS
  <2>2. Over(s, restconf_http2_process(s, c, in, 0, subscribed, timeout))
    BY <1>4, <2>1, Http2Step
  <2> QED
    BY <1>5, <1>8, <2>2
<1>9. ASSUME NEW b \in rn.begun, b[1] = c,
             rn' = restconf_http2_process(s, c, "data", b[2], subscribed, timeout)
      PROVE  Over(rn, rn')
  <2>1. HasBegun(s, c, b[2])
    BY <1>4, <1>9 DEF HasBegun
  <2>2. Over(s, restconf_http2_process(s, c, "data", b[2], subscribed, timeout))
    BY <1>4, <2>1, Http2Step
  <2> QED
    BY <1>5, <1>9, <2>2
<1> QED
  BY <1>3, <1>6, <1>7, <1>8, <1>9

(* restconf_header_timeout_cb: the timer that fires is the connection's own *)
LEMMA HeaderTimeoutStep ==
    ASSUME Tidy(rn), restconf_header_timeout_cb
    PROVE  Over(rn, rn')
<1>1. PICK c \in DOMAIN rn.conns :
        /\ <<"header", c, 0>> \in rn.ev
        /\ rn' = restconf_close_ssl_socket([Unreg(rn, <<"header", c, 0>>) EXCEPT !.conns[c].header = FALSE], c)
  BY Zenon DEF restconf_header_timeout_cb
<1>2. PICK s : s = restconf_header_timer_unreg(rn, c)
  OBVIOUS
<1>3. Sound(rn, {}) /\ Apart(rn)
  BY DEF Tidy
<1>4. rn.conns[c].header
  BY <1>1, <1>3, Zenon DEF Sound, Watches, Timed
<1>5. rn' = restconf_close_ssl_socket(s, c)
  BY <1>1, <1>2, <1>4 DEF restconf_header_timer_unreg
<1>6. /\ Sound(s, {c}) /\ s.up = rn.up /\ s.params = rn.params /\ s.begun = rn.begun
      /\ s.last = rn.last /\ s.mixed = rn.mixed /\ DOMAIN s.conns = DOMAIN rn.conns
  BY <1>2, <1>3, HeaderOff
<1>7. "interrupted" \notin s.mixed => s.last.own /\ Parted(s)
  BY <1>3, <1>6 DEF Apart, Parted
<1>8. Closable(s, c)
  BY <1>6, <1>7, SoundCloses
<1>9. Tidy(rn') /\ rn'.up = s.up
  BY <1>5, <1>8, Closes
<1> QED
  BY <1>6, <1>9 DEF Over, Settled

(* A timer that has fired is no longer registered: its connection can be     *)
(* closed without it                                                         *)
LEMMA FiredCloses ==
    ASSUME NEW s, NEW c, NEW e, NEW t, Tidy(s), c \in DOMAIN s.conns, e[2] = c,
           Untouched(s, t), t.home = s.home, t.ev = s.ev \ {e}, DOMAIN t.conns = DOMAIN s.conns,
           \A d \in DOMAIN s.conns : d # c => t.conns[d] = s.conns[d],
           Alike(t.conns[c], s.conns[c])
    PROVE  Settled(s, restconf_close_ssl_socket(t, c))
<1>0. /\ Shape(s) /\ CalledHome(s) /\ Clean(s) /\ Apart(s)
      /\ \A d \in DOMAIN s.conns : Watches(s, d) /\ (s.conns[d].part => s.conns[d].header)
  BY DEF Tidy, Sound
<1>1. /\ DOMAIN t = Fields /\ t.up = s.up /\ t.nr = s.nr /\ t.fds = s.fds
      /\ t.params = s.params /\ t.begun = s.begun /\ t.last = s.last /\ t.mixed = s.mixed
  BY DEF Untouched
<1>2. \A d \in DOMAIN s.conns : /\ Conn(t.conns[d]) /\ t.conns[d].sock = s.conns[d].sock
                                /\ t.conns[d].es = s.conns[d].es
  BY <1>0 DEF Shape, Alike
<1>3. \A f \in t.ev : Event(t, f)
  BY <1>0, <1>1 DEF Shape, Event
<1>4. Shape(t)
  BY <1>0, <1>1, <1>2, <1>3 DEF Shape
<1>5. CalledHome(t)
  <2> SUFFICES ASSUME NEW k \in DOMAIN Socks
               PROVE  CalledAt(t, k)
    BY DEF CalledHome
  <2>1. CalledAt(s, k)
    BY <1>0 DEF CalledHome
  <2> QED
    BY <1>2, <2>1 DEF CalledAt
<1>6. Clean(t)
  <2>1. \A f \in t.ev : f \in s.ev
    OBVIOUS
  <2>2. "shared" \notin t.mixed => "shared" \notin s.mixed /\ (t.last.kind # "stream" => t.last.whole)
    BY <1>0, <1>1 DEF Clean
  <2> QED
    BY <1>0, <1>2, <2>1, <2>2, CleanBy
<1>7. ASSUME NEW d \in DOMAIN s.conns \ {c}
      PROVE  Watches(t, d) /\ (t.conns[d].part => t.conns[d].header)
  <2>1. Watches(s, d) /\ (s.conns[d].part => s.conns[d].header) /\ t.conns[d] = s.conns[d]
    BY <1>0
  <2>2. \A i, j : <<i, d, j>>[2] = d
    OBVIOUS
  <2>3. \A i, j : <<i, d, j>> \in t.ev <=> <<i, d, j>> \in s.ev
    BY <2>2
  <2> QED
    BY <2>1, <2>3 DEF Watches, Timed
<1>8. /\ <<"header", c, 0>> \in t.ev => t.conns[c].header
      /\ <<"idle", c, 0>> \in t.ev => Idles(t.conns[c].sock)
  BY <1>0, Zenon DEF Watches, Timed, Alike
<1>9. Closable(t, c)
  BY <1>0, <1>1, <1>4, <1>5, <1>6, <1>7, <1>8 DEF Closable, Apart, Parted
<1>10. PICK u : u = restconf_close_ssl_socket(t, c)
  OBVIOUS
<1>11. Tidy(u) /\ u.up = t.up
  BY <1>9, <1>10, Closes
<1> QED
  BY <1>1, <1>10, <1>11 DEF Settled

(* restconf_idle_cb: the timer is set again, or the connection closed *)
LEMMA IdleTimeoutStep ==
    ASSUME Tidy(rn), restconf_idle_cb
    PROVE  Over(rn, rn')
<1>1. PICK c \in DOMAIN rn.conns :
        /\ <<"idle", c, 0>> \in rn.ev
        /\ LET s == Unreg(rn, <<"idle", c, 0>>) IN
           rn' = IF rn.conns[c].active THEN restconf_idle_timer(s, c) ELSE restconf_close_ssl_socket(s, c)
  BY DEF restconf_idle_cb
<1> DEFINE e == <<"idle", c, 0>>
<1>2. PICK s : s = Unreg(rn, e)
  OBVIOUS
<1>3. Sound(rn, {}) /\ Shape(rn) /\ Apart(rn)
  BY DEF Tidy, Sound
<1>4. Untouched(rn, s) /\ s.home = rn.home /\ s.conns = rn.conns /\ s.ev = rn.ev \ {e}
  BY <1>2, <1>3 DEF Unreg, Untouched, Shape, Fields
<1>5. CASE rn.conns[c].active
  <2>1. rn' = restconf_idle_timer(s, c)
    BY <1>1, <1>2, <1>5
  <2>2. /\ DOMAIN rn' = Fields /\ rn'.home = rn.home /\ rn'.nr = rn.nr /\ rn'.fds = rn.fds
        /\ rn'.last = rn.last /\ rn'.mixed = rn.mixed /\ rn'.up = rn.up /\ rn'.begun = rn.begun
        /\ rn'.params = rn.params /\ rn'.ev = s.ev \cup {e}
        /\ rn'.conns = [rn.conns EXCEPT ![c].active = FALSE]
    BY <1>4, <2>1, Zenon DEF restconf_idle_timer, Reg, Untouched, Fields
  <2>3. rn'.ev = rn.ev
    BY <1>1, <1>4, <2>2, Zenon
  <2>4. /\ DOMAIN rn'.conns = DOMAIN rn.conns
        /\ \A d \in DOMAIN rn.conns : d # c => rn'.conns[d] = rn.conns[d]
        /\ rn'.conns[c] = [rn.conns[c] EXCEPT !.active = FALSE]
    BY <2>2
  <2>5. Marked(rn, rn', c) /\ rn'.conns[c].part = rn.conns[c].part
    BY <1>3, <2>2, <2>3, <2>4, Zenon DEF Marked, Shape, Conn
  <2>6. Sound(rn', {})
    BY <1>3, <2>5, SoundMarked
  <2>7. Apart(rn')
    BY <1>3, <2>2 DEF Apart, Parted
  <2> QED
    BY <2>2, <2>6, <2>7 DEF Over, Settled, Tidy
<1>6. CASE ~rn.conns[c].active
  <2>1. rn' = restconf_close_ssl_socket(s, c)
    BY <1>1, <1>2, <1>6
  <2>2. Alike(s.conns[c], rn.conns[c]) /\ e[2] = c
    BY <1>3, <1>4 DEF Alike, Shape
  <2> HIDE DEF e
  <2>3. Settled(rn, restconf_close_ssl_socket(s, c))
    BY <1>4, <2>2, FiredCloses
  <2> QED
    BY <2>1, <2>3 DEF Over
<1> QED
  BY <1>5, <1>6

(* stream_native_backend_cb: the end of the backend's socket *)
LEMMA StreamEndStep ==
    ASSUME Tidy(rn), stream_native_backend_cb
    PROVE  Over(rn, rn')
<1>1. PICK e \in rn.ev :
        rn' = IF Live(e[2]) THEN restconf_close_ssl_socket(rn, e[2]) ELSE [rn EXCEPT !.up = "end"]
  BY DEF stream_native_backend_cb
<1>2. CASE Live(e[2])
  <2>1. rn' = restconf_close_ssl_socket(rn, e[2]) /\ e[2] \in DOMAIN rn.conns
    BY <1>1, <1>2 DEF Live
  <2>2. Settled(rn, restconf_close_ssl_socket(rn, e[2]))
    BY <2>1, TidyCloses
  <2> QED
    BY <2>1, <2>2 DEF Over
<1>3. CASE ~Live(e[2])
  <2>1. DOMAIN rn = Fields
    BY DEF Tidy, Sound, Shape
  <2> QED
    BY <1>1, <1>3, <2>1 DEF Over, Fields
<1> QED
  BY <1>2, <1>3

(* stream_timeout_end: the timer of an event stream *)
LEMMA StreamTimeoutStep ==
    ASSUME Tidy(rn), stream_timeout_end
    PROVE  Over(rn, rn')
<1>1. PICK e \in rn.ev :
        rn' = IF Live(e[2]) THEN restconf_close_ssl_socket([Unreg(rn, e) EXCEPT !.conns[e[2]].exit = TRUE], e[2])
              ELSE [rn EXCEPT !.up = "end"]
  BY Zenon DEF stream_timeout_end
<1>0. Shape(rn)
  BY DEF Tidy, Sound
<1>2. CASE Live(e[2])
  <2>1. PICK c : c = e[2]
    OBVIOUS
  <2>2. PICK s : s = [Unreg(rn, e) EXCEPT !.conns[c].exit = TRUE]
    BY Zenon
  <2>3. rn' = restconf_close_ssl_socket(s, c) /\ c \in DOMAIN rn.conns
    BY <1>1, <1>2, <2>1, <2>2 DEF Live
  <2>4. /\ Untouched(rn, s) /\ s.home = rn.home /\ s.ev = rn.ev \ {e}
        /\ s.conns = [rn.conns EXCEPT ![c].exit = TRUE]
    BY <1>0, <2>2 DEF Unreg, Untouched, Shape, Fields
  <2>5. /\ DOMAIN s.conns = DOMAIN rn.conns /\ \A d \in DOMAIN rn.conns : d # c => s.conns[d] = rn.conns[d]
        /\ s.conns[c] = [rn.conns[c] EXCEPT !.exit = TRUE]
    BY <2>3, <2>4
  <2>6. Alike(s.conns[c], rn.conns[c])
    BY <1>0, <2>3, <2>5 DEF Alike, Shape, Conn
  <2>7. Settled(rn, restconf_close_ssl_socket(s, c))
    BY <2>1, <2>3, <2>4, <2>5, <2>6, FiredCloses
  <2> QED
    BY <2>3, <2>7 DEF Over
<1>3. CASE ~Live(e[2])
  BY <1>0, <1>1, <1>3 DEF Over, Shape, Fields
<1> QED
  BY <1>2, <1>3

(* restconf_native_terminate: the daemon ends *)
LEMMA TerminateStep ==
    ASSUME Tidy(rn), restconf_native_terminate
    PROVE  Over(rn, rn')
<1>1. DOMAIN rn = Fields
  BY DEF Tidy, Sound, Shape
<1>2. rn'.up = "end"
  BY <1>1 DEF restconf_native_terminate, Fields
<1> QED
  BY <1>2 DEF Over

(* main: the daemon runs with a timer for each call-home socket, and without *)
(* connections                                                               *)
LEMMA StartStep ==
    ASSUME Fresh(rn), RnStart, rn'.up # "end"
    PROVE  rn'.up = "run" /\ Tidy(rn')
<1>0. /\ Shape(rn) /\ Clean(rn) /\ Apart(rn)
      /\ rn.conns = <<>> /\ rn.ev = {}
  BY DEF Fresh
<1>1. DOMAIN rn = Fields /\ Homes(rn)
  BY <1>0 DEF Shape, Homes
<1>2. PICK missing :
        rn' = [rn EXCEPT !.up = IF \E k \in DOMAIN Socks : Socks[k].callhome /\ ~Socks[k].ssl THEN "end" ELSE "run",
                         !.home = [k \in DOMAIN Socks |->
                           [@[k] EXCEPT !.timers = IF Socks[k].callhome THEN 1 ELSE 0, !.used = k \notin missing]]]
  <2>1. rn' # [rn EXCEPT !.up = "end"]
    BY <1>1 DEF Fields
  <2> QED
    BY <2>1, Zenon DEF RnStart
<1>3. /\ DOMAIN rn' = Fields /\ rn'.nr = rn.nr /\ rn'.fds = rn.fds /\ rn'.params = rn.params
      /\ rn'.begun = rn.begun /\ rn'.last = rn.last /\ rn'.mixed = rn.mixed
      /\ rn'.conns = rn.conns /\ rn'.ev = rn.ev
  BY <1>1, <1>2 DEF Fields
<1>4. /\ rn'.up = "run"
      /\ rn'.home = [k \in DOMAIN Socks |->
           [rn.home[k] EXCEPT !.timers = IF Socks[k].callhome THEN 1 ELSE 0, !.used = k \notin missing]]
  BY <1>1, <1>2 DEF Fields
<1>5. \A k \in DOMAIN Socks : /\ DOMAIN rn'.home[k] = {"timers", "attempts", "used"}
                              /\ rn'.home[k].timers = IF Socks[k].callhome THEN 1 ELSE 0
  <2> SUFFICES ASSUME NEW k \in DOMAIN Socks
               PROVE  /\ DOMAIN rn'.home[k] = {"timers", "attempts", "used"}
                      /\ rn'.home[k].timers = IF Socks[k].callhome THEN 1 ELSE 0
    OBVIOUS
  <2> DEFINE n == IF Socks[k].callhome THEN 1 ELSE 0
             v == k \notin missing
  <2>1. rn'.home[k] = [rn.home[k] EXCEPT !.timers = n, !.used = v]
    BY <1>4, Zenon
  <2> HIDE DEF v
  <2>2. DOMAIN rn.home[k] = {"timers", "attempts", "used"}
    BY <1>1 DEF Homes
  <2> QED
    BY <2>1, <2>2
<1>6. DOMAIN rn'.home = DOMAIN Socks
  BY <1>4, Zenon
<1>7. DOMAIN rn'.conns = {} /\ rn'.ev = {}
  BY <1>0, <1>3
<1>8. Shape(rn')
  <2>1. \A k \in DOMAIN Socks : /\ DOMAIN rn'.home[k] = {"timers", "attempts", "used"}
                                /\ rn'.home[k].timers \in Nat
    BY <1>5
  <2>2. rn'.nr \in Nat /\ rn'.fds \in Nat /\ DOMAIN rn'.last = {"own", "kind", "whole"}
    BY <1>0, <1>3 DEF Shape
  <2> QED
    BY <1>3, <1>6, <1>7, <2>1, <2>2 DEF Shape
<1>9. Clean(rn') /\ Apart(rn')
  BY <1>0, <1>3 DEF Clean, Apart, Parted
<1>10. CalledHome(rn')
  BY <1>5, <1>7 DEF CalledHome, CalledAt
<1> QED
  BY <1>4, <1>7, <1>8, <1>9, <1>10, Zenon DEF Tidy, Sound

(* The daemon before main has read its configuration *)
LEMMA NativeInitial ==
    ASSUME RnInit
    PROVE  NativeInv
<1>1. /\ rn.up = "start" /\ DOMAIN rn = Fields /\ rn.conns = <<>> /\ rn.ev = {} /\ rn.begun = {}
      /\ rn.params = NoParams /\ rn.nr = 0 /\ rn.fds = 0 /\ rn.mixed = {}
      /\ rn.last = [own |-> TRUE, kind |-> "none", whole |-> TRUE]
      /\ rn.home = [k \in DOMAIN Socks |-> [timers |-> 0, attempts |-> 0, used |-> FALSE]]
  BY DEF RnInit, Fields
<1>2. DOMAIN rn.conns = {}
  BY <1>1
<1>3. Shape(rn)
  BY <1>1, <1>2 DEF Shape
<1>4. Clean(rn) /\ Apart(rn)
  BY <1>1 DEF Clean, Apart, Parted
<1> QED
  BY <1>1, <1>3, <1>4 DEF NativeInv, Fresh

(* Every callback of the daemon keeps the inductive invariant *)
LEMMA NativeStep ==
    ASSUME NativeInv, [RnNext]_rn
    PROVE  NativeInv'
<1>0. Over(rn, rn') /\ rn.up = "run" => NativeInv'
  BY DEF Over, Settled, NativeInv
<1>1. CASE RnStart
  <2>1. Fresh(rn)
    BY <1>1, Zenon DEF NativeInv, RnStart
  <2>2. CASE rn'.up = "end"
    BY <2>2 DEF NativeInv
  <2>3. CASE rn'.up # "end"
    <3>1. rn'.up = "run" /\ Tidy(rn')
      BY <1>1, <2>1, <2>3, StartStep
    <3> QED
      BY <3>1 DEF NativeInv
  <2> QED
    BY <2>2, <2>3
<1>2. CASE RnNext /\ ~RnStart
  <2>1. \/ restconf_accept_client
        \/ restconf_callhome_cb
        \/ restconf_connection
        \/ restconf_header_timeout_cb
        \/ restconf_idle_cb
        \/ stream_native_backend_cb
        \/ stream_timeout_end
        \/ restconf_native_terminate
    BY <1>2 DEF RnNext
  <2>2. rn.up = "run"
    BY <2>1, Zenon DEF restconf_accept_client, restconf_callhome_cb, restconf_connection, restconf_header_timeout_cb,
       restconf_idle_cb, stream_native_backend_cb, stream_timeout_end, restconf_native_terminate, Running_rn
  <2>3. Tidy(rn)
    BY <2>2 DEF NativeInv
  <2>4. Over(rn, rn')
    BY <2>1, <2>3, AcceptClientStep, CallhomeStep, ConnectionStep, HeaderTimeoutStep, IdleTimeoutStep,
       StreamEndStep, StreamTimeoutStep, TerminateStep
  <2> QED
    BY <1>0, <2>2, <2>4
<1>3. CASE UNCHANGED rn
  BY <1>3 DEF NativeInv
<1> QED
  BY <1>1, <1>2, <1>3

(* The inductive invariant says what the code promises of its connections *)
LEMMA NativeTended ==
    ASSUME NativeInv
    PROVE  ConnectionsTended
<1> SUFFICES ASSUME rn.up = "run"
             PROVE  /\ \A k \in DOMAIN Socks : Socks[k].callhome =>
                         LET own == {c \in DOMAIN rn.conns : rn.conns[c].sock = k} IN
                         \/ rn.home[k].timers = 1 /\ own = {}
                         \/ rn.home[k].timers = 0 /\ \E c \in own : own = {c}
                    /\ \A c \in DOMAIN rn.conns :
                         LET x == rn.conns[c] IN
                         /\ <<"read", c, 0>> \in rn.ev
                         /\ x.header <=> <<"header", c, 0>> \in rn.ev
                         /\ x.part => x.header
                         /\ Socks[x.sock].callhome /\ Socks[x.sock].periodic /\ Socks[x.sock].idle <=> <<"idle", c, 0>> \in rn.ev
                         /\ x.es # 0 => <<"stream", c, x.es>> \in rn.ev
                    /\ "shared" \notin rn.mixed =>
                         /\ \A e \in rn.ev : Live(e[2]) /\ (e[1] \in {"stream", "end"} => rn.conns[e[2]].es = e[3])
                         /\ rn.last.kind # "stream" => rn.last.whole
                    /\ "interrupted" \notin rn.mixed => rn.last.own
  BY DEF ConnectionsTended
<1>0. /\ CalledHome(rn) /\ Clean(rn) /\ Apart(rn)
      /\ \A c \in DOMAIN rn.conns : Watches(rn, c) /\ (rn.conns[c].part => rn.conns[c].header)
  BY DEF NativeInv, Tidy, Sound
<1>1. ASSUME NEW k \in DOMAIN Socks, Socks[k].callhome
      PROVE  LET own == {c \in DOMAIN rn.conns : rn.conns[c].sock = k} IN
             \/ rn.home[k].timers = 1 /\ own = {}
             \/ rn.home[k].timers = 0 /\ \E c \in own : own = {c}
  <2> DEFINE own == {c \in DOMAIN rn.conns : rn.conns[c].sock = k}
  <2>1. CASE rn.home[k].timers = 1 /\ \A c \in DOMAIN rn.conns : rn.conns[c].sock # k
    BY <2>1
  <2>2. CASE /\ rn.home[k].timers = 0
             /\ \E c \in DOMAIN rn.conns : \A d \in DOMAIN rn.conns : rn.conns[d].sock = k <=> d = c
    <3>1. PICK c \in DOMAIN rn.conns : \A d \in DOMAIN rn.conns : rn.conns[d].sock = k <=> d = c
      BY <2>2
    <3>2. own = {c}
      BY <3>1
    <3> QED
      BY <2>2, <3>2
  <2> QED
    BY <1>0, <1>1, <2>1, <2>2 DEF CalledHome, CalledAt
<1>2. ASSUME NEW c \in DOMAIN rn.conns
      PROVE  LET x == rn.conns[c] IN
             /\ <<"read", c, 0>> \in rn.ev
             /\ x.header <=> <<"header", c, 0>> \in rn.ev
             /\ x.part => x.header
             /\ Socks[x.sock].callhome /\ Socks[x.sock].periodic /\ Socks[x.sock].idle <=> <<"idle", c, 0>> \in rn.ev
             /\ x.es # 0 => <<"stream", c, x.es>> \in rn.ev
  BY <1>0 DEF Watches, Timed, Idles
<1>3. "shared" \notin rn.mixed =>
         /\ \A e \in rn.ev : Live(e[2]) /\ (e[1] \in {"stream", "end"} => rn.conns[e[2]].es = e[3])
         /\ rn.last.kind # "stream" => rn.last.whole
  BY <1>0 DEF Clean, Live
<1>4. "interrupted" \notin rn.mixed => rn.last.own
  BY <1>0 DEF Apart
<1> QED
  BY <1>1, <1>2, <1>3, <1>4

(* Whatever order the timers, the peers and the backend act in, for any      *)
(* number of sockets, connections and requests: the registrations of the     *)
(* RESTCONF daemon are those its structs know of, a call-home socket has its *)
(* timer or its one connection, and a request that does not overlap another  *)
(* runs with its own parameters; where a connection with an event stream     *)
(* takes another request, the struct knows less (restconf_connection_close1, *)
(* restconf_callhome_cb, restconf_http1_process, restconf_http2_process).    *)
THEOREM ConnectionsTendedHolds == NativeSpec => []ConnectionsTended
<1>1. RnInit => NativeInv
  BY NativeInitial
<1>2. NativeInv /\ [RnNext]_rn => NativeInv'
  BY NativeStep
<1>3. NativeInv => ConnectionsTended
  BY NativeTended
<1> QED
  BY <1>1, <1>2, <1>3, PTL DEF NativeSpec
==============================================================================
