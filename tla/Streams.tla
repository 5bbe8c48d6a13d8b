------------------------------- MODULE Streams -------------------------------
(* Event notification streams (lib/src/clixon_stream.c) and the             *)
(* subscriptions of clients to them (apps/backend/backend_client.c): live   *)
(* delivery, replay, stop times and the timer that looks after them.  The   *)
(* lists are circular; a walk ends when it is back at the head, which moves *)
(* when the head is removed.  Events are named by the time they happened.   *)
EXTENDS Naturals, Sequences

CONSTANTS
    Clients,    \* sessions
    Names,      \* streams, all with replay enabled
    Retention,  \* es_retention: how long samples are kept
    MaxTime     \* bound: the clock

ASSUME StreamsAssumption == Retention \in Nat \ {0} /\ MaxTime \in Nat

VARIABLES
    clients,          \* connected clients
    es_subscription,  \* per stream, its subscriptions
    es_replay,        \* per stream, the times of the stored events
    replays,          \* pending timeouts of stream_replay_cb
    now,              \* the clock
    walk,             \* the walk through a list in progress
    alive,            \* the backend runs
    got,              \* per client, stream and event: how often it was delivered
    due               \* subscribers that the event notified now is for

streamVars == <<clients, es_subscription, es_replay, replays, now, walk, alive,
                got, due>>

Times == 0..MaxTime
NoTime == 0  \* no start or stop time, NULL
Idle == [kind |-> "idle"]

(* Mutant: the last one is not reached *)
Next1_short(list, x) ==
    LET i == CHOOSE i \in DOMAIN list : list[i] = x
    IN  IF i + 1 >= Len(list) THEN Head(list) ELSE list[i + 1]

(* NEXTQ: the successor in a circular list *)
Next1(list, x) ==
    LET i == CHOOSE i \in DOMAIN list : list[i] = x
    IN  IF i = Len(list) THEN Head(list) ELSE list[i + 1]

(* DELQ; the head moves on *)
Without(list, x) == SelectSeq(list, LAMBDA y : y # x)

(* stream_ss_find: where the first subscription of the client is, 0 if it  *)
(* has none                                                                *)
stream_ss_find(list, c) ==
    LET at == {i \in DOMAIN list : list[i].client = c}
    IN  IF at = {} THEN 0 ELSE CHOOSE i \in at : \A j \in at : i <= j

(* stream_ss_rm of what was found: those behind it move up *)
stream_ss_rm(list, i) ==
    IF i = 0 THEN list
    ELSE [j \in 1..Len(list) - 1 |-> IF j < i THEN list[j] ELSE list[j + 1]]

(* backend_client_rm: stream_ss_delete_all takes the client's subscription *)
(* out of every stream                                                     *)
Removed(c) ==
    [t \in Names |-> stream_ss_rm(es_subscription[t], stream_ss_find(es_subscription[t], c))]

Past(ss, t) == ss.stop # NoTime /\ ss.stop < t

------------------------------------------------------------------------------
(* Requests of clients *)

Resting == alive /\ walk = Idle

(* A new session, with nothing delivered to it yet *)
Connect(c) ==
    /\ Resting /\ c \notin clients
    /\ clients' = clients \union {c}
    /\ replays' = {r \in replays : r[2] # c}
    /\ got' = [s \in Names |-> [got[s] EXCEPT ![c] = [e \in 1..MaxTime |-> 0]]]
    /\ UNCHANGED <<es_subscription, es_replay, now, walk, alive, due>>

(* from_client_create_subscription: a start time schedules a replay for    *)
(* right after the request.  Sessions subscribe once to a stream.          *)
create_subscription(c, s, start, stop) ==
    /\ Resting /\ c \in clients /\ stream_ss_find(es_subscription[s], c) = 0
    /\ es_subscription' = [es_subscription EXCEPT ![s] =
         Append(@, [client |-> c, start |-> start, stop |-> stop])]
    /\ replays' = IF start # NoTime THEN replays \union {<<s, c>>} ELSE replays
    /\ UNCHANGED <<clients, es_replay, now, walk, alive, got, due>>

(* The socket closes, or the session is closed or killed *)
Disconnect(c) ==
    /\ Resting /\ c \in clients
    /\ clients' = clients \ {c}
    /\ es_subscription' = Removed(c)
    /\ UNCHANGED <<es_replay, replays, now, walk, alive, got, due>>

------------------------------------------------------------------------------
(* stream_notify *)

Deliver(cs, s, e) ==
    got' = [got EXCEPT ![s] = [c \in Clients |->
              IF c \in cs THEN [got[s][c] EXCEPT ![e] = @ + 1] ELSE got[s][c]]]

(* What a walk that was at subscription x does next: it goes on with y     *)
(* unless y is the head of what is left                                    *)
GoesOn(list, y) == list # <<>> /\ y # Head(list)

Notify(s) ==
    /\ Resting /\ now < MaxTime
    /\ now' = now + 1
    /\ due' = LET list == es_subscription[s]
              IN  {list[i].client : i \in {i \in DOMAIN list : ~Past(list[i], now + 1)}}
    /\ IF es_subscription[s] = <<>>
       THEN /\ es_replay' = [es_replay EXCEPT ![s] = Append(@, now + 1)]
            /\ UNCHANGED walk
       ELSE /\ walk' = [kind |-> "notify", s |-> s, at |-> Head(es_subscription[s]),
                        e |-> now + 1, first |-> ~Past(Head(es_subscription[s]), now + 1)]
            /\ UNCHANGED es_replay
    /\ UNCHANGED <<clients, es_subscription, replays, alive, got>>

(* stream_notify1 is at subscription walk.at, then stream_replay_add *)
NotifyEnd(list, y) ==
    IF GoesOn(list, y)
    THEN walk' = [walk EXCEPT !.at = y] /\ UNCHANGED es_replay
    ELSE /\ walk' = Idle
         /\ es_replay' = [es_replay EXCEPT ![walk.s] = Append(@, walk.e)]

NotifyOne ==
    /\ alive /\ walk.kind = "notify"
    /\ LET ss == walk.at
           s == walk.s
           y == Next1(es_subscription[s], ss)
       IN  IF Past(ss, walk.e)
           THEN /\ clients' = clients \ {ss.client}
                /\ es_subscription' = Removed(ss.client)
                /\ NotifyEnd(Removed(ss.client)[s], y)
                /\ UNCHANGED got
           ELSE /\ Deliver({ss.client}, s, walk.e)
                /\ NotifyEnd(es_subscription[s], y)
                /\ UNCHANGED <<clients, es_subscription>>
    /\ UNCHANGED <<replays, now, alive, due>>

------------------------------------------------------------------------------
(* Replay *)

(* stream_replay_notify: skips to the first sample that is not before the  *)
(* start time and sends until the stop time.  When every sample is before  *)
(* the start time the first loop is back at the head, and all are sent.    *)
Replayed(list, ss) ==
    LET from == {i \in DOMAIN list : list[i] >= ss.start}
        first == IF from = {} THEN 1 ELSE CHOOSE i \in from : \A j \in from : i <= j
    IN  {i \in first..Len(list) : \A j \in first..i : ss.stop = NoTime \/ list[j] <= ss.stop}

(* stream_replay_cb *)
stream_replay_cb(s, c) ==
    /\ Resting /\ <<s, c>> \in replays
    /\ replays' = replays \ {<<s, c>>}
    /\ got' = IF stream_ss_find(es_subscription[s], c) = 0 THEN got
              ELSE LET ss == es_subscription[s][stream_ss_find(es_subscription[s], c)]
                       sent == Replayed(es_replay[s], ss)
                   IN  [got EXCEPT ![s][c] = [e \in DOMAIN @ |->
                          @[e] + (IF e \in {es_replay[s][i] : i \in sent} THEN 1 ELSE 0)]]
    /\ UNCHANGED <<clients, es_subscription, es_replay, now, walk, alive, due>>

------------------------------------------------------------------------------
(* stream_timer_setup: every five seconds *)

TimerSetup(s) ==
    /\ Resting
    /\ es_subscription[s] # <<>> \/ es_replay[s] # <<>>
    /\ walk' = IF es_subscription[s] # <<>>
               THEN [kind |-> "stop", s |-> s, at |-> Head(es_subscription[s])]
               ELSE [kind |-> "retain", s |-> s, at |-> Head(es_replay[s])]
    /\ UNCHANGED <<clients, es_subscription, es_replay, replays, now, alive, got, due>>

ToReplay(s) ==
    walk' = IF es_replay[s] = <<>> THEN Idle
            ELSE [kind |-> "retain", s |-> s, at |-> Head(es_replay[s])]

(* 1) Subscriptions past their stop time.  When the last one goes the walk *)
(* stays at it: it is its own successor and the list has no head, so the   *)
(* loop does not end and visits it, with a client that is gone, again.     *)
TimerStop ==
    /\ alive /\ walk.kind = "stop"
    /\ LET ss == walk.at
           s == walk.s
           y == Next1(es_subscription[s], ss)
           left == Removed(ss.client)[s]
       IN  IF Past(ss, now)
           THEN /\ clients' = clients \ {ss.client}
                /\ es_subscription' = Removed(ss.client)
                /\ IF left = <<>> THEN alive' = FALSE /\ UNCHANGED walk
                   ELSE /\ UNCHANGED alive
                        /\ IF GoesOn(left, y) THEN walk' = [walk EXCEPT !.at = y]
                           ELSE ToReplay(s)
           ELSE /\ IF GoesOn(es_subscription[s], y) THEN walk' = [walk EXCEPT !.at = y]
                   ELSE ToReplay(s)
                /\ UNCHANGED <<clients, es_subscription, alive>>
    /\ UNCHANGED <<es_replay, replays, now, got, due>>

(* 2) Samples past the retention time.  When the last one goes the walk    *)
(* goes on in freed memory: the backend fails or does not come back.       *)
TimerRetain ==
    /\ alive /\ walk.kind = "retain"
    /\ LET r == walk.at
           s == walk.s
           y == Next1(es_replay[s], r)
           left == Without(es_replay[s], r)
       IN  IF r + Retention < now
           THEN /\ es_replay' = [es_replay EXCEPT ![s] = left]
                /\ IF left = <<>> THEN alive' = FALSE /\ UNCHANGED walk
                   ELSE /\ UNCHANGED alive
                        /\ walk' = IF GoesOn(left, y) THEN [walk EXCEPT !.at = y] ELSE Idle
           ELSE /\ walk' = IF GoesOn(es_replay[s], y) THEN [walk EXCEPT !.at = y] ELSE Idle
                /\ UNCHANGED <<es_replay, alive>>
    /\ UNCHANGED <<clients, es_subscription, replays, now, got, due>>

ClockTick ==
    /\ Resting /\ now < MaxTime
    /\ now' = now + 1
    /\ UNCHANGED <<clients, es_subscription, es_replay, replays, walk, alive, got, due>>

------------------------------------------------------------------------------
StreamInit ==
    /\ clients = {}
    /\ es_subscription = [s \in Names |-> <<>>]
    /\ es_replay = [s \in Names |-> <<>>]
    /\ replays = {}
    /\ now = 0
    /\ walk = Idle
    /\ alive = TRUE
    /\ got = [s \in Names |-> [c \in Clients |-> [e \in 1..MaxTime |-> 0]]]
    /\ due = {}

StreamNext ==
    \/ \E c \in Clients : Connect(c) \/ Disconnect(c)
    \/ \E c \in Clients, s \in Names, start \in 0..now, stop \in Times :
         create_subscription(c, s, start, stop)
    \/ \E s \in Names : Notify(s) \/ TimerSetup(s)
    \/ \E s \in Names, c \in Clients : stream_replay_cb(s, c)
    \/ NotifyOne \/ TimerStop \/ TimerRetain \/ ClockTick

StreamSpec == StreamInit /\ [][StreamNext]_streamVars
------------------------------------------------------------------------------
(* Properties *)

(* "Stream notify event and distribute to all registered callbacks"        *)
(* (stream_notify1): every subscriber the event is for gets it, unless the *)
(* first subscription of the list is past its stop time, whose removal     *)
(* ends the walk.                                                          *)
EventReachesAll ==
    [][walk.kind = "notify" /\ walk' = Idle /\ walk.first =>
         \A c \in due : got'[walk.s][c][walk.e] > 0]_streamVars
==============================================================================
