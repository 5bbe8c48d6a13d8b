--------------------------- MODULE FrontendProofs ---------------------------
(* Proofs about what clients are served: the events of a stream they        *)
(* subscribed to, and the status of a RESTCONF request.                     *)
EXTENDS Streams, Frontend, TLAPS

------------------------------------------------------------------------------
(* Event streams.  A client is in the list of a stream once.  While an      *)
(* event is distributed the walk is at an element of the list, and who is   *)
(* due has the event or is still ahead.                                     *)

Subs == [client : Clients, start : Nat, stop : Nat]

Single(list) ==
    \A i, j \in DOMAIN list : list[i].client = list[j].client => i = j

StreamTypes ==
    /\ es_subscription \in [Names -> Seq(Subs)]
    /\ \A s \in Names : Single(es_subscription[s])
    /\ got \in [Names -> [Clients -> [1..MaxTime -> Nat]]]
    /\ now \in Times
    /\ due \subseteq Clients

(* The walks there are *)
WalkShape ==
    \/ walk = Idle
    \/ /\ walk.kind \in {"stop", "retain"}
       /\ walk = [kind |-> walk.kind, s |-> walk.s, at |-> walk.at]
    \/ /\ walk.kind = "notify"
       /\ walk = [kind |-> "notify", s |-> walk.s, at |-> walk.at,
                  e |-> walk.e, first |-> walk.first]
       /\ walk.s \in Names /\ walk.e \in 1..MaxTime /\ walk.first \in BOOLEAN

(* The walk is at position i: client c has the event or its turn comes *)
Served(list, i, g, s, e, c) ==
    \/ g[s][c][e] > 0
    \/ \E j \in i..Len(list) : list[j].client = c /\ ~Past(list[j], e)

Distributing ==
    walk.kind = "notify" =>
      \E i \in 1..Len(es_subscription[walk.s]) :
        /\ es_subscription[walk.s][i] = walk.at
        /\ walk.first =>
             /\ ~Past(es_subscription[walk.s][1], walk.e)
             /\ \A c \in due :
                  Served(es_subscription[walk.s], i, got, walk.s, walk.e, c)

StreamInv == StreamTypes /\ WalkShape /\ Distributing

(* stream_ss_rm takes one element out of a list *)
LEMMA RmOne ==
    ASSUME NEW S, NEW L \in Seq(S), NEW i \in 1..Len(L)
    PROVE  /\ stream_ss_rm(L, i) \in Seq(S)
           /\ Len(stream_ss_rm(L, i)) = Len(L) - 1
           /\ \A j \in 1..Len(L) - 1 :
                stream_ss_rm(L, i)[j] = IF j < i THEN L[j] ELSE L[j + 1]
<1> DEFINE M == [j \in 1..Len(L) - 1 |-> IF j < i THEN L[j] ELSE L[j + 1]]
<1>1. stream_ss_rm(L, i) = M
  BY DEF stream_ss_rm
<1>2. Len(L) - 1 \in Nat /\ \A j \in 1..Len(L) - 1 : M[j] \in S
  OBVIOUS
<1>3. M \in Seq(S) /\ Len(M) = Len(L) - 1
  BY <1>2
<1> QED
  BY <1>1, <1>3

(* stream_ss_find finds the one subscription of a client, if there is one *)
LEMMA FindsOne ==
    ASSUME NEW L \in Seq(Subs), Single(L), NEW c
    PROVE  LET i == stream_ss_find(L, c)
           IN  \/ i = 0 /\ \A j \in DOMAIN L : L[j].client # c
               \/ i \in 1..Len(L) /\ L[i].client = c
<1> DEFINE at == {j \in DOMAIN L : L[j].client = c}
<1>1. CASE at = {}
  BY <1>1 DEF stream_ss_find
<1>2. CASE at # {}
  <2>1. PICK k \in at : TRUE
    BY <1>2
  <2>2. \A j \in at : k <= j
    BY <2>1 DEF Single
  <2>3. \E x \in at : \A j \in at : x <= j
    BY <2>1, <2>2
  <2>4. stream_ss_find(L, c) = CHOOSE x \in at : \A j \in at : x <= j
    BY <1>2 DEF stream_ss_find
  <2>5. stream_ss_find(L, c) \in at
    BY <2>3, <2>4
  <2> QED
    BY <2>5
<1> QED
  BY <1>1, <1>2

(* What stream_ss_delete_all leaves of a list *)
LEMMA RmKeeps ==
    ASSUME NEW L \in Seq(Subs), Single(L), NEW c
    PROVE  LET M == stream_ss_rm(L, stream_ss_find(L, c))
           IN  M \in Seq(Subs) /\ Single(M)
<1> DEFINE i == stream_ss_find(L, c)
           M == stream_ss_rm(L, i)
<1>1. i = 0 \/ i \in 1..Len(L)
  BY FindsOne
<1> HIDE DEF i
<1>2. CASE i = 0
  BY <1>2 DEF stream_ss_rm, i
<1>3. CASE i \in 1..Len(L)
  <2>1. /\ M \in Seq(Subs)
        /\ Len(M) = Len(L) - 1
        /\ \A j \in 1..Len(L) - 1 : M[j] = IF j < i THEN L[j] ELSE L[j + 1]
    BY <1>3, RmOne
  <2> HIDE DEF M
  <2>2. Single(M)
    <3> SUFFICES ASSUME NEW j \in 1..Len(L) - 1, NEW k \in 1..Len(L) - 1,
                        M[j].client = M[k].client
                 PROVE  j = k
      BY <2>1 DEF Single
    <3> DEFINE a == IF j < i THEN j ELSE j + 1
               b == IF k < i THEN k ELSE k + 1
    <3>1. a \in DOMAIN L /\ b \in DOMAIN L /\ M[j] = L[a] /\ M[k] = L[b]
      BY <1>3, <2>1
    <3>2. a = b
      BY <3>1 DEF Single
    <3> QED
      BY <3>2, <1>3
  <2> QED
    BY <2>1, <2>2 DEF M, i
<1> QED
  BY <1>1, <1>2, <1>3

(* ... of the list of the subscription at position i *)
LEMMA RmAt ==
    ASSUME NEW L \in Seq(Subs), Single(L), NEW i \in 1..Len(L)
    PROVE  LET M == stream_ss_rm(L, stream_ss_find(L, L[i].client))
           IN  /\ Len(M) = Len(L) - 1
               /\ \A j \in 1..Len(L) - 1 : M[j] = IF j < i THEN L[j] ELSE L[j + 1]
<1>1. stream_ss_find(L, L[i].client) = i
  <2> DEFINE k == stream_ss_find(L, L[i].client)
  <2>1. \/ k = 0 /\ \A j \in DOMAIN L : L[j].client # L[i].client
        \/ k \in 1..Len(L) /\ L[k].client = L[i].client
    BY FindsOne
  <2> HIDE DEF k
  <2>2. i \in DOMAIN L
    OBVIOUS
  <2>3. k \in DOMAIN L /\ L[k].client = L[i].client
    BY <2>1, <2>2
  <2>4. k = i
    BY <2>2, <2>3 DEF Single
  <2> QED
    BY <2>4 DEF k
<1> QED
  BY <1>1, RmOne

(* NEXTQ of the element at position i *)
LEMMA NextAt ==
    ASSUME NEW L \in Seq(Subs), Single(L), NEW i \in 1..Len(L)
    PROVE  Next1(L, L[i]) = IF i = Len(L) THEN L[1] ELSE L[i + 1]
<1>1. \A j \in DOMAIN L : L[j] = L[i] => j = i
  BY DEF Single
<1>2. i \in DOMAIN L
  OBVIOUS
<1>3. (CHOOSE j \in DOMAIN L : L[j] = L[i]) = i
  BY <1>1, <1>2, Zenon
<1>4. Head(L) = L[1]
  OBVIOUS
<1>5. Next1(L, L[i]) = LET k == CHOOSE j \in DOMAIN L : L[j] = L[i]
                       IN  IF k = Len(L) THEN Head(L) ELSE L[k + 1]
  BY Zenon DEF Next1
<1> QED
  BY <1>3, <1>4, <1>5, Zenon

(* backend_client_rm leaves lists of the same kind *)
LEMMA RemovedTypes ==
    ASSUME StreamTypes, NEW c
    PROVE  /\ Removed(c) \in [Names -> Seq(Subs)]
           /\ \A s \in Names : Single(Removed(c)[s])
<1> SUFFICES ASSUME NEW s \in Names
             PROVE  /\ Removed(c)[s] \in Seq(Subs)
                    /\ Single(Removed(c)[s])
  BY DEF Removed
<1>1. es_subscription[s] \in Seq(Subs) /\ Single(es_subscription[s])
  BY DEF StreamTypes
<1>2. Removed(c)[s] = stream_ss_rm(es_subscription[s], stream_ss_find(es_subscription[s], c))
  BY DEF Removed
<1> QED
  BY <1>1, <1>2, RmKeeps

(* A session that has no subscription to the stream is appended once *)
LEMMA AppendTypes ==
    ASSUME NEW L \in Seq(Subs), Single(L), NEW ss \in Subs,
           stream_ss_find(L, ss.client) = 0
    PROVE  Append(L, ss) \in Seq(Subs) /\ Single(Append(L, ss))
<1>1. \A j \in DOMAIN L : L[j].client # ss.client
  BY FindsOne
<1>2. /\ Append(L, ss) \in Seq(Subs)
      /\ Len(Append(L, ss)) = Len(L) + 1
      /\ \A j \in 1..Len(L) : Append(L, ss)[j] = L[j]
      /\ Append(L, ss)[Len(L) + 1] = ss
  OBVIOUS
<1> DEFINE M == Append(L, ss)
<1> HIDE DEF M
<1>3. ASSUME NEW j \in 1..Len(L) + 1, NEW k \in 1..Len(L) + 1, M[j].client = M[k].client
      PROVE  j = k
  <2>1. CASE j \in 1..Len(L) /\ k \in 1..Len(L)
    BY <1>2, <1>3, <2>1 DEF M, Single
  <2>2. CASE j \in 1..Len(L) /\ k = Len(L) + 1
    BY <1>1, <1>2, <1>3, <2>2 DEF M
  <2>3. CASE j = Len(L) + 1 /\ k \in 1..Len(L)
    BY <1>1, <1>2, <1>3, <2>3 DEF M
  <2>4. CASE j = Len(L) + 1 /\ k = Len(L) + 1
    BY <2>4
  <2>5. Len(L) \in Nat
    OBVIOUS
  <2> QED
    BY <2>1, <2>2, <2>3, <2>4, <2>5
<1>4. DOMAIN M = 1..Len(L) + 1
  BY <1>2 DEF M
<1>5. Single(M)
  BY <1>3, <1>4 DEF Single
<1> QED
  BY <1>2, <1>5 DEF M

(* How often an event was delivered is a number *)
LEMMA GotNat ==
    ASSUME NEW g \in [Names -> [Clients -> [1..MaxTime -> Nat]]],
           NEW s \in Names, NEW c \in Clients, NEW e \in 1..MaxTime
    PROVE  g[s][c][e] \in Nat
OBVIOUS

(* One event more *)
LEMMA CountOne ==
    ASSUME NEW T, NEW f \in [T -> Nat], NEW e \in T
    PROVE  /\ [f EXCEPT ![e] = @ + 1] \in [T -> Nat]
           /\ [f EXCEPT ![e] = @ + 1][e] = f[e] + 1
OBVIOUS

(* ... or of some *)
LEMMA CountSome ==
    ASSUME NEW T, NEW f \in [T -> Nat], NEW P
    PROVE  [e \in DOMAIN f |-> f[e] + (IF e \in P THEN 1 ELSE 0)] \in [T -> Nat]
OBVIOUS

(* Delivery counts one event more for some clients of a stream *)
LEMMA DeliverTypes ==
    ASSUME got \in [Names -> [Clients -> [1..MaxTime -> Nat]]],
           NEW s \in Names, NEW e \in 1..MaxTime, NEW cs, Deliver(cs, s, e)
    PROVE  /\ got' \in [Names -> [Clients -> [1..MaxTime -> Nat]]]
           /\ \A c \in Clients : /\ got'[s][c][e] >= got[s][c][e]
                                 /\ c \in cs => got'[s][c][e] > 0
<1> DEFINE g == [c \in Clients |->
              IF c \in cs THEN [got[s][c] EXCEPT ![e] = @ + 1] ELSE got[s][c]]
<1>1. got' = [got EXCEPT ![s] = g]
  BY DEF Deliver
<1>2. ASSUME NEW c \in Clients
      PROVE  /\ g[c] \in [1..MaxTime -> Nat]
             /\ g[c][e] >= got[s][c][e]
             /\ c \in cs => g[c][e] > 0
  <2>1. got[s][c] \in [1..MaxTime -> Nat]
    OBVIOUS
  <2>2. CASE c \in cs
    <3>1. g[c] = [got[s][c] EXCEPT ![e] = @ + 1]
      BY <2>2
    <3> HIDE DEF g
    <3>2. g[c] \in [1..MaxTime -> Nat] /\ g[c][e] = got[s][c][e] + 1
      <4> DEFINE f == got[s][c]
      <4>1. f \in [1..MaxTime -> Nat]
        BY <2>1
      <4>2. g[c] = [f EXCEPT ![e] = @ + 1]
        BY <3>1
      <4> HIDE DEF f
      <4>3. g[c] \in [1..MaxTime -> Nat] /\ g[c][e] = f[e] + 1
        BY <4>1, <4>2, CountOne
      <4> QED
        BY <4>3 DEF f
    <3>3. got[s][c][e] \in Nat
      BY <2>1
    <3> QED
      BY <3>2, <3>3
  <2>3. CASE c \notin cs
    <3>1. g[c] = got[s][c]
      BY <2>3
    <3> HIDE DEF g
    <3>2. got[s][c][e] \in Nat
      BY <2>1
    <3> QED
      BY <2>1, <2>3, <3>1, <3>2
  <2> QED
    BY <2>2, <2>3
<1>3. g \in [Clients -> [1..MaxTime -> Nat]]
  BY <1>2
<1>4. got'[s] = g
  BY <1>1
<1> HIDE DEF g
<1>5. got' \in [Names -> [Clients -> [1..MaxTime -> Nat]]]
  BY <1>1, <1>3
<1> QED
  BY <1>2, <1>4, <1>5

(* No step leaves a list with a client twice, or a count that is not one *)
LEMMA StreamTypesKept ==
    ASSUME StreamTypes, WalkShape, [StreamNext]_streamVars
    PROVE  StreamTypes'
<1> DEFINE Got == [Names -> [Clients -> [1..MaxTime -> Nat]]]
<1>1. ASSUME NEW c \in Clients, Connect(c)
      PROVE  StreamTypes'
  <2> DEFINE zero == [e \in 1..MaxTime |-> 0]
  <2>1. zero \in [1..MaxTime -> Nat]
    OBVIOUS
  <2> HIDE DEF zero
  <2>2. got' = [s \in Names |-> [got[s] EXCEPT ![c] = zero]]
    BY <1>1 DEF Connect, zero
  <2>3. \A s \in Names : got[s] \in [Clients -> [1..MaxTime -> Nat]]
    BY DEF StreamTypes
  <2>4. got' \in Got
    BY <2>1, <2>2, <2>3
  <2> QED
    BY <1>1, <2>4 DEF Connect, StreamTypes, Single
<1>2. ASSUME NEW c \in Clients, Disconnect(c)
      PROVE  StreamTypes'
  <2>1. es_subscription' = Removed(c) /\ UNCHANGED <<now, got, due>>
    BY <1>2 DEF Disconnect
  <2>2. es_subscription' \in [Names -> Seq(Subs)] /\ \A s \in Names : Single(es_subscription'[s])
    BY <2>1, RemovedTypes
  <2> QED
    BY <2>1, <2>2 DEF StreamTypes
<1>3. ASSUME NEW c \in Clients, NEW s \in Names, NEW start \in 0..now, NEW stop \in Times,
             create_subscription(c, s, start, stop)
      PROVE  StreamTypes'
  <2> DEFINE ss == [client |-> c, start |-> start, stop |-> stop]
  <2>1. ss \in Subs /\ ss.client = c
    BY StreamsAssumption DEF Subs, StreamTypes, Times
  <2>2. /\ es_subscription' = [es_subscription EXCEPT ![s] = Append(es_subscription[s], ss)]
        /\ stream_ss_find(es_subscription[s], ss.client) = 0
        /\ UNCHANGED <<now, got, due>>
    BY <1>3, <2>1 DEF create_subscription
  <2> HIDE DEF ss
  <2>3. es_subscription[s] \in Seq(Subs) /\ Single(es_subscription[s])
    BY DEF StreamTypes
  <2>4. /\ Append(es_subscription[s], ss) \in Seq(Subs)
        /\ Single(Append(es_subscription[s], ss))
    BY <2>1, <2>2, <2>3, AppendTypes
  <2> DEFINE M == Append(es_subscription[s], ss)
  <2> HIDE DEF M
  <2>5. /\ es_subscription' \in [Names -> Seq(Subs)]
        /\ \A t \in Names : Single(es_subscription'[t])
    <3>1. es_subscription \in [Names -> Seq(Subs)] /\ \A t \in Names : Single(es_subscription[t])
      BY DEF StreamTypes
    <3>2. es_subscription' = [es_subscription EXCEPT ![s] = M] /\ M \in Seq(Subs) /\ Single(M)
      BY <2>2, <2>4 DEF M
    <3> QED
      BY <3>1, <3>2
  <2> QED
    BY <2>2, <2>5 DEF StreamTypes
<1>4. ASSUME NEW s \in Names, Notify(s)
      PROVE  StreamTypes'
  <2>1. now' \in Times /\ UNCHANGED <<es_subscription, got>>
    BY <1>4, StreamsAssumption DEF Notify, StreamTypes, Times
  <2> DEFINE L == es_subscription[s]
  <2>2. due' = {L[i].client : i \in {i \in DOMAIN L : ~Past(L[i], now + 1)}}
    BY <1>4 DEF Notify
  <2>3. \A i \in DOMAIN L : L[i] \in Subs
    <3>1. L \in Seq(Subs)
      BY DEF StreamTypes
    <3> QED
      BY <3>1
  <2> HIDE DEF L
  <2>4. due' \subseteq Clients
    BY <2>2, <2>3 DEF Subs
  <2> QED
    BY <2>1, <2>4 DEF StreamTypes
<1>5. ASSUME NEW s \in Names, NEW c \in Clients, stream_replay_cb(s, c)
      PROVE  StreamTypes'
  <2>1. got \in Got /\ got[s][c] \in [1..MaxTime -> Nat]
    BY DEF StreamTypes
  <2>2. got' \in Got
    <3>1. CASE stream_ss_find(es_subscription[s], c) = 0
      BY <1>5, <2>1, <3>1 DEF stream_replay_cb
    <3>2. CASE stream_ss_find(es_subscription[s], c) # 0
      <4> DEFINE sent == Replayed(es_replay[s], es_subscription[s][stream_ss_find(es_subscription[s], c)])
                 times == {es_replay[s][i] : i \in sent}
                 h == [e \in DOMAIN got[s][c] |-> got[s][c][e] + (IF e \in times THEN 1 ELSE 0)]
      <4>1. got' = [got EXCEPT ![s][c] = h]
        BY <1>5, <3>2 DEF stream_replay_cb
      <4> HIDE DEF times
      <4>2. h \in [1..MaxTime -> Nat]
        <5> DEFINE f == got[s][c]
        <5>1. f \in [1..MaxTime -> Nat]
          BY <2>1
        <5>2. h = [e \in DOMAIN f |-> f[e] + (IF e \in times THEN 1 ELSE 0)]
          OBVIOUS
        <5> HIDE DEF f, h
        <5> QED
          BY <5>1, <5>2, CountSome
      <4> HIDE DEF h
      <4> QED
        BY <2>1, <4>1, <4>2
    <3> QED
      BY <3>1, <3>2
  <2>3. UNCHANGED <<es_subscription, now, due>>
    BY <1>5 DEF stream_replay_cb
  <2> QED
    BY <2>2, <2>3 DEF StreamTypes
<1>6. ASSUME NotifyOne
      PROVE  StreamTypes'
  <2>1. walk.s \in Names /\ walk.e \in 1..MaxTime
    BY <1>6 DEF NotifyOne, WalkShape, Idle
  <2>2. CASE Past(walk.at, walk.e)
    <3>1. es_subscription' = Removed(walk.at.client) /\ UNCHANGED <<now, got, due>>
      BY <1>6, <2>2 DEF NotifyOne
    <3>2. es_subscription' \in [Names -> Seq(Subs)] /\ \A s \in Names : Single(es_subscription'[s])
      BY <3>1, RemovedTypes
    <3> QED
      BY <3>1, <3>2 DEF StreamTypes
  <2>3. CASE ~Past(walk.at, walk.e)
    <3>1. Deliver({walk.at.client}, walk.s, walk.e) /\ UNCHANGED <<es_subscription, now, due>>
      BY <1>6, <2>3 DEF NotifyOne
    <3>2. got \in Got
      BY DEF StreamTypes
    <3>3. got' \in Got
      BY <2>1, <3>1, <3>2, DeliverTypes
    <3> QED
      BY <3>1, <3>3 DEF StreamTypes
  <2> QED
    BY <2>2, <2>3
<1>7. ASSUME TimerStop
      PROVE  StreamTypes'
  <2>1. UNCHANGED <<now, got, due>>
    BY <1>7 DEF TimerStop
  <2>2. es_subscription' = Removed(walk.at.client) \/ UNCHANGED es_subscription
    BY <1>7 DEF TimerStop
  <2>3. es_subscription' \in [Names -> Seq(Subs)] /\ \A s \in Names : Single(es_subscription'[s])
    BY <2>2, RemovedTypes DEF StreamTypes
  <2> QED
    BY <2>1, <2>3 DEF StreamTypes
<1>8. ASSUME \/ TimerRetain
             \/ \E s \in Names : TimerSetup(s)
             \/ UNCHANGED streamVars
      PROVE  StreamTypes'
  <2>1. UNCHANGED <<es_subscription, now, got, due>>
    BY <1>8 DEF TimerRetain, TimerSetup, streamVars
  <2> QED
    BY <2>1 DEF StreamTypes
<1>9. ASSUME ClockTick
      PROVE  StreamTypes'
  <2>1. now' \in Times /\ UNCHANGED <<es_subscription, got, due>>
    BY <1>9, StreamsAssumption DEF ClockTick, StreamTypes, Times
  <2> QED
    BY <2>1 DEF StreamTypes
<1> QED
  BY <1>1, <1>2, <1>3, <1>4, <1>5, <1>6, <1>7, <1>8, <1>9 DEF StreamNext

(* The walk that distributes an event, at position i of list L *)
LEMMA AtPosition ==
    ASSUME StreamInv, NotifyOne
    PROVE  LET s == walk.s
               L == es_subscription[s]
           IN  /\ s \in Names /\ walk.e \in 1..MaxTime
               /\ L \in Seq(Subs) /\ Single(L)
               /\ \E i \in 1..Len(L) :
                    /\ L[i] = walk.at
                    /\ Next1(L, walk.at) = IF i = Len(L) THEN L[1] ELSE L[i + 1]
                    /\ walk.first => /\ ~Past(L[1], walk.e)
                                     /\ \A c \in due : Served(L, i, got, s, walk.e, c)
<1> DEFINE L == es_subscription[walk.s]
<1>1. walk.kind = "notify"
  BY DEF NotifyOne
<1>2. walk.s \in Names /\ walk.e \in 1..MaxTime
  BY <1>1 DEF StreamInv, WalkShape, Idle
<1>3. L \in Seq(Subs) /\ Single(L)
  BY <1>2 DEF StreamInv, StreamTypes
<1>4. PICK i \in 1..Len(L) :
         /\ L[i] = walk.at
         /\ walk.first => /\ ~Past(L[1], walk.e)
                          /\ \A c \in due : Served(L, i, got, walk.s, walk.e, c)
  BY <1>1 DEF StreamInv, Distributing
<1> HIDE DEF L
<1>5. Next1(L, walk.at) = IF i = Len(L) THEN L[1] ELSE L[i + 1]
  BY <1>3, <1>4, NextAt
<1>6. \E k \in 1..Len(L) :
         /\ L[k] = walk.at
         /\ Next1(L, walk.at) = IF k = Len(L) THEN L[1] ELSE L[k + 1]
         /\ walk.first => /\ ~Past(L[1], walk.e)
                          /\ \A c \in due : Served(L, k, got, walk.s, walk.e, c)
  BY <1>4, <1>5
<1> QED
  BY <1>2, <1>3, <1>6 DEF L

(* One step of stream_notify1 whose subscription is past its stop time *)
LEMMA StepPast ==
    ASSUME StreamInv, NotifyOne, Past(walk.at, walk.e)
    PROVE  /\ Distributing'
           /\ walk' = Idle /\ walk.first => \A c \in due : got'[walk.s][c][walk.e] > 0
<1> DEFINE s == walk.s
           e == walk.e
           L == es_subscription[s]
           M == Removed(walk.at.client)[s]
           y == Next1(L, walk.at)
<1>1. /\ s \in Names /\ L \in Seq(Subs) /\ Single(L)
      /\ \E i \in 1..Len(L) :
           /\ L[i] = walk.at
           /\ y = IF i = Len(L) THEN L[1] ELSE L[i + 1]
           /\ walk.first => /\ ~Past(L[1], e)
                            /\ \A c \in due : Served(L, i, got, s, e, c)
  BY AtPosition
<1>2. PICK i \in 1..Len(L) :
         /\ L[i] = walk.at
         /\ y = IF i = Len(L) THEN L[1] ELSE L[i + 1]
         /\ walk.first => /\ ~Past(L[1], e)
                          /\ \A c \in due : Served(L, i, got, s, e, c)
  BY <1>1
<1>3. /\ es_subscription' = Removed(walk.at.client)
      /\ NotifyEnd(M, y)
      /\ UNCHANGED <<got, due>>
  BY DEF NotifyOne
<1>4. M = stream_ss_rm(L, stream_ss_find(L, L[i].client))
  BY <1>1, <1>2 DEF Removed
<1>5. M \in Seq(Subs)
  BY <1>1, <1>4, RmKeeps
<1>6. /\ Len(M) = Len(L) - 1
      /\ \A j \in 1..Len(L) - 1 : M[j] = IF j < i THEN L[j] ELSE L[j + 1]
  <2> HIDE DEF L, M
  <2> QED
    BY <1>1, <1>4, RmAt
<1>7. es_subscription'[s] = M
  BY <1>3
<1> HIDE DEF L, M, y
<1>8. Len(L) \in Nat /\ \A j, k \in 1..Len(L) : L[j] = L[k] => j = k
  BY <1>1 DEF Single
<1>9. M # <<>> => Head(M) = M[1] /\ Len(L) >= 2
  BY <1>5, <1>6, <1>8
<1>10. CASE GoesOn(M, y)
  <2>1. M # <<>> /\ y # M[1]
    BY <1>9, <1>10 DEF GoesOn
  <2>2. i # 1
    BY <1>2, <1>6, <1>9, <2>1
  <2>3. i # Len(L)
    BY <1>2, <1>6, <1>9, <2>1, <2>2
  <2>4. i \in 1..Len(M) /\ M[i] = y /\ M[1] = L[1]
    BY <1>2, <1>6, <1>8, <2>2, <2>3
  <2>5. walk' = [walk EXCEPT !.at = y]
    BY <1>3, <1>10 DEF NotifyEnd
  <2>6. walk'.at = y /\ walk'.s = s /\ walk'.e = e /\ walk'.first = walk.first /\ walk'.kind = "notify"
    <3>1. walk = [kind |-> "notify", s |-> walk.s, at |-> walk.at, e |-> walk.e, first |-> walk.first]
      BY DEF StreamInv, WalkShape, NotifyOne, Idle
    <3> QED
      BY <2>5, <3>1
  <2>7. ASSUME walk.first, NEW c \in due
        PROVE  Served(M, i, got, s, e, c)
    <3>1. Served(L, i, got, s, e, c)
      BY <1>2, <2>7
    <3>2. ASSUME NEW j \in i..Len(L), L[j].client = c, ~Past(L[j], e)
          PROVE  \E k \in i..Len(M) : M[k].client = c /\ ~Past(M[k], e)
      <4>1. j # i
        BY <1>2, <3>2
      <4>2. j - 1 \in i..Len(M) /\ M[j - 1] = L[j]
        BY <1>6, <1>8, <4>1
      <4> QED
        BY <3>2, <4>2
    <3> QED
      BY <3>1, <3>2 DEF Served
  <2>8. walk.first => ~Past(M[1], e)
    BY <1>2, <2>4
  <2>9. walk' # Idle
    BY <2>6 DEF Idle
  <2>10. /\ M[i] = walk'.at
         /\ walk'.first => /\ ~Past(M[1], walk'.e)
                           /\ \A c \in due' : Served(M, i, got', walk'.s, walk'.e, c)
    BY <1>3, <2>4, <2>6, <2>7, <2>8
  <2>11. Distributing'
    BY <1>7, <2>4, <2>6, <2>10 DEF Distributing
  <2> QED
    BY <2>9, <2>11
<1>11. CASE ~GoesOn(M, y)
  <2>1. walk' = Idle
    BY <1>3, <1>11 DEF NotifyEnd
  <2>2. Distributing'
    BY <2>1 DEF Distributing, Idle
  <2>3. ASSUME walk.first, NEW c \in due
        PROVE  got'[s][c][e] > 0
    <3>1. i # 1
      BY <1>2, <2>3
    <3>2. M # <<>> /\ M[1] = L[1]
      BY <1>5, <1>6, <1>8, <3>1
    <3>3. y = L[1]
      BY <1>9, <1>11, <3>2 DEF GoesOn
    <3>4. i = Len(L)
      BY <1>2, <1>8, <3>3
    <3>5. \A j \in i..Len(L) : Past(L[j], e)
      BY <1>2, <1>8, <3>4
    <3>6. Served(L, i, got, s, e, c)
      BY <1>2, <2>3
    <3>7. got[s][c][e] > 0
      BY <3>5, <3>6 DEF Served
    <3> QED
      BY <1>3, <3>7
  <2> QED
    BY <2>2, <2>3
<1> QED
  BY <1>10, <1>11

(* ... whose subscription is not *)
LEMMA StepNotPast ==
    ASSUME StreamInv, NotifyOne, ~Past(walk.at, walk.e)
    PROVE  /\ Distributing'
           /\ walk' = Idle /\ walk.first => \A c \in due : got'[walk.s][c][walk.e] > 0
<1> DEFINE s == walk.s
           e == walk.e
           L == es_subscription[s]
           y == Next1(L, walk.at)
<1>1. /\ s \in Names /\ e \in 1..MaxTime /\ L \in Seq(Subs) /\ Single(L)
      /\ \E i \in 1..Len(L) :
           /\ L[i] = walk.at
           /\ y = IF i = Len(L) THEN L[1] ELSE L[i + 1]
           /\ walk.first => /\ ~Past(L[1], e)
                            /\ \A c \in due : Served(L, i, got, s, e, c)
  BY AtPosition
<1>2. PICK i \in 1..Len(L) :
         /\ L[i] = walk.at
         /\ y = IF i = Len(L) THEN L[1] ELSE L[i + 1]
         /\ walk.first => /\ ~Past(L[1], e)
                          /\ \A c \in due : Served(L, i, got, s, e, c)
  BY <1>1
<1>3. /\ Deliver({walk.at.client}, s, e)
      /\ NotifyEnd(L, y)
      /\ UNCHANGED <<es_subscription, due>>
  BY DEF NotifyOne
<1>4. \A c \in due : /\ got[s][c][e] > 0 => got'[s][c][e] > 0
                     /\ c = walk.at.client => got'[s][c][e] > 0
  <2>1. got \in [Names -> [Clients -> [1..MaxTime -> Nat]]] /\ due \subseteq Clients
    BY DEF StreamInv, StreamTypes
  <2>2. /\ got' \in [Names -> [Clients -> [1..MaxTime -> Nat]]]
        /\ \A c \in Clients : /\ got'[s][c][e] >= got[s][c][e]
                              /\ c \in {walk.at.client} => got'[s][c][e] > 0
    BY <1>1, <1>3, <2>1, DeliverTypes
  <2>3. \A c \in Clients : got[s][c][e] \in Nat /\ got'[s][c][e] \in Nat
    <3>1. s \in Names /\ e \in 1..MaxTime
      BY <1>1
    <3> HIDE DEF s, e
    <3> QED
      BY <2>1, <2>2, <3>1, GotNat
  <2> QED
    BY <2>1, <2>2, <2>3
<1> HIDE DEF L, y
<1>5. Len(L) \in Nat /\ L # <<>> /\ Head(L) = L[1] /\ \A j, k \in 1..Len(L) : L[j] = L[k] => j = k
  BY <1>1, <1>2 DEF Single
<1>6. es_subscription'[s] = L
  BY <1>3 DEF L
<1>7. ASSUME walk.first, NEW c \in due
      PROVE  \/ got'[s][c][e] > 0
             \/ \E j \in i + 1..Len(L) : L[j].client = c /\ ~Past(L[j], e)
  <2>1. Served(L, i, got, s, e, c)
    BY <1>2, <1>7
  <2>2. CASE got[s][c][e] > 0
    BY <1>4, <2>2
  <2>3. ASSUME NEW j \in i..Len(L), L[j].client = c, ~Past(L[j], e)
        PROVE  \/ got'[s][c][e] > 0
               \/ \E k \in i + 1..Len(L) : L[k].client = c /\ ~Past(L[k], e)
    <3>1. CASE j = i
      BY <1>2, <1>4, <2>3, <3>1
    <3>2. CASE j # i
      <4>1. j \in i + 1..Len(L)
        BY <1>5, <3>2
      <4> QED
        BY <2>3, <4>1
    <3> QED
      BY <3>1, <3>2
  <2> QED
    BY <2>1, <2>2, <2>3 DEF Served
<1>8. CASE GoesOn(L, y)
  <2>1. i + 1 \in 1..Len(L) /\ L[i + 1] = y
    BY <1>2, <1>5, <1>8 DEF GoesOn
  <2>2. walk' = [walk EXCEPT !.at = y]
    BY <1>3, <1>8 DEF NotifyEnd
  <2>3. walk'.at = y /\ walk'.s = s /\ walk'.e = e /\ walk'.first = walk.first /\ walk'.kind = "notify"
    <3>1. walk = [kind |-> "notify", s |-> walk.s, at |-> walk.at, e |-> walk.e, first |-> walk.first]
      BY DEF StreamInv, WalkShape, NotifyOne, Idle
    <3> QED
      BY <2>2, <3>1
  <2>4. walk' # Idle
    BY <2>3 DEF Idle
  <2>5. /\ L[i + 1] = walk'.at
        /\ walk'.first => /\ ~Past(L[1], walk'.e)
                          /\ \A c \in due' : Served(L, i + 1, got', walk'.s, walk'.e, c)
    BY <1>2, <1>3, <1>7, <2>1, <2>3 DEF Served
  <2>6. Distributing'
    BY <1>6, <2>1, <2>3, <2>5 DEF Distributing
  <2> QED
    BY <2>4, <2>6
<1>9. CASE ~GoesOn(L, y)
  <2>1. walk' = Idle
    BY <1>3, <1>9 DEF NotifyEnd
  <2>2. Distributing'
    BY <2>1 DEF Distributing, Idle
  <2>3. i = Len(L)
    BY <1>2, <1>5, <1>9 DEF GoesOn
  <2>4. walk.first => \A c \in due : got'[s][c][e] > 0
    BY <1>5, <1>7, <2>3
  <2> QED
    BY <2>2, <2>4
<1> QED
  BY <1>8, <1>9

(* stream_notify begins at the head, with everyone due ahead *)
LEMMA NotifyBegins ==
    ASSUME StreamInv, NEW s \in Names, Notify(s)
    PROVE  WalkShape' /\ Distributing'
<1> DEFINE L == es_subscription[s]
<1>1. L \in Seq(Subs)
  BY DEF StreamInv, StreamTypes
<1>2. UNCHANGED <<es_subscription, got>> /\ now + 1 \in 1..MaxTime
  BY StreamsAssumption DEF Notify, StreamInv, StreamTypes, Times
<1>3. CASE L = <<>>
  <2>1. walk' = Idle
    BY <1>3 DEF Notify, Resting
  <2> QED
    BY <2>1 DEF WalkShape, Distributing, Idle
<1>4. CASE L # <<>>
  <2>1. walk' = [kind |-> "notify", s |-> s, at |-> Head(L), e |-> now + 1,
                 first |-> ~Past(Head(L), now + 1)]
    BY <1>4 DEF Notify
  <2>2. /\ walk'.kind = "notify" /\ walk'.s = s /\ walk'.at = Head(L)
        /\ walk'.e = now + 1 /\ walk'.first = ~Past(Head(L), now + 1)
    BY <2>1
  <2>3. WalkShape'
    BY <1>2, <2>1, <2>2 DEF WalkShape
  <2>4. due' = {L[i].client : i \in {i \in DOMAIN L : ~Past(L[i], now + 1)}}
    BY DEF Notify
  <2> HIDE DEF L
  <2>5. Len(L) \in Nat /\ 1 \in 1..Len(L) /\ Head(L) = L[1]
    BY <1>1, <1>4
  <2>6. ASSUME NEW c \in due'
        PROVE  Served(L, 1, got', s, now + 1, c)
    <3>1. PICK j \in DOMAIN L : ~Past(L[j], now + 1) /\ L[j].client = c
      BY <2>4
    <3>2. j \in 1..Len(L)
      BY <1>1
    <3> QED
      BY <3>1, <3>2 DEF Served
  <2>7. L[1] = walk'.at /\ (walk'.first => ~Past(L[1], walk'.e))
    BY <2>2, <2>5
  <2>8. es_subscription'[s] = L
    BY <1>2 DEF L
  <2>9. Distributing'
    BY <2>2, <2>5, <2>6, <2>7, <2>8 DEF Distributing
  <2> QED
    BY <2>3, <2>9
<1> QED
  BY <1>3, <1>4

(* The shape of the walk, at every other step *)
LEMMA WalkKept ==
    ASSUME StreamInv, [StreamNext]_streamVars
    PROVE  WalkShape' /\ Distributing'
<1>1. ASSUME NEW s \in Names, Notify(s)
      PROVE  WalkShape' /\ Distributing'
  BY <1>1, NotifyBegins
<1>2. ASSUME NotifyOne
      PROVE  WalkShape' /\ Distributing'
  <2>1. Distributing'
    BY <1>2, StepPast, StepNotPast
  <2>2. \/ walk' = Idle
        \/ \E y : walk' = [walk EXCEPT !.at = y]
    BY <1>2 DEF NotifyOne, NotifyEnd
  <2>3. /\ walk = [kind |-> "notify", s |-> walk.s, at |-> walk.at, e |-> walk.e, first |-> walk.first]
        /\ walk.s \in Names /\ walk.e \in 1..MaxTime /\ walk.first \in BOOLEAN
    BY <1>2 DEF StreamInv, WalkShape, NotifyOne, Idle
  <2>4. ASSUME NEW y, walk' = [walk EXCEPT !.at = y]
        PROVE  WalkShape'
    <3>1. walk' = [kind |-> "notify", s |-> walk.s, at |-> y, e |-> walk.e, first |-> walk.first]
      BY <2>3, <2>4
    <3>2. /\ walk'.kind = "notify" /\ walk'.s = walk.s /\ walk'.at = y
          /\ walk'.e = walk.e /\ walk'.first = walk.first
      BY <3>1
    <3> QED
      BY <2>3, <3>1, <3>2 DEF WalkShape
  <2>5. WalkShape'
    BY <2>2, <2>4 DEF WalkShape
  <2> QED
    BY <2>1, <2>5
<1>3. ASSUME walk.kind \in {"stop", "retain"},
             walk' = walk \/ walk' = Idle
               \/ (\E y : walk' = [walk EXCEPT !.at = y])
               \/ (\E s, at : walk' = [kind |-> "retain", s |-> s, at |-> at])
      PROVE  WalkShape' /\ Distributing'
  <2>1. walk = [kind |-> walk.kind, s |-> walk.s, at |-> walk.at]
    BY <1>3 DEF StreamInv, WalkShape, Idle
  <2>2. \/ walk' = Idle
        \/ /\ walk'.kind \in {"stop", "retain"}
           /\ walk' = [kind |-> walk'.kind, s |-> walk'.s, at |-> walk'.at]
    <3>1. CASE walk' = walk
      BY <1>3, <2>1, <3>1
    <3>2. ASSUME NEW y, walk' = [walk EXCEPT !.at = y]
          PROVE  /\ walk'.kind \in {"stop", "retain"}
                 /\ walk' = [kind |-> walk'.kind, s |-> walk'.s, at |-> walk'.at]
      <4>1. walk' = [kind |-> walk.kind, s |-> walk.s, at |-> y]
        BY <2>1, <3>2
      <4> QED
        BY <1>3, <4>1
    <3>3. ASSUME NEW s, NEW at, walk' = [kind |-> "retain", s |-> s, at |-> at]
          PROVE  /\ walk'.kind \in {"stop", "retain"}
                 /\ walk' = [kind |-> walk'.kind, s |-> walk'.s, at |-> walk'.at]
      BY <3>3
    <3> QED
      BY <1>3, <3>1, <3>2, <3>3
  <2> QED
    BY <2>2 DEF WalkShape, Distributing, Idle
<1>4. ASSUME TimerStop
      PROVE  WalkShape' /\ Distributing'
  <2>1. walk.kind \in {"stop", "retain"}
    BY <1>4 DEF TimerStop
  <2>2. \/ walk' = walk \/ walk' = Idle
        \/ \E y : walk' = [walk EXCEPT !.at = y]
        \/ \E s, at : walk' = [kind |-> "retain", s |-> s, at |-> at]
    BY <1>4, Zenon DEF TimerStop, ToReplay
  <2> QED
    BY <1>3, <2>1, <2>2
<1>5. ASSUME TimerRetain
      PROVE  WalkShape' /\ Distributing'
  <2>1. walk.kind \in {"stop", "retain"}
    BY <1>5 DEF TimerRetain
  <2>2. \/ walk' = walk \/ walk' = Idle
        \/ \E y : walk' = [walk EXCEPT !.at = y]
    BY <1>5, Zenon DEF TimerRetain
  <2> QED
    BY <1>3, <2>1, <2>2
<1>6. ASSUME NEW s \in Names, TimerSetup(s)
      PROVE  WalkShape' /\ Distributing'
  <2>1. \/ walk' = [kind |-> "stop", s |-> s, at |-> Head(es_subscription[s])]
        \/ walk' = [kind |-> "retain", s |-> s, at |-> Head(es_replay[s])]
    BY <1>6 DEF TimerSetup
  <2> QED
    BY <2>1 DEF WalkShape, Distributing, Idle
<1>7. ASSUME \/ \E c \in Clients : Connect(c) \/ Disconnect(c)
             \/ \E c \in Clients, s \in Names, start \in 0..now, stop \in Times :
                  create_subscription(c, s, start, stop)
             \/ \E s \in Names, c \in Clients : stream_replay_cb(s, c)
             \/ ClockTick
      PROVE  WalkShape' /\ Distributing'
  <2>1. walk' = Idle
    BY <1>7, Zenon DEF Connect, Disconnect, create_subscription, stream_replay_cb, ClockTick, Resting
  <2> QED
    BY <2>1 DEF WalkShape, Distributing, Idle
<1>8. CASE UNCHANGED streamVars
  <2>1. UNCHANGED <<es_subscription, walk, got, due>>
    BY <1>8 DEF streamVars
  <2>2. WalkShape'
    BY <2>1 DEF StreamInv, WalkShape
  <2>3. Distributing'
    BY <2>1 DEF StreamInv, Distributing, Served
  <2> QED
    BY <2>2, <2>3
<1> QED
  BY <1>1, <1>2, <1>4, <1>5, <1>6, <1>7, <1>8, Zenon DEF StreamNext

(* The invariant of the streams *)
LEMMA StreamInvHolds ==
    StreamSpec => []StreamInv
<1>1. StreamInit => StreamInv
  <2> SUFFICES ASSUME StreamInit PROVE StreamInv
    OBVIOUS
  <2> DEFINE zero == [e \in 1..MaxTime |-> 0]
             zeros == [c \in Clients |-> zero]
  <2>1. zero \in [1..MaxTime -> Nat]
    OBVIOUS
  <2>2. got = [s \in Names |-> zeros]
    BY DEF StreamInit
  <2> HIDE DEF zero
  <2>3. zeros \in [Clients -> [1..MaxTime -> Nat]]
    BY <2>1
  <2> HIDE DEF zeros
  <2>4. got \in [Names -> [Clients -> [1..MaxTime -> Nat]]]
    BY <2>2, <2>3
  <2>5. es_subscription \in [Names -> Seq(Subs)] /\ \A s \in Names : Single(es_subscription[s])
    BY DEF StreamInit, Single
  <2>6. now \in Times /\ due \subseteq Clients /\ walk = Idle
    BY StreamsAssumption DEF StreamInit, Times
  <2> QED
    BY <2>4, <2>5, <2>6 DEF StreamInv, StreamTypes, WalkShape, Distributing, Idle
<1>2. StreamInv /\ [StreamNext]_streamVars => StreamInv'
  BY StreamTypesKept, WalkKept DEF StreamInv
<1> QED
  BY <1>1, <1>2, PTL DEF StreamSpec

(* stream_notify1 distributes an event to every subscriber it is for, in    *)
(* lists of any length and whoever comes and goes between two events: unless *)
(* the head of the list is past its stop time, no removal of another         *)
(* subscription during the walk makes it skip one or end early.              *)
THEOREM EventReachesAllHolds ==
    StreamSpec => EventReachesAll
<1>1. ASSUME StreamInv, [StreamNext]_streamVars
      PROVE  [walk.kind = "notify" /\ walk' = Idle /\ walk.first =>
                \A c \in due : got'[walk.s][c][walk.e] > 0]_streamVars
  <2> SUFFICES ASSUME StreamNext, walk.kind = "notify", walk' = Idle, walk.first
               PROVE  \A c \in due : got'[walk.s][c][walk.e] > 0
    BY <1>1
  <2>1. walk # Idle
    BY DEF Idle
  <2>2. NotifyOne
    BY <2>1, Zenon DEF StreamNext, Connect, Disconnect, create_subscription, Notify, TimerSetup,
       stream_replay_cb, TimerStop, TimerRetain, ClockTick, Resting
  <2> QED
    BY <1>1, <2>2, StepPast, StepNotPast
<1> QED
  BY <1>1, StreamInvHolds, PTL DEF StreamSpec, EventReachesAll

------------------------------------------------------------------------------
(* RESTCONF.  A request is one message to the backend at most: what the     *)
(* answer to it tells is what became of it.                                 *)

FrontSpec(configs) == FrontInit(configs) /\ [][FrontNext]_frontVars

(* The first step of a RESTCONF request *)
FirstStep(q) == restconf_request(q, <<>>)

(* restconf_err2code has no code of success *)
LEMMA ErrorCodes ==
    ASSUME NEW tag
    PROVE  /\ api_return_err0(tag).todo = "done" /\ api_return_err0(tag).code \notin 200..299
           /\ Refuse(tag).todo = "done" /\ Refuse(tag).code \notin 200..299
<1>1. restconf_err2code(tag) \in {409, 400, 413, 403, 405, 412, 500, -1}
  BY DEF restconf_err2code
<1>2. api_return_err(tag, "", 0) \in {409, 400, 413, 403, 405, 412, 500, 401, 404}
  BY <1>1 DEF api_return_err
<1>3. /\ api_return_err0(tag).todo = "done"
      /\ api_return_err0(tag).code = api_return_err(tag, "", 0)
  BY DEF api_return_err0, Ends_with
<1>4. restconf_unsupported_media.todo = "done" /\ restconf_unsupported_media.code = 415
  BY DEF restconf_unsupported_media, Ends_with, api_return_err
<1>5. \/ Refuse(tag) = restconf_unsupported_media
      \/ Refuse(tag) = api_return_err0(tag)
  BY DEF Refuse
<1>6. api_return_err0(tag).todo = "done" /\ api_return_err0(tag).code \notin 200..299
  <2> DEFINE code == api_return_err(tag, "", 0)
  <2>1. code \notin 200..299
    <3> HIDE DEF code
    <3>1. \A x \in {409, 400, 413, 403, 405, 412, 500, 401, 404} : x \notin 200..299
      OBVIOUS
    <3>2. code \in {409, 400, 413, 403, 405, 412, 500, 401, 404}
      BY <1>2 DEF code
    <3> QED
      BY <3>1, <3>2
  <2> QED
    BY <1>3, <2>1
<1>7. Refuse(tag).todo = "done" /\ Refuse(tag).code \notin 200..299
  BY <1>4, <1>5, <1>6
<1> QED
  BY <1>6, <1>7

(* The answers of api_data_post and its like *)
LEMMA AnsweredCodes ==
    ASSUME NEW r, NEW code \in 200..299
    PROVE  /\ Answered(r, code).todo = "done"
           /\ Answered(r, code).code \in 200..299 => r # Failure /\ r.tag \in {"ok", "data"}
           /\ r.tag = "ok" => Answered(r, code).code \in 200..299
<1>1. Unanswered.todo = "done" /\ Unanswered.code = -1
  BY DEF Unanswered, Ends_with
<1>2. Ends_with(code).todo = "done" /\ Ends_with(code).code = code
  BY DEF Ends_with
<1>3. api_return_err0(r.tag).todo = "done" /\ api_return_err0(r.tag).code \notin 200..299
  BY ErrorCodes
<1>4. CASE r = Failure
  <2>1. Answered(r, code) = Unanswered
    BY <1>4 DEF Answered
  <2>2. r.tag # "ok"
    BY <1>4 DEF Failure
  <2> QED
    BY <1>1, <2>1, <2>2
<1>5. CASE r # Failure /\ r.tag \in {"ok", "data"}
  <2>1. Answered(r, code) = Ends_with(code)
    BY <1>5 DEF Answered
  <2> QED
    BY <1>2, <1>5, <2>1
<1>6. CASE r # Failure /\ r.tag \notin {"ok", "data"}
  <2>1. Answered(r, code) = api_return_err0(r.tag)
    BY <1>6 DEF Answered
  <2> QED
    BY <1>3, <1>6, <2>1
<1> QED
  BY <1>4, <1>5, <1>6

(* What a handler that writes does first: it refuses, or it sends an edit   *)
(* that commits                                                             *)
TurnedDown(p) == p.todo = "done" /\ p.code \notin 200..299
SendsEdit(p, q, op) == p.todo = "send" /\ p.rpc = EditAndCommit(q, op)

(* ... and when it has the answer *)
Tells(p, r) ==
    /\ p.todo = "done"
    /\ p.code \in 200..299 => r # Failure /\ r.tag \in {"ok", "data"}
    /\ r.tag = "ok" => p.code \in 200..299

(* A handler that fails has not succeeded *)
LEMMA UnansweredCode ==
    TurnedDown(Unanswered) /\ \A tag : TurnedDown(Refuse(tag)) /\ TurnedDown(api_return_err0(tag))
<1>1. Unanswered.todo = "done" /\ Unanswered.code = -1
  BY DEF Unanswered, Ends_with
<1>2. TurnedDown(Unanswered)
  BY <1>1 DEF TurnedDown
<1> QED
  BY <1>2, ErrorCodes DEF TurnedDown

(* The codes of success there are *)
LEMMA SuccessCodes ==
    200 \in 200..299 /\ 201 \in 200..299 /\ 204 \in 200..299
OBVIOUS

(* An edit, and its answer *)
LEMMA AskThenAnswer ==
    ASSUME NEW q, NEW op, NEW r, NEW code \in 200..299, NEW p, NEW p1,
           p = Ask(EditAndCommit(q, op)), p1 = Answered(r, code)
    PROVE  SendsEdit(p, q, op) /\ Tells(p1, r)
<1>1. SendsEdit(p, q, op)
  BY DEF SendsEdit, Ask
<1>2. Tells(p1, r)
  BY AnsweredCodes, ZenonT(30) DEF Tells
<1> QED
  BY <1>1, <1>2

(* api_data_post *)
LEMMA PostSteps ==
    ASSUME NEW q, NEW r
    PROVE  \/ TurnedDown(api_data_post(q, <<>>))
           \/ SendsEdit(api_data_post(q, <<>>), q, "create") /\ Tells(api_data_post(q, <<r>>), r)
<1> DEFINE ok == PostBody(q) = "ok" /\ restconf_insert_attributes(q)
<1>1. CASE PostBody(q) # "ok"
  <2>1. api_data_post(q, <<>>) = Refuse(PostBody(q))
    BY <1>1 DEF api_data_post
  <2> QED
    BY <2>1, UnansweredCode
<1>2. CASE PostBody(q) = "ok" /\ ~restconf_insert_attributes(q)
  <2>1. api_data_post(q, <<>>) = Unanswered
    BY <1>2 DEF api_data_post
  <2> QED
    BY <2>1, UnansweredCode
<1>3. CASE ok
  <2>1. api_data_post(q, <<>>) = Ask(EditAndCommit(q, "create"))
    BY <1>3 DEF api_data_post
  <2>2. api_data_post(q, <<r>>) = Answered(r, 201)
    BY <1>3 DEF api_data_post
  <2> QED
    BY <2>1, <2>2, AskThenAnswer, SuccessCodes
<1> QED
  BY <1>1, <1>2, <1>3

(* api_data_write, for PUT and for a plain PATCH *)
LEMMA WriteSteps ==
    ASSUME NEW q, NEW r, NEW plain \in BOOLEAN
    PROVE  \/ TurnedDown(api_data_write(q, plain, <<>>))
           \/ /\ SendsEdit(api_data_write(q, plain, <<>>), q, IF plain THEN "merge-existing" ELSE "replace")
              /\ Tells(api_data_write(q, plain, <<r>>), r)
<1> DEFINE bad == \/ WriteTarget(q) # "ok"
                  \/ WriteBody(q) # "ok"
                  \/ WriteMatch(q) # "ok"
           lost == q.res # "top" /\ ~restconf_insert_attributes(q)
<1>1. CASE bad
  <2>1. \E tag : api_data_write(q, plain, <<>>) = Refuse(tag)
    BY <1>1 DEF api_data_write
  <2> QED
    BY <2>1, UnansweredCode
<1>2. CASE ~bad /\ lost
  <2>1. api_data_write(q, plain, <<>>) = Unanswered
    BY <1>2 DEF api_data_write
  <2> QED
    BY <2>1, UnansweredCode
<1>3. CASE ~bad /\ ~lost
  <2> DEFINE op == IF plain THEN "merge-existing" ELSE "replace"
             code == IF r.existed THEN 204 ELSE 201
  <2>1. api_data_write(q, plain, <<>>) = Ask(EditAndCommit(q, op))
    BY <1>3 DEF api_data_write
  <2>2. api_data_write(q, plain, <<r>>) = Answered(r, code)
    BY <1>3 DEF api_data_write
  <2>3. code \in 200..299
    OBVIOUS
  <2> HIDE DEF op, code
  <2>4. /\ SendsEdit(api_data_write(q, plain, <<>>), q, op)
        /\ Tells(api_data_write(q, plain, <<r>>), r)
    BY <2>1, <2>2, <2>3, AskThenAnswer
  <2> QED
    BY <2>4 DEF op
<1> QED
  BY <1>1, <1>2, <1>3

(* api_data_patch *)
LEMMA PatchSteps ==
    ASSUME NEW q, NEW r
    PROVE  \/ TurnedDown(api_data_patch(q, <<>>))
           \/ /\ SendsEdit(api_data_patch(q, <<>>), q, "merge-existing")
              /\ Tells(api_data_patch(q, <<r>>), r)
<1>1. CASE restconf_content_type(q) \in {"xml", "json"}
  <2>1. \A rs : api_data_patch(q, rs) = api_data_write(q, TRUE, rs)
    BY <1>1 DEF api_data_patch
  <2> QED
    BY <2>1, WriteSteps
<1>2. CASE restconf_content_type(q) \notin {"xml", "json"}
  <2>1. api_data_patch(q, <<>>) \in {restconf_notimplemented, restconf_unsupported_media}
    BY <1>2 DEF api_data_patch
  <2>2. TurnedDown(restconf_notimplemented) /\ TurnedDown(restconf_unsupported_media)
    BY DEF restconf_notimplemented, restconf_unsupported_media, Ends_with, api_return_err, TurnedDown
  <2> QED
    BY <2>1, <2>2
<1> QED
  BY <1>1, <1>2

(* api_data_delete *)
LEMMA DeleteSteps ==
    ASSUME NEW q, NEW r
    PROVE  \/ TurnedDown(api_data_delete(q, <<>>))
           \/ /\ SendsEdit(api_data_delete(q, <<>>), q, "delete")
              /\ Tells(api_data_delete(q, <<r>>), r)
<1>1. CASE q.fault = "path"
  <2>1. api_data_delete(q, <<>>) = api_return_err0("unknown-element")
    BY <1>1 DEF api_data_delete
  <2> QED
    BY <2>1, UnansweredCode
<1>2. CASE q.fault # "path"
  <2>1. api_data_delete(q, <<>>) = Ask(EditAndCommit(q, "delete"))
    BY <1>2 DEF api_data_delete
  <2>2. api_data_delete(q, <<r>>) = Answered(r, 204)
    BY <1>2 DEF api_data_delete
  <2> QED
    BY <2>1, <2>2, AskThenAnswer, SuccessCodes
<1> QED
  BY <1>1, <1>2

(* The three ways a request goes: it ends at once, and a write has then not *)
(* succeeded; it sends one edit, and its status tells whether that was      *)
(* made; or it sends one message that changes nothing                       *)
Writes(q) == q.res \in {"data", "top"} /\ q.method \in {"POST", "PUT", "PATCH", "DELETE"}

EndsAtOnce(q, p) == p.todo = "done" /\ (Writes(q) => p.code \notin 200..299)

EditOf(q, op) == op \in {"create", "replace", "merge-existing", "delete"} /\ (op = "delete" <=> q.method = "DELETE")

MakesEdit(q, p, p1, r) ==
    /\ p.todo = "send" /\ p1.todo = "done"
    /\ \E op \in {"create", "replace", "merge-existing", "delete"} :
         EditOf(q, op) /\ p.rpc = EditAndCommit(q, op)
    /\ p1.code \in 200..299 => r # Failure /\ r.tag \in {"ok", "data"}
    /\ r.tag = "ok" => p1.code \in 200..299 \/ (q.method = "PATCH" /\ ReadOnly(q))

Reading == {clicon_rpc_get_pageable_list("running"), clixon_rpc_get1,
            clicon_rpc_netconf(Rpc("example", "tree"))}

OnlyReads(q, p, p1) == ~Writes(q) /\ p.todo = "send" /\ p.rpc \in Reading /\ p1.todo = "done"

(* A write handler's step is one of these *)
LEMMA EditFits ==
    ASSUME NEW q, NEW r, NEW p, NEW p1, NEW op, EditOf(q, op), SendsEdit(p, q, op), Tells(p1, r)
    PROVE  MakesEdit(q, p, p1, r)
BY DEF MakesEdit, SendsEdit, Tells, EditOf

(* Reading *)
LEMMA PaginationSteps ==
    ASSUME NEW q, NEW r
    PROVE  \/ api_data_pagination(q, <<>>).todo = "done"
           \/ /\ api_data_pagination(q, <<>>).todo = "send"
              /\ api_data_pagination(q, <<>>).rpc \in Reading
              /\ api_data_pagination(q, <<r>>).todo = "done"
<1>1. \A tag : api_return_err0(tag).todo = "done"
  BY ErrorCodes
<1>2. Answered(r, 200).todo = "done"
  <2>1. \A code \in 200..299 : Answered(r, code).todo = "done"
    BY AnsweredCodes
  <2> QED
    BY <2>1, SuccessCodes
<1>3. CASE PageQuery(q) # "ok"
  <2>1. api_data_pagination(q, <<>>) = api_return_err0(PageQuery(q))
    BY <1>3 DEF api_data_pagination
  <2> QED
    BY <1>1, <2>1
<1>4. CASE PageQuery(q) = "ok"
  <2>1. api_data_pagination(q, <<>>) = Ask(clicon_rpc_get_pageable_list("running"))
    BY <1>4 DEF api_data_pagination
  <2>2. \/ api_data_pagination(q, <<r>>) = api_return_err0("operation-failed")
        \/ api_data_pagination(q, <<r>>) = Answered(r, 200)
    BY <1>4 DEF api_data_pagination
  <2>3. api_data_pagination(q, <<r>>).todo = "done"
    BY <1>1, <1>2, <2>2
  <2> QED
    BY <2>1, <2>3 DEF Ask, Reading
<1> QED
  BY <1>3, <1>4

(* api_data_get2 sends one message, which reads, or answers at once; the     *)
(* reply to it is the end of the request                                    *)
LEMMA Get2Steps ==
    ASSUME NEW q, NEW r, NEW head \in BOOLEAN
    PROVE  \/ api_data_get2(q, <<>>, head).todo = "done"
           \/ /\ api_data_get2(q, <<>>, head).todo = "send"
              /\ api_data_get2(q, <<>>, head).rpc \in Reading
              /\ api_data_get2(q, <<r>>, head).todo = "done"
<1>1. \A tag : api_return_err0(tag).todo = "done"
  BY ErrorCodes
<1>2. \A code : Ends_with(code).todo = "done"
  BY DEF Ends_with
<1>3. CASE q.fault = "path"
  <2>1. api_data_get2(q, <<>>, head) = api_return_err0("unknown-element")
    BY <1>3 DEF api_data_get2
  <2> QED
    BY <1>1, <2>1
<1>4. CASE q.fault # "path" /\ ~head /\ q.res = "list"
  <2>1. \A rs : api_data_get2(q, rs, head) = api_data_pagination(q, rs)
    BY <1>4 DEF api_data_get2
  <2> QED
    BY <2>1, PaginationSteps
<1>5. CASE q.fault # "path" /\ ~(~head /\ q.res = "list") /\ GetQuery(q) # "ok"
  <2>1. api_data_get2(q, <<>>, head) = api_return_err0(GetQuery(q))
    BY <1>5 DEF api_data_get2
  <2> QED
    BY <1>1, <2>1
<1>6. CASE q.fault # "path" /\ ~(~head /\ q.res = "list") /\ GetQuery(q) = "ok"
  <2>1. api_data_get2(q, <<>>, head) = Ask(clixon_rpc_get1)
    BY <1>6 DEF api_data_get2
  <2>2. \/ \E tag : api_data_get2(q, <<r>>, head) = api_return_err0(tag)
        \/ \E code : api_data_get2(q, <<r>>, head) = Ends_with(code)
    BY <1>6 DEF api_data_get2
  <2>3. api_data_get2(q, <<r>>, head).todo = "done"
    BY <1>1, <1>2, <2>2
  <2> QED
    BY <2>1, <2>3 DEF Ask, Reading
<1> QED
  BY <1>3, <1>4, <1>5, <1>6

(* api_operations: an RPC of an example module *)
LEMMA OperationSteps ==
    ASSUME NEW q, NEW r
    PROVE  \/ api_operations(q, <<>>).todo = "done"
           \/ /\ api_operations(q, <<>>).todo = "send"
              /\ api_operations(q, <<>>).rpc \in Reading
              /\ api_operations(q, <<r>>).todo = "done"
<1>1. \A tag : Refuse(tag).todo = "done"
  BY ErrorCodes
<1>2. \A code : Ends_with(code).todo = "done"
  BY DEF Ends_with
<1>3. CASE q.method # "POST"
  <2>1. \E code : api_operations(q, <<>>) = Ends_with(code)
    BY <1>3 DEF api_operations, api_operations_get
  <2> QED
    BY <1>2, <2>1
<1>4. CASE q.method = "POST"
  <2>1. \A rs : api_operations(q, rs) = api_operations_post(q, rs)
    BY <1>4 DEF api_operations
  <2>2. CASE OperationOf(q) # "ok"
    <3>1. api_operations_post(q, <<>>) = Refuse(OperationOf(q))
      BY <2>2 DEF api_operations_post
    <3> QED
      BY <1>1, <2>1, <3>1
  <2>3. CASE OperationOf(q) = "ok" /\ q.fault = "local"
    <3>1. api_operations_post(q, <<>>) = Ends_with(204)
      BY <2>3 DEF api_operations_post
    <3> QED
      BY <1>2, <2>1, <3>1
  <2>4. CASE OperationOf(q) = "ok" /\ q.fault # "local"
    <3>1. api_operations_post(q, <<>>) = Ask(clicon_rpc_netconf(Rpc("example", "tree")))
      BY <2>4 DEF api_operations_post
    <3>2. api_operations_post(q, <<r>>) = Answered(r, api_operations_post_output(r))
      BY <2>4 DEF api_operations_post
    <3>3. api_operations_post_output(r) \in 200..299
      BY DEF api_operations_post_output
    <3>4. \A code \in 200..299 : Answered(r, code).todo = "done"
      BY AnsweredCodes
    <3>5. api_operations_post(q, <<r>>).todo = "done"
      BY <3>2, <3>3, <3>4
    <3> QED
      BY <2>1, <3>1, <3>5 DEF Ask, Reading
  <2> QED
    BY <2>2, <2>3, <2>4
<1> QED
  BY <1>3, <1>4

(* api_data: the methods *)
LEMMA DataSteps ==
    ASSUME NEW q, NEW r
    PROVE  LET p == api_data(q, <<>>)
               p1 == api_data(q, <<r>>)
           IN  EndsAtOnce(q, p) \/ MakesEdit(q, p, p1, r) \/ OnlyReads(q, p, p1)
<1> DEFINE p == api_data(q, <<>>)
           p1 == api_data(q, <<r>>)
           Goal == EndsAtOnce(q, p) \/ MakesEdit(q, p, p1, r) \/ OnlyReads(q, p, p1)
<1> SUFFICES Goal
  OBVIOUS
<1>1. TurnedDown(restconf_method_notallowed)
  BY UnansweredCode DEF restconf_method_notallowed
<1>2. \A x : TurnedDown(x) => EndsAtOnce(q, x)
  BY DEF TurnedDown, EndsAtOnce
<1>3. CASE q.method = "POST"
  <2>1. p = api_data_post(q, <<>>) /\ p1 = api_data_post(q, <<r>>)
    BY <1>3 DEF api_data
  <2>2. EditOf(q, "create")
    BY <1>3 DEF EditOf
  <2>3. TurnedDown(p) \/ (SendsEdit(p, q, "create") /\ Tells(p1, r))
    BY <2>1, PostSteps
  <2> QED
    BY <1>2, <2>2, <2>3, EditFits
<1>4. CASE q.method = "PUT"
  <2>1. CASE ReadOnly(q)
    <3>1. p = restconf_method_notallowed
      BY <1>4, <2>1 DEF api_data
    <3> QED
      BY <1>1, <1>2, <3>1
  <2>2. CASE ~ReadOnly(q)
    <3>1. p = api_data_write(q, FALSE, <<>>) /\ p1 = api_data_write(q, FALSE, <<r>>)
      BY <1>4, <2>2 DEF api_data, api_data_put
    <3>2. EditOf(q, "replace")
      BY <1>4 DEF EditOf
    <3>3. TurnedDown(p) \/ (SendsEdit(p, q, "replace") /\ Tells(p1, r))
      BY <3>1, WriteSteps
    <3> QED
      BY <1>2, <3>2, <3>3, EditFits
  <2> QED
    BY <2>1, <2>2
<1>5. CASE q.method = "PATCH"
  <2> DEFINE s == api_data_patch(q, <<>>)
             s1 == api_data_patch(q, <<r>>)
  <2>1. /\ p = IF ReadOnly(q) /\ s.todo = "done" THEN restconf_method_notallowed ELSE s
        /\ p1 = IF ReadOnly(q) /\ s1.todo = "done" THEN restconf_method_notallowed ELSE s1
    BY <1>5 DEF api_data
  <2>2. EditOf(q, "merge-existing")
    BY <1>5 DEF EditOf
  <2>3. TurnedDown(s) \/ (SendsEdit(s, q, "merge-existing") /\ Tells(s1, r))
    BY PatchSteps
  <2> HIDE DEF s, s1
  <2>4. CASE TurnedDown(s)
    <3>1. p = restconf_method_notallowed \/ p = s
      BY <2>1
    <3> QED
      BY <1>1, <1>2, <2>4, <3>1
  <2>5. CASE SendsEdit(s, q, "merge-existing") /\ Tells(s1, r) /\ ~ReadOnly(q)
    <3>1. p = s /\ p1 = s1
      BY <2>1, <2>5
    <3> QED
      BY <2>2, <2>5, <3>1, EditFits
  <2>6. CASE SendsEdit(s, q, "merge-existing") /\ Tells(s1, r) /\ ReadOnly(q)
    <3>1. p = s /\ s.todo = "send" /\ p.rpc = EditAndCommit(q, "merge-existing")
      BY <2>1, <2>6 DEF SendsEdit
    <3>2. p1 = restconf_method_notallowed
      BY <2>1, <2>6 DEF Tells
    <3>3. p1.todo = "done" /\ p1.code \notin 200..299
      BY <1>1, <3>2 DEF TurnedDown
    <3> HIDE DEF p, p1
    <3>4. MakesEdit(q, p, p1, r)
      BY <1>5, <2>2, <2>6, <3>1, <3>3 DEF MakesEdit
    <3> QED
      BY <3>4
  <2> QED
    BY <2>3, <2>4, <2>5, <2>6
<1>6. CASE q.method = "DELETE"
  <2>1. CASE ReadOnly(q)
    <3>1. p = restconf_method_notallowed
      BY <1>6, <2>1 DEF api_data
    <3> QED
      BY <1>1, <1>2, <3>1
  <2>2. CASE ~ReadOnly(q)
    <3>1. p = api_data_delete(q, <<>>) /\ p1 = api_data_delete(q, <<r>>)
      BY <1>6, <2>2 DEF api_data
    <3>2. EditOf(q, "delete")
      BY <1>6 DEF EditOf
    <3>3. TurnedDown(p) \/ (SendsEdit(p, q, "delete") /\ Tells(p1, r))
      BY <3>1, DeleteSteps
    <3> QED
      BY <1>2, <3>2, <3>3, EditFits
  <2> QED
    BY <2>1, <2>2
<1>7. CASE q.method \notin {"POST", "PUT", "PATCH", "DELETE"}
  <2>1. ~Writes(q)
    BY <1>7 DEF Writes
  <2>2. p.todo = "done" \/ (p.todo = "send" /\ p.rpc \in Reading /\ p1.todo = "done")
    <3>1. CASE q.method = "HEAD" /\ q.ds = "dynamic"
      <4>1. p = restconf_method_notallowed
        BY <3>1 DEF api_data
      <4> QED
        BY <1>1, <4>1 DEF TurnedDown
    <3>2. CASE q.method = "HEAD" /\ q.ds # "dynamic"
      <4>1. p = api_data_get2(q, <<>>, TRUE) /\ p1 = api_data_get2(q, <<r>>, TRUE)
        BY <3>2 DEF api_data, api_data_head
      <4> QED
        BY <4>1, Get2Steps
    <3>3. CASE q.method = "GET"
      <4>1. \/ p = api_data_pagination(q, <<>>) /\ p1 = api_data_pagination(q, <<r>>)
            \/ p = api_data_get2(q, <<>>, FALSE) /\ p1 = api_data_get2(q, <<r>>, FALSE)
        BY <3>3 DEF api_data, api_data_get
      <4> QED
        BY <4>1, Get2Steps, PaginationSteps
    <3>4. CASE q.method \notin {"HEAD", "GET"}
      <4>1. \E code : p = Ends_with(code)
        BY <1>7, <3>4 DEF api_data, api_data_options
      <4> QED
        BY <4>1 DEF Ends_with
    <3> QED
      BY <3>1, <3>2, <3>3, <3>4
  <2> QED
    BY <2>1, <2>2 DEF EndsAtOnce, OnlyReads
<1> HIDE DEF p, p1
<1> QED
  BY <1>3, <1>4, <1>5, <1>6, <1>7

(* restconf_request: the resources *)
LEMMA RestconfSteps ==
    ASSUME NEW q, NEW r
    PROVE  LET p == FirstStep(q)
               p1 == restconf_request(q, <<r>>)
           IN  EndsAtOnce(q, p) \/ MakesEdit(q, p, p1, r) \/ OnlyReads(q, p, p1)
<1> DEFINE p == FirstStep(q)
           p1 == restconf_request(q, <<r>>)
           Goal == EndsAtOnce(q, p) \/ MakesEdit(q, p, p1, r) \/ OnlyReads(q, p, p1)
           data == /\ q.fault # "accept" /\ restconf_authentication_cb(q)
                   /\ q.res \in {"data", "top", "list"}
                   /\ q.ds # "operational" /\ q.ds \in Datastores
           rpc == q.fault # "accept" /\ restconf_authentication_cb(q) /\ q.res = "operations"
<1> SUFFICES Goal
  OBVIOUS
<1>1. CASE data
  <2>1. p = api_data(q, <<>>) /\ p1 = api_data(q, <<r>>)
    BY <1>1 DEF FirstStep, restconf_request, api_root_restconf
  <2> QED
    BY <2>1, DataSteps
<1>2. CASE rpc
  <2>1. p = api_operations(q, <<>>) /\ p1 = api_operations(q, <<r>>)
    BY <1>2 DEF FirstStep, restconf_request, api_root_restconf
  <2>2. ~Writes(q)
    BY <1>2 DEF Writes
  <2> QED
    BY <2>1, <2>2, OperationSteps DEF EndsAtOnce, OnlyReads
<1>3. CASE ~data /\ ~rpc
  <2>1. CASE q.res \in {"data", "top"}
    <3>1. \/ p = restconf_not_acceptable
          \/ p = Ends_with(api_return_err("access-denied", "unauthorized", 0))
          \/ p = restconf_notimplemented
          \/ p = api_return_err0("invalid-value")
      BY <1>3, <2>1 DEF FirstStep, restconf_request, api_root_restconf, api_operational_state
    <3>2. TurnedDown(restconf_not_acceptable) /\ TurnedDown(restconf_notimplemented)
      BY DEF restconf_not_acceptable, restconf_notimplemented, Ends_with, api_return_err, TurnedDown
    <3>3. TurnedDown(Ends_with(api_return_err("access-denied", "unauthorized", 0)))
      <4>1. restconf_err2code("access-denied") = 403
        BY DEF restconf_err2code
      <4>2. api_return_err("access-denied", "unauthorized", 0) = 401
        BY <4>1 DEF api_return_err
      <4>3. Ends_with(401).todo = "done" /\ Ends_with(401).code = 401 /\ 401 \notin 200..299
        BY DEF Ends_with
      <4> QED
        BY <4>2, <4>3 DEF TurnedDown
    <3>4. TurnedDown(p)
      BY <3>1, <3>2, <3>3, UnansweredCode
    <3> QED
      BY <3>4 DEF TurnedDown, EndsAtOnce
  <2>2. CASE q.res \notin {"data", "top"}
    <3>1. ~Writes(q)
      BY <2>2 DEF Writes
    <3>2. \A x : Ends_with(x).todo = "done" /\ api_return_err0(x).todo = "done"
      BY ErrorCodes DEF Ends_with
    <3>3. p.todo = "done"
      <4>1. CASE q.res = "file"
        <5>1. p = api_http_data(q)
          BY <4>1 DEF FirstStep, restconf_request
        <5>2. api_http_data_file(q).todo = "done"
          BY <3>2 DEF api_http_data_file, api_http_data_err, restconf_not_acceptable
        <5>3. api_http_data(q).todo = "done"
          BY <3>2, <5>2 DEF api_http_data, api_http_data_err
        <5> QED
          BY <5>1, <5>3, Zenon
      <4>2. CASE q.res = "well-known"
        BY <3>2, <4>2 DEF FirstStep, restconf_request, api_well_known, restconf_method_notallowed
      <4>3. CASE q.res \notin {"file", "well-known"}
        <5>1. p = api_root_restconf(q, <<>>)
          BY <4>3 DEF FirstStep, restconf_request
        <5>2. /\ restconf_not_acceptable.todo = "done" /\ restconf_notimplemented.todo = "done"
              /\ api_root_restconf_exact(q).todo = "done" /\ api_yang_library_version.todo = "done"
              /\ api_operational_state.todo = "done"
          BY <3>2 DEF restconf_not_acceptable, restconf_notimplemented, api_root_restconf_exact,
             restconf_method_notallowed, api_yang_library_version, api_operational_state
        <5> QED
          BY <1>3, <2>2, <3>2, <5>1, <5>2, SMTT(30) DEF api_root_restconf
      <4> QED
        BY <4>1, <4>2, <4>3
    <3> QED
      BY <3>1, <3>3 DEF EndsAtOnce
  <2> QED
    BY <2>1, <2>2
<1> HIDE DEF p, p1
<1> QED
  BY <1>1, <1>2, <1>3

(* The records of the state, and a socket that waits for nothing *)
FrontShape ==
    /\ DOMAIN srv = {"up", "gen", "running", "candidate", "startup", "locks", "crashes", "rivals"}
    /\ DOMAIN net = {"sock", "conn", "sid", "wire", "inbox", "cached", "msg", "reply"}
    /\ DOMAIN fe = {"op", "nr", "loc", "rs", "code", "over"}
    /\ DOMAIN ghost = {"applied", "changed", "disturbed", "crashed"}
    /\ net.wire = "idle" => net.inbox = "none"

(* What reply r tells of request q *)
Told(q, r) ==
    /\ FirstStep(q).rpc.auto /\ r # Failure /\ r.tag \in {"ok", "data"} => ghost.applied
    /\ ghost.changed => ghost.crashed \/ (FirstStep(q).rpc.auto /\ r.tag = "ok")

Unharmed == ghost.changed => ghost.crashed

(* The status of a request that is over *)
Verdict ==
    /\ Writes(fe.op) /\ fe.code \in 200..299 => ghost.applied
    /\ fe.code \notin 200..299 =>
         Unharmed \/ (fe.op.method = "PATCH" /\ ReadOnly(fe.op))

(* A RESTCONF request under way *)
RestconfInv ==
    /\ ~ghost.disturbed /\ ~ghost.crashed => srv.candidate = srv.running
    /\ fe.over => net.wire = "idle" /\ Verdict
    /\ ~fe.over /\ net.wire = "idle" =>
         \/ fe.rs = <<>> /\ Unharmed
         \/ /\ FirstStep(fe.op).todo = "send"
            /\ fe.rs = <<fe.rs[1]>> /\ Told(fe.op, fe.rs[1])
    /\ ~fe.over /\ net.wire # "idle" =>
         /\ FirstStep(fe.op).todo = "send" /\ fe.rs = <<>>
         /\ net.msg \in {create_hello, FirstStep(fe.op).rpc}
         /\ IF net.inbox = "reply" /\ net.wire # "hello" /\ net.msg # create_hello
            THEN Told(fe.op, net.reply)
            ELSE Unharmed

FrontInv == FrontShape /\ (fe.op.fn = "restconf" => RestconfInv)

(* The backend stays a backend *)
LEMMA ServeDomain ==
    ASSUME NEW s, NEW m, NEW who
    PROVE  DOMAIN Serve(s, m, who)[1] = DOMAIN s
<1>1. DOMAIN ServeEdit(s, m)[1] = DOMAIN s
  BY DEF ServeEdit
<1>2. DOMAIN ServeCommit(s)[1] = DOMAIN s
  BY DEF ServeCommit
<1>3. DOMAIN ServeLock(s, m, who)[1] = DOMAIN s
  BY DEF ServeLock
<1>4. \A w : DOMAIN Released(s, w) = DOMAIN s
  BY DEF Released
<1> QED
  BY <1>1, <1>2, <1>3, <1>4 DEF Serve

(* An edit that commits at once *)
LEMMA EditFields ==
    ASSUME NEW q, NEW op, NEW m, m = EditAndCommit(q, op)
    PROVE  /\ m.op = "edit-config" /\ m.db = "candidate" /\ m.auto
           /\ m.edit.op = op /\ m.edit.node = q.node
<1>1. m.op = "edit-config" /\ m.db = "candidate" /\ m.auto
  BY DEF EditAndCommit, clicon_rpc_netconf, clicon_rpc_edit_config, Rpc
<1>2. m.edit = [op |-> op, node |-> q.node]
  BY DEF EditAndCommit, clicon_rpc_netconf, clicon_rpc_edit_config, Rpc
<1> QED
  BY <1>1, <1>2

(* The other messages of a request, and the <hello> before it *)
LEMMA OtherFields ==
    /\ create_hello.op = "hello" /\ ~create_hello.auto
    /\ \A m \in Reading : m.op \in {"get", "example"} /\ ~m.auto
<1>1. create_hello.op = "hello" /\ ~create_hello.auto
  BY DEF create_hello, Rpc
<1>2. \A m \in Reading : m.op \in {"get", "example"} /\ ~m.auto
  BY DEF Reading, clicon_rpc_get_pageable_list, clixon_rpc_get1, clicon_rpc_netconf, Rpc
<1> QED
  BY <1>1, <1>2

(* What an edit of request q that commits at once makes of the backend s *)
Committed1(s, q, r) ==
    /\ r[2].tag # "data"
    /\ r[1].running # s.running => r[2].tag = "ok"
    /\ r[2].tag = "ok" =>
         IF q.method = "DELETE" THEN q.node \notin r[1].running ELSE q.node \in r[1].running
    /\ s.candidate = s.running => r[1].candidate = r[1].running

(* from_client_edit_config with autocommit: running changes only with "ok", *)
(* and has then what was asked for; and no edit is left in the candidate    *)
LEMMA ServeAuto ==
    ASSUME NEW s, DOMAIN s = {"up", "gen", "running", "candidate", "startup", "locks", "crashes", "rivals"},
           NEW q, NEW op, EditOf(q, op)
    PROVE  Committed1(s, q, Serve(s, EditAndCommit(q, op), "front"))
<1> DEFINE m == EditAndCommit(q, op)
           r == Serve(s, m, "front")
           e == Edited(s.candidate, m.edit)
           Goal == /\ r[2].tag # "data"
                   /\ r[1].running # s.running => r[2].tag = "ok"
                   /\ r[2].tag = "ok" =>
                        IF q.method = "DELETE" THEN q.node \notin r[1].running ELSE q.node \in r[1].running
                   /\ s.candidate = s.running => r[1].candidate = r[1].running
<1> SUFFICES Goal
  BY DEF Committed1
<1>1. /\ m.op = "edit-config" /\ m.db = "candidate" /\ m.auto
      /\ m.edit.op = op /\ m.edit.node = q.node
  <2>1. m = EditAndCommit(q, op)
    OBVIOUS
  <2> HIDE DEF m
  <2> QED
    BY <2>1, EditFields
<1> HIDE DEF m
<1>2. /\ e[1] \in {"ok", "data-exists", "data-missing"}
      /\ e[1] = "ok" => IF q.method = "DELETE" THEN q.node \notin e[2] ELSE q.node \in e[2]
  <2>1. CASE op = "delete"
    BY <1>1, <2>1 DEF Edited, EditOf
  <2>2. CASE op # "delete"
    BY <1>1, <2>2 DEF Edited, EditOf
  <2> QED
    BY <2>1, <2>2
<1>3. \A tag : Answer(tag).tag = tag
  BY DEF Answer
<1>4. CASE Locked(s, "candidate", "front")
  <2>1. r = <<s, Answer("lock-denied")>>
    BY <1>1, <1>4 DEF Serve
  <2>2. r[1] = s /\ r[2].tag = "lock-denied"
    BY <1>3, <2>1
  <2> QED
    BY <2>2
<1>5. CASE ~Locked(s, "candidate", "front")
  <2> HIDE DEF e
  <2>1. r = ServeEdit(s, m)
    BY <1>1, <1>5 DEF Serve
  <2>2. CASE e[1] # "ok"
    <3>1. r = <<s, Answer(e[1])>>
      BY <1>1, <2>1, <2>2 DEF ServeEdit, e
    <3>2. r[1] = s /\ r[2].tag = e[1]
      BY <1>3, <3>1
    <3> QED
      BY <1>2, <2>2, <3>2
  <2>3. CASE e[1] = "ok" /\ Commits(e[2])
    <3> DEFINE ok == [tag |-> "ok", data |-> {}, existed |-> m.edit.node \in s.candidate]
               t == [s EXCEPT !.running = e[2], !.candidate = e[2],
                              !.startup = IF m.startup THEN e[2] ELSE @]
    <3>1. r = <<t, ok>>
      BY <1>1, <2>1, <2>3 DEF ServeEdit, e
    <3>2. t.running = e[2] /\ t.candidate = e[2] /\ ok.tag = "ok"
      OBVIOUS
    <3> HIDE DEF t, ok
    <3>3. r[1].running = e[2] /\ r[1].candidate = e[2] /\ r[2].tag = "ok"
      BY <3>1, <3>2
    <3> QED
      BY <1>2, <2>3, <3>3
  <2>4. CASE e[1] = "ok" /\ ~Commits(e[2])
    <3> DEFINE t == [s EXCEPT !.candidate = s.running]
    <3>1. r = <<t, Answer("operation-failed")>>
      BY <1>1, <2>1, <2>4 DEF ServeEdit, e
    <3>2. t.running = s.running /\ t.candidate = s.running
      OBVIOUS
    <3> HIDE DEF t
    <3>3. r[1].running = s.running /\ r[1].candidate = s.running /\ r[2].tag = "operation-failed"
      BY <1>3, <3>1, <3>2
    <3> QED
      BY <3>3
  <2> QED
    BY <2>2, <2>3, <2>4
<1> QED
  BY <1>4, <1>5

(* The other messages of a request leave the backend as it is *)
LEMMA ServeOther ==
    ASSUME NEW s, NEW m, m.op \in {"get", "example", "hello"}
    PROVE  Serve(s, m, "front")[1] = s
BY DEF Serve

(* What the first message of a request is *)
LEMMA FirstMessage ==
    ASSUME NEW q, FirstStep(q).todo = "send"
    PROVE  LET m == FirstStep(q).rpc
           IN  /\ m # create_hello /\ m.op # "hello"
               /\ \/ m.auto /\ \E op : EditOf(q, op) /\ m = EditAndCommit(q, op)
                  \/ ~m.auto /\ m.op \in {"get", "example"} /\ ~Writes(q)
<1> DEFINE m == FirstStep(q).rpc
<1>1. \/ \E op \in {"create", "replace", "merge-existing", "delete"} :
            EditOf(q, op) /\ m = EditAndCommit(q, op)
      \/ m \in Reading /\ ~Writes(q)
  BY RestconfSteps DEF EndsAtOnce, MakesEdit, OnlyReads
<1> HIDE DEF m
<1>2. \/ m.auto /\ m.op = "edit-config" /\ \E op : EditOf(q, op) /\ m = EditAndCommit(q, op)
      \/ ~m.auto /\ m.op \in {"get", "example"} /\ ~Writes(q)
  <2>1. ASSUME NEW op, EditOf(q, op), m = EditAndCommit(q, op)
        PROVE  m.auto /\ m.op = "edit-config"
    BY <2>1, EditFields
  <2>2. m \in Reading => ~m.auto /\ m.op \in {"get", "example"}
    BY OtherFields
  <2> QED
    BY <1>1, <2>1, <2>2
<1>3. m.op # "hello" /\ m # create_hello
  BY <1>2, OtherFields
<1> QED
  BY <1>2, <1>3 DEF m

(* ... and what the status it ends with tells *)
LEMMA LastStep ==
    ASSUME NEW q, FirstStep(q).todo = "send", NEW r
    PROVE  LET p == restconf_request(q, <<r>>)
           IN  /\ p.todo = "done"
               /\ Writes(q) /\ p.code \in 200..299 =>
                    FirstStep(q).rpc.auto /\ r # Failure /\ r.tag \in {"ok", "data"}
               /\ FirstStep(q).rpc.auto /\ r.tag = "ok" =>
                    p.code \in 200..299 \/ (q.method = "PATCH" /\ ReadOnly(q))
<1> DEFINE p == FirstStep(q)
           p1 == restconf_request(q, <<r>>)
<1>1. MakesEdit(q, p, p1, r) \/ OnlyReads(q, p, p1)
  BY RestconfSteps DEF EndsAtOnce
<1>2. \/ p.rpc.auto
      \/ ~p.rpc.auto /\ ~Writes(q)
  BY FirstMessage
<1> HIDE DEF p, p1
<1>3. p1.todo = "done"
  BY <1>1 DEF MakesEdit, OnlyReads
<1>4. CASE MakesEdit(q, p, p1, r)
  <2>1. /\ p1.code \in 200..299 => r # Failure /\ r.tag \in {"ok", "data"}
        /\ r.tag = "ok" => p1.code \in 200..299 \/ (q.method = "PATCH" /\ ReadOnly(q))
    BY <1>4 DEF MakesEdit
  <2> QED
    BY <1>2, <1>3, <2>1 DEF p, p1
<1>5. CASE OnlyReads(q, p, p1)
  <2>1. ~Writes(q) /\ ~p.rpc.auto
    BY <1>5, OtherFields DEF OnlyReads
  <2> QED
    BY <1>3, <2>1 DEF p, p1
<1> QED
  BY <1>1, <1>4, <1>5

(* A message is sent, or there is no backend to send it to *)
LEMMA SendStep ==
    ASSUME FrontShape, NEW m, net.wire = "idle", clicon_rpc_msg(m)
    PROVE  /\ FrontShape' /\ UNCHANGED <<srv, ghost>>
           /\ fe'.op = fe.op /\ fe'.over = fe.over
           /\ \/ net'.wire = "idle" /\ fe'.rs = Append(fe.rs, Failure)
              \/ /\ net'.wire \in {"hello", "rpc"} /\ net'.msg = m /\ fe' = fe
                 /\ net'.inbox \in {"request", "eof"}
<1> DEFINE n == [net EXCEPT !.msg = m]
           fresh == m.persistent \/ net.sock = 0
<1>1. /\ DOMAIN n = DOMAIN net /\ n.msg = m /\ n.wire = "idle"
  BY DEF FrontShape
<1>2. CASE fresh /\ clixon_rpc_connect = 0
  <2>1. Return(Failure, n)
    BY <1>2 DEF clicon_rpc_msg
  <2> HIDE DEF n
  <2>2. /\ DOMAIN net' = DOMAIN net /\ net'.wire = "idle" /\ net'.inbox = "none"
    BY <1>1, <2>1 DEF Return, FrontShape
  <2>3. fe' = [fe EXCEPT !.rs = Append(fe.rs, Failure)] /\ UNCHANGED <<srv, ghost>>
    BY <2>1 DEF Return
  <2>4. /\ DOMAIN fe' = DOMAIN fe /\ fe'.op = fe.op /\ fe'.over = fe.over
        /\ fe'.rs = Append(fe.rs, Failure)
    BY <2>3 DEF FrontShape
  <2> QED
    BY <2>2, <2>3, <2>4 DEF FrontShape
<1>3. CASE ~(fresh /\ clixon_rpc_connect = 0)
  <2>1. /\ UNCHANGED <<srv, fe, ghost>>
        /\ net' = IF fresh
                  THEN [clixon_rpc_msg2(clixon_rpc_connect, "hello", n) EXCEPT !.cached = FALSE]
                  ELSE [clixon_rpc_msg2(net.sock, "rpc", n) EXCEPT !.cached = TRUE]
    BY <1>3 DEF clicon_rpc_msg
  <2> HIDE DEF n, fresh
  <2>2. ASSUME NEW sock, NEW wire, NEW cached,
               net' = [clixon_rpc_msg2(sock, wire, n) EXCEPT !.cached = cached]
        PROVE  /\ DOMAIN net' = DOMAIN net /\ net'.wire = wire /\ net'.msg = m
               /\ net'.inbox = Inbox(sock)
    BY <1>1, <2>2 DEF clixon_rpc_msg2, FrontShape
  <2>3. \A sock : Inbox(sock) \in {"request", "eof"}
    BY DEF Inbox
  <2>4. /\ DOMAIN net' = DOMAIN net /\ net'.wire \in {"hello", "rpc"} /\ net'.msg = m
        /\ net'.inbox \in {"request", "eof"}
    BY <2>1, <2>2, <2>3
  <2> QED
    BY <2>1, <2>4 DEF FrontShape
<1> QED
  BY <1>2, <1>3

(* An operation arrives *)
LEMMA BeginStep ==
    ASSUME FrontInv, Begin
    PROVE  FrontInv'
<1>1. PICK op : fe' = [fe EXCEPT !.op = op, !.rs = <<>>, !.code = 0, !.over = FALSE, !.nr = fe.nr + 1,
                        !.loc = IF op.fn = "snmp" THEN [fe.loc EXCEPT !.mode = FirstMode(op)] ELSE fe.loc]
  BY DEF Begin
<1>2. DOMAIN fe' = DOMAIN fe /\ fe'.rs = <<>> /\ fe'.over = FALSE
  BY <1>1 DEF FrontInv, FrontShape
<1>3. net.wire = "idle" /\ UNCHANGED <<srv, net>>
  BY DEF Begin
<1>4. ghost' = [Quiet EXCEPT !.disturbed = srv.candidate # srv.running]
  BY DEF Begin
<1>5. /\ DOMAIN ghost' = {"applied", "changed", "disturbed", "crashed"}
      /\ ghost'.changed = FALSE /\ ghost'.disturbed = (srv.candidate # srv.running)
  BY <1>4 DEF Quiet
<1>6. FrontShape'
  BY <1>2, <1>3, <1>5 DEF FrontInv, FrontShape
<1>7. RestconfInv'
  BY <1>2, <1>3, <1>5 DEF RestconfInv, Unharmed
<1> QED
  BY <1>6, <1>7 DEF FrontInv

(* An operation takes its next step *)
LEMMA AdvanceShape ==
    ASSUME FrontInv, Advance
    PROVE  FrontShape' /\ fe'.op = fe.op
<1> DEFINE p == StepOf(fe.op, fe.loc, fe.rs)
<1>1. /\ net.wire = "idle"
      /\ \/ p.todo = "send" /\ clicon_rpc_msg(session_id_check(p.rpc))
         \/ UNCHANGED <<srv, net, ghost>> /\ fe' = [fe EXCEPT !.loc = p.loc, !.rs = <<>>]
         \/ /\ UNCHANGED <<srv, net, ghost>>
            /\ fe' = [fe EXCEPT !.loc = p.loc, !.rs = <<>>, !.code = p.code, !.over = TRUE]
  BY DEF Advance
<1> HIDE DEF p
<1>2. CASE clicon_rpc_msg(session_id_check(p.rpc))
  BY <1>1, <1>2, SendStep DEF FrontInv
<1>3. CASE UNCHANGED <<srv, net, ghost>> /\ fe' = [fe EXCEPT !.loc = p.loc, !.rs = <<>>]
  BY <1>3 DEF FrontInv, FrontShape
<1>4. CASE /\ UNCHANGED <<srv, net, ghost>>
           /\ fe' = [fe EXCEPT !.loc = p.loc, !.rs = <<>>, !.code = p.code, !.over = TRUE]
  BY <1>4 DEF FrontInv, FrontShape
<1> QED
  BY <1>1, <1>2, <1>3, <1>4

(* restconf_request asks, or answers *)
LEMMA AdvanceStep ==
    ASSUME FrontInv, Advance, fe.op.fn = "restconf"
    PROVE  RestconfInv'
<1> DEFINE q == fe.op
           p == restconf_request(q, fe.rs)
           m == session_id_check(p.rpc)
<1>1. /\ ~fe.over /\ net.wire = "idle"
      /\ \/ p.todo = "send" /\ clicon_rpc_msg(m)
         \/ p.todo = "call"
         \/ /\ p.todo \notin {"send", "call"} /\ UNCHANGED <<srv, net, ghost>>
            /\ fe' = [fe EXCEPT !.loc = fe.loc, !.rs = <<>>, !.code = p.code, !.over = TRUE]
  <2> DEFINE sp == StepOf(fe.op, fe.loc, fe.rs)
  <2>1. sp.todo = p.todo /\ sp.rpc = p.rpc /\ sp.code = p.code /\ sp.loc = fe.loc
    BY DEF StepOf
  <2> HIDE DEF p
  <2>2. /\ ~fe.over /\ net.wire = "idle"
        /\ \/ sp.todo = "send" /\ clicon_rpc_msg(session_id_check(sp.rpc))
           \/ sp.todo = "call"
           \/ /\ sp.todo \notin {"send", "call"} /\ UNCHANGED <<srv, net, ghost>>
              /\ fe' = [fe EXCEPT !.loc = sp.loc, !.rs = <<>>, !.code = sp.code, !.over = TRUE]
    BY DEF Advance
  <2> HIDE DEF sp
  <2> QED
    BY <2>1, <2>2
<1>2. FrontShape /\ RestconfInv
  BY DEF FrontInv
<1>3. ~ghost.disturbed /\ ~ghost.crashed => srv.candidate = srv.running
  BY <1>2 DEF RestconfInv
<1>4. ASSUME p.todo = "done",
             /\ Writes(q) /\ p.code \in 200..299 => ghost.applied
             /\ p.code \notin 200..299 => Unharmed \/ (q.method = "PATCH" /\ ReadOnly(q))
      PROVE  RestconfInv'
  <2>1. /\ UNCHANGED <<srv, net, ghost>>
        /\ fe' = [fe EXCEPT !.loc = fe.loc, !.rs = <<>>, !.code = p.code, !.over = TRUE]
    BY <1>1, <1>4
  <2> HIDE DEF p
  <2>2. fe'.op = q /\ fe'.code = p.code /\ fe'.over = TRUE
    BY <1>2, <2>1 DEF FrontShape
  <2>3. Verdict'
    BY <1>4, <2>1, <2>2 DEF Verdict, Unharmed
  <2> QED
    BY <1>1, <1>3, <2>1, <2>2, <2>3 DEF RestconfInv
<1>5. CASE fe.rs = <<>> /\ Unharmed
  <2>1. p = FirstStep(q)
    BY <1>5 DEF FirstStep
  <2>2. CASE FirstStep(q).todo = "send"
    <3>1. clicon_rpc_msg(m) /\ m \in {create_hello, FirstStep(q).rpc}
      BY <1>1, <2>1, <2>2 DEF session_id_check, clicon_hello_req
    <3> HIDE DEF m, p
    <3>2. /\ UNCHANGED <<srv, ghost>> /\ fe'.op = q /\ fe'.over = fe.over
          /\ \/ net'.wire = "idle" /\ fe'.rs = Append(fe.rs, Failure)
             \/ /\ net'.wire \in {"hello", "rpc"} /\ net'.msg = m /\ fe' = fe
                /\ net'.inbox \in {"request", "eof"}
      BY <1>1, <1>2, <3>1, SendStep
    <3>3. CASE net'.wire = "idle" /\ fe'.rs = Append(fe.rs, Failure)
      <4>1. fe'.rs = <<Failure>> /\ fe'.rs[1] = Failure
        BY <1>5, <3>3
      <4>2. Told(fe.op, fe.rs[1])'
        BY <1>5, <3>2, <4>1 DEF Told, Unharmed
      <4> QED
        BY <1>1, <1>3, <2>2, <3>2, <3>3, <4>1, <4>2 DEF RestconfInv
    <3>4. CASE /\ net'.wire \in {"hello", "rpc"} /\ net'.msg = m /\ fe' = fe
               /\ net'.inbox \in {"request", "eof"}
      <4>1. Unharmed'
        BY <1>5, <3>2 DEF Unharmed
      <4> QED
        BY <1>1, <1>3, <1>5, <2>2, <3>1, <3>2, <3>4, <4>1 DEF RestconfInv
    <3> QED
      BY <3>2, <3>3, <3>4
  <2>3. CASE FirstStep(q).todo # "send"
    <3>1. EndsAtOnce(q, FirstStep(q))
      BY <2>3, RestconfSteps DEF MakesEdit, OnlyReads
    <3> HIDE DEF p
    <3> QED
      BY <1>4, <1>5, <2>1, <3>1 DEF EndsAtOnce
  <2> QED
    BY <2>2, <2>3
<1>6. CASE FirstStep(q).todo = "send" /\ fe.rs = <<fe.rs[1]>> /\ Told(q, fe.rs[1])
  <2> DEFINE r == fe.rs[1]
             p1 == restconf_request(q, <<r>>)
  <2>1. p = p1
    BY <1>6
  <2>2. /\ p1.todo = "done"
        /\ Writes(q) /\ p1.code \in 200..299 =>
             FirstStep(q).rpc.auto /\ r # Failure /\ r.tag \in {"ok", "data"}
        /\ FirstStep(q).rpc.auto /\ r.tag = "ok" =>
             p1.code \in 200..299 \/ (q.method = "PATCH" /\ ReadOnly(q))
    BY <1>6, LastStep
  <2> HIDE DEF p, p1, r
  <2>3. Writes(q) /\ p1.code \in 200..299 => ghost.applied
    BY <1>6, <2>2 DEF Told, r
  <2>4. p1.code \notin 200..299 => Unharmed \/ (q.method = "PATCH" /\ ReadOnly(q))
    BY <1>6, <2>2 DEF Told, Unharmed, r
  <2> QED
    BY <1>4, <2>1, <2>2, <2>3, <2>4
<1> QED
  BY <1>1, <1>2, <1>5, <1>6 DEF RestconfInv

(* The backend takes a request and answers it *)
LEMMA ServeStep ==
    ASSUME FrontInv, NEW late \in BOOLEAN, ServeMsg(late)
    PROVE  FrontInv'
<1> DEFINE r == Serve(srv, OnTheWire, "front")
           t == [r[1] EXCEPT !.up = FALSE, !.candidate = r[1].running,
                             !.locks = Unlocked, !.crashes = r[1].crashes + 1]
           q == fe.op
           done == OnTheWire.auto \/ OnTheWire.op = "commit"
<1>1. /\ net.inbox = "request"
      /\ srv' = IF late THEN t ELSE r[1]
      /\ net' = [net EXCEPT !.inbox = IF late THEN "eof" ELSE "reply",
                            !.reply = IF late THEN Failure ELSE r[2]]
      /\ ghost' = [ghost EXCEPT
            !.changed = ghost.changed \/ r[1].running # srv.running,
            !.applied = ghost.applied \/ (done /\ r[2].tag = "ok" /\ Intended(q, r[1].running)),
            !.crashed = ghost.crashed \/ late]
      /\ UNCHANGED fe
  BY DEF ServeMsg
<1>2. FrontShape
  BY DEF FrontInv
<1>3. DOMAIN r[1] = DOMAIN srv
  BY ServeDomain
<1> HIDE DEF r, done
<1>4. /\ DOMAIN t = DOMAIN srv /\ t.candidate = t.running
  BY <1>2, <1>3 DEF FrontShape
<1> HIDE DEF t
<1>5. /\ DOMAIN net' = DOMAIN net /\ net'.wire = net.wire /\ net'.msg = net.msg
      /\ net'.inbox = (IF late THEN "eof" ELSE "reply")
      /\ ~late => net'.reply = r[2]
  BY <1>1, <1>2 DEF FrontShape
<1>6. /\ DOMAIN ghost' = DOMAIN ghost /\ ghost'.disturbed = ghost.disturbed
      /\ ghost'.changed = (ghost.changed \/ r[1].running # srv.running)
      /\ ghost'.applied = (ghost.applied \/ (done /\ r[2].tag = "ok" /\ Intended(q, r[1].running)))
      /\ ghost'.crashed = (ghost.crashed \/ late)
  BY <1>1, <1>2 DEF FrontShape
<1>7. net.wire # "idle"
  BY <1>1, <1>2 DEF FrontShape
<1>8. FrontShape'
  BY <1>1, <1>2, <1>3, <1>4, <1>5, <1>6, <1>7 DEF FrontShape
<1>9. ASSUME q.fn = "restconf"
      PROVE  RestconfInv'
  <2> DEFINE m == FirstStep(q).rpc
  <2>1. /\ ~fe.over /\ FirstStep(q).todo = "send" /\ fe.rs = <<>>
        /\ net.msg \in {create_hello, m} /\ Unharmed
        /\ ~ghost.disturbed /\ ~ghost.crashed => srv.candidate = srv.running
    BY <1>1, <1>7, <1>9 DEF FrontInv, RestconfInv
  <2>2. /\ m # create_hello /\ m.op # "hello"
        /\ \/ m.auto /\ \E op : EditOf(q, op) /\ m = EditAndCommit(q, op)
           \/ ~m.auto /\ m.op \in {"get", "example"}
    BY <2>1, FirstMessage
  <2> HIDE DEF m
  <2>3. CASE net.wire = "hello" \/ net.msg = create_hello \/ ~m.auto
    <3>1. OnTheWire = create_hello \/ (OnTheWire = m /\ ~m.auto)
      BY <2>1, <2>3 DEF OnTheWire
    <3>2. OnTheWire.op \in {"get", "example", "hello"}
      BY <2>2, <3>1, OtherFields
    <3>3. r[1] = srv
      BY <3>2, ServeOther DEF r
    <3>4. ghost'.changed => ghost'.crashed
      BY <1>6, <2>1, <3>3 DEF Unharmed
    <3>5. ~ghost'.disturbed /\ ~ghost'.crashed => srv'.candidate = srv'.running
      BY <1>1, <1>6, <2>1, <3>3
    <3>6. CASE net.wire = "hello" \/ net.msg = create_hello
      BY <1>1, <1>5, <1>7, <2>1, <3>4, <3>5, <3>6 DEF RestconfInv, Unharmed, m
    <3>7. CASE ~m.auto
      <4>1. Told(fe.op, net.reply)' /\ Unharmed'
        BY <1>1, <3>4, <3>7 DEF Told, Unharmed, m
      <4> QED
        BY <1>1, <1>5, <1>7, <2>1, <3>5, <4>1 DEF RestconfInv, m
    <3> QED
      BY <2>3, <3>6, <3>7
  <2>4. CASE net.wire # "hello" /\ net.msg # create_hello /\ m.auto
    <3>1. OnTheWire = m
      BY <2>1, <2>4 DEF OnTheWire
    <3>2. PICK op : EditOf(q, op) /\ m = EditAndCommit(q, op)
      BY <2>2, <2>4
    <3>3. /\ r[2].tag # "data"
          /\ r[1].running # srv.running => r[2].tag = "ok"
          /\ r[2].tag = "ok" =>
               IF q.method = "DELETE" THEN q.node \notin r[1].running ELSE q.node \in r[1].running
          /\ srv.candidate = srv.running => r[1].candidate = r[1].running
      <4>1. r = Serve(srv, EditAndCommit(q, op), "front")
        BY <3>1, <3>2 DEF r
      <4>2. DOMAIN srv = {"up", "gen", "running", "candidate", "startup", "locks", "crashes", "rivals"}
        BY <1>2 DEF FrontShape
      <4>3. Committed1(srv, q, Serve(srv, EditAndCommit(q, op), "front"))
        BY <3>2, <4>2, ServeAuto
      <4> QED
        BY <4>1, <4>3 DEF Committed1
    <3>4. ~ghost'.disturbed /\ ~ghost'.crashed => srv'.candidate = srv'.running
      BY <1>1, <1>4, <1>6, <2>1, <3>3
    <3>5. r[2].tag = "ok" => Intended(q, r[1].running)
      BY <1>9, <3>3 DEF Intended
    <3>6. r[2].tag = "ok" => ghost'.applied
      BY <1>6, <2>4, <3>1, <3>5 DEF done
    <3>7. CASE late
      <4>1. Unharmed' /\ net'.inbox # "reply"
        BY <1>5, <1>6, <3>7 DEF Unharmed
      <4> QED
        BY <1>1, <1>5, <1>7, <2>1, <3>4, <4>1 DEF RestconfInv, m
    <3>8. CASE ~late
      <4>1. net'.reply = r[2] /\ (ghost'.changed => ghost'.crashed \/ r[2].tag = "ok")
        BY <1>5, <1>6, <2>1, <3>3, <3>8 DEF Unharmed
      <4>2. Told(fe.op, net.reply)'
        BY <1>1, <2>4, <3>3, <3>6, <4>1 DEF Told, m
      <4> QED
        BY <1>1, <1>5, <1>7, <2>1, <2>4, <3>4, <3>8, <4>2 DEF RestconfInv, m
    <3> QED
      BY <3>7, <3>8
  <2> QED
    BY <2>3, <2>4
<1> QED
  BY <1>1, <1>8, <1>9 DEF FrontInv

(* The reply reaches the operation *)
LEMMA ReturnStep ==
    ASSUME FrontShape, NEW r, Return(r, net)
    PROVE  /\ FrontShape' /\ UNCHANGED <<srv, ghost>>
           /\ net'.wire = "idle" /\ fe'.op = fe.op /\ fe'.over = fe.over
           /\ IF net.msg.op = "hello" /\ r # Failure THEN fe' = fe ELSE fe'.rs = Append(fe.rs, r)
<1>1. DOMAIN net' = DOMAIN net /\ net'.wire = "idle" /\ net'.inbox = "none"
  BY DEF Return, FrontShape
<1>2. /\ UNCHANGED <<srv, ghost>>
      /\ fe' = IF net.msg.op = "hello" /\ r # Failure THEN fe ELSE [fe EXCEPT !.rs = Append(fe.rs, r)]
  BY DEF Return
<1>3. /\ DOMAIN fe' = DOMAIN fe /\ fe'.op = fe.op /\ fe'.over = fe.over
      /\ IF net.msg.op = "hello" /\ r # Failure THEN fe' = fe ELSE fe'.rs = Append(fe.rs, r)
  BY <1>2 DEF FrontShape
<1> QED
  BY <1>1, <1>2, <1>3 DEF FrontShape

(* clixon_rpc_msg has read what the backend sent, or that it is gone: the   *)
(* message goes out after the hello, is sent once more, or is over          *)
LEMMA ReceiveStep ==
    ASSUME FrontInv, Receive
    PROVE  FrontInv'
<1> DEFINE q == fe.op
           m == FirstStep(q).rpc
<1>1. /\ FrontShape /\ net.wire # "idle"
      /\ \/ /\ net.inbox = "reply" /\ net.wire = "hello"
            /\ net' = clixon_rpc_msg2(net.conn, "rpc", net) /\ UNCHANGED <<srv, fe, ghost>>
         \/ net.inbox = "reply" /\ net.wire # "hello" /\ Return(net.reply, net)
         \/ /\ net.inbox = "eof"
            /\ net' = clixon_rpc_msg2(clixon_rpc_connect, "resend", net) /\ UNCHANGED <<srv, fe, ghost>>
         \/ net.inbox = "eof" /\ Return(Failure, net)
  BY DEF FrontInv, Receive
<1>2. q.fn = "restconf" =>
        /\ ~fe.over /\ FirstStep(q).todo = "send" /\ fe.rs = <<>>
        /\ net.msg \in {create_hello, m}
        /\ IF net.inbox = "reply" /\ net.wire # "hello" /\ net.msg # create_hello
           THEN Told(q, net.reply) ELSE Unharmed
        /\ ~ghost.disturbed /\ ~ghost.crashed => srv.candidate = srv.running
  BY <1>1 DEF FrontInv, RestconfInv
<1>3. ASSUME NEW sock, NEW wire \in {"rpc", "resend"}, net.inbox = "eof" \/ net.wire = "hello",
             net' = clixon_rpc_msg2(sock, wire, net), UNCHANGED <<srv, fe, ghost>>
      PROVE  FrontInv'
  <2>1. Inbox(sock) \in {"request", "eof"}
    BY DEF Inbox
  <2>2. /\ DOMAIN net' = DOMAIN net /\ net'.wire = wire /\ net'.msg = net.msg
        /\ net'.inbox \in {"request", "eof"}
    BY <1>1, <1>3, <2>1 DEF clixon_rpc_msg2, FrontShape
  <2>3. FrontShape'
    BY <1>1, <1>3, <2>2 DEF FrontShape
  <2>4. ASSUME q.fn = "restconf"
        PROVE  RestconfInv'
    <3>1. Unharmed'
      BY <1>2, <1>3, <2>4 DEF Unharmed
    <3> HIDE DEF m
    <3> QED
      BY <1>2, <1>3, <2>2, <2>4, <3>1 DEF RestconfInv, m
  <2> QED
    BY <1>3, <2>3, <2>4 DEF FrontInv
<1>4. ASSUME NEW r, Return(r, net),
             q.fn = "restconf" => IF net.msg = create_hello THEN Unharmed ELSE Told(q, r),
             r = Failure \/ r = net.reply
      PROVE  FrontInv'
  <2>1. /\ FrontShape' /\ UNCHANGED <<srv, ghost>>
        /\ net'.wire = "idle" /\ fe'.op = q /\ fe'.over = fe.over
        /\ IF net.msg.op = "hello" /\ r # Failure THEN fe' = fe ELSE fe'.rs = Append(fe.rs, r)
    BY <1>1, <1>4, ReturnStep
  <2>2. ASSUME q.fn = "restconf"
        PROVE  RestconfInv'
    <3>1. m # create_hello /\ m.op # "hello"
      BY <1>2, <2>2, FirstMessage
    <3>2. CASE net.msg = create_hello /\ r # Failure
      <4>1. fe' = fe /\ Unharmed'
        BY <1>4, <2>1, <2>2, <3>2, OtherFields DEF Unharmed
      <4> QED
        BY <1>2, <2>1, <2>2, <4>1 DEF RestconfInv
    <3>3. CASE ~(net.msg = create_hello /\ r # Failure)
      <4>1. fe'.rs = <<r>> /\ fe'.rs[1] = r
        BY <1>2, <2>1, <2>2, <3>1, <3>3
      <4>2. Told(q, r)
        <5>1. CASE net.msg # create_hello
          BY <1>4, <2>2, <5>1
        <5>2. CASE net.msg = create_hello
          BY <1>4, <2>2, <3>3, <5>2 DEF Told, Unharmed
        <5> QED
          BY <5>1, <5>2
      <4>3. Told(fe.op, fe.rs[1])'
        BY <2>1, <4>1, <4>2 DEF Told
      <4> QED
        BY <1>2, <2>1, <2>2, <4>1, <4>3 DEF RestconfInv
    <3> QED
      BY <3>2, <3>3
  <2> QED
    BY <2>1, <2>2 DEF FrontInv
<1>5. CASE net.inbox = "reply" /\ net.wire # "hello" /\ Return(net.reply, net)
  <2>1. q.fn = "restconf" => IF net.msg = create_hello THEN Unharmed ELSE Told(q, net.reply)
    BY <1>2, <1>5
  <2> QED
    BY <1>4, <1>5, <2>1
<1>6. CASE net.inbox = "eof" /\ Return(Failure, net)
  <2>1. q.fn = "restconf" => Unharmed /\ Told(q, Failure)
    BY <1>2, <1>6 DEF Told, Unharmed
  <2> QED
    BY <1>4, <1>6, <2>1
<1> QED
  BY <1>1, <1>3, <1>5, <1>6

(* The backend goes down *)
LEMMA DownStep ==
    ASSUME FrontInv, BackendDown
    PROVE  FrontInv'
<1>1. /\ FrontShape /\ UNCHANGED fe
      /\ srv' = [srv EXCEPT !.up = FALSE, !.candidate = srv.running, !.locks = Unlocked,
                            !.crashes = srv.crashes + 1]
      /\ net' = IF net.wire = "idle" THEN net ELSE [net EXCEPT !.inbox = "eof", !.reply = Failure]
      /\ ghost' = [ghost EXCEPT !.crashed = TRUE]
  BY DEF FrontInv, BackendDown
<1>2. DOMAIN srv' = DOMAIN srv
  BY <1>1
<1>3. /\ DOMAIN ghost' = DOMAIN ghost /\ ghost'.crashed
      /\ ghost'.applied = ghost.applied /\ ghost'.changed = ghost.changed
  BY <1>1 DEF FrontShape
<1>4. /\ DOMAIN net' = DOMAIN net /\ net'.wire = net.wire /\ net'.msg = net.msg
      /\ net.wire # "idle" => net'.inbox = "eof"
      /\ net.wire = "idle" => net' = net
  BY <1>1 DEF FrontShape
<1>5. FrontShape'
  BY <1>1, <1>2, <1>3, <1>4 DEF FrontShape
<1>6. ASSUME RestconfInv
      PROVE  RestconfInv'
  <2>1. Unharmed'
    BY <1>3 DEF Unharmed
  <2>2. Verdict => Verdict'
    BY <1>1, <1>3, <2>1 DEF Verdict
  <2>3. Told(fe.op, fe.rs[1]) => Told(fe.op, fe.rs[1])'
    BY <1>1, <1>3 DEF Told
  <2> QED
    BY <1>1, <1>3, <1>4, <1>6, <2>1, <2>2, <2>3 DEF RestconfInv
<1> QED
  BY <1>1, <1>5, <1>6 DEF FrontInv

(* The backend is started again *)
LEMMA UpStep ==
    ASSUME FrontInv, BackendUp
    PROVE  FrontInv'
<1>1. /\ FrontShape /\ UNCHANGED <<net, fe, ghost>>
      /\ srv' = [srv EXCEPT !.up = TRUE, !.gen = srv.gen + 1]
  BY DEF FrontInv, BackendUp
<1>2. /\ DOMAIN srv' = DOMAIN srv
      /\ srv'.candidate = srv.candidate /\ srv'.running = srv.running
  BY <1>1 DEF FrontShape
<1>3. FrontShape'
  BY <1>1, <1>2 DEF FrontShape
<1>4. RestconfInv => RestconfInv'
  BY <1>1, <1>2 DEF RestconfInv, Unharmed, Verdict, Told
<1> QED
  BY <1>1, <1>3, <1>4 DEF FrontInv

(* Another client has its request served *)
LEMMA RivalStep ==
    ASSUME FrontInv, Rival
    PROVE  FrontInv'
<1>1. PICK m \in RivalRequests :
        srv' = [Serve(srv, m, "rival")[1] EXCEPT !.rivals = Serve(srv, m, "rival")[1].rivals + 1]
  BY DEF Rival
<1>2. DOMAIN srv' = DOMAIN srv
  BY <1>1, ServeDomain
<1>3. /\ FrontShape /\ UNCHANGED <<net, fe>>
      /\ ghost' = [ghost EXCEPT !.disturbed = TRUE]
  BY DEF FrontInv, Rival
<1>4. /\ DOMAIN ghost' = DOMAIN ghost /\ ghost'.disturbed
      /\ ghost'.applied = ghost.applied /\ ghost'.changed = ghost.changed
      /\ ghost'.crashed = ghost.crashed
  BY <1>3 DEF FrontShape
<1>5. FrontShape'
  BY <1>2, <1>3, <1>4 DEF FrontShape
<1>6. RestconfInv => RestconfInv'
  BY <1>3, <1>4 DEF RestconfInv, Unharmed, Verdict, Told
<1> QED
  BY <1>3, <1>5, <1>6 DEF FrontInv

(* The invariant says what the client is told *)
LEMMA InvIsTruthful ==
    ASSUME FrontInv
    PROVE  fe.op.fn = "restconf" => StatusTruthful
<1> SUFFICES ASSUME fe.op.fn = "restconf", fe.over
             PROVE  StatusTruthful
  BY DEF StatusTruthful
<1>1. Verdict /\ (~ghost.disturbed /\ ~ghost.crashed => srv.candidate = srv.running)
  BY DEF FrontInv, RestconfInv
<1>2. /\ Writing(fe.op) => Writes(fe.op)
      /\ Succeeded = (fe.code \in 200..299)
      /\ PatchedReadOnly(fe.op) = (fe.op.method = "PATCH" /\ ReadOnly(fe.op))
  BY DEF Writing, Writes, Succeeded, PatchedReadOnly
<1> HIDE DEF Succeeded
<1> QED
  BY <1>1, <1>2 DEF StatusTruthful, Verdict, Unharmed

(* A RESTCONF client is told what became of its request, for every set of    *)
(* requests, and whatever crashes, late answers, retransmissions and other   *)
(* clients come between: a write that is answered with a 2xx status took     *)
(* effect in running, and after an error status running is as it was, unless *)
(* the answer was lost with the backend or a read-only datastore was         *)
(* patched, and no edit is left in a candidate that nobody else used         *)
(* (api_data_post, api_data_write, api_data_delete and clixon_rpc_msg).      *)
THEOREM RestconfTruthful ==
    ASSUME NEW CONSTANT configs
    PROVE  FrontSpec(configs) => [](fe.op.fn = "restconf" => StatusTruthful)
<1>1. FrontInit(configs) => FrontInv
  <2> SUFFICES ASSUME FrontInit(configs) PROVE FrontInv
    OBVIOUS
  <2>1. FrontShape
    BY DEF FrontInit, FrontShape, Rest0, Quiet
  <2>2. fe.op.fn = "none"
    BY DEF FrontInit, NoOp, Rest0
  <2> QED
    BY <2>1, <2>2 DEF FrontInv
<1>2. FrontInv /\ [FrontNext]_frontVars => FrontInv'
  <2> SUFFICES ASSUME FrontInv, [FrontNext]_frontVars
               PROVE  FrontInv'
    OBVIOUS
  <2>1. CASE UNCHANGED frontVars
    BY <2>1 DEF frontVars, FrontInv, FrontShape, RestconfInv, Unharmed, Verdict, Told
  <2>2. CASE Begin
    BY <2>2, BeginStep
  <2>3. CASE Advance
    BY <2>3, AdvanceShape, AdvanceStep DEF FrontInv
  <2>4. CASE Receive
    BY <2>4, ReceiveStep
  <2>5. ASSUME NEW late \in BOOLEAN, ServeMsg(late)
        PROVE  FrontInv'
    BY <2>5, ServeStep
  <2>6. CASE BackendDown
    BY <2>6, DownStep
  <2>7. CASE BackendUp
    BY <2>7, UpStep
  <2>8. CASE Rival
    BY <2>8, RivalStep
  <2> QED
    BY <2>1, <2>2, <2>3, <2>4, <2>5, <2>6, <2>7, <2>8 DEF FrontNext
<1>3. FrontInv => (fe.op.fn = "restconf" => StatusTruthful)
  BY InvIsTruthful
<1> QED
  BY <1>1, <1>2, <1>3, PTL DEF FrontSpec
==============================================================================
