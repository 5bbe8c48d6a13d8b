---------------------------- MODULE BackendProofs ----------------------------
(***************************************************************************)
(* What holds of Backend for every number of sessions and timers and every *)
(* set of configurations.                                                  *)
(***************************************************************************)
EXTENDS Backend, CommitProofs

(* What running may hold: after "-s init" also the empty tree, which is    *)
(* not validated.                                                          *)
Started == IF InitMode THEN Valid \union {Empty} ELSE Valid

(* load_failsafe restores running from tmp, which is why tmp must not be   *)
(* in the cache while the daemon runs.                                     *)
StoreOK ==
    /\ ds \in Datastores
    /\ RunningGood(ds, Started)
    /\ up => ds["tmp"].xml = NULL
    /\ up \in BOOLEAN

ConfirmOK ==
    /\ cc \in confirmed_commit
    /\ TimerArmed
    /\ EphemeralOwnerAlive

SessionsOK ==
    /\ clients \subseteq Sessions
    /\ nextid \in 1..(MaxSession + 1)
    /\ subs \subseteq clients
    /\ seen \in [DBs -> Nat]

(* Locks are followed by their sessions, and by the plugins, as long as no *)
(* stream removes a client behind their back.                              *)
LocksOK ==
    ~StopTimes =>
        /\ subs = {}
        /\ LockOwnersAlive
        /\ ~Autolock => PluginsKnowCandidateLock

IInv == StoreOK /\ ConfirmOK /\ SessionsOK /\ LocksOK

(* What the requests of session s make of the datastores: running and tmp  *)
(* stay as IInv needs them, no lock is given to another session, and       *)
(* without CLICON_AUTOLOCK the candidate's lock stays.                     *)
Kept(d, e, s) ==
    /\ e \in Datastores
    /\ RunningGood(e, Started)
    /\ e["tmp"].xml = d["tmp"].xml
    /\ \A b \in DBs : e[b].id \in {0, s, d[b].id}
    /\ ~Autolock => e["candidate"].id = d["candidate"].id

------------------------------------------------------------------------------
(* Lemmas on Kept *)

(* Every valid configuration is one that running may hold *)
LEMMA ValidStarted == Admits(Started)
  BY DEF Started, Admits

(* A cached running is what makes copies of it succeed *)
LEMMA RunningCached ==
    ASSUME NEW d, RunningGood(d, Started)
    PROVE  d["running"].xml # NULL
  BY DatastoreAssumption DEF RunningGood, InStep

(* A request that leaves the datastores alone keeps them *)
LEMMA KeptSame ==
    ASSUME NEW d \in Datastores, RunningGood(d, Started), NEW s
    PROVE  Kept(d, d, s)
  BY DEF Kept

(* Handlers make several calls, each of which keeps the datastores *)
LEMMA KeptTransitive ==
    ASSUME NEW d, NEW e, NEW f, NEW s, Kept(d, e, s), Kept(e, f, s)
    PROVE  Kept(d, f, s)
  BY DEF Kept

(* A call that changes neither running nor tmp and takes no lock *)
LEMMA KeptFrame ==
    ASSUME NEW d, RunningGood(d, Started),
           NEW e \in Datastores, NEW S, Frame(d, e, S), Releases(d, e),
           "running" \notin S, "tmp" \notin S, NEW s
    PROVE  Kept(d, e, s)
<1>1. RunningGood(e, Started)
  BY RunningGoodFrame
<1>2. e["tmp"] = d["tmp"]
  BY Names DEF Frame
<1> QED
  BY <1>1, <1>2 DEF Kept, Releases

(* xmldb_copy to any datastore but running and tmp *)
LEMMA KeptCopy ==
    ASSUME NEW d \in Datastores, RunningGood(d, Started), NEW s,
           NEW from \in DBs \ {"tmp"}, NEW to \in DBs \ {"tmp", "running"},
           from # to,
           NEW e, e = xmldb_copy(d, from, to)
    PROVE  Kept(d, e, s)
<1>1. /\ e \in Datastores
      /\ Frame(d, e, {from, to})
      /\ SameLocks(d, e)
      /\ d[from].xml # NULL => e[from] = d[from]
  BY Copy
<1>2. PICK S \in {{from, to}, {to}} : /\ "running" \notin S
                                      /\ "tmp" \notin S
                                      /\ Frame(d, e, S)
  <2>1. CASE from = "running"
    <3>1. e[from] = d[from]
      BY <1>1, <2>1, RunningCached
    <3>2. Frame(d, e, {to})
      BY <1>1, <3>1 DEF Frame
    <3> QED
      BY <3>2
  <2>2. CASE from # "running"
    BY <1>1, <2>2
  <2> QED
    BY <2>1, <2>2
<1> QED
  BY <1>1, <1>2, SameLocksRelease, KeptFrame

(* The dirty bit of candidate or startup is set or reset *)
LEMMA KeptModified ==
    ASSUME NEW d \in Datastores, RunningGood(d, Started), NEW s,
           NEW db \in {"candidate", "startup"}, NEW bit \in BOOLEAN,
           NEW e, e = xmldb_modified_set(d, db, bit)
    PROVE  Kept(d, e, s)
<1>1. db \in DBs
  BY DEF DBs
<1>2. e \in Datastores /\ Frame(d, e, {db}) /\ SameLocks(d, e)
  BY <1>1, ModifiedSet
<1> QED
  BY <1>2, SameLocksRelease, KeptFrame

(* The candidate's lock is taken or given back by itself *)
LEMMA KeptAutolock ==
    ASSUME NEW d \in Datastores, RunningGood(d, Started), NEW s \in Nat,
           Autolock, NEW t \in {0, s},
           NEW e, e = [d EXCEPT !["candidate"].id = t]
    PROVE  Kept(d, e, s)
<1>1. /\ e \in Datastores
      /\ Frame(d, e, {"candidate"})
      /\ e["candidate"].id = t
  <2>1. t \in Nat
    OBVIOUS
  <2> QED
    BY <2>1, Names DEF Datastores, db_elmnt, Frame
<1>2. RunningGood(e, Started)
  BY <1>1, RunningGoodFrame
<1>3. e["tmp"] = d["tmp"]
  BY <1>1, Names DEF Frame
<1>4. \A b \in DBs : e[b].id \in {0, s, d[b].id}
  BY <1>1 DEF Frame
<1> QED
  BY <1>1, <1>2, <1>3, <1>4 DEF Kept

(* candidate_commit of the candidate, for a request or an autocommit *)
LEMMA KeptCommit ==
    ASSUME NEW d \in Datastores, RunningGood(d, Started),
           NEW c \in confirmed_commit,
           NEW xe \in CommitRequest \union {Absent},
           NEW s \in Nat, NEW oc \in Outcomes,
           NEW r, r = candidate_commit(d, c, xe, "candidate", s, oc)
    PROVE  /\ Kept(d, r.ds, s)
           /\ r.cc \in confirmed_commit
           /\ CommitStep(c, r.cc, s)
           /\ xe = Absent => r.cc = c
<1>1. /\ r.ds \in Datastores
      /\ Frame(d, r.ds, {"candidate", "running", "rollback"})
      /\ Releases(d, r.ds)
      /\ r.cc \in confirmed_commit
      /\ CommitStep(c, r.cc, s)
      /\ xe = Absent => r.cc = c
      /\ RunningGood(r.ds, Started)
  <2>1. r.ds \in Datastores /\ r.cc \in confirmed_commit
    BY ValidStarted, CandidateCommit
  <2>2. Frame(d, r.ds, {"candidate", "running", "rollback"})
    BY ValidStarted, CandidateCommit
  <2>3. Releases(d, r.ds) /\ RunningGood(r.ds, Started)
    BY ValidStarted, CandidateCommit
  <2>4. CommitStep(c, r.cc, s) /\ (xe = Absent => r.cc = c)
    BY ValidStarted, CandidateCommit
  <2> QED
    BY <2>1, <2>2, <2>3, <2>4
<1>2. r.ds["tmp"] = d["tmp"]
  BY <1>1, Names DEF Frame
<1> QED
  BY <1>1, <1>2 DEF Kept, Releases

------------------------------------------------------------------------------
(* How the parts of the invariant carry over *)

(* Kept is enough for the datastores and the locks *)
LEMMA KeptStep ==
    ASSUME StoreOK, LocksOK, NEW s \in clients, Kept(ds, ds', s),
           clients' = clients, subs' = subs, up' = up,
           ~Autolock => seen'["candidate"] = seen["candidate"]
    PROVE  StoreOK' /\ LocksOK'
<1>1. StoreOK'
  BY DEF StoreOK, Kept
<1>2. LocksOK'
  BY DEF LocksOK, Kept, LockOwnersAlive, PluginsKnowCandidateLock
<1> QED
  BY <1>1, <1>2

(* Clients that come do not matter to a confirmed commit *)
LEMMA ConfirmKept ==
    ASSUME ConfirmOK, cc' = cc, clients \subseteq clients'
    PROVE  ConfirmOK'
  BY DEF ConfirmOK, TimerArmed, Active, EphemeralOwnerAlive

(* A commit starts a confirmed commit only for its own session *)
LEMMA ConfirmStep ==
    ASSUME ConfirmOK, NEW s \in clients, clients' = clients,
           cc' \in confirmed_commit, CommitStep(cc, cc', s)
    PROVE  ConfirmOK'
  BY DEF ConfirmOK, TimerArmed, Active, EphemeralOwnerAlive, CommitStep

(* Nothing is asked of a confirmed commit that is over *)
LEMMA ConfirmEnds ==
    ASSUME cc' \in confirmed_commit, cc'.state = "INACTIVE"
    PROVE  ConfirmOK'
  BY DEF ConfirmOK, TimerArmed, Active, EphemeralOwnerAlive

(* Most requests change nothing of the sessions *)
LEMMA SessionsKept ==
    ASSUME SessionsOK, UNCHANGED <<clients, nextid, subs>>,
           seen' \in [DBs -> Nat]
    PROVE  SessionsOK'
  BY DEF SessionsOK, Sessions

(* A session's id is not 0, which stands for "unlocked" *)
LEMMA SessionIds ==
    ASSUME NEW s \in Sessions
    PROVE  s \in Nat /\ s # 0
  BY BackendAssumption DEF Sessions

------------------------------------------------------------------------------
(* The end of a session *)

(* release_all_dbs releases the locks of session s and no other.  The      *)
(* candidate may be discarded, running and tmp stay.                       *)
LEMMA ReleaseAll ==
    ASSUME NEW d \in Datastores, RunningGood(d, Started), NEW s \in Nat,
           NEW e, e = release_all_dbs(d, s)
    PROVE  /\ e \in Datastores
           /\ RunningGood(e, Started)
           /\ e["tmp"].xml = d["tmp"].xml
           /\ \A b \in DBs : e[b].id = IF d[b].id = s THEN 0 ELSE d[b].id
<1> DEFINE g == Discarded(d, s)
           c == xmldb_copy(d, "running", "candidate")
<1>1. /\ g \in Datastores
      /\ RunningGood(g, Started)
      /\ g["tmp"].xml = d["tmp"].xml
      /\ SameLocks(d, g)
  <2>1. CASE Autolock /\ d["candidate"].id = s
    <3>1. g = xmldb_modified_set(c, "candidate", FALSE)
      BY <2>1 DEF Discarded
    <3>2. c \in Datastores /\ SameLocks(d, c)
      BY Names, Copy, Zenon
    <3>3. Kept(d, c, s)
      BY Names, KeptCopy
    <3> HIDE DEF c, g
    <3>4. g \in Datastores /\ SameLocks(c, g)
      BY <3>1, <3>2, Names, ModifiedSet, Zenon
    <3>5. Kept(c, g, s)
      <4>1. RunningGood(c, Started)
        BY <3>3 DEF Kept
      <4> QED
        BY <3>1, <3>2, <4>1, KeptModified, Zenon
    <3>6. RunningGood(g, Started) /\ g["tmp"].xml = d["tmp"].xml
      BY <3>3, <3>5 DEF Kept
    <3> QED
      BY <3>2, <3>4, <3>6 DEF SameLocks
  <2>2. CASE ~(Autolock /\ d["candidate"].id = s)
    BY <2>2, Zenon DEF Discarded, SameLocks
  <2> QED
    BY <2>1, <2>2
<1>2. e = [db \in DBs |-> IF g[db].id = s THEN [g[db] EXCEPT !.id = 0]
                          ELSE g[db]]
  BY DEF release_all_dbs
<1> HIDE DEF g
<1>3. \A b \in DBs : /\ e[b] \in db_elmnt
                     /\ e[b].xml = g[b].xml
                     /\ e[b].file = g[b].file
                     /\ e[b].id = IF g[b].id = s THEN 0 ELSE g[b].id
  <2> TAKE b \in DBs
  <2>1. g[b] \in db_elmnt
    BY <1>1 DEF Datastores
  <2>2. CASE g[b].id = s
    BY <1>2, <2>1, <2>2 DEF db_elmnt
  <2>3. CASE g[b].id # s
    BY <1>2, <2>1, <2>3
  <2> QED
    BY <2>2, <2>3
<1>4. e \in Datastores
  BY <1>2, <1>3 DEF Datastores
<1>5. RunningGood(e, Started)
  BY <1>1, <1>3, Names DEF RunningGood, InStep
<1>6. e["tmp"].xml = d["tmp"].xml
  BY <1>1, <1>3, Names
<1> QED
  BY <1>1, <1>3, <1>4, <1>5, <1>6 DEF SameLocks

(* backend_client_rm ends the confirmed commit of the client it removes *)
LEMMA ClientRm ==
    ASSUME NEW d \in Datastores, RunningGood(d, Started),
           d["tmp"].xml = NULL, cc \in confirmed_commit,
           NEW s, NEW oc \in Outcomes, NEW foc \in Outcomes,
           NEW r, r = backend_client_rm(d, s, oc, foc)
    PROVE  /\ r.ds \in Datastores
           /\ RunningGood(r.ds, Started)
           /\ Releases(d, r.ds)
           /\ r.cc \in confirmed_commit
           /\ r.cc.state = "INACTIVE" \/ (r.cc = cc /\ ~OwnsEphemeral(s))
           /\ r.stop \in BOOLEAN
           /\ ~r.stop => r.ds["tmp"].xml = NULL
<1>1. CASE OwnsEphemeral(s)
  <2> DEFINE c == cancel_rollback_event(cc)
  <2>1. c \in confirmed_commit
    BY CancelTimer
  <2>2. r = do_rollback(d, c, oc, foc)
    BY <1>1 DEF backend_client_rm
  <2> HIDE DEF c
  <2> QED
    BY <2>1, <2>2, ValidStarted, DoRollback
<1>2. CASE ~OwnsEphemeral(s)
  <2>1. r.ds = d /\ r.cc = cc /\ r.stop = FALSE
    BY <1>2 DEF backend_client_rm
  <2>2. SameLocks(d, d)
    BY DEF SameLocks
  <2> QED
    BY <1>2, <2>1, <2>2, SameLocksRelease, Zenon
<1> QED
  BY <1>1, <1>2

(* The outcomes of the rollback at the end of a session are outcomes *)
LEMMA OutcomeTypes ==
    /\ Failures \subseteq Outcomes
    /\ \A s : EndOutcomes(s) \subseteq Outcomes
  BY DEF Failures, Outcomes, EndOutcomes

(* The confirmed commit of a client that is removed has been rolled back *)
LEMMA ConfirmLeft ==
    ASSUME ConfirmOK, NEW s, clients' = clients \ {s},
           cc' \in confirmed_commit,
           cc'.state = "INACTIVE" \/ (cc' = cc /\ ~OwnsEphemeral(s))
    PROVE  ConfirmOK'
  BY DEF ConfirmOK, TimerArmed, Active, EphemeralOwnerAlive, OwnsEphemeral

(* A client that is removed loses its subscription as well *)
LEMMA SessionLeft ==
    ASSUME SessionsOK, NEW s, ForgetClient(s), seen' \in [DBs -> Nat]
    PROVE  SessionsOK'
  BY Zenon DEF SessionsOK, ForgetClient, Sessions

(* The lockdb callbacks tell plugins of the locks that are released *)
LEMMA NotifiedType ==
    ASSUME SessionsOK, NEW d, NEW s
    PROVE  /\ Notified(d, s) \in [DBs -> Nat]
           /\ Notified(d, s)["candidate"] =
                IF d["candidate"].id = s THEN 0 ELSE seen["candidate"]
  BY Names DEF SessionsOK, Notified

(* A client leaves after its locks are released *)
LEMMA ReleasedLeaves ==
    ASSUME IInv, up, NEW s \in clients, NEW oc \in Outcomes,
           NEW foc \in Outcomes,
           Results(backend_client_rm(release_all_dbs(ds, s), s, oc, foc)),
           seen' = Notified(ds, s), ForgetClient(s)
    PROVE  IInv'
<1> USE DEF IInv
<1> DEFINE e == release_all_dbs(ds, s)
           r == backend_client_rm(e, s, oc, foc)
<1>0. s \in Nat /\ s # 0
  BY SessionIds DEF SessionsOK
<1>1. /\ e \in Datastores
      /\ RunningGood(e, Started)
      /\ e["tmp"].xml = ds["tmp"].xml
      /\ \A b \in DBs : e[b].id = IF ds[b].id = s THEN 0 ELSE ds[b].id
  BY <1>0, ReleaseAll DEF StoreOK
<1>2. ds' = r.ds /\ cc' = r.cc /\ up' = ~r.stop
  BY DEF Results
<1> HIDE DEF e
<1>3. e["tmp"].xml = NULL
  BY <1>1 DEF StoreOK
<1>4. /\ r.ds \in Datastores
      /\ RunningGood(r.ds, Started)
      /\ Releases(e, r.ds)
      /\ r.cc \in confirmed_commit
      /\ r.cc.state = "INACTIVE" \/ (r.cc = cc /\ ~OwnsEphemeral(s))
      /\ r.stop \in BOOLEAN
      /\ ~r.stop => r.ds["tmp"].xml = NULL
  BY <1>1, <1>3, ClientRm DEF ConfirmOK
<1> HIDE DEF r
<1>5. StoreOK'
  BY <1>2, <1>4, Zenon DEF StoreOK
<1>6. ConfirmOK'
  BY <1>2, <1>4, ConfirmLeft DEF ForgetClient
<1>7. SessionsOK'
  BY NotifiedType, SessionLeft
<1>8. LocksOK'
  <2> SUFFICES ASSUME ~StopTimes
               PROVE  /\ subs' = {}
                      /\ LockOwnersAlive'
                      /\ ~Autolock => PluginsKnowCandidateLock'
    BY DEF LocksOK
  <2>1. subs' = {} /\ clients' = clients \ {s}
    BY DEF LocksOK, ForgetClient
  <2>2. \A b \in DBs : ds'[b].id \in {0, e[b].id}
    BY <1>2, <1>4 DEF Releases
  <2>3. LockOwnersAlive'
    BY <1>1, <2>1, <2>2 DEF LocksOK, LockOwnersAlive
  <2>4. ~Autolock => PluginsKnowCandidateLock'
    BY <1>1, <1>2, <1>4, NotifiedType, Names
    DEF LocksOK, PluginsKnowCandidateLock, Releases
  <2> QED
    BY <2>1, <2>3, <2>4
<1> QED
  BY <1>5, <1>6, <1>7, <1>8

(* <kill-session>: a client leaves before its locks are released *)
LEMMA KillStep ==
    ASSUME IInv, NEW s \in Sessions, NEW t \in Sessions,
           NEW oc \in Outcomes, NEW foc \in Outcomes,
           KillSession(s, t, oc, foc)
    PROVE  IInv'
<1> USE DEF IInv
<1> DEFINE r == IF t \in clients
                THEN backend_client_rm(ds, t, oc, foc)
                ELSE [ds |-> ds, cc |-> cc, ret |-> 0, stop |-> FALSE]
           e == release_all_dbs(r.ds, t)
<1>0. /\ t \in Nat /\ t # 0
      /\ ds \in Datastores
      /\ RunningGood(ds, Started)
      /\ ds["tmp"].xml = NULL
      /\ cc \in confirmed_commit
  BY SessionIds DEF KillSession, Serving, StoreOK, ConfirmOK
<1>1. /\ ds' = e
      /\ seen' = Notified(r.ds, t)
      /\ cc' = r.cc
      /\ up' = ~r.stop
      /\ ForgetClient(t)
  BY DEF KillSession, Killed
<1>2. /\ r.ds \in Datastores
      /\ RunningGood(r.ds, Started)
      /\ Releases(ds, r.ds)
      /\ r.cc \in confirmed_commit
      /\ r.cc.state = "INACTIVE" \/ (r.cc = cc /\ ~OwnsEphemeral(t))
      /\ r.stop \in BOOLEAN
      /\ ~r.stop => r.ds["tmp"].xml = NULL
  <2>1. CASE t \in clients
    <3>1. r = backend_client_rm(ds, t, oc, foc)
      BY <2>1
    <3> HIDE DEF r
    <3> QED
      BY <1>0, <3>1, ClientRm, ZenonT(40)
  <2>2. CASE t \notin clients
    <3>1. r.ds = ds /\ r.cc = cc /\ r.stop = FALSE
      BY <2>2
    <3>2. SameLocks(ds, ds)
      BY DEF SameLocks
    <3>3. ~OwnsEphemeral(t)
      BY <2>2 DEF ConfirmOK, EphemeralOwnerAlive, OwnsEphemeral
    <3> HIDE DEF r
    <3> QED
      BY <1>0, <3>1, <3>2, <3>3, SameLocksRelease, Zenon DEF StoreOK, ConfirmOK
  <2> QED
    BY <2>1, <2>2, ZenonT(40)
<1> HIDE DEF r
<1>3. /\ e \in Datastores
      /\ RunningGood(e, Started)
      /\ e["tmp"].xml = r.ds["tmp"].xml
      /\ \A b \in DBs : e[b].id = IF r.ds[b].id = t THEN 0 ELSE r.ds[b].id
  BY <1>0, <1>2, ReleaseAll
<1> HIDE DEF e
<1>5. StoreOK'
  BY <1>1, <1>2, <1>3, Zenon DEF StoreOK
<1>6. ConfirmOK'
  BY <1>1, <1>2, ConfirmLeft DEF ForgetClient
<1>7. SessionsOK'
  BY <1>1, NotifiedType, SessionLeft
<1>8. LocksOK'
  <2> SUFFICES ASSUME ~StopTimes
               PROVE  /\ subs' = {}
                      /\ LockOwnersAlive'
                      /\ ~Autolock => PluginsKnowCandidateLock'
    BY DEF LocksOK
  <2>1. subs' = {} /\ clients' = clients \ {t}
    BY <1>1 DEF LocksOK, ForgetClient
  <2>2. \A b \in DBs : r.ds[b].id \in {0, ds[b].id}
    BY <1>2 DEF Releases
  <2>3. LockOwnersAlive'
    BY <1>1, <1>3, <2>1, <2>2 DEF LocksOK, LockOwnersAlive
  <2>4. ~Autolock => PluginsKnowCandidateLock'
    BY <1>1, <1>2, <1>3, NotifiedType, Names
    DEF LocksOK, PluginsKnowCandidateLock, Releases
  <2> QED
    BY <2>1, <2>3, <2>4
<1> QED
  BY <1>5, <1>6, <1>7, <1>8

(* A stream that stops removes a client and leaves its locks *)
LEMMA StreamStopStep ==
    ASSUME IInv, NEW s \in Sessions,
           NEW oc \in Outcomes, NEW foc \in Outcomes,
           StreamStop(s, oc, foc)
    PROVE  IInv'
<1> USE DEF IInv
<1> DEFINE r == backend_client_rm(ds, s, oc, foc)
<1>1. /\ ds' = r.ds
      /\ cc' = r.cc
      /\ up' = ~r.stop
      /\ seen' = seen
      /\ ForgetClient(s)
  BY DEF StreamStop, Results
<1>0. /\ ds \in Datastores
      /\ RunningGood(ds, Started)
      /\ ds["tmp"].xml = NULL
      /\ cc \in confirmed_commit
  BY DEF StreamStop, StoreOK, ConfirmOK
<1>2. /\ r.ds \in Datastores
      /\ RunningGood(r.ds, Started)
      /\ r.cc \in confirmed_commit
      /\ r.cc.state = "INACTIVE" \/ (r.cc = cc /\ ~OwnsEphemeral(s))
      /\ r.stop \in BOOLEAN
      /\ ~r.stop => r.ds["tmp"].xml = NULL
  BY <1>0, ClientRm, SMTT(30)
<1> HIDE DEF r
<1>3. StoreOK'
  BY <1>1, <1>2, Zenon DEF StoreOK
<1>4. ConfirmOK'
  BY <1>1, <1>2, ConfirmLeft DEF ForgetClient
<1>5. SessionsOK'
  BY <1>1, SessionLeft DEF SessionsOK
<1>6. LocksOK'
  BY DEF LocksOK, StreamStop
<1> QED
  BY <1>3, <1>4, <1>5, <1>6

(* <close-session> of a client without a subscription leaves the entry *)
LEMMA CloseStep ==
    ASSUME IInv, NEW s \in Sessions,
           NEW oc \in Outcomes, NEW foc \in Outcomes,
           CloseSession(s, oc, foc)
    PROVE  IInv'
<1> USE DEF IInv
<1>0. s \in clients /\ up /\ s \in Nat /\ s # 0
  BY SessionIds DEF CloseSession, Serving
<1>1. CASE s \in subs
  BY <1>0, <1>1, ReleasedLeaves DEF CloseSession
<1>2. CASE s \notin subs
  <2>1. /\ ds' = release_all_dbs(ds, s)
        /\ seen' = Notified(ds, s)
        /\ UNCHANGED <<cc, clients, nextid, subs, up>>
    BY <1>2 DEF CloseSession
  <2>2. /\ ds' \in Datastores
        /\ RunningGood(ds', Started)
        /\ ds'["tmp"].xml = ds["tmp"].xml
        /\ \A b \in DBs : ds'[b].id = IF ds[b].id = s THEN 0 ELSE ds[b].id
    BY <1>0, <2>1, ReleaseAll DEF StoreOK
  <2>3. StoreOK'
    BY <2>1, <2>2 DEF StoreOK
  <2>4. ConfirmOK'
    BY <2>1, ConfirmKept
  <2>5. SessionsOK'
    BY <2>1, NotifiedType, SessionsKept
  <2>6. LocksOK'
    BY <2>1, <2>2, NotifiedType, Names
    DEF LocksOK, LockOwnersAlive, PluginsKnowCandidateLock
  <2> QED
    BY <2>3, <2>4, <2>5, <2>6
<1> QED
  BY <1>1, <1>2

------------------------------------------------------------------------------
(* Locks and operations on datastores *)

(* What <lock> and <unlock> do: owner t of db, and the plugins are told *)
LEMMA LockStep ==
    ASSUME IInv, NEW s \in clients, NEW db \in DBs, NEW t \in {0, s},
           ds' = [ds EXCEPT ![db].id = t],
           seen' = [seen EXCEPT ![db] = t],
           UNCHANGED <<cc, clients, nextid, subs, up>>
    PROVE  IInv'
<1> USE DEF IInv
<1>0. t \in Nat
  BY SessionIds DEF SessionsOK
<1>1. /\ ds' \in Datastores
      /\ Frame(ds, ds', {db})
      /\ ds'[db].id = t
      /\ ds'[db].xml = ds[db].xml
      /\ ds'[db].file = ds[db].file
  <2>1. ds \in Datastores
    BY DEF StoreOK
  <2> QED
    BY <1>0, <2>1 DEF Datastores, db_elmnt, Frame
<1>2. \A b \in DBs : ds'[b].xml = ds[b].xml /\ ds'[b].file = ds[b].file
  BY <1>1 DEF Frame
<1>3. StoreOK'
  BY <1>1, <1>2, Names DEF StoreOK, RunningGood, InStep
<1>4. ConfirmOK'
  BY ConfirmKept
<1>5. SessionsOK'
  <2>1. seen' \in [DBs -> Nat]
    BY <1>0 DEF SessionsOK
  <2> QED
    BY <2>1, SessionsKept
<1>6. LocksOK'
  <2>1. \A b \in DBs : ds'[b].id = IF b = db THEN t ELSE ds[b].id
    BY <1>1 DEF Frame
  <2>2. seen'["candidate"] = IF "candidate" = db THEN t ELSE seen["candidate"]
    BY Names DEF SessionsOK
  <2> QED
    BY <2>1, <2>2, Names
    DEF LocksOK, LockOwnersAlive, PluginsKnowCandidateLock
<1> QED
  BY <1>3, <1>4, <1>5, <1>6

(* A request of session s that keeps the list of clients *)
LEMMA RequestStep ==
    ASSUME IInv, NEW s \in clients, Kept(ds, ds', s), ConfirmOK',
           seen' \in [DBs -> Nat],
           ~Autolock => seen'["candidate"] = seen["candidate"],
           UNCHANGED <<clients, nextid, subs, up>>
    PROVE  IInv'
<1>1. StoreOK' /\ LocksOK'
  BY KeptStep DEF IInv
<1>2. SessionsOK'
  BY SessionsKept DEF IInv
<1> QED
  BY <1>1, <1>2 DEF IInv

(* CLICON_AUTOLOCK takes the candidate for the session that edits *)
LEMMA KeptAutolocked ==
    ASSUME IInv, NEW s \in clients
    PROVE  Kept(ds, Autolocked(s), s)
<1>0. s \in Nat
  BY SessionIds DEF IInv, SessionsOK
<1>1. ds \in Datastores /\ RunningGood(ds, Started)
  BY DEF IInv, StoreOK
<1>2. CASE TakesLock
  <2>1. Autolock /\ Autolocked(s) = [ds EXCEPT !["candidate"].id = s]
    BY <1>2 DEF TakesLock, Autolocked, xmldb_lock
  <2> QED
    BY <1>0, <1>1, <2>1, KeptAutolock, Zenon
<1>3. CASE ~TakesLock
  BY <1>1, <1>3, KeptSame DEF Autolocked
<1> QED
  BY <1>2, <1>3

(* An edit, put or refused half-way, changes the candidate only *)
LEMMA KeptEdited ==
    ASSUME NEW d \in Datastores, RunningGood(d, Started), NEW s,
           NEW edit \in Edits, NEW new \in Configs,
           NEW e, e = Edited(d, edit, new)
    PROVE  Kept(d, e, s)
<1>1. d["running"].xml # NULL
  BY RunningCached
<1>2. ASSUME NEW done \in BOOLEAN,
             NEW p, p = xmldb_put(d, "candidate", new, done)
      PROVE  Kept(d, p, s)
  <2>1. /\ p \in Datastores
        /\ Frame(d, p, {"candidate"})
        /\ SameLocks(d, p)
    BY <1>1, <1>2, PutCandidate
  <2> QED
    BY <2>1, SameLocksRelease, KeptFrame
<1>3. CASE edit = "refused"
  BY <1>3, KeptSame DEF Edited
<1>4. CASE edit = "partial"
  BY <1>2, <1>4, Zenon DEF Edited
<1>5. CASE edit = "put"
  <2> DEFINE p == xmldb_put(d, "candidate", new, TRUE)
  <2>1. e = xmldb_modified_set(p, "candidate", TRUE)
    BY <1>5 DEF Edited
  <2>2. Kept(d, p, s)
    BY <1>2, Zenon
  <2> HIDE DEF p
  <2>3. Kept(p, e, s)
    <3>1. p \in Datastores /\ RunningGood(p, Started)
      BY <2>2 DEF Kept
    <3> QED
      BY <2>1, <3>1, KeptModified, Zenon
  <2> QED
    BY <2>2, <2>3, KeptTransitive
<1> QED
  BY <1>3, <1>4, <1>5 DEF Edits

(* An autocommit leaves the confirmed commit alone or ends it *)
LEMMA KeptAutocommitted ==
    ASSUME NEW d \in Datastores, RunningGood(d, Started),
           cc \in confirmed_commit, NEW s \in Nat, NEW oc \in Outcomes,
           NEW r, r = Autocommitted(d, s, oc)
    PROVE  /\ Kept(d, r.ds, s)
           /\ r.cc \in confirmed_commit
           /\ r.cc = cc \/ r.cc.state = "INACTIVE"
<1>1. CASE cc.state = "PERSISTENT"
  <2>1. r.ds = d /\ r.cc = cc
    BY <1>1 DEF Autocommitted
  <2> QED
    BY <2>1, KeptSame
<1>2. CASE cc.state # "PERSISTENT"
  <2> DEFINE p == IF cc.state = "INACTIVE" THEN [ds |-> d, cc |-> cc]
                  ELSE cancel_confirmed_commit(d, cc)
             k == candidate_commit(p.ds, p.cc, Absent, "candidate", s, oc)
  <2>1. r = IF k.ret = 1 THEN k
            ELSE [k EXCEPT !.ds = xmldb_copy(@, "running", "candidate")]
    BY <1>2 DEF Autocommitted
  <2>2. /\ Kept(d, p.ds, s)
        /\ p.cc \in confirmed_commit
        /\ p.cc = cc \/ p.cc.state = "INACTIVE"
    <3>1. CASE cc.state = "INACTIVE"
      <4>1. p.ds = d /\ p.cc = cc
        BY <3>1
      <4> HIDE DEF p
      <4> QED
        BY <4>1, KeptSame
    <3>2. CASE cc.state # "INACTIVE"
      <4>1. p = cancel_confirmed_commit(d, cc)
        BY <3>2
      <4> HIDE DEF p
      <4>2. /\ p.ds \in Datastores
            /\ Frame(d, p.ds, {"rollback"})
            /\ Releases(d, p.ds)
            /\ p.cc \in confirmed_commit
            /\ p.cc.state = "INACTIVE"
        BY <4>1, CancelConfirmed
      <4>3. Kept(d, p.ds, s)
        BY <4>2, KeptFrame
      <4> QED
        BY <4>2, <4>3
    <3> QED
      BY <3>1, <3>2
  <2> HIDE DEF p
  <2>3. Kept(p.ds, k.ds, s) /\ k.cc = p.cc
    <3> DEFINE w == p.ds
               c == p.cc
    <3>1. /\ w \in Datastores
          /\ RunningGood(w, Started)
          /\ c \in confirmed_commit
      BY <2>2 DEF Kept
    <3>2. k = candidate_commit(w, c, Absent, "candidate", s, oc)
      OBVIOUS
    <3> HIDE DEF w, c, k
    <3>3. Absent \in CommitRequest \union {Absent}
      OBVIOUS
    <3>4. Kept(w, k.ds, s)
      BY <3>1, <3>2, <3>3, KeptCommit, Zenon
    <3>5. k.cc = c
      BY <3>1, <3>2, <3>3, KeptCommit
    <3> QED
      BY <3>4, <3>5 DEF w, c
  <2>4. k = [ds |-> k.ds, cc |-> k.cc, ret |-> k.ret]
    BY Zenon DEF candidate_commit, Transacted
  <2> HIDE DEF k
  <2>5. Kept(d, k.ds, s)
    BY <2>2, <2>3, KeptTransitive
  <2>6. CASE k.ret = 1
    BY <2>1, <2>2, <2>3, <2>5, <2>6
  <2>7. CASE k.ret # 1
    <3> DEFINE w == k.ds
               u == r.ds
    <3>1. u = xmldb_copy(w, "running", "candidate") /\ r.cc = k.cc
      BY <2>1, <2>4, <2>7
    <3>2. Kept(d, w, s)
      BY <2>5
    <3> HIDE DEF u, w
    <3>3. Kept(w, u, s)
      <4>1. w \in Datastores /\ RunningGood(w, Started)
        BY <3>2 DEF Kept
      <4> QED
        BY <3>1, <4>1, Names, KeptCopy
    <3>4. Kept(d, u, s)
      BY <3>2, <3>3, KeptTransitive
    <3> QED
      BY <2>2, <2>3, <3>1, <3>4 DEF u
  <2> QED
    BY <2>6, <2>7
<1> QED
  BY <1>1, <1>2

(* <edit-config> *)
LEMMA EditStep ==
    ASSUME IInv, NEW s \in Sessions, NEW new \in Configs, NEW edit \in Edits,
           NEW auto \in BOOLEAN, NEW cpstart \in BOOLEAN,
           NEW oc \in Outcomes,
           EditConfig(s, new, edit, auto, cpstart, oc)
    PROVE  IInv'
<1> DEFINE a == Autolocked(s)
           d == Edited(a, edit, new)
           r == IF edit = "put" /\ auto THEN Autocommitted(d, s, oc)
                ELSE [ds |-> d, cc |-> cc, ret |-> 1]
           cp == edit = "put" /\ cpstart
           w == r.ds
           u == IF cp /\ r.ret = 1 THEN xmldb_copy(w, "running", "startup")
                ELSE w
<1>0. s \in clients /\ s \in Nat
  BY SessionIds, SMTT(30) DEF EditConfig, Serving
<1>1. EditEnds(s, u) /\ cc' = r.cc /\ UNCHANGED <<clients, nextid, subs, up>>
  BY DEF EditConfig, EditResult
<1>2. Kept(ds, a, s)
  BY <1>0, KeptAutolocked
<1> HIDE DEF a
<1>3. Kept(ds, d, s)
  <2>1. a \in Datastores /\ RunningGood(a, Started)
    BY <1>2 DEF Kept
  <2>2. Kept(a, d, s)
    BY <2>1, KeptEdited
  <2> QED
    BY <1>2, <2>2, KeptTransitive, SMTT(30)
<1> HIDE DEF d
<1>4. /\ Kept(ds, w, s)
      /\ r.cc \in confirmed_commit
      /\ r.cc = cc \/ r.cc.state = "INACTIVE"
  <2>1. cc \in confirmed_commit
    BY DEF IInv, ConfirmOK
  <2>2. CASE edit = "put" /\ auto
    <3>1. r = Autocommitted(d, s, oc)
      BY <2>2
    <3>2. d \in Datastores /\ RunningGood(d, Started)
      BY <1>3 DEF Kept
    <3> HIDE DEF r
    <3>3. /\ Kept(d, r.ds, s)
          /\ r.cc \in confirmed_commit
          /\ r.cc = cc \/ r.cc.state = "INACTIVE"
      BY <1>0, <2>1, <3>1, <3>2, KeptAutocommitted
    <3> QED
      BY <1>3, <3>3, KeptTransitive
  <2>3. CASE ~(edit = "put" /\ auto)
    BY <1>3, <2>1, <2>3
  <2> QED
    BY <2>2, <2>3
<1> HIDE DEF w, r
<1>5. Kept(ds, u, s)
  <2>1. CASE cp /\ r.ret = 1
    <3>1. u = xmldb_copy(w, "running", "startup")
      BY <2>1
    <3>2. w \in Datastores /\ RunningGood(w, Started)
      BY <1>4 DEF Kept
    <3> HIDE DEF u
    <3>3. Kept(w, u, s)
      BY <3>1, <3>2, Names, KeptCopy
    <3> QED
      BY <1>4, <3>3, KeptTransitive
  <2>2. CASE ~(cp /\ r.ret = 1)
    BY <1>4, <2>2
  <2> QED
    BY <2>1, <2>2
<1> HIDE DEF u
<1>6. Kept(ds, ds', s)
  <2>1. CASE EditUnwinds(u, s)
    <3>1. Autolock /\ ds' = [u EXCEPT !["candidate"].id = 0]
      BY <1>1, <2>1 DEF EditUnwinds, EditEnds, xmldb_unlock
    <3>2. u \in Datastores /\ RunningGood(u, Started)
      BY <1>5 DEF Kept
    <3>3. Kept(u, ds', s)
      BY <1>0, <3>1, <3>2, KeptAutolock, Zenon
    <3> QED
      BY <1>5, <3>3, KeptTransitive
  <2>2. CASE ~EditUnwinds(u, s)
    BY <1>1, <1>5, <2>2 DEF EditEnds
  <2> QED
    BY <2>1, <2>2
<1>7. /\ seen' \in [DBs -> Nat]
      /\ ~Autolock => seen'["candidate"] = seen["candidate"]
  <2>1. seen \in [DBs -> Nat]
    BY DEF IInv, SessionsOK
  <2>2. seen' = [seen EXCEPT !["candidate"] =
                    IF EditUnwinds(u, s) THEN 0
                    ELSE IF TakesLock THEN s ELSE seen["candidate"]]
    BY <1>1, <2>1 DEF EditEnds
  <2>3. ~Autolock => ~EditUnwinds(u, s) /\ ~TakesLock
    BY SMTT(30) DEF EditUnwinds, TakesLock
  <2> QED
    BY <1>0, <2>1, <2>2, <2>3, Names
<1>8. ConfirmOK'
  <2>1. CASE r.cc = cc
    BY <1>1, <2>1, ConfirmKept DEF IInv
  <2>2. CASE r.cc.state = "INACTIVE"
    BY <1>1, <1>4, <2>2, ConfirmEnds
  <2> QED
    BY <1>4, <2>1, <2>2
<1> QED
  BY <1>0, <1>1, <1>6, <1>7, <1>8, RequestStep

(* The datastores that requests name *)
LEMMA NetconfNames ==
    NetconfDBs \subseteq {"running", "candidate", "startup"}
  BY DEF NetconfDBs

(* <copy-config> *)
LEMMA CopyStep ==
    ASSUME IInv, NEW s \in Sessions,
           NEW from \in NetconfDBs, NEW to \in NetconfDBs,
           CopyConfig(s, from, to)
    PROVE  IInv'
<1> DEFINE a == IF to = "candidate" THEN Autolocked(s) ELSE ds
           c == xmldb_copy(a, from, to)
<1>0. /\ s \in clients
      /\ s \in Nat
      /\ from \in DBs \ {"tmp"}
      /\ to \in {"candidate", "startup"}
      /\ to \in DBs \ {"tmp", "running"}
      /\ from # to
  <2>1. s \in clients /\ to # "running" /\ from # to
    BY DEF CopyConfig, Serving
  <2> QED
    BY <2>1, SessionIds, NetconfNames, Names
<1>1. /\ ds' = IF to = "candidate" /\ CopyOK(ds, from)
               THEN xmldb_modified_set(c, to, TRUE)
               ELSE c
      /\ seen' = [seen EXCEPT ![to] = IF to = "candidate" /\ TakesLock THEN s
                                      ELSE @]
      /\ UNCHANGED <<cc, clients, nextid, subs, up>>
  BY DEF CopyConfig
<1>2. Kept(ds, a, s)
  <2>1. CASE to = "candidate"
    BY <1>0, <2>1, KeptAutolocked
  <2>2. CASE to # "candidate"
    BY <2>2, KeptSame DEF IInv, StoreOK
  <2> QED
    BY <2>1, <2>2
<1> HIDE DEF a
<1>3. Kept(ds, c, s)
  <2>1. a \in Datastores /\ RunningGood(a, Started)
    BY <1>2 DEF Kept
  <2>2. Kept(a, c, s)
    BY <1>0, <2>1, KeptCopy
  <2> QED
    BY <1>2, <2>2, KeptTransitive
<1> HIDE DEF c
<1>4. Kept(ds, ds', s)
  <2>1. CASE to = "candidate" /\ CopyOK(ds, from)
    <3>1. ds' = xmldb_modified_set(c, to, TRUE)
      BY <1>1, <2>1
    <3>2. c \in Datastores /\ RunningGood(c, Started)
      BY <1>3 DEF Kept
    <3>3. Kept(c, ds', s)
      BY <1>0, <3>1, <3>2, KeptModified, Zenon
    <3> QED
      BY <1>3, <3>3, KeptTransitive
  <2>2. CASE ~(to = "candidate" /\ CopyOK(ds, from))
    BY <1>1, <1>3, <2>2, Zenon
  <2> QED
    BY <2>1, <2>2
<1>5. /\ seen' \in [DBs -> Nat]
      /\ ~Autolock => seen'["candidate"] = seen["candidate"]
  <2>1. seen \in [DBs -> Nat]
    BY DEF IInv, SessionsOK
  <2> QED
    BY <1>0, <1>1, <2>1, Names DEF TakesLock
<1>6. ConfirmOK'
  BY <1>1, ConfirmKept DEF IInv
<1> QED
  BY <1>0, <1>1, <1>4, <1>5, <1>6, RequestStep, Zenon

(* A request that changes nothing but datastores *)
LEMMA StoreStep ==
    ASSUME IInv, NEW s \in clients, Kept(ds, ds', s),
           UNCHANGED <<cc, clients, nextid, subs, seen, up>>
    PROVE  IInv'
<1>1. ConfirmOK'
  BY ConfirmKept DEF IInv
<1>2. seen' \in [DBs -> Nat] /\ seen'["candidate"] = seen["candidate"]
  BY DEF IInv, SessionsOK
<1> QED
  BY <1>1, <1>2, RequestStep

(* <delete-config> *)
LEMMA DeleteStep ==
    ASSUME IInv, NEW s \in Sessions, DeleteConfig(s)
    PROVE  IInv'
<1> DEFINE x == xmldb_delete(ds, "startup")
           y == xmldb_create(x, "startup")
<1>0. s \in clients /\ ds \in Datastores /\ RunningGood(ds, Started)
  BY DEF DeleteConfig, Serving, IInv, StoreOK
<1>1. /\ ds' = xmldb_modified_set(y, "startup", TRUE)
      /\ UNCHANGED <<cc, clients, nextid, subs, seen, up>>
  BY DEF DeleteConfig
<1>2. x \in Datastores /\ Frame(ds, x, {"startup"}) /\ Releases(ds, x)
  BY <1>0, Names, Delete
<1>3. Kept(ds, x, s)
  BY <1>0, <1>2, KeptFrame
<1> HIDE DEF x
<1>4. y \in Datastores /\ Frame(x, y, {"startup"}) /\ SameLocks(x, y)
  BY <1>2, Names, Create
<1> HIDE DEF y
<1>5. RunningGood(x, Started)
  BY <1>3 DEF Kept
<1>6. Kept(x, y, s)
  BY <1>4, <1>5, SameLocksRelease, KeptFrame
<1>7. RunningGood(y, Started)
  BY <1>6 DEF Kept
<1>8. Kept(y, ds', s)
  BY <1>1, <1>4, <1>7, KeptModified, Zenon
<1>9. Kept(ds, ds', s)
  BY <1>3, <1>6, <1>8, KeptTransitive
<1> QED
  BY <1>0, <1>1, <1>9, StoreStep, Zenon

(* <discard-changes> *)
LEMMA DiscardStep ==
    ASSUME IInv, NEW s \in Sessions, DiscardChanges(s)
    PROVE  IInv'
<1> DEFINE x == xmldb_copy(ds, "running", "candidate")
           y == xmldb_modified_set(x, "candidate", FALSE)
<1>0. /\ s \in clients
      /\ s \in Nat
      /\ ds \in Datastores
      /\ RunningGood(ds, Started)
  BY SessionIds DEF DiscardChanges, Serving, IInv, StoreOK
<1>1. /\ ds' = IF Autolock THEN xmldb_unlock(y, "candidate") ELSE y
      /\ UNCHANGED <<cc, clients, nextid, subs, seen, up>>
  BY DEF DiscardChanges
<1>2. Kept(ds, x, s)
  BY <1>0, Names, KeptCopy
<1> HIDE DEF x
<1>3. x \in Datastores /\ RunningGood(x, Started)
  BY <1>2 DEF Kept
<1>4. Kept(x, y, s)
  BY <1>3, KeptModified, Zenon
<1> HIDE DEF y
<1>5. y \in Datastores /\ RunningGood(y, Started)
  BY <1>4 DEF Kept
<1>6. Kept(y, ds', s)
  <2>1. CASE Autolock
    <3>1. ds' = [y EXCEPT !["candidate"].id = 0]
      BY <1>1, <2>1 DEF xmldb_unlock
    <3> QED
      BY <1>0, <1>5, <2>1, <3>1, KeptAutolock, Zenon
  <2>2. CASE ~Autolock
    BY <1>1, <1>5, <2>2, KeptSame
  <2> QED
    BY <2>1, <2>2
<1>7. Kept(ds, ds', s)
  BY <1>2, <1>4, <1>6, KeptTransitive
<1> QED
  BY <1>0, <1>1, <1>7, StoreStep

(* <validate>, which may load and write running itself *)
LEMMA ValidateStep ==
    ASSUME IInv, NEW s \in Sessions, NEW db \in NetconfDBs, Validate(s, db)
    PROVE  IInv'
<1> DEFINE v == validate_common(ds, db, "ok")
<1>0. /\ s \in clients
      /\ ds \in Datastores
      /\ RunningGood(ds, Started)
      /\ db \in DBs
      /\ db # "tmp"
      /\ "ok" \in Outcomes
  BY NetconfNames, Names DEF Validate, Serving, IInv, StoreOK, Outcomes
<1>1. ds' = v.ds /\ UNCHANGED <<cc, clients, nextid, subs, seen, up>>
  BY DEF Validate
<1>2. /\ v.ds \in Datastores
      /\ Frame(ds, v.ds, {db, "running"})
      /\ SameLocks(ds, v.ds)
      /\ RunningGood(v.ds, Started)
  BY <1>0, ValidStarted, ValidateCommon, Zenon
<1> HIDE DEF v
<1>3. v.ds["tmp"] = ds["tmp"]
  BY <1>0, <1>2, Names, SMTT(30) DEF Frame
<1>4. Kept(ds, ds', s)
  BY <1>1, <1>2, <1>3, Names DEF Kept, SameLocks
<1> QED
  BY <1>0, <1>1, <1>4, StoreStep

------------------------------------------------------------------------------
(* Commit and confirmed commit *)

(* <commit> that confirms *)
LEMMA ConfirmingStep ==
    ASSUME IInv, NEW s \in Sessions, NEW xe \in CommitRequest,
           ConfirmingCommit(s, xe)
    PROVE  IInv'
<1> DEFINE r == cancel_confirmed_commit(ds, cc)
<1>0. /\ s \in clients
      /\ ds \in Datastores
      /\ RunningGood(ds, Started)
      /\ cc \in confirmed_commit
  BY DEF ConfirmingCommit, Serving, IInv, StoreOK, ConfirmOK
<1>1. /\ ds' = r.ds
      /\ cc' = r.cc
      /\ UNCHANGED <<clients, nextid, subs, seen, up>>
  BY DEF ConfirmingCommit
<1>2. /\ r.ds \in Datastores
      /\ Frame(ds, r.ds, {"rollback"})
      /\ Releases(ds, r.ds)
      /\ r.cc \in confirmed_commit
      /\ r.cc.state = "INACTIVE"
  BY <1>0, CancelConfirmed, SMTT(30)
<1> HIDE DEF r
<1>3. Kept(ds, ds', s)
  BY <1>0, <1>1, <1>2, KeptFrame, SMTT(30)
<1>4. ConfirmOK'
  BY <1>1, <1>2, ConfirmEnds
<1>5. seen' \in [DBs -> Nat] /\ seen'["candidate"] = seen["candidate"]
  BY <1>1 DEF IInv, SessionsOK
<1> QED
  BY <1>0, <1>1, <1>3, <1>4, <1>5, RequestStep

(* <commit> that commits *)
LEMMA CommitActionStep ==
    ASSUME IInv, NEW s \in Sessions, NEW xe \in CommitRequest,
           NEW oc \in Outcomes, Commit(s, xe, oc)
    PROVE  IInv'
<1> DEFINE r == candidate_commit(ds, cc, xe, "candidate", s, oc)
<1>0. /\ s \in clients
      /\ s \in Nat
      /\ ds \in Datastores
      /\ RunningGood(ds, Started)
      /\ cc \in confirmed_commit
  BY SessionIds, SMTT(30) DEF Commit, Serving, IInv, StoreOK, ConfirmOK
<1>1. /\ ds' = IF r.ret = 1 /\ Autolock THEN xmldb_unlock(r.ds, "candidate")
               ELSE r.ds
      /\ cc' = r.cc
      /\ UNCHANGED <<clients, nextid, subs, seen, up>>
  BY DEF Commit, CommitResult
<1>2. /\ Kept(ds, r.ds, s)
      /\ r.cc \in confirmed_commit
      /\ CommitStep(cc, r.cc, s)
  BY <1>0, KeptCommit
<1> HIDE DEF r
<1>3. Kept(ds, ds', s)
  <2>1. CASE r.ret = 1 /\ Autolock
    <3> DEFINE w == r.ds
    <3>4. ds' = xmldb_unlock(w, "candidate")
      BY <1>1, <2>1
    <3>1. ds' = [w EXCEPT !["candidate"].id = 0]
      BY <3>4, SMTT(30) DEF xmldb_unlock
    <3>2. w \in Datastores /\ RunningGood(w, Started) /\ Kept(ds, w, s)
      BY <1>2 DEF Kept
    <3> HIDE DEF w
    <3>3. Kept(w, ds', s)
      BY <1>0, <2>1, <3>1, <3>2, KeptAutolock, Zenon
    <3> QED
      BY <3>2, <3>3, KeptTransitive
  <2>2. CASE ~(r.ret = 1 /\ Autolock)
    BY <1>1, <1>2, <2>2
  <2> QED
    BY <2>1, <2>2
<1>4. ConfirmOK'
  BY <1>0, <1>1, <1>2, ConfirmStep DEF IInv
<1>5. seen' \in [DBs -> Nat] /\ seen'["candidate"] = seen["candidate"]
  BY <1>1 DEF IInv, SessionsOK
<1> QED
  BY <1>0, <1>1, <1>3, <1>4, <1>5, RequestStep

(* A rollback, asked for or timed out *)
LEMMA RollbackStep ==
    ASSUME IInv, up, NEW oc \in Outcomes, NEW foc \in Outcomes,
           NEW r, r = do_rollback(ds, cancel_rollback_event(cc), oc, foc),
           ds' = r.ds, cc' = r.cc,
           up' = ~r.stop \/ up' = (r.ret = 0),
           UNCHANGED <<clients, nextid, subs, seen>>
    PROVE  IInv'
<1> DEFINE c == cancel_rollback_event(cc)
<1>0. /\ ds \in Datastores
      /\ RunningGood(ds, Started)
      /\ ds["tmp"].xml = NULL
      /\ c \in confirmed_commit
  BY CancelTimer DEF IInv, StoreOK, ConfirmOK
<1>1. r = do_rollback(ds, c, oc, foc)
  BY SMTT(30)
<1> HIDE DEF c
<1>2. /\ r.ds \in Datastores
      /\ Releases(ds, r.ds)
      /\ r.cc \in confirmed_commit
      /\ r.cc.state = "INACTIVE"
      /\ r.stop \in BOOLEAN
      /\ RunningGood(r.ds, Started)
      /\ ~r.stop \/ r.ret = 0 => r.ds["tmp"].xml = NULL
  BY <1>0, <1>1, ValidStarted, DoRollback, SMT
<1>3. StoreOK'
  <2>1. up' \in BOOLEAN
    BY <1>2, Zenon
  <2>2. up' => ds'["tmp"].xml = NULL
    BY <1>2, ZenonT(40)
  <2> QED
    BY <1>2, <2>1, <2>2 DEF StoreOK
<1>4. ConfirmOK'
  BY <1>2, ConfirmEnds
<1>5. SessionsOK'
  <2>1. SessionsOK /\ seen' \in [DBs -> Nat]
    BY SMTT(30) DEF IInv, SessionsOK
  <2> QED
    BY <2>1, SessionsKept
<1>6. LocksOK'
  BY <1>2
  DEF IInv, LocksOK, LockOwnersAlive, PluginsKnowCandidateLock, Releases
<1> QED
  BY <1>3, <1>4, <1>5, <1>6 DEF IInv

(* A client connects *)
LEMMA AcceptStep ==
    ASSUME IInv, Accept
    PROVE  IInv'
<1> USE DEF IInv, Accept
<1>1. StoreOK'
  BY DEF StoreOK
<1>2. ConfirmOK'
  BY ConfirmKept
<1>3. SessionsOK'
  BY BackendAssumption DEF SessionsOK, Sessions
<1>4. LocksOK'
  BY DEF LocksOK, LockOwnersAlive, PluginsKnowCandidateLock
<1> QED
  BY <1>1, <1>2, <1>3, <1>4

(* <create-subscription> with a stop time *)
LEMMA SubscribeStep ==
    ASSUME IInv, NEW s \in Sessions, CreateSubscription(s)
    PROVE  IInv'
<1> USE DEF IInv, CreateSubscription
<1>1. StoreOK'
  BY DEF StoreOK
<1>2. ConfirmOK'
  BY ConfirmKept
<1>3. SessionsOK'
  BY DEF SessionsOK, Sessions, Serving
<1>4. LocksOK'
  BY DEF LocksOK
<1> QED
  BY <1>1, <1>2, <1>3, <1>4

(* Requests that are refused *)
LEMMA StutterStep ==
    ASSUME IInv, UNCHANGED vars
    PROVE  IInv'
<1> USE DEF IInv, vars
<1>1. StoreOK'
  BY DEF StoreOK
<1>2. ConfirmOK'
  BY ConfirmKept
<1>3. SessionsOK'
  BY DEF SessionsOK, Sessions
<1>4. LocksOK'
  BY DEF LocksOK, LockOwnersAlive, PluginsKnowCandidateLock
<1> QED
  BY <1>1, <1>2, <1>3, <1>4

------------------------------------------------------------------------------
(* The induction *)

(* The invariant holds after startup *)
LEMMA InitIInv == Init => IInv
<1> SUFFICES ASSUME Init PROVE IInv
  OBVIOUS
<1>1. PICK r \in IF InitMode THEN {Empty} ELSE Valid :
        ds = [db \in DBs |->
                 [xml |-> IF db \in {"running", "candidate"} THEN r ELSE NULL,
                  file |-> CASE db \in {"running", "candidate"} ->
                                  IF InitMode THEN ZeroFile ELSE r
                             [] db = "startup" -> StartupFile
                             [] db = "failsafe" -> FailsafeFile
                             [] db \in {"rollback", "tmp"} -> ScratchFile,
                  id |-> 0,
                  modified |-> FALSE]]
  BY Zenon DEF Init
<1>2. r \in Configs /\ r \in Started
  BY DatastoreAssumption, CommitAssumption DEF Started
<1>3. \A db \in DBs : ds[db] \in db_elmnt /\ ds[db].id = 0
  <2> TAKE db \in DBs
  <2>1. ds[db].xml \in Configs \union {NULL}
    BY <1>1, <1>2
  <2>2. ds[db].file \in Configs \union {NoFile, ZeroFile}
    <3>1. CASE db \in {"running", "candidate"}
      BY <1>1, <1>2, <3>1
    <3>2. CASE db = "startup"
      BY <1>1, <3>2, BackendAssumption
    <3>3. CASE db = "failsafe"
      BY <1>1, <3>3, BackendAssumption
    <3>4. CASE db \in {"rollback", "tmp"}
      BY <1>1, <3>4, BackendAssumption
    <3> QED
      BY <3>1, <3>2, <3>3, <3>4 DEF DBs
  <2>3. PICK x \in Configs \union {NULL},
              f \in Configs \union {NoFile, ZeroFile} :
           ds[db] = [xml |-> x, file |-> f, id |-> 0, modified |-> FALSE]
    BY <1>1, <2>1, <2>2, Zenon
  <2> QED
    BY <2>1, <2>2, <2>3 DEF db_elmnt
<1>4. ds \in Datastores
  BY <1>1, <1>3, Zenon DEF Datastores
<1>5. RunningGood(ds, Started)
  <2>1. ds["running"].xml = r
    BY <1>1, Names
  <2>2. ds["running"].file = IF InitMode THEN ZeroFile ELSE r
    BY <1>1, Names
  <2>3. InitMode => r = Empty
    BY <1>1
  <2> QED
    BY <1>2, <2>1, <2>2, <2>3, DatastoreAssumption
    DEF RunningGood, InStep, FileTree
<1>6. StoreOK
  <2>1. ds["tmp"].xml = NULL
    BY <1>1, Names
  <2> QED
    BY <1>4, <1>5, <2>1, Zenon DEF StoreOK, Init
<1>7. ConfirmOK
  BY DEF Init, ConfirmOK, confirmed_commit, TimerArmed, Active,
         EphemeralOwnerAlive
<1>8. SessionsOK
  BY BackendAssumption DEF Init, SessionsOK, Sessions
<1>9. LocksOK
  BY <1>3, Names, SMTT(30)
  DEF Init, LocksOK, LockOwnersAlive, PluginsKnowCandidateLock
<1> QED
  BY <1>6, <1>7, <1>8, <1>9 DEF IInv

(* Every request preserves the invariant, one step per handler *)
LEMMA RequestIInv ==
    ASSUME IInv, NEW s \in Sessions, Request(s)
    PROVE  IInv'
<1>1. ASSUME NEW db \in NetconfDBs, Lock(s, db) PROVE IInv'
  <2>1. db \in DBs /\ s \in clients
    BY <1>1, NetconfNames, Names DEF Lock, Serving
  <2> QED
    BY <1>1, <2>1, LockStep, ZenonT(40) DEF Lock, xmldb_lock
<1>2. ASSUME NEW db \in NetconfDBs, Unlock(s, db) PROVE IInv'
  <2>1. db \in DBs /\ s \in clients
    BY <1>2, NetconfNames, Names DEF Unlock, Serving
  <2> QED
    BY <1>2, <2>1, LockStep, Zenon DEF Unlock, xmldb_unlock
<1>3. ASSUME NEW r \in EditRequests,
             EditConfig(s, r.new, r.edit, r.auto, r.cpstart, r.oc)
      PROVE  IInv'
  <2>1. /\ r.new \in Configs
        /\ r.edit \in Edits
        /\ r.auto \in BOOLEAN
        /\ r.oc \in Outcomes
    BY <1>3, OutcomeTypes DEF EditRequests
  <2>2. r.cpstart \in BOOLEAN
    BY <1>3, BackendAssumption, Zenon DEF EditRequests
  <2> QED
    BY <1>3, <2>1, <2>2, EditStep
<1>4. ASSUME NEW from \in NetconfDBs, NEW to \in NetconfDBs,
             CopyConfig(s, from, to)
      PROVE  IInv'
  BY <1>4, CopyStep
<1>5. ASSUME NEW db \in NetconfDBs, Validate(s, db) PROVE IInv'
  BY <1>5, ValidateStep
<1>6. ASSUME NEW xe \in Commits, ConfirmingCommit(s, xe) PROVE IInv'
  BY <1>6, ConfirmingStep DEF Commits
<1>7. ASSUME NEW xe \in Commits, NEW oc \in Outcomes, Commit(s, xe, oc)
      PROVE  IInv'
  BY <1>7, CommitActionStep DEF Commits
<1>8. ASSUME NEW p \in PersistIds \union {NoId, Absent},
             NEW oc \in Failures, NEW foc \in Failures,
             CancelCommit(s, p, oc, foc)
      PROVE  IInv'
  <2>1. up /\ oc \in Outcomes /\ foc \in Outcomes
    BY <1>8, OutcomeTypes DEF CancelCommit, Serving
  <2> QED
    BY <1>8, <2>1, RollbackStep DEF CancelCommit, Results
<1>9. ASSUME NEW oc \in EndOutcomes(s), NEW foc \in EndOutcomes(s),
             CloseSession(s, oc, foc)
      PROVE  IInv'
  BY <1>9, OutcomeTypes, CloseStep
<1>10. ASSUME NEW t \in Sessions, NEW oc \in EndOutcomes(t),
              NEW foc \in EndOutcomes(t), KillSession(s, t, oc, foc)
       PROVE  IInv'
  BY <1>10, OutcomeTypes, KillStep
<1> QED
  BY <1>1, <1>2, <1>3, <1>4, <1>5, <1>6, <1>7, <1>8, <1>9, <1>10,
     DeleteStep, DiscardStep, SubscribeStep
  DEF Request

(* Every event preserves the invariant *)
LEMMA NextIInv == IInv /\ [Next]_vars => IInv'
<1> SUFFICES ASSUME IInv, [Next]_vars PROVE IInv'
  OBVIOUS
<1>1. ASSUME NEW s \in Sessions, SessionEnds(s) PROVE IInv'
  <2>1. PICK oc \in EndOutcomes(s), foc \in EndOutcomes(s) :
           Disconnect(s, oc, foc) \/ StreamStop(s, oc, foc)
    BY <1>1 DEF SessionEnds
  <2>2. oc \in Outcomes /\ foc \in Outcomes
    BY OutcomeTypes
  <2>3. CASE Disconnect(s, oc, foc)
    BY <2>2, <2>3, ReleasedLeaves DEF Disconnect, Serving
  <2>4. CASE StreamStop(s, oc, foc)
    BY <2>2, <2>4, StreamStopStep
  <2> QED
    BY <2>1, <2>3, <2>4
<1>2. ASSUME Timeout PROVE IInv'
  <2>1. PICK oc \in Failures, foc \in Failures : RollbackTimeout(oc, foc)
    BY <1>2 DEF Timeout
  <2>2. oc \in Outcomes /\ foc \in Outcomes
    BY OutcomeTypes
  <2> QED
    BY <2>1, <2>2, RollbackStep DEF RollbackTimeout, TimedOut
<1> QED
  BY <1>1, <1>2, AcceptStep, RequestIInv, StutterStep DEF Next

(* The invariant holds in all behaviours *)
LEMMA Invariance == Spec => []IInv
  BY InitIInv, NextIInv, PTL DEF Spec

------------------------------------------------------------------------------

(* The variables keep their types, whatever the requests and callbacks *)
THEOREM BackendTypes == Spec => []TypeOK
<1>1. IInv => TypeOK
  BY DEF IInv, StoreOK, ConfirmOK, SessionsOK, TypeOK
<1> QED
  BY <1>1, Invariance, PTL

(* No lock outlives its session if no subscription has a stop time:        *)
(* Disconnect, <close-session> and <kill-session> all reach                *)
(* release_all_dbs before or after the client is removed.                  *)
THEOREM LocksReleased ==
    ASSUME ~StopTimes
    PROVE  Spec => []LockOwnersAlive
<1>1. IInv => LockOwnersAlive
  BY DEF IInv, LocksOK
<1> QED
  BY <1>1, Invariance, PTL

(* No ephemeral confirmed commit outlives its session: backend_client_rm   *)
(* is on every path that removes a client.                                 *)
THEOREM EphemeralRolledBack == Spec => []EphemeralOwnerAlive
<1>1. IInv => EphemeralOwnerAlive
  BY DEF IInv, ConfirmOK
<1> QED
  BY <1>1, Invariance, PTL

(* An unconfirmed configuration always has a rollback timer, for every     *)
(* number of timers that extended confirmed commits have left behind.      *)
THEOREM UnconfirmedHasTimer == Spec => []TimerArmed
<1>1. IInv => TimerArmed
  BY DEF IInv, ConfirmOK
<1> QED
  BY <1>1, Invariance, PTL

(* Running is a validated configuration and its file reads as the same,    *)
(* through commits, rollbacks, and failsafe loads that fail.  The empty    *)
(* tree of "-s init" is not validated by the code, hence the assumption.   *)
THEOREM RunningStaysValid ==
    ASSUME InitMode => Empty \in Valid
    PROVE  Spec => []RunningValid
<1>1. Started = Valid
  BY DEF Started
<1>2. IInv => RunningValid
  BY <1>1 DEF IInv, StoreOK, RunningGood, InStep, RunningValid
<1> QED
  BY <1>2, Invariance, PTL

(* Without CLICON_AUTOLOCK the plugins that follow the lockdb callback     *)
(* know who holds the candidate.                                           *)
THEOREM PluginsFollowLock ==
    ASSUME ~StopTimes, ~Autolock
    PROVE  Spec => []PluginsKnowCandidateLock
<1>1. IInv => PluginsKnowCandidateLock
  BY DEF IInv, LocksOK
<1> QED
  BY <1>1, Invariance, PTL
==============================================================================
