------------------------------- MODULE Backend -------------------------------
(***************************************************************************)
(* The backend daemon: client sessions, datastore locks, the NETCONF       *)
(* operations that change datastores, and confirmed commit with its        *)
(* rollback timer (apps/backend/backend_client.c, backend_commit.c,        *)
(* backend_confirm.c).                                                     *)
(*                                                                         *)
(* The daemon runs one event loop.  A request handler, a disconnect or a   *)
(* timer callback runs to completion before the next event, so each is one *)
(* action; what varies is the order of the events of the sessions and the  *)
(* timers.  A request that is refused without touching any state is a      *)
(* stuttering step and is not written down.                                *)
(***************************************************************************)
EXTENDS Commit

CONSTANTS InitMode,     \* the daemon was started with "-s init"
          StartupFile,  \* startup datastore on disk when the daemon starts
          FailsafeFile, \* failsafe datastore on disk
          ScratchFile,  \* rollback and tmp on disk: none, or made empty when
                        \* the daemon drops privileges
          MaxSession,   \* bound: session ids handed out
          MaxTimers,    \* bound: rollback timers registered at one time
          Autolock,     \* CLICON_AUTOLOCK
          StartupStore, \* YANG feature ietf-netconf:startup
          StopTimes,    \* clients use <create-subscription> with <stopTime>
          Disciplined   \* clients commit during a confirmed commit only to
                        \* confirm or extend it, and edit without autocommit

ASSUME BackendAssumption ==
    /\ InitMode \in BOOLEAN
    /\ StartupFile \in Configs \union {NoFile}
    /\ FailsafeFile \in Configs \union {NoFile}
    /\ ScratchFile \in {NoFile, ZeroFile}
    /\ MaxSession \in Nat
    /\ MaxTimers \in Nat
    /\ Autolock \in BOOLEAN
    /\ StartupStore \in BOOLEAN
    /\ StopTimes \in BOOLEAN
    /\ Disciplined \in BOOLEAN

VARIABLES
    ds,        \* the datastores
    cc,        \* confirmed commit: state and registered rollback timers
    clients,   \* ids in the list of client entries
    nextid,    \* session id of the next client
    subs,      \* clients with a subscription that has a stop time
    seen,      \* per datastore, the lock owner plugins were last told of
    up         \* the event loop runs

vars == <<ds, cc, clients, nextid, subs, seen, up>>

Sessions == 1..MaxSession

(* Datastores a request may name as source or lock target *)
NetconfDBs == {"running", "candidate"} \union
              (IF StartupStore THEN {"startup"} ELSE {})

TypeOK ==
    /\ ds \in Datastores
    /\ cc \in confirmed_commit
    /\ clients \subseteq Sessions
    /\ nextid \in 1..(MaxSession + 1)
    /\ subs \subseteq clients
    /\ seen \in [DBs -> Nat]
    /\ up \in BOOLEAN

(* After startup: the candidate is a copy of running, there is no          *)
(* confirmed commit and no session.  Running was committed at startup, or  *)
(* is an empty file after "-s init".                                       *)
Init ==
    /\ \E r \in IF InitMode THEN {Empty} ELSE Valid :
         ds = [db \in DBs |->
                 [xml |-> IF db \in {"running", "candidate"} THEN r ELSE NULL,
                  file |-> CASE db \in {"running", "candidate"} ->
                                  IF InitMode THEN ZeroFile ELSE r
                             [] db = "startup" -> StartupFile
                             [] db = "failsafe" -> FailsafeFile
                             [] db \in {"rollback", "tmp"} -> ScratchFile,
                  id |-> 0,
                  modified |-> FALSE]]
    /\ cc = [state |-> "INACTIVE", persist_id |-> NoId, session_id |-> 0,
             timers |-> 0]
    /\ clients = {}
    /\ nextid = 1
    /\ subs = {}
    /\ seen = [db \in DBs |-> 0]
    /\ up = TRUE

(* The event loop dispatches a message of session s *)
Serving(s) == up /\ s \in clients

(* Mutant: locks are not looked at *)
FreeFor_always(db, s) == s \in clients

FreeFor(db, s) == ds[db].id \in {0, s}

------------------------------------------------------------------------------
(* Sessions *)

(* backend_accept_client and backend_client_add *)
Accept ==
    /\ up
    /\ nextid \in Sessions
    /\ clients' = clients \union {nextid}
    /\ nextid' = nextid + 1
    /\ UNCHANGED <<ds, cc, subs, seen, up>>

(* release_all_dbs: with CLICON_AUTOLOCK the edits of the lock's owner are *)
(* discarded, then every lock of the session is released.                  *)
Discarded(d, s) ==
    IF Autolock /\ d["candidate"].id = s
    THEN xmldb_modified_set(xmldb_copy(d, "running", "candidate"),
                            "candidate", FALSE)
    ELSE d

(* Mutant: no lock but the candidate's is released *)
release_all_dbs_candidate(d, s) ==
    [Discarded(d, s) EXCEPT !["candidate"].id = IF @ = s THEN 0 ELSE @]

release_all_dbs(d, s) ==
    LET e == Discarded(d, s)
    IN  [db \in DBs |-> IF e[db].id = s THEN [e[db] EXCEPT !.id = 0]
                        ELSE e[db]]

(* Mutant: plugins are not told *)
Notified_not(d, s) == seen

(* the lockdb callbacks release_all_dbs makes *)
Notified(d, s) ==
    [db \in DBs |-> IF d[db].id = s THEN 0 ELSE seen[db]]

(* backend_client_rm: the ephemeral confirmed commit of the client is      *)
(* rolled back, errors are ignored; the client's entry is removed.         *)
OwnsEphemeral(s) == cc.state = "EPHEMERAL" /\ cc.session_id = s

(* Mutant: the confirmed commit is left alone *)
backend_client_rm_no_rollback(d, s, oc, foc) ==
    [ds |-> d, cc |-> cc, ret |-> 0, stop |-> FALSE]

backend_client_rm(d, s, oc, foc) ==
    IF OwnsEphemeral(s)
    THEN do_rollback(d, cancel_rollback_event(cc), oc, foc)
    ELSE [ds |-> d, cc |-> cc, ret |-> 0, stop |-> FALSE]

ForgetClient(s) ==
    /\ clients' = clients \ {s}
    /\ subs' = subs \ {s}
    /\ UNCHANGED nextid

(* raise(SIGINT) in do_rollback ends the loop.  Sockets that were polled   *)
(* in the same round may still be read once; that is not modelled.         *)
Results(r) ==
    /\ ds' = r.ds
    /\ cc' = r.cc
    /\ up' = ~r.stop

(* from_client at end-of-file *)
Disconnect(s, oc, foc) ==
    /\ Serving(s)
    /\ Results(backend_client_rm(release_all_dbs(ds, s), s, oc, foc))
    /\ seen' = Notified(ds, s)
    /\ ForgetClient(s)

(* <close-session>: locks are released at once, the socket closes later.   *)
(* Deleting a subscription removes the client inside the handler.          *)
CloseSession(s, oc, foc) ==
    /\ Serving(s)
    /\ seen' = Notified(ds, s)
    /\ IF s \in subs
       THEN /\ Results(backend_client_rm(release_all_dbs(ds, s), s, oc, foc))
            /\ ForgetClient(s)
       ELSE /\ ds' = release_all_dbs(ds, s)
            /\ UNCHANGED <<cc, clients, nextid, subs, up>>

(* <kill-session> of session t, which may be gone already.  The client is  *)
(* removed first, its locks are released afterwards.                       *)
Killed(t, r) ==
    /\ ds' = release_all_dbs(r.ds, t)
    /\ seen' = Notified(r.ds, t)
    /\ cc' = r.cc
    /\ up' = ~r.stop

KillSession(s, t, oc, foc) ==
    /\ Serving(s)
    /\ t # s
    /\ Killed(t, IF t \in clients
                 THEN backend_client_rm(ds, t, oc, foc)
                 ELSE [ds |-> ds, cc |-> cc, ret |-> 0, stop |-> FALSE])
    /\ ForgetClient(t)

(* <create-subscription> with a stop time *)
CreateSubscription(s) ==
    /\ StopTimes
    /\ Serving(s)
    /\ s \notin subs
    /\ subs' = subs \union {s}
    /\ UNCHANGED <<ds, cc, clients, nextid, seen, up>>

(* stream_timer_setup finds the stop time passed: stream_ss_rm calls       *)
(* ce_event_cb, which removes the client and does not release its locks.   *)
StreamStop(s, oc, foc) ==
    /\ up
    /\ s \in subs
    /\ Results(backend_client_rm(ds, s, oc, foc))
    /\ UNCHANGED seen
    /\ ForgetClient(s)

------------------------------------------------------------------------------
(* Locks *)

(* do_lock, on a datastore that is not locked *)
LockAllowed(db) ==
    /\ ~(db = "candidate" /\ xmldb_exists(ds, db) /\ ds[db].modified)
    /\ ~(db = "running" /\ cc.state # "INACTIVE" /\ cc.session_id # 0)

Lock(s, db) ==
    /\ Serving(s)
    /\ ds[db].id = 0
    /\ LockAllowed(db)
    /\ ds' = xmldb_lock(ds, db, s)
    /\ seen' = [seen EXCEPT ![db] = s]
    /\ UNCHANGED <<cc, clients, nextid, subs, up>>

Unlock(s, db) ==
    /\ Serving(s)
    /\ ds[db].id = s
    /\ ds' = xmldb_unlock(ds, db)
    /\ seen' = [seen EXCEPT ![db] = 0]
    /\ UNCHANGED <<cc, clients, nextid, subs, up>>

(* With CLICON_AUTOLOCK an edit takes the candidate's lock *)
TakesLock == Autolock /\ ds["candidate"].id = 0

MayWriteCandidate(s) ==
    /\ FreeFor("candidate", s)
    /\ TakesLock => LockAllowed("candidate")

Autolocked(s) == IF TakesLock THEN xmldb_lock(ds, "candidate", s) ELSE ds

------------------------------------------------------------------------------
(* Operations on datastores *)

(* The candidate after the edit of an <edit-config>: a request refused     *)
(* before xmldb_put ("refused"), by xmldb_put ("partial"), or put.         *)
Edits == {"refused", "partial", "put"}

Edited(d, edit, new) ==
    CASE edit = "refused" -> d
      [] edit = "partial" -> xmldb_put(d, "candidate", new, FALSE)
      [] edit = "put" ->
           xmldb_modified_set(xmldb_put(d, "candidate", new, TRUE),
                              "candidate", TRUE)

(* Autocommit of the candidate: an ephemeral confirmed commit is concluded *)
(* first, a persistent one refuses the commit; running is copied back to   *)
(* the candidate when the commit fails.                                    *)
Autocommitted(d, s, oc) ==
    IF cc.state = "PERSISTENT" THEN [ds |-> d, cc |-> cc, ret |-> 0]
    ELSE LET p == IF cc.state = "INACTIVE" THEN [ds |-> d, cc |-> cc]
                  ELSE cancel_confirmed_commit(d, cc)
             CopiedBack(r) ==
               IF r.ret = 1 THEN r
               ELSE [r EXCEPT !.ds = xmldb_copy(@, "running", "candidate")]
         IN  CopiedBack(candidate_commit(p.ds, p.cc, Absent, "candidate", s, oc))

(* The end of <edit-config>: the copystartup attribute (cpstart), and an   *)
(* autolock is given back unless the candidate is dirty.                   *)
EditUnwinds(d, s) ==
    Autolock /\ d["candidate"].id = s /\ ~d["candidate"].modified

EditEnds(s, d) ==
    /\ ds' = IF EditUnwinds(d, s) THEN xmldb_unlock(d, "candidate") ELSE d
    /\ seen' = [seen EXCEPT !["candidate"] =
                   IF EditUnwinds(d, s) THEN 0 ELSE IF TakesLock THEN s ELSE @]

EditResult(s, r, cpstart) ==
    /\ EditEnds(s, IF cpstart /\ r.ret = 1
                   THEN xmldb_copy(r.ds, "running", "startup")
                   ELSE r.ds)
    /\ cc' = r.cc

(* <edit-config> of the candidate.  auto: autocommit is asked for or       *)
(* configured.                                                             *)
EditConfig(s, new, edit, auto, cpstart, oc) ==
    /\ Serving(s)
    /\ MayWriteCandidate(s)
    /\ Disciplined /\ auto => cc.state = "INACTIVE"
    /\ LET d == Edited(Autolocked(s), edit, new)
       IN  EditResult(s,
                      IF edit = "put" /\ auto
                      THEN Autocommitted(d, s, oc)
                      ELSE [ds |-> d, cc |-> cc, ret |-> 1],
                      edit = "put" /\ cpstart)
    /\ UNCHANGED <<clients, nextid, subs, up>>

(* <copy-config>.  A failing copy is reported after the autolock is taken, *)
(* and leaves the dirty bit alone.                                         *)
CopyConfig(s, from, to) ==
    /\ Serving(s)
    /\ to # "running"
    /\ from # to
    /\ IF to = "candidate" THEN MayWriteCandidate(s) ELSE FreeFor(to, s)
    /\ LET d1 == xmldb_copy(IF to = "candidate" THEN Autolocked(s) ELSE ds,
                            from, to)
       IN  ds' = IF to = "candidate" /\ CopyOK(ds, from)
                 THEN xmldb_modified_set(d1, to, TRUE)
                 ELSE d1
    /\ seen' = [seen EXCEPT ![to] = IF to = "candidate" /\ TakesLock THEN s
                                    ELSE @]
    /\ UNCHANGED <<cc, clients, nextid, subs, up>>

(* Mutant: the lock is not looked at *)
DeleteConfig_unlocked(s) ==
    /\ Serving(s)
    /\ StartupStore
    /\ ds' = xmldb_modified_set(
                xmldb_create(xmldb_delete(ds, "startup"), "startup"),
                "startup", TRUE)
    /\ UNCHANGED <<cc, clients, nextid, subs, seen, up>>

(* <delete-config>; the YANG model admits only the startup datastore *)
DeleteConfig(s) ==
    /\ Serving(s)
    /\ StartupStore
    /\ FreeFor("startup", s)
    /\ ds' = xmldb_modified_set(
                xmldb_create(xmldb_delete(ds, "startup"), "startup"),
                "startup", TRUE)
    /\ UNCHANGED <<cc, clients, nextid, subs, seen, up>>

(* Mutant: the lock is not looked at *)
DiscardChanges_unlocked(s) ==
    /\ Serving(s)
    /\ ds' = xmldb_modified_set(xmldb_copy(ds, "running", "candidate"),
                                "candidate", FALSE)
    /\ UNCHANGED <<cc, clients, nextid, subs, seen, up>>

(* <discard-changes>: the autolock is given back, without a callback *)
DiscardChanges(s) ==
    /\ Serving(s)
    /\ FreeFor("candidate", s)
    /\ LET d1 == xmldb_modified_set(xmldb_copy(ds, "running", "candidate"),
                                    "candidate", FALSE)
       IN  ds' = IF Autolock THEN xmldb_unlock(d1, "candidate") ELSE d1
    /\ UNCHANGED <<cc, clients, nextid, subs, seen, up>>

(* <validate>: the cache is written to file, nothing else is kept *)
Validate(s, db) ==
    /\ Serving(s)
    /\ ds' = validate_common(ds, db, "ok").ds
    /\ UNCHANGED <<cc, clients, nextid, subs, seen, up>>

------------------------------------------------------------------------------
(* Commit and confirmed commit *)

(* First phase of <commit>: a valid confirming commit without <confirmed/> *)
(* ends the confirmed commit.  Nothing is committed and no lock is looked  *)
(* at.                                                                     *)
ConfirmingCommit(s, xe) ==
    /\ Serving(s)
    /\ ~xe.confirmed
    /\ check_valid_confirming_commit(cc, xe, s)
    /\ LET r == cancel_confirmed_commit(ds, cc)
       IN  ds' = r.ds /\ cc' = r.cc
    /\ UNCHANGED <<clients, nextid, subs, seen, up>>

(* Mutant: the autolock is given back whatever becomes of the commit *)
Commit_unlocks(s, xe, oc) ==
    /\ Serving(s)
    /\ xe.confirmed \/ ~check_valid_confirming_commit(cc, xe, s)
    /\ FreeFor("candidate", s)
    /\ FreeFor("running", s)
    /\ LET r == candidate_commit(ds, cc, xe, "candidate", s, oc)
       IN  /\ r.cc.timers <= MaxTimers
           /\ ds' = IF Autolock THEN xmldb_unlock(r.ds, "candidate") ELSE r.ds
           /\ cc' = r.cc
    /\ UNCHANGED <<clients, nextid, subs, seen, up>>

(* The end of <commit> gives the autolock back, without a callback *)
CommitResult(r) ==
    /\ r.cc.timers <= MaxTimers
    /\ ds' = IF r.ret = 1 /\ Autolock THEN xmldb_unlock(r.ds, "candidate")
             ELSE r.ds
    /\ cc' = r.cc

(* Any other <commit> *)
Commit(s, xe, oc) ==
    /\ Serving(s)
    /\ xe.confirmed \/ ~check_valid_confirming_commit(cc, xe, s)
    /\ Disciplined => \/ cc.state = "INACTIVE"
                      \/ check_valid_confirming_commit(cc, xe, s)
    /\ FreeFor("candidate", s)
    /\ FreeFor("running", s)
    /\ CommitResult(candidate_commit(ds, cc, xe, "candidate", s, oc))
    /\ UNCHANGED <<clients, nextid, subs, seen, up>>

(* <cancel-commit> with or without a persist-id *)
CancelCommit(s, persist_id, oc, foc) ==
    /\ Serving(s)
    /\ \/ /\ cc.state = "EPHEMERAL"
          /\ persist_id = Absent
          /\ cc.session_id = s
       \/ /\ cc.state = "PERSISTENT"
          /\ persist_id = cc.persist_id
    /\ Results(do_rollback(ds, cancel_rollback_event(cc), oc, foc))
    /\ UNCHANGED <<clients, nextid, subs, seen>>

(* rollback_fn: the event loop has taken the timer off its list.  An error *)
(* returned from a timer callback ends the event loop.                     *)
TimedOut(r) ==
    /\ ds' = r.ds
    /\ cc' = r.cc
    /\ up' = (r.ret = 0)

RollbackTimeout(oc, foc) ==
    /\ up
    /\ cc.timers > 0
    /\ TimedOut(do_rollback(ds, cancel_rollback_event(cc), oc, foc))
    /\ UNCHANGED <<clients, nextid, subs, seen>>

------------------------------------------------------------------------------

(* <persist> is looked at with <confirmed/> only, <persist-id> only while  *)
(* a persistent confirmed commit is in progress.                           *)
Commits ==
    {xe \in CommitRequest :
        /\ ~xe.confirmed => xe.persist = Absent
        /\ cc.state # "PERSISTENT" => xe.persist_id = Absent}

(* Of an edit that is not put the attributes are not looked at, of one     *)
(* that is refused not even the content; without autocommit no plugin is   *)
(* called.                                                                 *)
EditRequests ==
    {r \in [new: Configs, edit: Edits, auto: BOOLEAN,
            cpstart: {StartupStore, FALSE}, oc: Failures] :
        /\ r.edit # "put" => ~r.auto /\ ~r.cpstart
        /\ r.edit = "refused" => r.new = Empty
        /\ ~r.auto => r.oc = "ok"}

(* The end of session s calls plugins only if it causes a rollback *)
EndOutcomes(s) == IF OwnsEphemeral(s) THEN Failures ELSE {"ok"}

Request(s) ==
    \/ \E db \in NetconfDBs : Lock(s, db) \/ Unlock(s, db)
    \/ \E r \in EditRequests :
         EditConfig(s, r.new, r.edit, r.auto, r.cpstart, r.oc)
    \/ \E from, to \in NetconfDBs : CopyConfig(s, from, to)
    \/ DeleteConfig(s)
    \/ DiscardChanges(s)
    \/ \E db \in NetconfDBs : Validate(s, db)
    \/ \E xe \in Commits : ConfirmingCommit(s, xe)
    \/ \E xe \in Commits, oc \in Outcomes : Commit(s, xe, oc)
    \/ \E p \in PersistIds \union {NoId, Absent}, oc, foc \in Failures :
         CancelCommit(s, p, oc, foc)
    \/ \E oc, foc \in EndOutcomes(s) : CloseSession(s, oc, foc)
    \/ \E t \in Sessions : \E oc, foc \in EndOutcomes(t) :
         KillSession(s, t, oc, foc)
    \/ CreateSubscription(s)

SessionEnds(s) ==
    \E oc, foc \in EndOutcomes(s) :
        Disconnect(s, oc, foc) \/ StreamStop(s, oc, foc)

Timeout == \E oc, foc \in Failures : RollbackTimeout(oc, foc)

Next ==
    \/ Accept
    \/ \E s \in Sessions : Request(s) \/ SessionEnds(s)
    \/ Timeout

Spec == Init /\ [][Next]_vars

(* A timer that is due runs once no socket is ready (clixon_event_loop),   *)
(* so the rollback timer is not put off for ever, unless confirmed commits *)
(* register it anew each time.                                             *)
Rearm ==
    /\ cc'.timers > 0
    /\ clients' = clients
    /\ seen' = seen
    /\ \E s \in clients, xe \in Commits, oc \in Outcomes :
         xe.confirmed /\ Commit(s, xe, oc)

(* Weak fairness of Timeout, with ENABLED Timeout spelled out as TimerDue *)
TimerDue == up /\ cc.timers > 0

FairSpec ==
    /\ Spec
    /\ []<>(~TimerDue) \/ []<><<Timeout>>_vars \/ []<><<Rearm>>_vars

------------------------------------------------------------------------------
(* Properties *)

Active == cc.state \in {"PERSISTENT", "EPHEMERAL"}

(* Every locked datastore is locked by a session that is still connected:  *)
(* disconnect, close and kill all reach release_all_dbs, so no lock is     *)
(* left behind that nobody can release.                                    *)
LockOwnersAlive ==
    \A db \in DBs : ds[db].id = 0 \/ ds[db].id \in clients

(* An ephemeral confirmed commit never outlives its session: every path    *)
(* that removes a client rolls it back in backend_client_rm, also when     *)
(* another session has meanwhile taken the confirmed commit over.          *)
EphemeralOwnerAlive ==
    cc.state = "EPHEMERAL" => cc.session_id \in clients

(* While a confirmed commit is unconfirmed, at least one rollback timer is *)
(* registered: no interleaving of commits, cancels and sessions that end   *)
(* leaves an unconfirmed configuration with nothing to undo it.            *)
TimerArmed == Active => cc.timers > 0

(* Between two events running is in memory a validated configuration, and  *)
(* the file reads as the same: whatever mix of commits, failing callbacks,    *)
(* rollbacks and failsafe loads came before.                               *)
RunningValid ==
    /\ ds["running"].xml \in Valid
    /\ FileTree(ds["running"].file) = ds["running"].xml

(* While a session holds the lock of the candidate, no request of another  *)
(* session and no timer changes the candidate's tree or dirty bit; only    *)
(* the owner does, or the end of the owner's session.                      *)
CandidateTouched ==
    \/ ds'["candidate"].xml # ds["candidate"].xml
    \/ ds'["candidate"].modified # ds["candidate"].modified

CandidateLockExclusion ==
    [][\A s \in clients :
          (/\ ds["candidate"].id = s
           /\ CandidateTouched
           /\ s \in clients')
             => ~Timeout /\ \A t \in clients \ {s} : ~Request(t)]_vars

(* While a session holds the lock of startup, its content changes at no    *)
(* other session's request, except for <edit-config> with copystartup,     *)
(* which looks at no lock but the candidate's.                             *)
StartupTree(d) ==
    IF d["startup"].xml # NULL THEN d["startup"].xml
    ELSE FileTree(d["startup"].file)

CopiesStartup(t) ==
    \E r \in EditRequests :
        r.cpstart /\ EditConfig(t, r.new, r.edit, r.auto, r.cpstart, r.oc)

StartupLockExclusion ==
    [][\A s \in clients :
          ds["startup"].id = s /\ StartupTree(ds') # StartupTree(ds)
             => \A t \in clients \ {s} : Request(t) => CopiesStartup(t)]_vars

(* With CLICON_AUTOLOCK requests release the candidate's lock on their     *)
(* own, on success and on some of the error paths.  The lock of a          *)
(* candidate with uncommitted edits is not lost that way: its owner keeps  *)
(* it until the edits are committed or discarded or the owner unlocks it.  *)
LockKeptWhileDirty ==
    [][\A s \in clients :
          (/\ ds["candidate"].id = s
           /\ ds["candidate"].modified
           /\ ds'["candidate"].id # s)
             => ~ds'["candidate"].modified \/ Unlock(s, "candidate")]_vars

(* An <edit-config> that changes the tree of the candidate marks it dirty, *)
(* unless it leaves it as running is (the comment on de_modified).         *)
EditMarksCandidate ==
    [][\A s \in clients, r \in EditRequests :
          EditConfig(s, r.new, r.edit, r.auto, r.cpstart, r.oc)
             => \/ ds'["candidate"].xml \in {ds["candidate"].xml,
                                             ds'["running"].xml}
                \/ ds'["candidate"].modified]_vars

(* Every confirmed commit is confirmed, cancelled or rolled back in the    *)
(* end, unless it is extended again and again: the timer survives whatever *)
(* other sessions do meanwhile.                                            *)
ConfirmedCommitEnds ==
    \/ []<><<Rearm>>_vars
    \/ Active ~> ~Active

(* Plugins that follow lock changes through the lockdb callback know who   *)
(* holds the candidate.                                                    *)
PluginsKnowCandidateLock == seen["candidate"] = ds["candidate"].id
==============================================================================
