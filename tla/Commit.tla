------------------------------- MODULE Commit --------------------------------
(***************************************************************************)
(* Commit and confirmed commit (apps/backend/backend_commit.c and          *)
(* backend_confirm.c) as operators on the datastores d and the             *)
(* confirmed-commit state c.                                               *)
(*                                                                         *)
(* Plugins are external.  What their transaction callbacks do to one       *)
(* commit is its outcome: "ok", "verror" when a begin, validate or         *)
(* complete callback fails, "cerror" when a commit or commit-done callback *)
(* fails.  The order of the callbacks is the subject of Transaction.tla.   *)
(***************************************************************************)
EXTENDS Datastore

CONSTANTS Valid,       \* the configurations generic_validate accepts
          PersistIds,  \* values of <persist> and <persist-id>
          NoId,        \* <persist/> without a body, a NULL string in the code
          Absent       \* the element is not in the request

ASSUME CommitAssumption ==
    /\ Valid \subseteq Configs
    /\ NoId \notin PersistIds
    /\ Absent \notin PersistIds
    /\ Absent # NoId

Outcomes == {"ok", "verror", "cerror"}

(* Of a commit that no request asks for (an autocommit, a rollback, the    *)
(* failsafe configuration) any failure has the same effect; one stands for *)
(* all.                                                                    *)
Failures == {"ok", "cerror"}

(* A <commit> request.  <persist> is only looked at with <confirmed/>. *)
CommitRequest ==
    [confirmed: BOOLEAN,
     persist: PersistIds \union {NoId, Absent},
     persist_id: PersistIds \union {NoId, Absent}]

(* struct confirmed_commit.  The event loop keeps the registered rollback  *)
(* timers; all are the same pair (rollback_fn, h), so their number is      *)
(* enough.                                                                 *)
confirmed_commit ==
    [state: {"INACTIVE", "PERSISTENT", "EPHEMERAL", "ROLLBACK"},
     persist_id: PersistIds \union {NoId},
     session_id: Nat,
     timers: Nat]

(* clixon_event_unreg_timeout removes the first match only *)
cancel_rollback_event(c) == [c EXCEPT !.timers = IF @ > 0 THEN @ - 1 ELSE 0]

schedule_rollback_event(c) == [c EXCEPT !.timers = @ + 1]

(* The persist-id is dropped only when the state is PERSISTENT *)
Conclude(c, state) ==
    [c EXCEPT !.persist_id = IF c.state = "PERSISTENT" THEN NoId ELSE @,
              !.state = state]

(* Mutant: the timer is not cancelled *)
cancel_confirmed_commit_timer_left(d, c) ==
    [ds |-> xmldb_delete(d, "rollback"), cc |-> Conclude(c, "INACTIVE")]

(* Mutant: rollback is not deleted *)
cancel_confirmed_commit_rollback_left(d, c) ==
    [ds |-> d, cc |-> Conclude(cancel_rollback_event(c), "INACTIVE")]

cancel_confirmed_commit(d, c) ==
    [ds |-> xmldb_delete(d, "rollback"),
     cc |-> Conclude(cancel_rollback_event(c), "INACTIVE")]

check_valid_confirming_commit(c, xe, myid) ==
    /\ myid # 0
    /\ \/ c.state = "PERSISTENT" /\ xe.persist_id = c.persist_id
       \/ c.state = "EPHEMERAL" /\ myid = c.session_id

(* The state set by <confirmed/>: persistent if <persist> is given *)
Confirmed(c, xe, myid) ==
    IF xe.persist # Absent
    THEN [c EXCEPT !.persist_id = xe.persist, !.state = "PERSISTENT"]
    ELSE [c EXCEPT !.session_id = myid, !.state = "EPHEMERAL"]

(* Mutant: the timer is registered by the first confirmed commit only *)
handle_confirmed_commit_scheduled_once(d, c, xe, myid) ==
    LET c1 == IF check_valid_confirming_commit(c, xe, myid)
              THEN Conclude(cancel_rollback_event(c), "INACTIVE")
              ELSE c
        first == ~xmldb_exists(d, "rollback")
    IN  IF xe.confirmed
        THEN [ds |-> IF first THEN xmldb_copy(d, "running", "rollback") ELSE d,
              cc |-> IF first
                     THEN schedule_rollback_event(Confirmed(c1, xe, myid))
                     ELSE Confirmed(c1, xe, myid)]
        ELSE [ds |-> xmldb_delete(d, "rollback"), cc |-> c1]

(* Mutant: every confirmed commit copies running to rollback *)
handle_confirmed_commit_recopied(d, c, xe, myid) ==
    LET c1 == IF check_valid_confirming_commit(c, xe, myid)
              THEN Conclude(cancel_rollback_event(c), "INACTIVE")
              ELSE c
    IN  IF xe.confirmed
        THEN [ds |-> xmldb_copy(d, "running", "rollback"),
              cc |-> schedule_rollback_event(Confirmed(c1, xe, myid))]
        ELSE [ds |-> xmldb_delete(d, "rollback"), cc |-> c1]

(* Second phase of a confirmed commit, inside candidate_commit.  It keeps  *)
(* the rollback datastore of a running sequence, and deletes it on any     *)
(* commit without <confirmed/>, valid confirming commit or not.            *)
handle_confirmed_commit(d, c, xe, myid) ==
    LET c1 == IF check_valid_confirming_commit(c, xe, myid)
              THEN Conclude(cancel_rollback_event(c), "INACTIVE")
              ELSE c
    IN  IF xe.confirmed
        THEN [ds |-> IF xmldb_exists(d, "rollback") THEN d
                     ELSE xmldb_copy(d, "running", "rollback"),
              cc |-> schedule_rollback_event(Confirmed(c1, xe, myid))]
        ELSE [ds |-> xmldb_delete(d, "rollback"), cc |-> c1]

(* Mutant: a cache that is not there is written *)
validate_common_unguarded(d, db, oc) ==
    [ds |-> xmldb_write_cache2file(d, db),
     ret |-> IF oc = "verror" THEN -1 ELSE 1]

(* validate_common: 1 valid, 0 generic validation failed, -1 error *)
validate_common(d, db, oc) ==
    LET d1 == IF d[db].xml # NULL THEN xmldb_write_cache2file(d, db) ELSE d
    IN  IF ~Readable(d1, db) \/ ~Readable(d1, "running")
        THEN [ds |-> d1, ret |-> -1]
        ELSE LET d2 == xmldb_get_cache(xmldb_get_cache(d1, db), "running")
             IN  [ds |-> d2,
                  ret |-> CASE oc = "verror" -> -1
                            [] oc # "verror" /\ d2[db].xml \notin Valid -> 0
                            [] oc # "verror" /\ d2[db].xml \in Valid -> 1]

(* Phase two of a confirmed commit takes place unless the backend itself   *)
(* asks for the commit.                                                    *)
PhaseTwo(d, c, xe, myid) ==
    IF c.state # "ROLLBACK" /\ xe # Absent /\ myid # 0
    THEN handle_confirmed_commit(d, c, xe, myid)
    ELSE [ds |-> d, cc |-> c]

(* The rest of candidate_commit, after phase two gave p *)
Transacted(p, db, ret) ==
    [ds |-> IF ret = 1
            THEN xmldb_modified_set(xmldb_copy(p.ds, db, "running"), db, FALSE)
            ELSE p.ds,
     cc |-> p.cc,
     ret |-> ret]

(* Mutant: an invalid configuration is committed like a valid one *)
candidate_commit_ret_ignored(d, c, xe, db, myid, oc) ==
    LET v == validate_common(d, db, oc)
    IN  IF v.ret = -1
        THEN [ds |-> v.ds, cc |-> c, ret |-> -1]
        ELSE Transacted(PhaseTwo(v.ds, c, xe, myid), db,
                        IF oc = "cerror" THEN -1 ELSE 1)

(* Mutant: phase two comes after running is replaced *)
candidate_commit_copied_first(d, c, xe, db, myid, oc) ==
    LET v == validate_common(d, db, oc)
        e == IF v.ret = 1 /\ oc = "ok" THEN xmldb_copy(v.ds, db, "running") ELSE v.ds
        p == PhaseTwo(e, c, xe, myid)
    IN  IF v.ret = -1
        THEN [ds |-> v.ds, cc |-> c, ret |-> -1]
        ELSE [ds |-> p.ds, cc |-> p.cc,
              ret |-> IF oc = "ok" THEN v.ret ELSE -1]

(* candidate_commit of datastore db for request xe (Absent: no request).   *)
(* Phase two of the confirmed commit runs after validate_common returned 0 *)
(* as well as after it returned 1.                                         *)
candidate_commit(d, c, xe, db, myid, oc) ==
    LET v == validate_common(d, db, oc)
    IN  IF v.ret = -1
        THEN [ds |-> v.ds, cc |-> c, ret |-> -1]
        ELSE Transacted(PhaseTwo(v.ds, c, xe, myid), db,
                        IF v.ret = 1 /\ oc = "cerror" THEN -1 ELSE v.ret)

(* What load_failsafe does with the result r of its commit *)
FailsafeResult(r) ==
    [ds |-> IF r.ret = 1 THEN r.ds ELSE xmldb_copy(r.ds, "tmp", "running"),
     ret |-> IF r.ret = 1 THEN 0 ELSE -1]

(* load_failsafe: running is saved in tmp, reset, and the failsafe         *)
(* configuration committed; running is restored when that fails.           *)
load_failsafe(d, c, oc) ==
    IF ~xmldb_exists(d, "failsafe")
    THEN [ds |-> d, ret |-> -1]
    ELSE FailsafeResult(
           candidate_commit(xmldb_db_reset(xmldb_copy_file(d, "running", "tmp"),
                                           "running"),
                            c, Absent, "failsafe", 0, oc))

(* What do_rollback does with the result r of its commit, or, if that is   *)
(* an error, with the result f of load_failsafe.                           *)
RollbackResult(c, r) ==
    [ds |-> xmldb_delete(r.ds, "rollback"), cc |-> [c EXCEPT !.state = "INACTIVE"],
     ret |-> 0, stop |-> FALSE]

RollbackError(c, f) ==
    [ds |-> f.ds, cc |-> [c EXCEPT !.state = "INACTIVE"],
     ret |-> -1, stop |-> f.ret = -1]

RolledBack(c, r, foc) ==
    IF r.ret = -1
    THEN RollbackError(c, load_failsafe(xmldb_rename(r.ds, "rollback"), c, foc))
    ELSE RollbackResult(c, r)

(* do_rollback commits the rollback datastore.  If the commit errs, the    *)
(* failsafe configuration is loaded, and the process ends itself (stop)    *)
(* when that fails too.  A rollback datastore that does not validate       *)
(* (ret 0) counts as rolled back.                                          *)
do_rollback(d, c, oc, foc) ==
    LET c1 == Conclude(c, "ROLLBACK")
    IN  RolledBack(c1, candidate_commit(d, c1, Absent, "rollback", 0, oc), foc)
==============================================================================
