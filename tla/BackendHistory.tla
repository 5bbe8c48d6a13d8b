---------------------------- MODULE BackendHistory ----------------------------
(***************************************************************************)
(* Backend with a history variable, which no action reads: the running     *)
(* configuration before the confirmed commit in progress began.  It says   *)
(* what a rollback must restore, independently of the rollback datastore.  *)
(***************************************************************************)
EXTENDS Backend

VARIABLE origin

hvars == <<ds, cc, clients, nextid, subs, seen, up, origin>>

HInit == Init /\ origin = NULL

Began == cc.state = "INACTIVE" /\ cc'.state # "INACTIVE"

HNext ==
    /\ Next
    /\ origin' = CASE Began -> ds["running"].xml
                   [] ~Began /\ cc'.state = "INACTIVE" -> NULL
                   [] ~Began /\ cc'.state # "INACTIVE" -> origin

HSpec == HInit /\ [][HNext]_hvars

------------------------------------------------------------------------------

Promise == INSTANCE ConfirmedCommit WITH
    Failsafe <- {FailsafeFile},
    None <- NULL,
    running <- ds["running"].xml,
    pending <- cc.state # "INACTIVE",
    base <- origin

(* The steps in which do_rollback runs, with the outcome oc of its commit. *)
RollsBack(oc) ==
    \E foc \in Failures :
        \/ RollbackTimeout(oc, foc)
        \/ \E s \in Sessions, p \in PersistIds \union {NoId, Absent} :
             CancelCommit(s, p, oc, foc)
        \/ \E s \in Sessions :
             /\ OwnsEphemeral(s)
             /\ \/ Disconnect(s, oc, foc)
                \/ StreamStop(s, oc, foc)
                \/ s \in subs /\ CloseSession(s, oc, foc)
                \/ \E t \in Sessions : s \in clients /\ KillSession(t, s, oc, foc)

(* A rollback none of whose plugin callbacks fails (backend_confirm.c,     *)
(* do_rollback) puts running back to what it was before the first          *)
(* confirmed commit of the sequence, whatever was committed since and      *)
(* whichever of timeout, cancel or lost session caused it.                 *)
RollbackRestores ==
    [][RollsBack("ok") => ds'["running"].xml = origin]_hvars

(* The sessions, timers and datastores of the backend carry out the        *)
(* confirmed-commit procedure: running is never changed, and a sequence    *)
(* never begun or ended, in any other way than ConfirmedCommit allows.     *)
KeepsPromise == Promise!Spec

(* While a confirmed commit is unconfirmed exactly one rollback timer is   *)
(* registered, and none otherwise: a cancelled timer cannot fire later and *)
(* undo a configuration that was confirmed.                                *)
OneTimer == cc.timers = IF cc.state = "INACTIVE" THEN 0 ELSE 1

(* The rollback datastore exists exactly while a confirmed commit is in    *)
(* progress, and then holds the configuration to go back to, on disk as    *)
(* well: a daemon restarted in between finds it (startup_mode_startup).    *)
RollbackStored ==
    IF cc.state = "INACTIVE"
    THEN ~xmldb_exists(ds, "rollback")
    ELSE ds["rollback"].file = origin
==============================================================================
