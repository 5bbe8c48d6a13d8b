--------------------------- MODULE ConfirmedCommit ---------------------------
(***************************************************************************)
(* What the confirmed-commit procedure promises (RFC 6241 8.4, and the     *)
(* comments of backend_confirm.c), without sessions, datastores or timers: *)
(* the first confirmed commit of a sequence remembers the running          *)
(* configuration, later ones keep what was remembered, and the sequence    *)
(* ends with a confirmation, or with running as it was remembered.         *)
(***************************************************************************)
CONSTANTS Configs,  \* configurations
          Failsafe, \* configurations to fall back to when a rollback errs
          None      \* nothing is remembered

VARIABLES running, pending, base

TypeInv ==
    /\ running \in Configs
    /\ pending \in BOOLEAN
    /\ base \in Configs \union {None}

Init == running \in Configs /\ pending = FALSE /\ base = None

(* A commit outside a sequence *)
Commit ==
    /\ ~pending
    /\ running' \in Configs
    /\ UNCHANGED <<pending, base>>

(* The first confirmed commit of a sequence *)
Begin ==
    /\ ~pending
    /\ pending' = TRUE
    /\ base' = running
    /\ running' \in Configs

(* A further confirmed commit *)
Extend ==
    /\ pending
    /\ running' \in Configs
    /\ UNCHANGED <<pending, base>>

End == pending /\ pending' = FALSE /\ base' = None

(* A confirming commit.  Also a rollback that errs, when there is nothing  *)
(* to fall back to.                                                        *)
Confirm == End /\ running' = running

(* Timeout, cancel, or the end of the session that owns the sequence *)
Rollback == End /\ running' = base

RollbackError == End /\ running' \in Failsafe

Next == Commit \/ Begin \/ Extend \/ Confirm \/ Rollback \/ RollbackError

Spec == Init /\ [][Next]_<<running, pending, base>>
==============================================================================
