----------------------------- MODULE Transaction -----------------------------
(***************************************************************************)
(* A validate or commit transaction over the backend plugins               *)
(* (validate_common, candidate_validate and candidate_commit in            *)
(* apps/backend/backend_commit.c, plugin_transaction_* in backend_plugin.c *)
(* and the iterators of lib/src/clixon_plugin.c).                          *)
(*                                                                         *)
(* Each call of a plugin callback is a step, which the plugin may fail.  A *)
(* plugin is represented by the configuration its device has; plugins are  *)
(* numbered from 0 in the order they are loaded.  A callback a plugin does *)
(* not have counts as a call that succeeds.                                *)
(***************************************************************************)
EXTENDS Integers

CONSTANTS N,        \* number of plugins
          Configs,  \* configurations
          Valid     \* configurations generic_validate accepts

ASSUME TransactionAssumption == N \in Nat /\ Valid \subseteq Configs

Plugins == 0..(N - 1)

Phases == {"idle", "begin", "generic", "validate", "complete", "commit",
           "commit_failed", "revert", "commit_done", "copy", "end", "abort"}

Faults == {"commit_failed", "revert", "commit_done", "copy", "end"}

VARIABLES
    phase,      \* where the transaction is
    commits,    \* candidate_commit rather than candidate_validate
    cp,         \* the plugin to call next
    target,     \* td_target, the configuration to go to
    running,    \* the running datastore, td_src until it is replaced
    device,     \* what the plugins have configured
    committed,  \* plugins whose commit callback succeeded in this transaction
    open,       \* plugins told of a transaction that were not told of its end
    faults      \* callbacks that failed where the code does not recover

vars == <<phase, commits, cp, target, running, device, committed, open, faults>>

TypeOK ==
    /\ phase \in Phases
    /\ commits \in BOOLEAN
    /\ cp \in 0..N
    /\ target \in Configs
    /\ running \in Configs
    /\ device \in [Plugins -> Configs]
    /\ committed \subseteq Plugins
    /\ open \subseteq Plugins
    /\ faults \subseteq Faults

Init ==
    /\ phase = "idle"
    /\ commits = FALSE
    /\ cp = 0
    /\ running \in Valid
    /\ target = running
    /\ device = [p \in Plugins |-> running]
    /\ committed = {}
    /\ open = {}
    /\ faults = {}

Goto(next) == phase' = next /\ cp' = 0

(* A phase that calls one callback of every plugin, in order *)
Calling(at) == phase = at /\ cp < N

Called == cp' = cp + 1 /\ UNCHANGED phase

AllCalled(at) == phase = at /\ cp = N

(* plugin_transaction_abort_all is called once on every failure *)
Abort == Goto("abort")

(* What a device may have after a callback that takes it from one to the   *)
(* other of the transaction's configurations: plugins see the difference   *)
(* only, so the result is open if the device has neither.                  *)
Applied(p, config) ==
    IF device[p] \in {running, target} THEN {config} ELSE Configs

------------------------------------------------------------------------------

(* transaction_new and the first part of validate_common *)
Start(kind, config) ==
    /\ phase = "idle"
    /\ commits' = kind
    /\ target' = config
    /\ committed' = {}
    /\ Goto("begin")
    /\ UNCHANGED <<running, device, open, faults>>

(* Mutant: a failing begin is not followed by abort *)
Begin_not_aborted(ok) ==
    /\ Calling("begin")
    /\ IF ok
       THEN Called /\ open' = open \union {cp}
       ELSE Goto("idle") /\ UNCHANGED open
    /\ UNCHANGED <<commits, target, running, device, committed, faults>>

Begin(ok) ==
    /\ Calling("begin")
    /\ IF ok
       THEN Called /\ open' = open \union {cp}
       ELSE Abort /\ UNCHANGED open
    /\ UNCHANGED <<commits, target, running, device, committed, faults>>

(* Mutant: the result is not looked at *)
generic_validate_ignored ==
    /\ phase = "generic"
    /\ Goto("validate")
    /\ UNCHANGED <<commits, target, running, device, committed, open, faults>>

generic_validate ==
    /\ phase = "generic"
    /\ IF target \in Valid THEN Goto("validate") ELSE Abort
    /\ UNCHANGED <<commits, target, running, device, committed, open, faults>>

(* plugin_transaction_validate_one and plugin_transaction_complete_one *)
Check(ok) ==
    /\ Calling("validate") \/ Calling("complete")
    /\ IF ok THEN Called ELSE Abort
    /\ UNCHANGED <<commits, target, running, device, committed, open, faults>>

(* The next phase, once all plugins were called *)
PhaseDone ==
    /\ \/ AllCalled("begin") /\ Goto("generic")
       \/ AllCalled("validate") /\ Goto("complete")
       \/ AllCalled("complete") /\ Goto(IF commits THEN "commit" ELSE "end")
       \/ AllCalled("commit") /\ Goto("commit_done")
       \/ AllCalled("commit_done") /\ Goto("copy")
       \/ AllCalled("end") /\ Goto("idle")
       \/ AllCalled("abort") /\ Goto("idle")
    /\ UNCHANGED <<commits, target, running, device, committed, open, faults>>

(* A commit callback that fails may have changed the device or not *)
CommitOne(ok) ==
    /\ Calling("commit")
    /\ \E c \in IF ok THEN Applied(cp, target) ELSE {device[cp], target} :
         device' = [device EXCEPT ![cp] = c]
    /\ IF ok
       THEN Called /\ committed' = committed \union {cp}
       ELSE /\ phase' = "commit_failed"
            /\ UNCHANGED <<cp, committed>>
    /\ UNCHANGED <<commits, target, running, open, faults>>

(* Mutant: nothing is before the first plugin *)
RevertStart_before_first(nr) == nr - 1

(* Mutant: the plugin that failed is reverted as well *)
RevertStart_failed(nr) == nr

(* Mutant: off by one *)
RevertStart_skips(nr) == IF nr < 2 THEN 0 ELSE nr - 2

(* clixon_plugin_each_revert(h, NULL, nr): plugin nr - 1, or the first *)
RevertStart(nr) == IF nr = 0 THEN 0 ELSE nr - 1

(* plugin_transaction_commit_failed of the plugin that failed; the result  *)
(* is ignored.                                                             *)
CommitFailed(ok) ==
    /\ phase = "commit_failed"
    /\ IF ok
       THEN /\ \E c \in Applied(cp, running) : device' = [device EXCEPT ![cp] = c]
            /\ UNCHANGED faults
       ELSE faults' = faults \union {"commit_failed"} /\ UNCHANGED device
    /\ phase' = "revert"
    /\ cp' = RevertStart(cp)
    /\ UNCHANGED <<commits, target, running, committed, open>>

(* plugin_transaction_revert_all, from the last plugin to the first; a     *)
(* revert that fails ends it.                                              *)
Revert(ok) ==
    /\ phase = "revert"
    /\ IF ok
       THEN /\ \E c \in Applied(cp, running) : device' = [device EXCEPT ![cp] = c]
            /\ IF cp = 0 THEN Abort ELSE cp' = cp - 1 /\ UNCHANGED phase
            /\ UNCHANGED faults
       ELSE Abort /\ faults' = faults \union {"revert"} /\ UNCHANGED device
    /\ UNCHANGED <<commits, target, running, committed, open>>

(* No revert is made when a commit-done callback fails *)
CommitDone(ok) ==
    /\ Calling("commit_done")
    /\ IF ok
       THEN Called /\ UNCHANGED faults
       ELSE Abort /\ faults' = faults \union {"commit_done"}
    /\ UNCHANGED <<commits, target, running, device, committed, open>>

(* xmldb_copy of the candidate to running *)
Copy(ok) ==
    /\ phase = "copy"
    /\ IF ok
       THEN Goto("end") /\ running' = target /\ UNCHANGED faults
       ELSE Abort /\ faults' = faults \union {"copy"} /\ UNCHANGED running
    /\ UNCHANGED <<commits, target, device, committed, open>>

(* The first end callback that fails ends plugin_transaction_end_all, and  *)
(* the transaction still counts as done.                                   *)
End(ok) ==
    /\ Calling("end")
    /\ IF ok
       THEN Called /\ open' = open \ {cp} /\ UNCHANGED faults
       ELSE Goto("idle") /\ faults' = faults \union {"end"} /\ UNCHANGED open
    /\ UNCHANGED <<commits, target, running, device, committed>>

(* Mutant: the iterator is not advanced *)
AbortOne_again ==
    /\ Calling("abort")
    /\ open' = open \ {cp}
    /\ UNCHANGED <<phase, cp, commits, target, running, device, committed, faults>>

(* Errors of abort callbacks are ignored *)
AbortOne ==
    /\ Calling("abort")
    /\ Called
    /\ open' = open \ {cp}
    /\ UNCHANGED <<commits, target, running, device, committed, faults>>

Step ==
    \/ \E ok \in BOOLEAN :
         \/ Begin(ok)
         \/ Check(ok)
         \/ CommitOne(ok)
         \/ CommitFailed(ok)
         \/ Revert(ok)
         \/ CommitDone(ok)
         \/ Copy(ok)
         \/ End(ok)
    \/ generic_validate
    \/ AbortOne
    \/ PhaseDone

Next == Step \/ \E kind \in BOOLEAN, config \in Configs : Start(kind, config)

(* Plugin callbacks return, so a transaction that has begun goes on *)
Spec == Init /\ [][Next]_vars /\ WF_vars(Step)

------------------------------------------------------------------------------

(* Between transactions every device has the running configuration,        *)
(* wherever transactions were refused or commits undone, as long as no     *)
(* callback failed that the code cannot recover from: the revert order     *)
(* meets exactly the plugins that committed.                               *)
PluginsAgree ==
    phase = "idle" /\ faults \subseteq {"end"}
        => \A p \in Plugins : device[p] = running

(* A plugin that was told of a transaction is told of its end or abort,    *)
(* whichever callback of whichever plugin stopped the transaction.         *)
TransactionsClosed ==
    phase = "idle" /\ "end" \notin faults => open = {}

(* Running is replaced only by a valid configuration that every plugin     *)
(* accepted and committed.                                                 *)
RunningCommitted ==
    [][running' # running
         => running' \in Valid /\ committed = Plugins]_vars

(* Every transaction comes to an end: no failure leaves the iteration over *)
(* the plugins stuck.                                                      *)
TransactionEnds == phase # "idle" ~> phase = "idle"

(* The revert callback is called for plugins that committed only, as the   *)
(* comment on plugin_transaction_revert_all says; when the very first      *)
(* plugin fails, it is called for that one.                                *)
RevertsCommitted ==
    phase = "revert" => cp \in committed \/ (cp = 0 /\ committed = {})
==============================================================================
