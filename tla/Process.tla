------------------------------- MODULE Process -------------------------------
(* Daemons started and supervised by the backend (lib/src/clixon_proc.c),   *)
(* among them the RESTCONF daemon, whose enable leaf a pseudo plugin        *)
(* follows (apps/backend/backend_plugin_restconf.c).  A request only        *)
(* schedules: a timeout does the work, and a child that ends is reaped      *)
(* when its SIGCHLD interrupts the event loop in poll().                    *)
EXTENDS Naturals

CONSTANTS
    NProc,     \* number of registered processes; their order in the list
    Pids,      \* process ids
    MaxSched   \* bound: pending timeouts

ASSUME ProcessAssumption ==
    /\ NProc \in Nat
    /\ 0 \notin Pids
    /\ MaxSched \in Nat

VARIABLES
    enabled,    \* /restconf/enable of running; process 1 is RESTCONF
    pe_state, pe_operation, pe_pid,  \* the process entries
    os,         \* the operating system's view of the children
    sched,      \* pending timeouts of clixon_process_sched
    sig_child,  \* _clicon_sig_child
    loop,       \* where the event loop is
    pos,        \* entry clixon_process_sched looks at
    again       \* it will register itself again

procVars == <<enabled, pe_state, pe_operation, pe_pid, os, sched, sig_child,
              loop, pos, again>>

entry == <<pe_state, pe_operation, pe_pid>>

Procs == 1..NProc
Ops == {"NONE", "START", "STOP", "RESTART"}
Restconf == 1

ProcTypeOK ==
    /\ enabled \in BOOLEAN
    /\ pe_state \in [Procs -> {"STOPPED", "RUNNING", "EXITING"}]
    /\ pe_operation \in [Procs -> Ops]
    /\ pe_pid \in [Procs -> Pids \union {0}]
    /\ os \in [Pids -> {"none", "runs", "term", "zombie"}]
    /\ sched \in 0..MaxSched
    /\ sig_child \in BOOLEAN
    /\ loop \in {"top", "armed", "poll", "eintr", "sched"}
    /\ pos \in 1..(NProc + 1)
    /\ again \in BOOLEAN

(* Mutant: a child that was not waited for is taken to be gone *)
proc_op_run_alive(p) == pe_pid[p] # 0 /\ os[pe_pid[p]] \notin {"none", "zombie"}

(* proc_op_run: kill(pid, 0) also finds a child that ended and was not     *)
(* waited for                                                              *)
proc_op_run(p) == pe_pid[p] # 0 /\ os[pe_pid[p]] # "none"

(* SIGTERM *)
Kill(p) ==
    os' = IF os[pe_pid[p]] = "runs" THEN [os EXCEPT ![pe_pid[p]] = "term"] ELSE os

(* fork: a process id that is not in use *)
Free == {q \in Pids : os[q] = "none" /\ \A p \in Procs : pe_pid[p] # q}

(* clixon_proc_background *)
clixon_proc_background(p, o) ==
    \E q \in Free :
      /\ pe_pid' = [pe_pid EXCEPT ![p] = q]
      /\ os' = [o EXCEPT ![q] = "runs"]

------------------------------------------------------------------------------
(* Requests: handled in a callback of the event loop *)

(* clixon_process_operation, and the timeout it registers *)
clixon_process_operation(p, op) ==
    /\ pe_operation' = [pe_operation EXCEPT ![p] = op]
    /\ IF pe_state[p] = "RUNNING" /\ op \in {"STOP", "RESTART"}
       THEN /\ IF proc_op_run(p) THEN Kill(p) ELSE UNCHANGED os
            /\ pe_state' = [pe_state EXCEPT ![p] = "EXITING"]
       ELSE UNCHANGED <<pe_state, os>>
    /\ sched' = sched + 1

Handling == loop = "poll" /\ sched < MaxSched /\ loop' = "top"

(* The process-control RPC.  The wrapper of RESTCONF drops a start while   *)
(* the service is not enabled (restconf_rpc_wrapper).                      *)
ProcessControl(p, op) ==
    /\ Handling
    /\ IF p = Restconf /\ op = "START" /\ ~enabled
       THEN UNCHANGED <<pe_state, pe_operation, os, sched>>
       ELSE clixon_process_operation(p, op)
    /\ UNCHANGED <<enabled, pe_pid, sig_child, pos, again>>

(* restconf_pseudo_process_commit: a change of enable starts or stops, any *)
(* other change of an enabled service restarts it                          *)
RestconfCommit(e) ==
    /\ Handling /\ Restconf \in Procs
    /\ enabled' = e
    /\ CASE e # enabled -> clixon_process_operation(Restconf, IF e THEN "START" ELSE "STOP")
         [] e /\ enabled -> clixon_process_operation(Restconf, "RESTART")
         [] OTHER -> UNCHANGED <<pe_state, pe_operation, os, sched>>
    /\ UNCHANGED <<pe_pid, sig_child, pos, again>>

------------------------------------------------------------------------------
(* Reaping *)

Zombies == {p \in Procs : /\ pe_state[p] \in {"RUNNING", "EXITING"}
                          /\ pe_pid[p] # 0
                          /\ os[pe_pid[p]] = "zombie"}

(* An entry whose child was waited for: stopped, or started anew when a    *)
(* restart is pending.  A pending start changes nothing.                   *)
Reap(p) ==
    LET reaped == [os EXCEPT ![pe_pid[p]] = "none"]
    IN  /\ CASE pe_operation[p] \in {"NONE", "STOP"} ->
                  /\ pe_state' = [pe_state EXCEPT ![p] = "STOPPED"]
                  /\ pe_pid' = [pe_pid EXCEPT ![p] = 0]
                  /\ os' = reaped
             [] pe_operation[p] = "RESTART" ->
                  /\ clixon_proc_background(p, reaped)
                  /\ pe_state' = [pe_state EXCEPT ![p] = "RUNNING"]
             [] OTHER -> os' = reaped /\ UNCHANGED <<pe_state, pe_pid>>
        /\ pe_operation' = [pe_operation EXCEPT ![p] = "NONE"]

(* clixon_process_waitpid: the first child in the list that can be reaped  *)
clixon_process_waitpid ==
    IF Zombies = {} THEN UNCHANGED <<entry, os>>
    ELSE Reap(CHOOSE p \in Zombies : \A r \in Zombies : p <= r)

------------------------------------------------------------------------------
(* clixon_process_sched: one step for each entry of the list *)

(* Mutant: a restart only waits for the SIGCHLD *)
SchedExiting_waits(p) ==
    /\ IF pe_operation[p] = "STOP" /\ proc_op_run(p) THEN Kill(p) ELSE UNCHANGED os
    /\ again' = TRUE
    /\ UNCHANGED <<entry, sig_child>>

SchedExiting(p) ==
    CASE pe_operation[p] = "STOP" /\ proc_op_run(p) ->
           /\ Kill(p)
           /\ again' = TRUE
           /\ UNCHANGED <<entry, sig_child>>
      [] pe_operation[p] = "RESTART" /\ proc_op_run(p) ->
           /\ clixon_process_waitpid
           /\ sig_child' = FALSE
           /\ again' = TRUE
      [] OTHER -> UNCHANGED <<entry, os, sig_child, again>>

SchedStopped(p) ==
    /\ IF pe_operation[p] \in {"START", "RESTART"}
       THEN /\ IF proc_op_run(p) THEN UNCHANGED <<pe_pid, os>>
               ELSE clixon_proc_background(p, os)
            /\ pe_state' = [pe_state EXCEPT ![p] = "RUNNING"]
            /\ pe_operation' = [pe_operation EXCEPT ![p] = "NONE"]
       ELSE UNCHANGED <<entry, os>>
    /\ UNCHANGED <<sig_child, again>>

(* A process that runs keeps the pending start *)
SchedRunning(p) ==
    /\ IF pe_operation[p] = "START" /\ ~proc_op_run(p)
       THEN /\ clixon_proc_background(p, os)
            /\ pe_operation' = [pe_operation EXCEPT ![p] = "NONE"]
            /\ UNCHANGED pe_state
       ELSE UNCHANGED <<entry, os>>
    /\ UNCHANGED <<sig_child, again>>

SchedEntry ==
    /\ loop = "sched" /\ pos \in Procs
    /\ pos' = pos + 1
    /\ IF pe_operation[pos] = "NONE"
       THEN UNCHANGED <<entry, os, sig_child, again>>
       ELSE CASE pe_state[pos] = "EXITING" -> SchedExiting(pos)
              [] pe_state[pos] = "STOPPED" -> SchedStopped(pos)
              [] pe_state[pos] = "RUNNING" -> SchedRunning(pos)
    /\ UNCHANGED <<enabled, sched, loop>>

SchedDone ==
    /\ loop = "sched" /\ pos = NProc + 1
    /\ loop' = "top"
    /\ sched' = IF again THEN sched + 1 ELSE sched
    /\ again' = FALSE
    /\ UNCHANGED <<enabled, entry, os, sig_child, pos>>

(* The timeout fires *)
SchedStart ==
    /\ loop = "poll" /\ sched > 0
    /\ loop' = "sched"
    /\ sched' = sched - 1
    /\ pos' = 1
    /\ again' = FALSE
    /\ UNCHANGED <<enabled, entry, os, sig_child>>

------------------------------------------------------------------------------
(* The event loop and SIGCHLD *)

LoopRound ==
    /\ \/ loop = "top" /\ loop' = "armed"
       \/ loop = "armed" /\ loop' = "poll"
    /\ UNCHANGED <<enabled, entry, os, sched, sig_child, pos, again>>

(* backend_sig_child: the flag is set wherever the backend is; poll() is   *)
(* interrupted only if the backend is in it                                *)
ChildEnds(q) ==
    /\ os[q] \in {"runs", "term"}
    /\ os' = [os EXCEPT ![q] = "zombie"]
    /\ sig_child' = TRUE
    /\ loop' = IF loop = "poll" THEN "eintr" ELSE loop
    /\ UNCHANGED <<enabled, entry, sched, pos, again>>

(* event_handle_eintr *)
event_handle_eintr ==
    /\ loop = "eintr"
    /\ clixon_process_waitpid
    /\ sig_child' = FALSE
    /\ loop' = "top"
    /\ UNCHANGED <<enabled, sched, pos, again>>

------------------------------------------------------------------------------
(* clixon_process_register; with "-s none" clixon_process_start_all has    *)
(* scheduled the enabled ones                                              *)
ProcInit ==
    /\ enabled \in BOOLEAN
    /\ pe_state = [p \in Procs |-> "STOPPED"]
    /\ pe_pid = [p \in Procs |-> 0]
    /\ \E all \in BOOLEAN :
         /\ pe_operation = [p \in Procs |->
              IF all /\ (p = Restconf => enabled) THEN "START" ELSE "NONE"]
         /\ sched = IF all /\ MaxSched > 0 THEN 1 ELSE 0
    /\ os = [q \in Pids |-> "none"]
    /\ sig_child = FALSE /\ loop = "top" /\ pos = NProc + 1 /\ again = FALSE

ProcStep == SchedStart \/ SchedEntry \/ SchedDone \/ LoopRound \/ event_handle_eintr

ProcNext ==
    \/ ProcStep
    \/ \E p \in Procs, op \in Ops \ {"NONE"} : ProcessControl(p, op)
    \/ \E e \in BOOLEAN : RestconfCommit(e)
    \/ \E q \in Pids : ChildEnds(q)

(* The loop keeps running, its clients do not keep it busy for ever (while *)
(* a descriptor has input no timeout is called), and a child that got      *)
(* SIGTERM ends.                                                           *)
ProcFairness ==
    /\ WF_procVars(ProcStep)
    /\ SF_procVars(SchedStart)
    /\ \A q \in Pids : WF_procVars(os[q] = "term" /\ ChildEnds(q))

ProcSpec == ProcInit /\ [][ProcNext]_procVars /\ ProcFairness

------------------------------------------------------------------------------
(* Properties *)

(* However requests, timeouts, exits and SIGCHLD interleave, every child   *)
(* that exists is the one of exactly one entry, which is not STOPPED: no   *)
(* daemon is forked twice and none is forgotten while it runs.             *)
OneChild ==
    \A q \in Pids : os[q] # "none" =>
      \E p \in Procs : /\ pe_pid[p] = q
                       /\ pe_state[p] # "STOPPED"
                       /\ \A r \in Procs : pe_pid[r] = q => r = p

(* A restart of a process whose child exists is carried out even when the  *)
(* SIGCHLD of the old child found the backend outside poll().              *)
RestartCompletes ==
    \A p \in Procs :
      (pe_operation[p] = "RESTART" /\ proc_op_run(p)) ~> (pe_operation[p] # "RESTART")
==============================================================================
