------------------------------ MODULE MCDaemon -------------------------------
(* Small instances of the machinery under the backend's handlers for TLC:   *)
(* the event loop and the supervised processes.  The two share no variable; *)
(* part says which of them moves, so that one run checks both and their     *)
(* state spaces add up.                                                     *)
EXTENDS EventLoop, Process

VARIABLE part

daemonVars == <<loopVars, procVars, part>>

LoopRests == LoopInit /\ ~select /\ ee_prio = <<>> /\ ee[1].fd = CHOOSE fd \in Fds : TRUE

ProcRests == ProcInit /\ ~enabled /\ sched = 0

Init ==
    \/ part = "loop" /\ LoopInit /\ ProcRests
    \/ part = "process" /\ LoopRests /\ ProcInit

LoopPart(A) == part = "loop" /\ A /\ UNCHANGED <<procVars, part>>

ProcPart(A) == part = "process" /\ A /\ UNCHANGED <<loopVars, part>>

Next == LoopPart(LoopNext) \/ ProcPart(ProcNext)

(* LoopFairness and ProcFairness, each for the part that moves *)
Fairness ==
    /\ WF_daemonVars(LoopPart(LoopStep))
    /\ WF_daemonVars(LoopPart(Tick))
    /\ WF_daemonVars(ProcPart(ProcStep))
    /\ SF_daemonVars(ProcPart(SchedStart))
    /\ \A q \in Pids : WF_daemonVars(ProcPart(os[q] = "term" /\ ChildEnds(q)))

Spec == Init /\ [][Next]_daemonVars /\ Fairness
==============================================================================
