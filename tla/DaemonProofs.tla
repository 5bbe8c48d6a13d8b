---------------------------- MODULE DaemonProofs -----------------------------
(* Proofs about the machinery under the backend's handlers: the supervised  *)
(* processes, the event loop, and the plugins that take part in a           *)
(* transaction.                                                             *)
EXTENDS EventLoop, Process, Transaction, WellFoundedInduction, TLAPS

(* The first of a set of positions: what a walk of a list finds *)
LEMMA LeastNatural ==
    ASSUME NEW Z \in SUBSET Nat, Z # {}
    PROVE  LET m == CHOOSE i \in Z : \A j \in Z : i <= j
           IN  m \in Z /\ \A j \in Z : m <= j
<1> DEFINE R == OpToRel(<, Nat)
<1>1. IsWellFoundedOn(R, Nat)
  BY NatLessThanWellFounded
<1>2. R = {ss \in Nat \X Nat : ss[1] < ss[2]}
  BY DEF OpToRel
<1> HIDE DEF R
<1>3. PICK x \in Z : \A y \in Z : ~(<<y, x>> \in R)
  BY <1>1, WFMin
<1>4. ASSUME NEW y \in Z PROVE x <= y
  <2>1. \A a, b \in Nat : a < b => <<a, b>> \in R
    BY <1>2
  <2>2. ~(y < x)
    BY <1>3, <2>1
  <2> QED
    BY <2>2
<1>5. \E i \in Z : \A j \in Z : i <= j
  BY <1>4
<1> QED
  BY <1>5, Zenon

------------------------------------------------------------------------------
(* Supervised processes: every process id the operating system knows is     *)
(* held by one entry.  A stopped entry holds none, so that starting it      *)
(* loses no child; two entries never hold the same.                         *)

States == {"STOPPED", "RUNNING", "EXITING"}

OsStates == {"none", "runs", "term", "zombie"}

Children(st, pid, o) ==
    /\ st \in [Procs -> States]
    /\ pid \in [Procs -> Pids \union {0}]
    /\ o \in [Pids -> OsStates]
    /\ \A p \in Procs : st[p] = "STOPPED" => pid[p] = 0
    /\ \A p, r \in Procs : pid[p] = pid[r] /\ pid[p] # 0 => p = r
    /\ \A q \in Pids : o[q] # "none" => \E p \in Procs : pid[p] = q

(* A timeout of clixon_process_sched that runs was taken off the list, so  *)
(* that it can register itself again.                                      *)
ProcInv ==
    /\ ProcTypeOK
    /\ loop = "sched" => sched < MaxSched
    /\ Children(pe_state, pe_pid, os)

(* kill(2) on the child of an entry *)
LEMMA KillKeeps ==
    ASSUME Children(pe_state, pe_pid, os),
           NEW p \in Procs, proc_op_run(p), Kill(p)
    PROVE  Children(pe_state, pe_pid, os')
<1>1. pe_pid[p] \in Pids
  BY DEF Children, proc_op_run
<1>2. \/ os' = os
      \/ os[pe_pid[p]] = "runs" /\ os' = [os EXCEPT ![pe_pid[p]] = "term"]
  BY DEF Kill
<1> QED
  BY <1>1, <1>2 DEF Children, OsStates

(* clixon_proc_background in an entry that holds no child: o is what the   *)
(* operating system knows once the entry's old child, if any, is reaped.   *)
LEMMA ForkKeeps ==
    ASSUME Children(pe_state, pe_pid, os), 0 \notin Pids,
           NEW p \in Procs,
           NEW o, \/ o = os /\ ~proc_op_run(p)
                  \/ pe_pid[p] \in Pids /\ o = [os EXCEPT ![pe_pid[p]] = "none"],
           clixon_proc_background(p, o)
    PROVE  Children([pe_state EXCEPT ![p] = "RUNNING"], pe_pid', os')
<1>1. PICK q \in Free : /\ pe_pid' = [pe_pid EXCEPT ![p] = q]
                        /\ os' = [o EXCEPT ![q] = "runs"]
  BY DEF clixon_proc_background
<1>2. q \in Pids /\ q # 0 /\ \A r \in Procs : pe_pid[r] # q
  BY DEF Free
<1>3. o \in [Pids -> OsStates]
  BY DEF Children, OsStates
<1>4. \A x \in Pids : o[x] # "none" => x # pe_pid[p] /\ os[x] # "none"
  BY DEF Children, proc_op_run
<1> DEFINE st == [pe_state EXCEPT ![p] = "RUNNING"]
<1>5. /\ st \in [Procs -> States]
      /\ pe_pid' \in [Procs -> Pids \union {0}]
      /\ os' \in [Pids -> OsStates]
  BY <1>1, <1>2, <1>3 DEF Children, OsStates, States
<1>6. \A r \in Procs : st[r] = "STOPPED" => pe_pid'[r] = 0
  BY <1>1 DEF Children
<1>7. \A r, t \in Procs : pe_pid'[r] = pe_pid'[t] /\ pe_pid'[r] # 0 => r = t
  BY <1>1, <1>2 DEF Children
<1>8. ASSUME NEW x \in Pids, os'[x] # "none"
      PROVE  \E r \in Procs : pe_pid'[r] = x
  <2>1. CASE x = q
    BY <1>1, <2>1 DEF Children
  <2>2. CASE x # q
    <3>1. o[x] # "none"
      BY <1>1, <1>3, <1>8, <2>2
    <3>2. PICK r \in Procs : pe_pid[r] = x
      BY <1>4, <3>1 DEF Children
    <3>3. r # p
      BY <1>4, <3>1, <3>2
    <3> QED
      BY <1>1, <3>2, <3>3 DEF Children
  <2> QED
    BY <2>1, <2>2
<1> QED
  BY <1>5, <1>6, <1>7, <1>8 DEF Children

(* clixon_process_waitpid: the entry's child is waited for *)
LEMMA ReapKeeps ==
    ASSUME ProcTypeOK, Children(pe_state, pe_pid, os), 0 \notin Pids,
           NEW p \in Zombies, Reap(p)
    PROVE  /\ Children(pe_state', pe_pid', os')
           /\ pe_operation' \in [Procs -> Ops]
<1>1. p \in Procs /\ pe_pid[p] \in Pids /\ pe_state[p] # "STOPPED"
  BY DEF Zombies, Children
<1> DEFINE reaped == [os EXCEPT ![pe_pid[p]] = "none"]
<1>2. pe_operation' \in [Procs -> Ops]
  BY <1>1 DEF Reap, ProcTypeOK, Ops
<1>3. CASE pe_operation[p] \in {"NONE", "STOP"}
  <2>1. /\ pe_state' = [pe_state EXCEPT ![p] = "STOPPED"]
        /\ pe_pid' = [pe_pid EXCEPT ![p] = 0]
        /\ os' = reaped
    BY <1>3, Zenon DEF Reap
  <2> QED
    BY <1>1, <1>2, <2>1 DEF Children, States, OsStates
<1>4. CASE pe_operation[p] = "RESTART"
  <2>1. /\ clixon_proc_background(p, reaped)
        /\ pe_state' = [pe_state EXCEPT ![p] = "RUNNING"]
    BY <1>4 DEF Reap
  <2> QED
    BY <1>1, <1>2, <2>1, ForkKeeps
<1>5. CASE pe_operation[p] \notin {"NONE", "STOP", "RESTART"}
  <2>1. os' = reaped /\ pe_state' = pe_state /\ pe_pid' = pe_pid
    BY <1>5 DEF Reap
  <2> QED
    BY <1>1, <1>2, <2>1 DEF Children, OsStates
<1> QED
  BY <1>3, <1>4, <1>5

(* clixon_process_waitpid, with or without a child to reap *)
LEMMA WaitpidKeeps ==
    ASSUME ProcTypeOK, Children(pe_state, pe_pid, os), 0 \notin Pids,
           clixon_process_waitpid
    PROVE  /\ Children(pe_state', pe_pid', os')
           /\ pe_operation' \in [Procs -> Ops]
<1>1. CASE Zombies = {}
  BY <1>1 DEF clixon_process_waitpid, entry, ProcTypeOK
<1>2. CASE Zombies # {}
  <2> DEFINE z == CHOOSE p \in Zombies : \A r \in Zombies : p <= r
  <2>1. Reap(z)
    BY <1>2 DEF clixon_process_waitpid
  <2>2. z \in Zombies
    <3>1. Zombies \in SUBSET Nat
      BY DEF Zombies, Procs
    <3> QED
      BY <1>2, <3>1, LeastNatural
  <2> QED
    BY <2>1, <2>2, ReapKeeps
<1> QED
  BY <1>1, <1>2

(* clixon_process_operation *)
LEMMA OperationKeeps ==
    ASSUME ProcTypeOK, Children(pe_state, pe_pid, os),
           NEW p \in Procs, NEW op \in Ops,
           clixon_process_operation(p, op)
    PROVE  /\ Children(pe_state', pe_pid, os')
           /\ pe_operation' \in [Procs -> Ops]
           /\ sched' = sched + 1
<1>1. pe_operation' \in [Procs -> Ops] /\ sched' = sched + 1
  BY DEF clixon_process_operation, ProcTypeOK
<1>2. CASE pe_state[p] = "RUNNING" /\ op \in {"STOP", "RESTART"}
  <2>1. /\ IF proc_op_run(p) THEN Kill(p) ELSE UNCHANGED os
        /\ pe_state' = [pe_state EXCEPT ![p] = "EXITING"]
    BY <1>2 DEF clixon_process_operation
  <2>2. Children(pe_state, pe_pid, os')
    BY <2>1, KillKeeps
  <2> QED
    BY <1>1, <2>1, <2>2 DEF Children, States
<1>3. CASE ~(pe_state[p] = "RUNNING" /\ op \in {"STOP", "RESTART"})
  BY <1>1, <1>3 DEF clixon_process_operation
<1> QED
  BY <1>2, <1>3

(* The state of an entry and its children after a step of                  *)
(* clixon_process_sched on an entry with a pending operation               *)
LEMMA SchedKeeps ==
    ASSUME ProcTypeOK, Children(pe_state, pe_pid, os), 0 \notin Pids,
           NEW p \in Procs,
           \/ pe_state[p] = "EXITING" /\ SchedExiting(p)
           \/ pe_state[p] = "STOPPED" /\ SchedStopped(p)
           \/ pe_state[p] = "RUNNING" /\ SchedRunning(p)
    PROVE  /\ Children(pe_state', pe_pid', os')
           /\ pe_operation' \in [Procs -> Ops]
           /\ sig_child' \in BOOLEAN
           /\ again' \in BOOLEAN
<1>1. CASE SchedExiting(p)
  <2>1. CASE pe_operation[p] = "STOP" /\ proc_op_run(p)
    <3>1. Kill(p) /\ again' = TRUE /\ UNCHANGED <<entry, sig_child>>
      BY <1>1, <2>1 DEF SchedExiting
    <3>2. Children(pe_state, pe_pid, os')
      BY <2>1, <3>1, KillKeeps
    <3>3. pe_state' = pe_state /\ pe_pid' = pe_pid /\ pe_operation' = pe_operation
      BY <3>1 DEF entry
    <3> QED
      BY <3>1, <3>2, <3>3, Zenon DEF ProcTypeOK
  <2>2. CASE pe_operation[p] = "RESTART" /\ proc_op_run(p)
    <3>1. clixon_process_waitpid /\ sig_child' = FALSE /\ again' = TRUE
      BY <1>1, <2>2 DEF SchedExiting
    <3> QED
      BY <3>1, WaitpidKeeps
  <2>3. CASE ~(pe_operation[p] \in {"STOP", "RESTART"} /\ proc_op_run(p))
    <3>1. UNCHANGED <<entry, os, sig_child, again>>
      BY <1>1, <2>3 DEF SchedExiting
    <3> QED
      BY <3>1 DEF entry, ProcTypeOK
  <2> QED
    BY <2>1, <2>2, <2>3
<1>2. CASE pe_state[p] = "STOPPED" /\ SchedStopped(p)
  <2>1. ~proc_op_run(p) /\ UNCHANGED <<sig_child, again>>
    BY <1>2 DEF SchedStopped, Children, proc_op_run
  <2>2. CASE pe_operation[p] \in {"START", "RESTART"}
    <3>1. /\ clixon_proc_background(p, os)
          /\ pe_state' = [pe_state EXCEPT ![p] = "RUNNING"]
          /\ pe_operation' = [pe_operation EXCEPT ![p] = "NONE"]
      BY <1>2, <2>1, <2>2 DEF SchedStopped
    <3> QED
      BY <2>1, <3>1, ForkKeeps DEF ProcTypeOK, Ops
  <2>3. CASE pe_operation[p] \notin {"START", "RESTART"}
    BY <1>2, <2>1, <2>3 DEF SchedStopped, entry, ProcTypeOK
  <2> QED
    BY <2>2, <2>3
<1>3. CASE pe_state[p] = "RUNNING" /\ SchedRunning(p)
  <2>1. UNCHANGED <<sig_child, again>>
    BY <1>3 DEF SchedRunning
  <2>2. CASE pe_operation[p] = "START" /\ ~proc_op_run(p)
    <3>1. /\ clixon_proc_background(p, os)
          /\ pe_operation' = [pe_operation EXCEPT ![p] = "NONE"]
          /\ pe_state' = pe_state
      BY <1>3, <2>2 DEF SchedRunning
    <3>2. pe_state = [pe_state EXCEPT ![p] = "RUNNING"]
      BY <1>3 DEF Children
    <3> QED
      BY <2>1, <2>2, <3>1, <3>2, ForkKeeps DEF ProcTypeOK, Ops
  <2>3. CASE ~(pe_operation[p] = "START" /\ ~proc_op_run(p))
    BY <1>3, <2>1, <2>3 DEF SchedRunning, entry, ProcTypeOK
  <2> QED
    BY <2>2, <2>3
<1> QED
  BY <1>1, <1>2, <1>3

(* Before any child is forked *)
LEMMA ProcInitInv == ProcInit => ProcInv
<1> SUFFICES ASSUME ProcInit PROVE ProcInv
  OBVIOUS
<1>1. Children(pe_state, pe_pid, os)
  BY ProcessAssumption DEF ProcInit, Children, States, OsStates
<1>2. ProcTypeOK
  <2>1. sched \in 0..MaxSched /\ pos \in 1..(NProc + 1)
    BY ProcessAssumption DEF ProcInit
  <2>2. pe_operation \in [Procs -> Ops]
    BY DEF ProcInit, Ops
  <2>3. enabled \in BOOLEAN /\ sig_child \in BOOLEAN /\ again \in BOOLEAN
    BY Zenon DEF ProcInit
  <2>4. loop \in {"top", "armed", "poll", "eintr", "sched"}
    BY DEF ProcInit
  <2> QED
    BY <1>1, <2>1, <2>2, <2>3, <2>4, Zenon DEF ProcTypeOK, Children, States, OsStates
<1> QED
  BY <1>1, <1>2 DEF ProcInv, ProcInit

(* Every step of the backend and of its children preserves the invariant *)
LEMMA ProcNextInv == ProcInv /\ [ProcNext]_procVars => ProcInv'
<1> SUFFICES ASSUME ProcInv, [ProcNext]_procVars PROVE ProcInv'
  OBVIOUS
<1>0. /\ 0 \notin Pids /\ NProc \in Nat /\ MaxSched \in Nat
      /\ ProcTypeOK
      /\ Children(pe_state, pe_pid, os)
      /\ loop = "sched" => sched < MaxSched
  BY ProcessAssumption DEF ProcInv
<1>a. ASSUME Children(pe_state', pe_pid', os'),
             pe_operation' \in [Procs -> Ops],
             enabled' \in BOOLEAN, sig_child' \in BOOLEAN, again' \in BOOLEAN,
             loop' \in {"top", "armed", "poll", "eintr", "sched"},
             pos' \in 1..(NProc + 1), sched' \in 0..MaxSched,
             loop' = "sched" => sched' < MaxSched
      PROVE  ProcInv'
  BY <1>a DEF ProcInv, ProcTypeOK, Children, States, OsStates
<1>1. ASSUME SchedStart PROVE ProcInv'
  <2>1. /\ UNCHANGED <<enabled, entry, os, sig_child>>
        /\ sched > 0 /\ sched' = sched - 1
        /\ loop' = "sched" /\ pos' = 1 /\ again' = FALSE
    BY <1>1 DEF SchedStart
  <2>2. /\ pos' \in 1..(NProc + 1)
        /\ sched' \in 0..MaxSched
        /\ loop' = "sched" => sched' < MaxSched
    BY <1>0, <2>1 DEF ProcTypeOK
  <2>3. /\ enabled' \in BOOLEAN /\ sig_child' \in BOOLEAN /\ again' \in BOOLEAN
        /\ pe_operation' \in [Procs -> Ops]
        /\ Children(pe_state', pe_pid', os')
    BY <1>0, <2>1 DEF ProcTypeOK, entry
  <2> QED
    BY <1>a, <2>1, <2>2, <2>3
<1>2. ASSUME SchedEntry PROVE ProcInv'
  <2>1. /\ loop = "sched" /\ pos \in Procs /\ pos' = pos + 1
        /\ UNCHANGED <<enabled, sched, loop>>
    BY <1>2 DEF SchedEntry
  <2>2. /\ Children(pe_state', pe_pid', os')
        /\ pe_operation' \in [Procs -> Ops]
        /\ sig_child' \in BOOLEAN
        /\ again' \in BOOLEAN
    <3>1. CASE pe_operation[pos] = "NONE"
      BY <1>0, <1>2, <3>1 DEF SchedEntry, entry, ProcTypeOK
    <3>2. CASE pe_operation[pos] # "NONE"
      <4>1. pe_state[pos] \in {"EXITING", "STOPPED", "RUNNING"}
        BY <1>0, <2>1 DEF ProcTypeOK
      <4>2. \/ pe_state[pos] = "EXITING" /\ SchedExiting(pos)
            \/ pe_state[pos] = "STOPPED" /\ SchedStopped(pos)
            \/ pe_state[pos] = "RUNNING" /\ SchedRunning(pos)
        BY <1>2, <3>2, <4>1 DEF SchedEntry
      <4> QED
        BY <1>0, <2>1, <4>2, SchedKeeps
    <3> QED
      BY <3>1, <3>2
  <2> QED
    BY <1>0, <1>a, <2>1, <2>2 DEF ProcTypeOK, Procs
<1>3. ASSUME SchedDone PROVE ProcInv'
  <2>1. /\ loop = "sched" /\ loop' = "top" /\ again' = FALSE
        /\ sched' \in {sched, sched + 1}
        /\ UNCHANGED <<enabled, entry, os, sig_child, pos>>
    BY <1>3 DEF SchedDone
  <2>2. /\ pos' \in 1..(NProc + 1)
        /\ sched' \in 0..MaxSched
        /\ loop' = "sched" => sched' < MaxSched
    BY <1>0, <2>1 DEF ProcTypeOK
  <2>3. /\ enabled' \in BOOLEAN /\ sig_child' \in BOOLEAN /\ again' \in BOOLEAN
        /\ pe_operation' \in [Procs -> Ops]
        /\ Children(pe_state', pe_pid', os')
    BY <1>0, <2>1 DEF ProcTypeOK, entry
  <2> QED
    BY <1>a, <2>1, <2>2, <2>3
<1>4. ASSUME LoopRound PROVE ProcInv'
  BY <1>0, <1>a, <1>4 DEF LoopRound, entry, ProcTypeOK
<1>5. ASSUME event_handle_eintr PROVE ProcInv'
  <2>1. /\ clixon_process_waitpid
        /\ sig_child' = FALSE /\ loop' = "top"
        /\ UNCHANGED <<enabled, sched, pos, again>>
    BY <1>5 DEF event_handle_eintr
  <2>2. /\ Children(pe_state', pe_pid', os')
        /\ pe_operation' \in [Procs -> Ops]
    BY <1>0, <2>1, WaitpidKeeps
  <2> QED
    BY <1>0, <1>a, <2>1, <2>2 DEF ProcTypeOK
<1>6. ASSUME NEW p \in Procs, NEW op \in Ops, ProcessControl(p, op)
      PROVE  ProcInv'
  <2>1. /\ sched < MaxSched /\ loop' = "top"
        /\ UNCHANGED <<enabled, pe_pid, sig_child, pos, again>>
    BY <1>6 DEF ProcessControl, Handling
  <2>2. CASE clixon_process_operation(p, op)
    BY <1>0, <1>a, <2>1, <2>2, OperationKeeps DEF ProcTypeOK
  <2>3. CASE UNCHANGED <<pe_state, pe_operation, os, sched>>
    BY <1>0, <1>a, <2>1, <2>3 DEF ProcTypeOK
  <2> QED
    BY <1>6, <2>2, <2>3 DEF ProcessControl
<1>7. ASSUME NEW e \in BOOLEAN, RestconfCommit(e) PROVE ProcInv'
  <2>1. /\ sched < MaxSched /\ loop' = "top" /\ enabled' = e
        /\ Restconf \in Procs
        /\ UNCHANGED <<pe_pid, sig_child, pos, again>>
    BY <1>7 DEF RestconfCommit, Handling
  <2>2. \/ \E op \in Ops : clixon_process_operation(Restconf, op)
        \/ UNCHANGED <<pe_state, pe_operation, os, sched>>
    BY <1>7 DEF RestconfCommit, Ops
  <2>3. CASE \E op \in Ops : clixon_process_operation(Restconf, op)
    BY <1>0, <1>a, <2>1, <2>3, OperationKeeps DEF ProcTypeOK
  <2>4. CASE UNCHANGED <<pe_state, pe_operation, os, sched>>
    BY <1>0, <1>a, <2>1, <2>4 DEF ProcTypeOK
  <2> QED
    BY <2>2, <2>3, <2>4
<1>8. ASSUME NEW q \in Pids, ChildEnds(q) PROVE ProcInv'
  <2>1. /\ os[q] # "none" /\ os' = [os EXCEPT ![q] = "zombie"]
        /\ sig_child' = TRUE
        /\ loop' = IF loop = "poll" THEN "eintr" ELSE loop
        /\ UNCHANGED <<enabled, entry, sched, pos, again>>
    BY <1>8 DEF ChildEnds
  <2>2. Children(pe_state', pe_pid', os')
    BY <1>0, <2>1 DEF Children, OsStates, entry
  <2> QED
    BY <1>0, <1>a, <2>1, <2>2 DEF ProcTypeOK, entry
<1>9. ASSUME UNCHANGED procVars PROVE ProcInv'
  BY <1>0, <1>a, <1>9 DEF procVars, entry, ProcTypeOK
<1> QED
  BY <1>1, <1>2, <1>3, <1>4, <1>5, <1>6, <1>7, <1>8, <1>9
  DEF ProcNext, ProcStep

(* Every child of the backend belongs to exactly one process entry, which  *)
(* is not STOPPED, for any number of processes and however requests,       *)
(* timeouts, exits and SIGCHLD interleave (clixon_process_operation,       *)
(* clixon_process_sched, clixon_process_waitpid): no daemon is forked      *)
(* twice for an entry and none is forgotten.                               *)
THEOREM ChildrenAccounted == ProcSpec => []OneChild
<1>1. ProcInv => OneChild
  <2> SUFFICES ASSUME ProcInv, NEW q \in Pids, os[q] # "none"
               PROVE  \E p \in Procs : /\ pe_pid[p] = q
                                       /\ pe_state[p] # "STOPPED"
                                       /\ \A r \in Procs : pe_pid[r] = q => r = p
    BY DEF OneChild
  <2> QED
    BY ProcessAssumption DEF ProcInv, Children
<1> QED
  BY <1>1, ProcInitInv, ProcNextInv, PTL DEF ProcSpec

------------------------------------------------------------------------------
(* The event loop: the rest of the walk is linked in the lists, and the    *)
(* time poll() still waits is that of the first timeout unless it did not  *)
(* fit an int.                                                             *)

Armed ==
    pc \in {"armed", "poll"} =>
      IF timers = <<>> THEN wait < 0
      ELSE LET left == Head(timers).left
           IN  \/ wait < 0 /\ ~select
               \/ wait = left
               \/ ~select /\ left > IntMax + wait

LoopInv == LoopTypeOK /\ WalkSafe /\ Armed

(* The lists as a callback may leave them behind *)
LEMMA UnlinkType ==
    ASSUME NEW S, NEW list \in Seq(S), NEW is \in SUBSET DOMAIN list
    PROVE  Unlink(list, is) \in Seq(S)
<1>1. CASE is = {}
  BY <1>1 DEF Unlink
<1>2. CASE is # {}
  <2>1. is \in SUBSET Nat
    OBVIOUS
  <2>2. First(is) \in is
    BY <1>2, <2>1, LeastNatural DEF First
  <2>3. First(is) \in 1..Len(list)
    BY <2>2
  <2> DEFINE i == First(is)
  <2> HIDE DEF i
  <2>4. SubSeq(list, 1, i - 1) \in Seq(S) /\ SubSeq(list, i + 1, Len(list)) \in Seq(S)
    BY <2>3 DEF i
  <2> QED
    BY <1>2, <2>4 DEF Unlink, i
<1> QED
  BY <1>1, <1>2

(* A list given element by element *)
LEMMA ListOf ==
    ASSUME NEW S, NEW n \in Nat, NEW f,
           f = [i \in 1..n |-> f[i]], \A i \in 1..n : f[i] \in S
    PROVE  f \in Seq(S)
  OBVIOUS

(* An entry with another field *)
LEMMA EntryWith ==
    /\ \A e \in Entries : [e EXCEPT !.pfd = TRUE] \in Entries
    /\ \A t \in [left : Nat, fn : Fns], n \in Nat :
         [t EXCEPT !.left = n] \in [left : Nat, fn : Fns]
  BY DEF Entries

(* The elements of two lists *)
LEMMA RangeConcat ==
    ASSUME NEW S, NEW a \in Seq(S), NEW b \in Seq(S)
    PROVE  Range(a \o b) = Range(a) \union Range(b)
<1>1. ASSUME NEW x \in Range(a \o b) PROVE x \in Range(a) \union Range(b)
  <2>1. PICK i \in 1..(Len(a) + Len(b)) : x = (a \o b)[i]
    BY <1>1 DEF Range
  <2>2. CASE i <= Len(a)
    BY <2>1, <2>2 DEF Range
  <2>3. CASE i > Len(a)
    <3>1. i - Len(a) \in 1..Len(b) /\ x = b[i - Len(a)]
      BY <2>1, <2>3
    <3> QED
      BY <3>1 DEF Range
  <2> QED
    BY <2>2, <2>3
<1>2. ASSUME NEW x \in Range(a) PROVE x \in Range(a \o b)
  <2>1. PICK i \in 1..Len(a) : x = a[i]
    BY <1>2 DEF Range
  <2>2. i \in DOMAIN (a \o b) /\ (a \o b)[i] = x
    BY <2>1
  <2> QED
    BY <2>2 DEF Range
<1>3. ASSUME NEW x \in Range(b) PROVE x \in Range(a \o b)
  <2>1. PICK i \in 1..Len(b) : x = b[i]
    BY <1>3 DEF Range
  <2>2. i + Len(a) \in DOMAIN (a \o b) /\ (a \o b)[i + Len(a)] = x
    BY <2>1
  <2> QED
    BY <2>2 DEF Range
<1> QED
  BY <1>1, <1>2, <1>3

(* What is left of a list is part of it *)
LEMMA RangeSuffix ==
    ASSUME NEW S, NEW a \in Seq(S), NEW i \in 1..Len(a)
    PROVE  /\ SubSeq(a, i + 1, Len(a)) \in Seq(S)
           /\ Range(SubSeq(a, i + 1, Len(a))) \subseteq Range(a)
<1> DEFINE b == SubSeq(a, i + 1, Len(a))
<1>1. /\ b \in Seq(S)
      /\ Len(b) = Len(a) - i
      /\ \A j \in 1..Len(b) : b[j] = a[j + i] /\ j + i \in 1..Len(a)
  OBVIOUS
<1> HIDE DEF b
<1>2. ASSUME NEW x \in Range(b) PROVE x \in Range(a)
  <2>1. PICK j \in 1..Len(b) : x = b[j]
    BY <1>1, <1>2 DEF Range
  <2>2. j + i \in DOMAIN a /\ x = a[j + i]
    BY <1>1, <2>1
  <2> QED
    BY <2>2 DEF Range
<1> QED
  BY <1>1, <1>2 DEF b

(* poll() waits for the time left if an int holds it, and otherwise for    *)
(* less by a multiple of 2^32 ms, or for ever                              *)
LEMMA Int32Wait ==
    ASSUME NEW t \in Nat, IntMax \in Nat
    PROVE  /\ Int32(t) \in Int
           /\ Int32(t) = t \/ Int32(t) < 0 \/ t > IntMax + Int32(t)
<1> DEFINE M == 2 * (IntMax + 1)
           a == t + IntMax + 1
<1>1. M \in Nat /\ M > 0 /\ a \in Nat
  OBVIOUS
<1> HIDE DEF M, a
<1>2. a % M \in Nat /\ a % M < M /\ a % M <= a
  BY <1>1
<1>3. a >= M => a % M <= a - M
  BY <1>1
<1>4. a < M => a % M = a
  BY <1>1
<1> QED
  BY <1>2, <1>3, <1>4 DEF Int32, M, a

(* A callback leaves the lists p and l behind: the walk goes on over what  *)
(* is left of the list, or is given up.                                    *)
LEMMA ServedSafe ==
    ASSUME LoopInv, AtCallback,
           NEW p \in Seq(Entries), NEW l \in Seq(Entries),
           NEW unreg \in BOOLEAN, Served(p, l, unreg),
           unreg \/ Range(ee_prio \o ee) \subseteq Range(p \o l)
    PROVE  /\ ee_prio' \in Seq(Entries)
           /\ ee' \in Seq(Entries)
           /\ todo' \in Seq(Entries)
           /\ input' \subseteq Fds
           /\ Range(todo') \subseteq Range(ee_prio' \o ee')
<1> DEFINE i == First(Due)
           e == todo[i]
           prioExists == \E x \in Range(p \o l) : x.prio
<1>0. /\ todo \in Seq(Entries) /\ input \subseteq Fds
      /\ pc \in {"prio", "unprio"}
      /\ Range(todo) \subseteq Range(ee_prio \o ee)
      /\ Due # {}
  BY DEF LoopInv, LoopTypeOK, WalkSafe, AtCallback
<1>1. i \in 1..Len(todo)
  <2>1. Due \in SUBSET Nat /\ Due \subseteq 1..Len(todo)
    BY <1>0 DEF Due
  <2> QED
    BY <1>0, <2>1, LeastNatural DEF First
<1>2. e \in Entries
  BY <1>0, <1>1
<1>3. /\ input' \subseteq input
      /\ ee_prio' = p
      /\ ee' = IF pc = "unprio" /\ prioExists /\ ~unreg THEN Rotate(l, e) ELSE l
      /\ todo' = Rest(unreg, prioExists)
  BY DEF Served
<1> HIDE DEF i, e, prioExists
<1>4. Rotate(l, e) \in Seq(Entries)
  <2> DEFINE is == {k \in DOMAIN l : l[k] = e}
  <2>1. Unlink(l, is) \in Seq(Entries)
    BY UnlinkType
  <2>2. Rotate(l, e) \in {l, Append(Unlink(l, is), e)}
    BY DEF Rotate
  <2> HIDE DEF is
  <2> QED
    BY <1>2, <2>1, <2>2
<1>5. CASE unreg \/ (pc = "unprio" /\ prioExists)
  <2>1. todo' = <<>>
    BY <1>3, <1>5 DEF Rest
  <2>2. todo' \in Seq(Entries) /\ Range(todo') = {}
    BY <2>1 DEF Range
  <2> QED
    BY <1>0, <1>3, <1>4, <2>2
<1>6. CASE ~(unreg \/ (pc = "unprio" /\ prioExists))
  <2>1. todo' = SubSeq(todo, i + 1, Len(todo)) /\ ee' = l
    BY <1>3, <1>6 DEF Rest, i
  <2>2. todo' \in Seq(Entries) /\ Range(todo') \subseteq Range(todo)
    BY <1>0, <1>1, <2>1, RangeSuffix
  <2> QED
    BY <1>0, <1>3, <1>6, <2>1, <2>2
<1> QED
  BY <1>5, <1>6

(* A new entry is put first in one of the lists *)
LEMMA RegFdKeeps ==
    ASSUME NEW l \in Seq(Entries), NEW fd \in Fds, NEW prio \in BOOLEAN
    PROVE  /\ RegFd(l, fd, prio) \in Seq(Entries)
           /\ Range(l) \subseteq Range(RegFd(l, fd, prio))
<1> DEFINE a == <<Entry(fd, prio)>>
<1>1. a \in Seq(Entries)
  BY DEF Entry, Entries
<1>2. RegFd(l, fd, prio) = a \o l
  BY DEF RegFd
<1> HIDE DEF a
<1>3. Range(a \o l) = Range(a) \union Range(l)
  BY <1>1, RangeConcat
<1> QED
  BY <1>1, <1>2, <1>3

(* The timeouts stay a list of timeouts *)
LEMMA RegTimeoutType ==
    ASSUME NEW l \in Seq([left : Nat, fn : Fns]), NEW d \in Nat, NEW fn \in Fns
    PROVE  RegTimeout(l, d, fn) \in Seq([left : Nat, fn : Fns])
<1> DEFINE is == {j \in DOMAIN l : d < l[j].left} \union {Len(l) + 1}
           i == First(is)
           T == [left : Nat, fn : Fns]
           t == [left |-> d, fn |-> fn]
<1>1. i \in 1..(Len(l) + 1)
  <2>1. is \in SUBSET (1..(Len(l) + 1)) /\ is # {}
    OBVIOUS
  <2> HIDE DEF is
  <2>2. is \in SUBSET Nat
    BY <2>1
  <2>3. First(is) \in is
    BY <2>1, <2>2, LeastNatural DEF First
  <2> QED
    BY <2>1, <2>3
<1>2. t \in T
  OBVIOUS
<1>3. RegTimeout(l, d, fn) = SubSeq(l, 1, i - 1) \o <<t>> \o SubSeq(l, i, Len(l))
  BY DEF RegTimeout
<1> HIDE DEF is, i, T, t
<1>4. l \in Seq(T)
  BY DEF T
<1>5. SubSeq(l, 1, i - 1) \in Seq(T) /\ SubSeq(l, i, Len(l)) \in Seq(T)
  BY <1>1, <1>4
<1>6. RegTimeout(l, d, fn) \in Seq(T)
  BY <1>2, <1>3, <1>5
<1> QED
  BY <1>6 DEF T

(* The loop before its first round *)
LEMMA LoopInitInv == LoopInit => LoopInv
<1> SUFFICES ASSUME LoopInit PROVE LoopInv
  OBVIOUS
<1>1. {ee_prio, ee, todo} \subseteq Seq(Entries)
  <2>1. PICK fd \in Fds, p \in BOOLEAN :
          /\ ee_prio = IF p /\ ~select THEN <<Entry(fd, TRUE)>> ELSE <<>>
          /\ ee = IF p /\ ~select THEN <<>> ELSE <<Entry(fd, p)>>
    BY DEF LoopInit
  <2>2. Entry(fd, TRUE) \in Entries /\ Entry(fd, p) \in Entries
    BY DEF Entry, Entries
  <2>3. \A e \in Entries : <<e>> \in Seq(Entries)
    OBVIOUS
  <2>4. <<>> \in Seq(Entries)
    OBVIOUS
  <2>5. todo \in Seq(Entries)
    BY DEF LoopInit
  <2> QED
    BY <2>1, <2>2, <2>3, <2>4, <2>5, Zenon
<1>2. timers \in Seq([left : Nat, fn : Fns]) /\ select \in BOOLEAN
  BY DEF LoopInit
<1>3. exit \in 0..3 /\ regs \in 0..MaxRegs /\ wait \in Int
  BY EventLoopAssumption DEF LoopInit
<1>4. rev \subseteq Fds /\ input \subseteq Fds /\ pc = "top"
  BY DEF LoopInit
<1> QED
  BY <1>1, <1>2, <1>3, <1>4 DEF LoopInv, LoopTypeOK, WalkSafe, Armed

(* Every step of the loop, its callbacks and the world around it preserves *)
(* the invariant.                                                          *)
LEMMA LoopNextInv == LoopInv /\ [LoopNext]_loopVars => LoopInv'
<1> SUFFICES ASSUME LoopInv, [LoopNext]_loopVars PROVE LoopInv'
  OBVIOUS
<1> DEFINE T == [left : Nat, fn : Fns]
<1>0. /\ select \in BOOLEAN
      /\ ee_prio \in Seq(Entries) /\ ee \in Seq(Entries) /\ todo \in Seq(Entries)
      /\ timers \in Seq(T)
      /\ exit \in 0..3 /\ regs \in 0..MaxRegs /\ wait \in Int
      /\ pc \in {"top", "armed", "poll", "prio", "unprio", "stop"}
      /\ rev \subseteq Fds /\ input \subseteq Fds
      /\ WalkSafe /\ Armed
  BY DEF LoopInv, LoopTypeOK
<1>b. IntMax \in Nat /\ MaxRegs \in Nat /\ Delays \subseteq Nat
  BY EventLoopAssumption
<1>a. ASSUME select' \in BOOLEAN,
             ee_prio' \in Seq(Entries), ee' \in Seq(Entries),
             todo' \in Seq(Entries), timers' \in Seq(T),
             exit' \in 0..3, regs' \in 0..MaxRegs, wait' \in Int,
             pc' \in {"top", "armed", "poll", "prio", "unprio", "stop"},
             rev' \subseteq Fds, input' \subseteq Fds,
             WalkSafe', Armed'
      PROVE  LoopInv'
  BY <1>a DEF LoopInv, LoopTypeOK
<1> HIDE DEF T
(* A callback of the walk *)
<1>c. ASSUME AtCallback,
             NEW p \in Seq(Entries), NEW l \in Seq(Entries),
             NEW unreg \in BOOLEAN, Served(p, l, unreg),
             unreg \/ Range(ee_prio \o ee) \subseteq Range(p \o l),
             timers' \in Seq(T), exit' \in 0..3, regs' \in 0..MaxRegs,
             pc' \in {pc, "stop"}, UNCHANGED <<select, rev, wait>>
      PROVE  LoopInv'
  <2>1. pc' \in {"prio", "unprio", "stop"}
    BY <1>c DEF AtCallback
  <2>2. /\ ee_prio' \in Seq(Entries) /\ ee' \in Seq(Entries)
        /\ todo' \in Seq(Entries) /\ input' \subseteq Fds
        /\ Range(todo') \subseteq Range(ee_prio' \o ee')
    BY <1>c, ServedSafe
  <2>3. WalkSafe' /\ Armed'
    BY <2>1, <2>2 DEF WalkSafe, Armed
  <2> QED
    BY <1>0, <1>a, <1>c, <2>1, <2>2, <2>3
<1>1. ASSUME LoopTop PROVE LoopInv'
  <2>0. /\ pc = "top" /\ pc' \in {"stop", "armed"}
        /\ UNCHANGED <<select, timers, exit, todo, rev, input, regs>>
    BY <1>1 DEF LoopTop
  <2>1. CASE exit = 1
    <3>1. pc' = "stop" /\ UNCHANGED <<ee_prio, ee, wait>>
      BY <1>1, <2>1 DEF LoopTop
    <3>2. WalkSafe' /\ Armed'
      BY <3>1 DEF WalkSafe, Armed
    <3> QED
      BY <1>0, <1>a, <2>0, <3>1, <3>2
  <2>2. CASE exit # 1
    <3>1. /\ pc' = "armed" /\ wait' = PollTimeout
          /\ ee_prio' = [i \in DOMAIN ee_prio |-> [ee_prio[i] EXCEPT !.pfd = TRUE]]
          /\ ee' = [i \in DOMAIN ee |-> [ee[i] EXCEPT !.pfd = TRUE]]
      BY <1>1, <2>2 DEF LoopTop
    <3>2. ee_prio' \in Seq(Entries) /\ ee' \in Seq(Entries)
      <4>1. ASSUME NEW l \in Seq(Entries)
            PROVE  [i \in DOMAIN l |-> [l[i] EXCEPT !.pfd = TRUE]] \in Seq(Entries)
        <5> DEFINE m == [i \in DOMAIN l |-> [l[i] EXCEPT !.pfd = TRUE]]
        <5>1. Len(l) \in Nat /\ m = [i \in 1..Len(l) |-> m[i]]
          OBVIOUS
        <5>2. ASSUME NEW i \in 1..Len(l) PROVE m[i] \in Entries
          <6>1. i \in DOMAIN l /\ l[i] \in Entries
            OBVIOUS
          <6>2. m[i] = [l[i] EXCEPT !.pfd = TRUE]
            BY <6>1, Zenon
          <6> QED
            BY <6>1, <6>2, EntryWith
        <5> HIDE DEF m
        <5> QED
          BY <5>1, <5>2, ListOf DEF m
      <4> QED
        BY <1>0, <3>1, <4>1
    <3>3. CASE timers = <<>>
      <4>1. wait' = -1
        BY <3>1, <3>3 DEF PollTimeout
      <4>2. WalkSafe' /\ Armed' /\ wait' \in Int
        BY <2>0, <3>1, <3>3, <4>1 DEF WalkSafe, Armed
      <4> QED
        BY <1>0, <1>a, <2>0, <3>1, <3>2, <4>2
    <3>4. CASE timers # <<>>
      <4> DEFINE left == Head(timers).left
      <4>1. left \in Nat
        <5>1. Head(timers) \in T
          BY <1>0, <3>4
        <5> QED
          BY <5>1 DEF T
      <4>2. wait' = IF select THEN left ELSE Int32(left)
        BY <3>1, <3>4 DEF PollTimeout
      <4> HIDE DEF left
      <4>3. /\ wait' \in Int
            /\ \/ wait' < 0 /\ ~select
               \/ wait' = left
               \/ ~select /\ left > IntMax + wait'
        BY <1>b, <4>1, <4>2, Int32Wait
      <4>4. WalkSafe' /\ Armed'
        BY <2>0, <3>1, <3>4, <4>3 DEF WalkSafe, Armed, left
      <4> QED
        BY <1>0, <1>a, <2>0, <3>1, <3>2, <4>3, <4>4
    <3> QED
      BY <3>3, <3>4
  <2> QED
    BY <2>1, <2>2
<1>2. ASSUME EnterPoll PROVE LoopInv'
  <2>1. /\ pc = "armed" /\ pc' = "poll"
        /\ UNCHANGED <<select, ee_prio, ee, timers, exit, todo, rev, wait, input, regs>>
    BY <1>2 DEF EnterPoll
  <2>2. WalkSafe' /\ Armed'
    BY <1>0, <2>1 DEF WalkSafe, Armed
  <2> QED
    BY <1>0, <1>a, <2>1, <2>2
<1>3. ASSUME PollEvents PROVE LoopInv'
  <2>1. /\ pc' \in {"stop", "prio"}
        /\ rev' = Ready
        /\ todo' = (IF select THEN ee ELSE ee_prio)
        /\ UNCHANGED <<select, ee_prio, ee, timers, exit, wait, input, regs>>
    BY <1>3 DEF PollEvents
  <2>2. rev' \subseteq Fds
    BY <1>0, <2>1 DEF Ready
  <2>3. todo' \in Seq(Entries) /\ Range(todo') \subseteq Range(ee_prio \o ee)
    BY <1>0, <2>1, RangeConcat
  <2>4. WalkSafe' /\ Armed'
    BY <2>1, <2>3 DEF WalkSafe, Armed
  <2> QED
    BY <1>0, <1>a, <2>1, <2>2, <2>3, <2>4
<1>4. ASSUME PollExpires PROVE LoopInv'
  <2>1. /\ pc = "poll" /\ wait = 0
        /\ pc' \in {"stop", "prio"} /\ rev' = {} /\ todo' = <<>>
        /\ UNCHANGED <<select, ee_prio, ee, exit, wait, input>>
    BY <1>4 DEF PollExpires
  <2>2. timers # <<>>
    BY <1>0, <2>1 DEF Armed
  <2>3. Tail(timers) \in Seq(T)
    BY <1>0, <2>2
  <2>4. timers' \in Seq(T) /\ regs' \in 0..MaxRegs
    <3>1. CASE UNCHANGED <<timers, regs>>
      BY <1>0, <3>1
    <3>2. CASE timers' = Tail(timers) /\ UNCHANGED regs
      BY <1>0, <2>3, <3>2
    <3>3. CASE \E d \in Delays, fn \in Fns :
                 /\ regs < MaxRegs
                 /\ regs' = regs + 1
                 /\ timers' = RegTimeout(Tail(timers), d, fn)
      <4>1. PICK d \in Delays, fn \in Fns :
               /\ regs < MaxRegs
               /\ regs' = regs + 1
               /\ timers' = RegTimeout(Tail(timers), d, fn)
        BY <3>3
      <4>2. d \in Nat
        BY <1>b
      <4>3. timers' \in Seq(T)
        BY <2>3, <4>1, <4>2, RegTimeoutType DEF T
      <4> QED
        BY <1>0, <1>b, <4>1, <4>3
    <3> QED
      BY <1>4, <3>1, <3>2, <3>3 DEF PollExpires
  <2>5. todo' \in Seq(Entries) /\ Range(todo') = {}
    BY <2>1 DEF Range
  <2>6. WalkSafe' /\ Armed'
    BY <2>1, <2>5 DEF WalkSafe, Armed
  <2> QED
    BY <1>0, <1>a, <2>1, <2>4, <2>5, <2>6
<1>5. ASSUME WalkEnds PROVE LoopInv'
  <2>1. /\ pc \in {"prio", "unprio"}
        /\ UNCHANGED <<select, ee_prio, ee, timers, rev, wait, input, regs>>
    BY <1>5 DEF WalkEnds
  <2>2. CASE pc = "prio"
    <3>1. pc' = "unprio" /\ todo' = ee /\ exit' = exit
      BY <1>5, <2>2 DEF WalkEnds
    <3>2. Range(ee) \subseteq Range(ee_prio \o ee)
      BY <1>0, RangeConcat
    <3>3. WalkSafe' /\ Armed'
      BY <2>1, <3>1, <3>2 DEF WalkSafe, Armed
    <3> QED
      BY <1>0, <1>a, <2>1, <3>1, <3>3
  <2>3. CASE pc # "prio"
    <3>1. pc' = "top" /\ todo' = <<>> /\ exit' = Decr(exit)
      BY <1>5, <2>3 DEF WalkEnds
    <3>2. exit' \in 0..3 /\ todo' \in Seq(Entries)
      BY <1>0, <3>1 DEF Decr
    <3>3. WalkSafe' /\ Armed'
      BY <3>1 DEF WalkSafe, Armed
    <3> QED
      BY <1>0, <1>a, <2>1, <3>1, <3>2, <3>3
  <2> QED
    BY <2>2, <2>3
<1>6. ASSUME Callback PROVE LoopInv'
  BY <1>0, <1>c, <1>6 DEF Callback
<1>7. ASSUME CallbackRegFd PROVE LoopInv'
  <2>1. /\ AtCallback /\ regs' \in 0..MaxRegs
        /\ UNCHANGED <<select, timers, exit, pc, rev, wait>>
    BY <1>0, <1>b, <1>7 DEF CallbackRegFd
  <2>2. PICK fd \in Fds, prio \in BOOLEAN :
          IF prio /\ ~select THEN Served(RegFd(ee_prio, fd, prio), ee, FALSE)
          ELSE Served(ee_prio, RegFd(ee, fd, prio), FALSE)
    BY <1>7 DEF CallbackRegFd
  <2>3. CASE prio /\ ~select
    <3> DEFINE p == RegFd(ee_prio, fd, prio)
    <3>1. p \in Seq(Entries) /\ Range(ee_prio) \subseteq Range(p)
      BY <1>0, RegFdKeeps
    <3>2. Served(p, ee, FALSE)
      BY <2>2, <2>3
    <3> HIDE DEF p
    <3>3. Range(ee_prio \o ee) \subseteq Range(p \o ee)
      BY <1>0, <3>1, RangeConcat
    <3> QED
      BY <1>0, <1>c, <2>1, <3>1, <3>2, <3>3
  <2>4. CASE ~(prio /\ ~select)
    <3> DEFINE l == RegFd(ee, fd, prio)
    <3>1. l \in Seq(Entries) /\ Range(ee) \subseteq Range(l)
      BY <1>0, RegFdKeeps
    <3>2. Served(ee_prio, l, FALSE)
      BY <2>2, <2>4
    <3> HIDE DEF l
    <3>3. Range(ee_prio \o ee) \subseteq Range(ee_prio \o l)
      BY <1>0, <3>1, RangeConcat
    <3> QED
      BY <1>0, <1>c, <2>1, <3>1, <3>2, <3>3
  <2> QED
    BY <2>3, <2>4
<1>8. ASSUME CallbackUnregFd PROVE LoopInv'
  <2>1. /\ AtCallback
        /\ UNCHANGED <<select, timers, exit, pc, rev, wait, regs>>
    BY <1>8 DEF CallbackUnregFd
  <2>2. PICK fd \in Registered :
          Served(UnregFd(ee_prio, fd), UnregFd(ee, fd), TRUE)
    BY <1>8 DEF CallbackUnregFd
  <2> DEFINE p == UnregFd(ee_prio, fd)
             l == UnregFd(ee, fd)
  <2>3. p \in Seq(Entries) /\ l \in Seq(Entries)
    BY <1>0, UnlinkType DEF UnregFd
  <2> HIDE DEF p, l
  <2>4. Served(p, l, TRUE)
    BY <2>2 DEF p, l
  <2> QED
    BY <1>0, <1>c, <2>1, <2>3, <2>4
<1>9. ASSUME CallbackTimeout PROVE LoopInv'
  <2>1. /\ AtCallback /\ Served(ee_prio, ee, FALSE)
        /\ regs < MaxRegs /\ regs' = regs + 1
        /\ UNCHANGED <<select, exit, pc, rev, wait>>
    BY <1>9 DEF CallbackTimeout
  <2>2. timers' \in Seq(T)
    <3>1. PICK d \in Delays, fn \in Fns : timers' = RegTimeout(timers, d, fn)
      BY <1>9 DEF CallbackTimeout
    <3>2. d \in Nat
      BY <1>b
    <3> QED
      BY <1>0, <3>1, <3>2, RegTimeoutType DEF T
  <2>3. regs' \in 0..MaxRegs
    BY <1>0, <1>b, <2>1
  <2> QED
    BY <1>0, <1>c, <2>1, <2>2, <2>3
<1>10. ASSUME CallbackCancel PROVE LoopInv'
  <2>1. /\ AtCallback /\ Served(ee_prio, ee, FALSE)
        /\ UNCHANGED <<select, exit, pc, rev, wait, regs>>
    BY <1>10 DEF CallbackCancel
  <2>2. timers' \in Seq(T)
    BY <1>0, <1>10, UnlinkType DEF CallbackCancel, UnregTimeout
  <2> QED
    BY <1>0, <1>c, <2>1, <2>2
<1>11. ASSUME CallbackError PROVE LoopInv'
  BY <1>0, <1>c, <1>11 DEF CallbackError
<1>12. ASSUME CallbackExit PROVE LoopInv'
  <2>1. /\ AtCallback /\ Served(ee_prio, ee, FALSE)
        /\ UNCHANGED <<select, timers, pc, rev, wait>>
    BY <1>12 DEF CallbackExit
  <2>2. exit' \in 0..3 /\ regs' \in 0..MaxRegs
    BY <1>0, <1>b, <1>12 DEF CallbackExit
  <2> QED
    BY <1>0, <1>c, <2>1, <2>2
<1>13. ASSUME Signal PROVE LoopInv'
  <2>1. /\ exit' = 1 /\ pc' \in {pc, "stop"}
        /\ UNCHANGED <<select, ee_prio, ee, timers, todo, rev, wait, input, regs>>
    BY <1>13 DEF Signal
  <2>2. WalkSafe' /\ Armed'
    BY <1>0, <2>1 DEF WalkSafe, Armed
  <2> QED
    BY <1>0, <1>a, <2>1, <2>2
<1>14. ASSUME Input PROVE LoopInv'
  <2>1. UNCHANGED <<select, ee_prio, ee, timers, exit, pc, todo, rev, wait, regs>>
    BY <1>14 DEF Input
  <2>2. input' \subseteq Fds
    <3>1. PICK fd \in Registered : input' = input \union {fd}
      BY <1>14 DEF Input
    <3>2. PICK e \in Range(ee_prio \o ee) : fd = e.fd
      BY DEF Registered
    <3>3. Range(ee_prio) \subseteq Entries /\ Range(ee) \subseteq Entries
      BY <1>0 DEF Range
    <3>4. e \in Entries
      BY <1>0, <3>2, <3>3, RangeConcat
    <3> QED
      BY <1>0, <3>1, <3>2, <3>4 DEF Entries
  <2>3. WalkSafe' /\ Armed'
    BY <1>0, <2>1 DEF WalkSafe, Armed
  <2> QED
    BY <1>0, <1>a, <2>1, <2>2, <2>3
<1>15. ASSUME Tick PROVE LoopInv'
  <2>1. /\ pc = "top" \/ (pc = "poll" /\ wait # 0)
        /\ timers' = [i \in DOMAIN timers |-> [timers[i] EXCEPT !.left = Earlier(@)]]
        /\ wait' = Earlier(wait)
        /\ UNCHANGED <<select, ee_prio, ee, exit, pc, todo, rev, input, regs>>
    BY <1>15 DEF Tick
  <2>2. wait' \in Int /\ wait' = (IF wait > 0 THEN wait - 1 ELSE wait)
    BY <1>0, <2>1 DEF Earlier
  <2>3. \A i \in DOMAIN timers : timers[i] \in T /\ Earlier(timers[i].left) \in Nat
    <3> SUFFICES ASSUME NEW i \in DOMAIN timers
                 PROVE  timers[i] \in T /\ Earlier(timers[i].left) \in Nat
      OBVIOUS
    <3>1. timers[i] \in T
      BY <1>0
    <3>2. timers[i].left \in Nat
      BY <3>1 DEF T
    <3> QED
      BY <3>1, <3>2 DEF Earlier
  <2>4. timers' \in Seq(T)
    <3>1. DOMAIN timers' = 1..Len(timers) /\ Len(timers) \in Nat
      BY <1>0, <2>1
    <3>2. ASSUME NEW i \in 1..Len(timers) PROVE timers'[i] \in T
      <4>1. i \in DOMAIN timers
        BY <1>0
      <4>2. timers'[i] = [timers[i] EXCEPT !.left = Earlier(timers[i].left)]
        BY <2>1, <4>1
      <4>3. timers[i] \in T /\ Earlier(timers[i].left) \in Nat
        BY <2>3, <4>1
      <4> QED
        BY <4>2, <4>3, EntryWith DEF T
    <3>3. timers' = [i \in 1..Len(timers) |-> timers'[i]]
      BY <2>1, <3>1
    <3> QED
      BY <3>1, <3>2, <3>3, ListOf
  <2>5. Armed'
    <3>1. CASE timers = <<>>
      <4>1. timers' = <<>>
        BY <2>1, <3>1
      <4> QED
        BY <1>0, <2>1, <2>2, <3>1, <4>1 DEF Armed
    <3>2. CASE timers # <<>>
      <4> DEFINE left == Head(timers).left
                 next == Head(timers').left
      <4>1. timers' # <<>> /\ left \in Nat
            /\ next = (IF left > 0 THEN left - 1 ELSE left)
        BY <1>0, <2>1, <2>3, <2>4, <3>2 DEF T, Earlier
      <4>2. pc \in {"armed", "poll"} =>
              \/ wait < 0 /\ ~select
              \/ wait = left
              \/ ~select /\ left > IntMax + wait
        BY <1>0, <3>2 DEF Armed
      <4> HIDE DEF left, next
      <4>3. pc' \in {"armed", "poll"} =>
              \/ wait' < 0 /\ ~select'
              \/ wait' = next
              \/ ~select' /\ next > IntMax + wait'
        <5>1. select' = select /\ pc' = pc
          BY <2>1
        <5>3. wait < 0 => wait' < 0
          BY <1>0, <2>2
        <5>4. wait = left => wait' = next
          BY <1>0, <2>2, <4>1
        <5>5. wait > 0 /\ left > IntMax + wait => next > IntMax + wait'
          BY <1>0, <1>b, <2>2, <4>1
        <5>6. pc \in {"armed", "poll"} => wait < 0 \/ wait > 0
          BY <1>0, <2>1
        <5> QED
          BY <4>2, <5>1, <5>3, <5>4, <5>5, <5>6, Zenon
      <4> QED
        BY <4>1, <4>3 DEF Armed, next
    <3> QED
      BY <3>1, <3>2
  <2>6. WalkSafe'
    BY <2>1 DEF WalkSafe
  <2> QED
    BY <1>0, <1>a, <2>1, <2>2, <2>4, <2>5, <2>6
<1>16. ASSUME UNCHANGED loopVars PROVE LoopInv'
  <2>1. WalkSafe' /\ Armed'
    BY <1>0, <1>16 DEF loopVars, WalkSafe, Armed
  <2> QED
    BY <1>0, <1>a, <1>16, <2>1 DEF loopVars
<1> QED
  BY <1>1, <1>2, <1>3, <1>4, <1>5, <1>6, <1>7, <1>8, <1>9, <1>10, <1>11,
     <1>12, <1>13, <1>14, <1>15, <1>16
  DEF LoopNext, LoopStep

(* The invariant holds in all behaviours *)
LEMMA LoopInvariance == LoopSpec => []LoopInv
  BY LoopInitInv, LoopNextInv, PTL DEF LoopSpec

(* No entry that a callback freed is followed: whatever callbacks register *)
(* and unregister while event_handle_fds, or the loop with select(), walks *)
(* a list, the rest of the walk is linked in the lists.                    *)
THEOREM WalksAreSafe == LoopSpec => []WalkSafe
<1>1. LoopInv => WalkSafe
  BY DEF LoopInv
<1> QED
  BY <1>1, LoopInvariance, PTL

(* A timeout the loop calls is due, and there is one to call, unless the   *)
(* time left did not fit the int of milliseconds that poll() takes.        *)
THEOREM TimeoutsAreDue == LoopSpec => TimeoutDue
<1>1. LoopInv /\ [LoopNext]_loopVars =>
        [PollExpires /\ timers' # timers =>
           Head(timers).left = 0 \/ (~select /\ Head(timers).left > IntMax)]_loopVars
  <2> SUFFICES ASSUME LoopInv, PollExpires
               PROVE  Head(timers).left = 0 \/ (~select /\ Head(timers).left > IntMax)
    OBVIOUS
  <2>1. pc = "poll" /\ wait = 0
    BY DEF PollExpires
  <2>2. timers # <<>>
    BY <2>1 DEF LoopInv, Armed
  <2>3. Head(timers).left = 0 \/ (~select /\ Head(timers).left > IntMax + 0)
    BY <2>1, <2>2 DEF LoopInv, Armed
  <2> QED
    BY <2>3, EventLoopAssumption
<1> QED
  BY <1>1, LoopInvariance, PTL DEF LoopSpec, TimeoutDue

------------------------------------------------------------------------------
(* Transactions.  What holds for every number of plugins and every set of   *)
(* configurations.  The properties speak of the states between              *)
(* transactions; the invariants below say what holds in every phase.        *)

Undecided == {"idle", "begin", "generic", "validate", "complete", "end", "abort"}

Accepted == {"validate", "complete", "commit", "commit_failed", "revert",
             "commit_done", "copy"}

(* Which plugins have committed: the prefix below cp, in reverse as well   *)
CommittedPrefix ==
    /\ phase \in {"begin", "generic", "validate", "complete"} => committed = {}
    /\ phase \in {"commit", "commit_failed"} => committed = 0..(cp - 1)
    /\ phase = "commit_failed" => cp < N
    /\ phase = "revert" => /\ cp < N
                           /\ \/ 0..cp \subseteq committed
                              \/ cp = 0 /\ committed = {}
    /\ phase \in {"commit_done", "copy"} => committed = Plugins

(* What the devices have: target below cp, running above, and either at cp *)
DevicesFollow ==
    faults \subseteq {"end"} =>
        /\ phase \in Undecided => \A p \in Plugins : device[p] = running
        /\ phase \in {"commit", "commit_failed", "revert"} =>
             \A p \in Plugins :
               /\ p < cp => device[p] = target
               /\ p > cp => device[p] = running
        /\ phase = "commit" /\ cp < N => device[cp] = running
        /\ phase \in {"commit_failed", "revert"} =>
             device[cp] \in {running, target}
        /\ phase \in {"commit_done", "copy"} =>
             \A p \in Plugins : device[p] = target

(* Plugins that have been told of the end have left open *)
OpenAhead ==
    /\ phase \in {"end", "abort"} => \A p \in open : p >= cp
    /\ phase = "idle" /\ "end" \notin faults => open = {}

TargetValid ==
    /\ running \in Valid
    /\ phase \in Accepted => target \in Valid

IInv == TypeOK /\ CommittedPrefix /\ DevicesFollow /\ OpenAhead /\ TargetValid

------------------------------------------------------------------------------

(* The invariant holds before the first transaction *)
LEMMA InitIInv == Init => IInv
<1> SUFFICES ASSUME Init PROVE IInv
  OBVIOUS
<1>1. TypeOK
  <2>1. phase \in Phases /\ cp \in 0..N
    BY TransactionAssumption DEF Init, Phases
  <2>4. commits \in BOOLEAN
    BY Zenon DEF Init
  <2>2. /\ target \in Configs
        /\ running \in Configs
        /\ device \in [Plugins -> Configs]
    BY TransactionAssumption DEF Init
  <2>3. committed = {} /\ open = {} /\ faults = {}
    BY DEF Init
  <2> QED
    BY <2>1, <2>2, <2>3, <2>4 DEF TypeOK
<1>2. CommittedPrefix
  BY DEF Init, CommittedPrefix
<1>3. DevicesFollow
  BY DEF Init, DevicesFollow, Plugins
<1>4. OpenAhead /\ TargetValid
  BY DEF Init, OpenAhead, TargetValid, Accepted
<1> QED
  BY <1>1, <1>2, <1>3, <1>4 DEF IInv

(* Every step preserves the types *)
LEMMA TypeStep == ASSUME IInv, [Next]_vars PROVE TypeOK'
<1> DEFINE Place == phase \in Phases /\ cp \in 0..N
           Values == /\ commits \in BOOLEAN
                     /\ target \in Configs
                     /\ running \in Configs
           Books == /\ committed \subseteq Plugins
                    /\ open \subseteq Plugins
                    /\ faults \subseteq Faults
           Devices == device \in [Plugins -> Configs]
<1>0. /\ Place /\ Values /\ Books /\ Devices
      /\ cp < N => cp \in Plugins
  BY TransactionAssumption DEF IInv, TypeOK, Plugins
<1>1. ASSUME NEW kind \in BOOLEAN, NEW config \in Configs, Start(kind, config)
      PROVE  TypeOK'
  <2>1. Place'
    BY <1>1, <1>0, TransactionAssumption DEF IInv, Phases, Start, Goto
  <2>2. Values'
    BY <1>1, <1>0, TransactionAssumption DEF Start, Goto
  <2>3. Books'
    BY <1>1, <1>0 DEF Faults, Start, Goto
  <2>4. Devices'
    BY <1>1, <1>0, TransactionAssumption DEF IInv, Start, Goto
  <2> QED
    BY <2>1, <2>2, <2>3, <2>4 DEF TypeOK
<1>2. ASSUME NEW ok \in BOOLEAN, Begin(ok)
      PROVE  TypeOK'
  <2>1. Place'
    BY <1>2, <1>0, TransactionAssumption
    DEF IInv, Phases, Begin, Calling, Called, Abort, Goto
  <2>2. Values'
    BY <1>2, <1>0, TransactionAssumption
    DEF Begin, Calling, Called, Abort, Goto
  <2>3. Books'
    BY <1>2, <1>0 DEF Faults, Begin, Calling, Called, Abort, Goto
  <2>4. Devices'
    BY <1>2, <1>0, TransactionAssumption
    DEF IInv, Begin, Calling, Called, Abort, Goto
  <2> QED
    BY <2>1, <2>2, <2>3, <2>4 DEF TypeOK
<1>3. ASSUME NEW ok \in BOOLEAN, Check(ok)
      PROVE  TypeOK'
  <2>1. Place'
    BY <1>3, <1>0, TransactionAssumption
    DEF IInv, Phases, Check, Calling, Called, Abort, Goto
  <2>2. Values'
    BY <1>3, <1>0, TransactionAssumption
    DEF Check, Calling, Called, Abort, Goto
  <2>3. Books'
    BY <1>3, <1>0 DEF Faults, Check, Calling, Called, Abort, Goto
  <2>4. Devices'
    BY <1>3, <1>0, TransactionAssumption
    DEF IInv, Check, Calling, Called, Abort, Goto
  <2> QED
    BY <2>1, <2>2, <2>3, <2>4 DEF TypeOK
<1>4. ASSUME NEW ok \in BOOLEAN, CommitOne(ok)
      PROVE  TypeOK'
  <2>1. Place'
    BY <1>4, <1>0, TransactionAssumption
    DEF IInv, Phases, CommitOne, Calling, Called, Applied
  <2>2. Values'
    BY <1>4, <1>0, TransactionAssumption
    DEF CommitOne, Calling, Called, Applied
  <2>3. Books'
    BY <1>4, <1>0 DEF Faults, CommitOne, Calling, Called, Applied
  <2>4. Devices'
    BY <1>4, <1>0, TransactionAssumption
    DEF IInv, CommitOne, Calling, Called, Applied
  <2> QED
    BY <2>1, <2>2, <2>3, <2>4 DEF TypeOK
<1>5. ASSUME NEW ok \in BOOLEAN, CommitFailed(ok)
      PROVE  TypeOK'
  <2>1. Place'
    BY <1>5, <1>0, TransactionAssumption
    DEF IInv, Phases, CommitFailed, Applied, RevertStart, CommittedPrefix
  <2>2. Values'
    BY <1>5, <1>0, TransactionAssumption
    DEF CommitFailed, Applied, RevertStart, CommittedPrefix
  <2>3. Books'
    BY <1>5, <1>0, Zenon
    DEF Faults, CommitFailed, Applied, RevertStart, CommittedPrefix
  <2>4. Devices'
    BY <1>5, <1>0, TransactionAssumption
    DEF IInv, CommitFailed, Applied, RevertStart, CommittedPrefix
  <2> QED
    BY <2>1, <2>2, <2>3, <2>4 DEF TypeOK
<1>6. ASSUME NEW ok \in BOOLEAN, Revert(ok)
      PROVE  TypeOK'
  <2>1. Place'
    BY <1>6, <1>0, TransactionAssumption
    DEF IInv, Phases, Revert, Applied, Abort, Goto, CommittedPrefix
  <2>2. Values'
    BY <1>6, <1>0, TransactionAssumption
    DEF Revert, Applied, Abort, Goto, CommittedPrefix
  <2>3. Books'
    BY <1>6, <1>0, Zenon
    DEF Faults, Revert, Applied, Abort, Goto, CommittedPrefix
  <2>4. Devices'
    BY <1>6, <1>0, TransactionAssumption
    DEF IInv, Revert, Applied, Abort, Goto, CommittedPrefix
  <2> QED
    BY <2>1, <2>2, <2>3, <2>4 DEF TypeOK
<1>7. ASSUME NEW ok \in BOOLEAN, CommitDone(ok)
      PROVE  TypeOK'
  <2>1. Place'
    BY <1>7, <1>0, TransactionAssumption
    DEF IInv, Phases, CommitDone, Calling, Called, Abort, Goto
  <2>2. Values'
    BY <1>7, <1>0, TransactionAssumption
    DEF CommitDone, Calling, Called, Abort, Goto
  <2>3. Books'
    BY <1>7, <1>0, Zenon DEF Faults, CommitDone, Calling, Called, Abort, Goto
  <2>4. Devices'
    BY <1>7, <1>0, TransactionAssumption
    DEF IInv, CommitDone, Calling, Called, Abort, Goto
  <2> QED
    BY <2>1, <2>2, <2>3, <2>4 DEF TypeOK
<1>8. ASSUME NEW ok \in BOOLEAN, Copy(ok)
      PROVE  TypeOK'
  <2>1. Place'
    BY <1>8, <1>0, TransactionAssumption DEF IInv, Phases, Copy, Abort, Goto
  <2>2. Values'
    BY <1>8, <1>0, TransactionAssumption DEF Copy, Abort, Goto
  <2>3. Books'
    BY <1>8, <1>0, Zenon DEF Faults, Copy, Abort, Goto
  <2>4. Devices'
    BY <1>8, <1>0, TransactionAssumption DEF IInv, Copy, Abort, Goto
  <2> QED
    BY <2>1, <2>2, <2>3, <2>4 DEF TypeOK
<1>9. ASSUME NEW ok \in BOOLEAN, End(ok)
      PROVE  TypeOK'
  <2>1. Place'
    BY <1>9, <1>0, TransactionAssumption
    DEF IInv, Phases, End, Calling, Called, Goto
  <2>2. Values'
    BY <1>9, <1>0, TransactionAssumption DEF End, Calling, Called, Goto
  <2>3. Books'
    BY <1>9, <1>0, Zenon DEF Faults, End, Calling, Called, Goto
  <2>4. Devices'
    BY <1>9, <1>0, TransactionAssumption DEF IInv, End, Calling, Called, Goto
  <2> QED
    BY <2>1, <2>2, <2>3, <2>4 DEF TypeOK
<1>10. CASE generic_validate
  <2>1. Place'
    BY <1>10, <1>0, TransactionAssumption
    DEF IInv, Phases, generic_validate, Abort, Goto
  <2>2. Values'
    BY <1>10, <1>0, TransactionAssumption DEF generic_validate, Abort, Goto
  <2>3. Books'
    BY <1>10, <1>0 DEF Faults, generic_validate, Abort, Goto
  <2>4. Devices'
    BY <1>10, <1>0, TransactionAssumption
    DEF IInv, generic_validate, Abort, Goto
  <2> QED
    BY <2>1, <2>2, <2>3, <2>4 DEF TypeOK
<1>11. CASE AbortOne
  <2>1. Place'
    BY <1>11, <1>0, TransactionAssumption
    DEF IInv, Phases, AbortOne, Calling, Called
  <2>2. Values'
    BY <1>11, <1>0, TransactionAssumption DEF AbortOne, Calling, Called
  <2>3. Books'
    BY <1>11, <1>0 DEF Faults, AbortOne, Calling, Called
  <2>4. Devices'
    BY <1>11, <1>0, TransactionAssumption DEF IInv, AbortOne, Calling, Called
  <2> QED
    BY <2>1, <2>2, <2>3, <2>4 DEF TypeOK
<1>12. CASE PhaseDone
  <2>1. Place'
    BY <1>12, <1>0, TransactionAssumption
    DEF IInv, Phases, PhaseDone, AllCalled, Goto
  <2>2. Values'
    BY <1>12, <1>0, TransactionAssumption DEF PhaseDone, AllCalled, Goto
  <2>3. Books'
    BY <1>12, <1>0 DEF Faults, PhaseDone, AllCalled, Goto
  <2>4. Devices'
    BY <1>12, <1>0, TransactionAssumption DEF IInv, PhaseDone, AllCalled, Goto
  <2> QED
    BY <2>1, <2>2, <2>3, <2>4 DEF TypeOK
<1>13. CASE UNCHANGED vars
  <2>1. Place'
    BY <1>13, <1>0, TransactionAssumption DEF IInv, Phases, vars
  <2>2. Values'
    BY <1>13, <1>0, TransactionAssumption DEF vars
  <2>3. Books'
    BY <1>13, <1>0 DEF Faults, vars
  <2>4. Devices'
    BY <1>13, <1>0, TransactionAssumption DEF IInv, vars
  <2> QED
    BY <2>1, <2>2, <2>3, <2>4 DEF TypeOK
<1> HIDE DEF Place, Values, Books, Devices
<1> QED
  BY <1>1, <1>2, <1>3, <1>4, <1>5, <1>6, <1>7, <1>8, <1>9, <1>10, <1>11,
     <1>12, <1>13
  DEF Next, Step

(* The commit callbacks are made in order, and reverted in reverse order *)
LEMMA CommittedPrefixStep == ASSUME IInv, [Next]_vars PROVE CommittedPrefix'
<1> USE TransactionAssumption
<1>0. CommittedPrefix /\ cp \in 0..N
  BY DEF IInv, TypeOK
<1>1. ASSUME NEW kind \in BOOLEAN, NEW config \in Configs, Start(kind, config)
      PROVE  CommittedPrefix'
  BY <1>1, <1>0 DEF CommittedPrefix, Start, Goto, Plugins
<1>2. ASSUME NEW ok \in BOOLEAN, Begin(ok)
      PROVE  CommittedPrefix'
  BY <1>2, <1>0
  DEF CommittedPrefix, Begin, Calling, Called, Abort, Goto, Plugins
<1>3. ASSUME NEW ok \in BOOLEAN, Check(ok)
      PROVE  CommittedPrefix'
  BY <1>3, <1>0
  DEF CommittedPrefix, Check, Calling, Called, Abort, Goto, Plugins
<1>4. ASSUME NEW ok \in BOOLEAN, CommitOne(ok)
      PROVE  CommittedPrefix'
  <2>1. phase = "commit" /\ cp \in 0..(N - 1) /\ committed = 0..(cp - 1)
    BY <1>4, <1>0 DEF CommittedPrefix, CommitOne, Calling
  <2>2. CASE ok
    <3>1. phase' = "commit" /\ cp' = cp + 1 /\ committed' = committed \union {cp}
      BY <1>4, <2>1, <2>2 DEF CommitOne, Called
    <3>2. committed' = 0..(cp' - 1)
      BY <2>1, <3>1
    <3> QED
      BY <3>1, <3>2 DEF CommittedPrefix
  <2>3. CASE ~ok
    <3>1. phase' = "commit_failed" /\ cp' = cp /\ committed' = committed
      BY <1>4, <2>3 DEF CommitOne
    <3> QED
      BY <2>1, <3>1 DEF CommittedPrefix
  <2> QED
    BY <2>2, <2>3
<1>5. ASSUME NEW ok \in BOOLEAN, CommitFailed(ok)
      PROVE  CommittedPrefix'
  BY <1>5, <1>0
  DEF CommittedPrefix, CommitFailed, Applied, RevertStart, Plugins
<1>6. ASSUME NEW ok \in BOOLEAN, Revert(ok)
      PROVE  CommittedPrefix'
  BY <1>6, <1>0 DEF CommittedPrefix, Revert, Applied, Abort, Goto, Plugins
<1>7. ASSUME NEW ok \in BOOLEAN, CommitDone(ok)
      PROVE  CommittedPrefix'
  BY <1>7, <1>0
  DEF CommittedPrefix, CommitDone, Calling, Called, Abort, Goto, Plugins
<1>8. ASSUME NEW ok \in BOOLEAN, Copy(ok)
      PROVE  CommittedPrefix'
  BY <1>8, <1>0 DEF CommittedPrefix, Copy, Abort, Goto, Plugins
<1>9. ASSUME NEW ok \in BOOLEAN, End(ok)
      PROVE  CommittedPrefix'
  BY <1>9, <1>0 DEF CommittedPrefix, End, Calling, Called, Goto, Plugins
<1>10. CASE generic_validate
  BY <1>10, <1>0 DEF CommittedPrefix, generic_validate, Abort, Goto, Plugins
<1>11. CASE AbortOne
  BY <1>11, <1>0 DEF CommittedPrefix, AbortOne, Calling, Called, Plugins
<1>12. CASE PhaseDone
  BY <1>12, <1>0 DEF CommittedPrefix, PhaseDone, AllCalled, Goto, Plugins
<1>13. CASE UNCHANGED vars
  BY <1>13, <1>0 DEF CommittedPrefix, vars, Plugins
<1> QED
  BY <1>1, <1>2, <1>3, <1>4, <1>5, <1>6, <1>7, <1>8, <1>9, <1>10, <1>11,
     <1>12, <1>13
  DEF Next, Step

(* The iterators of end and abort reach every plugin *)
LEMMA OpenAheadStep == ASSUME IInv, [Next]_vars PROVE OpenAhead'
<1> USE TransactionAssumption
<1>0. OpenAhead /\ cp \in 0..N /\ open \subseteq Plugins
  BY DEF IInv, TypeOK
<1>1. ASSUME NEW kind \in BOOLEAN, NEW config \in Configs, Start(kind, config)
      PROVE  OpenAhead'
  BY <1>1, <1>0 DEF OpenAhead, Start, Goto, Plugins
<1>2. ASSUME NEW ok \in BOOLEAN, Begin(ok)
      PROVE  OpenAhead'
  <2>1. CASE ok
    BY <1>2, <2>1 DEF OpenAhead, Begin, Calling, Called
  <2>2. CASE ~ok
    <3>1. phase' = "abort" /\ cp' = 0 /\ open' = open
      BY <1>2, <2>2 DEF Begin, Abort, Goto
    <3>2. \A p \in open : p >= 0
      BY <1>0 DEF Plugins
    <3> QED
      BY <3>1, <3>2 DEF OpenAhead
  <2> QED
    BY <2>1, <2>2
<1>3. ASSUME NEW ok \in BOOLEAN, Check(ok)
      PROVE  OpenAhead'
  BY <1>3, <1>0 DEF OpenAhead, Check, Calling, Called, Abort, Goto, Plugins
<1>4. ASSUME NEW ok \in BOOLEAN, CommitOne(ok)
      PROVE  OpenAhead'
  BY <1>4, <1>0 DEF OpenAhead, CommitOne, Calling, Called, Applied, Plugins
<1>5. ASSUME NEW ok \in BOOLEAN, CommitFailed(ok)
      PROVE  OpenAhead'
  BY <1>5, <1>0 DEF OpenAhead, CommitFailed, Applied, RevertStart, Plugins
<1>6. ASSUME NEW ok \in BOOLEAN, Revert(ok)
      PROVE  OpenAhead'
  BY <1>6, <1>0 DEF OpenAhead, Revert, Applied, Abort, Goto, Plugins
<1>7. ASSUME NEW ok \in BOOLEAN, CommitDone(ok)
      PROVE  OpenAhead'
  BY <1>7, <1>0
  DEF OpenAhead, CommitDone, Calling, Called, Abort, Goto, Plugins
<1>8. ASSUME NEW ok \in BOOLEAN, Copy(ok)
      PROVE  OpenAhead'
  BY <1>8, <1>0 DEF OpenAhead, Copy, Abort, Goto, Plugins
<1>9. ASSUME NEW ok \in BOOLEAN, End(ok)
      PROVE  OpenAhead'
  <2>1. CASE ok
    <3>1. /\ phase = "end" /\ phase' = "end"
          /\ cp' = cp + 1
          /\ open' = open \ {cp}
      BY <1>9, <2>1 DEF End, Calling, Called
    <3>2. \A p \in open : p \in Int /\ p >= cp
      BY <1>0, <3>1 DEF OpenAhead, Plugins
    <3>3. \A p \in open' : p >= cp'
      BY <1>0, <3>1, <3>2
    <3> QED
      BY <3>1, <3>3 DEF OpenAhead
  <2>2. CASE ~ok
    BY <1>9, <2>2 DEF OpenAhead, End, Goto
  <2> QED
    BY <2>1, <2>2
<1>10. CASE generic_validate
  BY <1>10, <1>0 DEF OpenAhead, generic_validate, Abort, Goto, Plugins
<1>11. CASE AbortOne
  BY <1>11, <1>0 DEF OpenAhead, AbortOne, Calling, Called, Plugins
<1>12. CASE PhaseDone
  BY <1>12, <1>0 DEF OpenAhead, PhaseDone, AllCalled, Goto, Plugins
<1>13. CASE UNCHANGED vars
  BY <1>13, <1>0 DEF OpenAhead, vars, Plugins
<1> QED
  BY <1>1, <1>2, <1>3, <1>4, <1>5, <1>6, <1>7, <1>8, <1>9, <1>10, <1>11,
     <1>12, <1>13
  DEF Next, Step

(* Only what generic_validate accepts gets past it *)
LEMMA TargetValidStep == ASSUME IInv, [Next]_vars PROVE TargetValid'
<1> USE TransactionAssumption
<1>0. TargetValid
  BY DEF IInv, TypeOK
<1>1. ASSUME NEW kind \in BOOLEAN, NEW config \in Configs, Start(kind, config)
      PROVE  TargetValid'
  BY <1>1, <1>0 DEF TargetValid, Start, Goto, Accepted
<1>2. ASSUME NEW ok \in BOOLEAN, Begin(ok)
      PROVE  TargetValid'
  BY <1>2, <1>0 DEF TargetValid, Begin, Calling, Called, Abort, Goto, Accepted
<1>3. ASSUME NEW ok \in BOOLEAN, Check(ok)
      PROVE  TargetValid'
  BY <1>3, <1>0 DEF TargetValid, Check, Calling, Called, Abort, Goto, Accepted
<1>4. ASSUME NEW ok \in BOOLEAN, CommitOne(ok)
      PROVE  TargetValid'
  BY <1>4, <1>0 DEF TargetValid, CommitOne, Calling, Called, Applied, Accepted
<1>5. ASSUME NEW ok \in BOOLEAN, CommitFailed(ok)
      PROVE  TargetValid'
  BY <1>5, <1>0 DEF TargetValid, CommitFailed, Applied, RevertStart, Accepted
<1>6. ASSUME NEW ok \in BOOLEAN, Revert(ok)
      PROVE  TargetValid'
  BY <1>6, <1>0 DEF TargetValid, Revert, Applied, Abort, Goto, Accepted
<1>7. ASSUME NEW ok \in BOOLEAN, CommitDone(ok)
      PROVE  TargetValid'
  BY <1>7, <1>0
  DEF TargetValid, CommitDone, Calling, Called, Abort, Goto, Accepted
<1>8. ASSUME NEW ok \in BOOLEAN, Copy(ok)
      PROVE  TargetValid'
  BY <1>8, <1>0 DEF TargetValid, Copy, Abort, Goto, Accepted
<1>9. ASSUME NEW ok \in BOOLEAN, End(ok)
      PROVE  TargetValid'
  BY <1>9, <1>0 DEF TargetValid, End, Calling, Called, Goto, Accepted
<1>10. CASE generic_validate
  BY <1>10, <1>0 DEF TargetValid, generic_validate, Abort, Goto, Accepted
<1>11. CASE AbortOne
  BY <1>11, <1>0 DEF TargetValid, AbortOne, Calling, Called, Accepted
<1>12. CASE PhaseDone
  BY <1>12, <1>0 DEF TargetValid, PhaseDone, AllCalled, Goto, Accepted
<1>13. CASE UNCHANGED vars
  BY <1>13, <1>0 DEF TargetValid, vars, Accepted
<1> QED
  BY <1>1, <1>2, <1>3, <1>4, <1>5, <1>6, <1>7, <1>8, <1>9, <1>10, <1>11,
     <1>12, <1>13
  DEF Next, Step

(* A device changes only when its plugin is called *)
LEMMA DevicesFollowStep == ASSUME IInv, [Next]_vars PROVE DevicesFollow'
<1> USE TransactionAssumption
<1>0. /\ DevicesFollow
      /\ CommittedPrefix
      /\ cp \in 0..N
      /\ device \in [Plugins -> Configs]
  BY DEF IInv, TypeOK
<1>1. ASSUME NEW kind \in BOOLEAN, NEW config \in Configs, Start(kind, config)
      PROVE  DevicesFollow'
  BY <1>1, <1>0 DEF DevicesFollow, Start, Goto, Plugins, Undecided
<1>2. ASSUME NEW ok \in BOOLEAN, Begin(ok)
      PROVE  DevicesFollow'
  BY <1>2, <1>0
  DEF DevicesFollow, Begin, Calling, Called, Abort, Goto, Plugins, Undecided
<1>3. ASSUME NEW ok \in BOOLEAN, Check(ok)
      PROVE  DevicesFollow'
  BY <1>3, <1>0
  DEF DevicesFollow, Check, Calling, Called, Abort, Goto, Plugins, Undecided
<1>4. ASSUME NEW ok \in BOOLEAN, CommitOne(ok)
      PROVE  DevicesFollow'
  BY <1>4, <1>0
  DEF DevicesFollow, CommitOne, Calling, Called, Applied, Plugins, Undecided
<1>5. ASSUME NEW ok \in BOOLEAN, CommitFailed(ok)
      PROVE  DevicesFollow'
  <2>1. phase = "commit_failed" /\ phase' = "revert"
    BY <1>5 DEF CommitFailed
  <2>2. CASE ~ok
    BY <1>5, <2>1, <2>2 DEF CommitFailed, DevicesFollow
  <2>3. CASE ok /\ faults \subseteq {"end"}
    <3>1. cp \in Plugins
      BY <1>0, <2>1 DEF CommittedPrefix, Plugins
    <3>2. /\ \A p \in Plugins : /\ p < cp => device[p] = target
                                /\ p > cp => device[p] = running
          /\ device[cp] \in {running, target}
      BY <1>0, <2>1, <2>3 DEF DevicesFollow
    <3>3. device' = [device EXCEPT ![cp] = running]
      BY <1>5, <2>3, <3>2 DEF CommitFailed, Applied
    <3>4. cp' = (IF cp = 0 THEN 0 ELSE cp - 1) /\ UNCHANGED <<target, running>>
      BY <1>5 DEF CommitFailed, RevertStart
    <3>5. \A p \in Plugins : device'[p] = IF p = cp THEN running ELSE device[p]
      BY <1>0, <3>3
    <3>6. ASSUME NEW p \in Plugins
          PROVE  /\ p < cp' => device'[p] = target
                 /\ p > cp' => device'[p] = running
                 /\ p = cp' => device'[p] \in {running, target}
      BY <3>1, <3>2, <3>4, <3>5 DEF Plugins
    <3>7. cp' \in Plugins
      BY <3>1, <3>4, TransactionAssumption DEF Plugins
    <3> QED
      BY <2>1, <3>4, <3>6, <3>7 DEF DevicesFollow, Undecided
  <2>4. CASE ok /\ ~(faults \subseteq {"end"})
    BY <1>5, <2>4, Zenon DEF CommitFailed, DevicesFollow
  <2> QED
    BY <2>2, <2>3, <2>4
<1>6. ASSUME NEW ok \in BOOLEAN, Revert(ok)
      PROVE  DevicesFollow'
  <2>1. phase = "revert"
    BY <1>6 DEF Revert
  <2>2. CASE ~ok
    BY <1>6, <2>2 DEF Revert, DevicesFollow
  <2>3. CASE ok /\ faults \subseteq {"end"}
    <3>1. cp \in Plugins
      BY <1>0, <2>1 DEF CommittedPrefix, Plugins
    <3>2. /\ \A p \in Plugins : /\ p < cp => device[p] = target
                                /\ p > cp => device[p] = running
          /\ device[cp] \in {running, target}
      BY <1>0, <2>1, <2>3 DEF DevicesFollow
    <3>3. device' = [device EXCEPT ![cp] = running]
      BY <1>6, <2>3, <3>2 DEF Revert, Applied
    <3>4. UNCHANGED <<target, running>>
      BY <1>6 DEF Revert
    <3>5. CASE cp = 0
      <4>1. phase' = "abort"
        BY <1>6, <2>3, <3>5 DEF Revert, Abort, Goto
      <4> QED
        BY <1>0, <3>1, <3>2, <3>3, <3>4, <3>5, <4>1 DEF DevicesFollow, Plugins
    <3>6. CASE cp # 0
      <4>1. phase' = "revert" /\ cp' = cp - 1
        BY <1>6, <2>1, <2>3, <3>6 DEF Revert
      <4>2. \A p \in Plugins : device'[p] = IF p = cp THEN running ELSE device[p]
        BY <1>0, <3>3
      <4>3. ASSUME NEW p \in Plugins
            PROVE  /\ p < cp' => device'[p] = target
                   /\ p > cp' => device'[p] = running
                   /\ p = cp' => device'[p] \in {running, target}
        BY <3>1, <3>2, <4>1, <4>2 DEF Plugins
      <4>4. cp' \in Plugins
        BY <3>1, <3>6, <4>1 DEF Plugins
      <4> QED
        BY <3>4, <4>1, <4>3, <4>4 DEF DevicesFollow, Undecided
    <3> QED
      BY <3>5, <3>6
  <2>4. CASE ok /\ ~(faults \subseteq {"end"})
    BY <1>6, <2>4, Zenon DEF Revert, DevicesFollow
  <2> QED
    BY <2>2, <2>3, <2>4
<1>7. ASSUME NEW ok \in BOOLEAN, CommitDone(ok)
      PROVE  DevicesFollow'
  BY <1>7, <1>0, Zenon
  DEF DevicesFollow, CommitDone, Calling, Called, Abort, Goto, Plugins,
      Undecided
<1>8. ASSUME NEW ok \in BOOLEAN, Copy(ok)
      PROVE  DevicesFollow'
  BY <1>8, <1>0, Zenon DEF DevicesFollow, Copy, Abort, Goto, Plugins, Undecided
<1>9. ASSUME NEW ok \in BOOLEAN, End(ok)
      PROVE  DevicesFollow'
  BY <1>9, <1>0, Zenon
  DEF DevicesFollow, End, Calling, Called, Goto, Plugins, Undecided
<1>10. CASE generic_validate
  BY <1>10, <1>0
  DEF DevicesFollow, generic_validate, Abort, Goto, Plugins, Undecided
<1>11. CASE AbortOne
  BY <1>11, <1>0
  DEF DevicesFollow, AbortOne, Calling, Called, Plugins, Undecided
<1>12. CASE PhaseDone
  BY <1>12, <1>0
  DEF DevicesFollow, PhaseDone, AllCalled, Goto, Plugins, Undecided
<1>13. CASE UNCHANGED vars
  BY <1>13, <1>0 DEF DevicesFollow, vars, Plugins, Undecided
<1> QED
  BY <1>1, <1>2, <1>3, <1>4, <1>5, <1>6, <1>7, <1>8, <1>9, <1>10, <1>11,
     <1>12, <1>13
  DEF Next, Step

------------------------------------------------------------------------------

(* The invariant holds in all behaviours *)
LEMMA Inductive == Spec => []IInv
<1>1. IInv /\ [Next]_vars => IInv'
  BY TypeStep, CommittedPrefixStep, OpenAheadStep, TargetValidStep,
     DevicesFollowStep DEF IInv
<1> QED
  BY InitIInv, <1>1, PTL DEF Spec

(* The variables keep their types, the index of the plugin to call among   *)
(* them: no failure takes an iterator outside the list of plugins.         *)
THEOREM TypeCorrect == Spec => []TypeOK
  BY Inductive, PTL DEF IInv

(* However many plugins there are and wherever they fail, between          *)
(* transactions every device has the running configuration, unless a       *)
(* callback failed that the code does not recover from.                    *)
THEOREM DevicesAgree == Spec => []PluginsAgree
<1>1. IInv => PluginsAgree
  BY DEF IInv, DevicesFollow, PluginsAgree, Undecided
<1> QED
  BY Inductive, <1>1, PTL

(* A plugin that was told of a transaction is told of its end or abort.    *)
THEOREM AllClosed == Spec => []TransactionsClosed
<1>1. IInv => TransactionsClosed
  BY DEF IInv, OpenAhead, TransactionsClosed
<1> QED
  BY Inductive, <1>1, PTL

(* The revert callback is called for plugins that committed, or for the    *)
(* first plugin when none did.                                             *)
THEOREM OnlyCommittedReverted == Spec => []RevertsCommitted
<1>1. IInv => RevertsCommitted
  BY TransactionAssumption
  DEF IInv, TypeOK, CommittedPrefix, RevertsCommitted
<1> QED
  BY Inductive, <1>1, PTL

(* Running is replaced only by a valid configuration that every plugin     *)
(* committed.                                                              *)
THEOREM RunningReplaced == Spec => RunningCommitted
<1>1. ASSUME IInv, [Next]_vars, running' # running
      PROVE  running' \in Valid /\ committed = Plugins
  <2>1. PICK ok \in BOOLEAN : Copy(ok)
    BY <1>1 DEF Next, Step, vars, Start, Begin, Check, CommitOne, CommitFailed,
                Revert, CommitDone, End, generic_validate, AbortOne, PhaseDone
  <2>2. phase = "copy" /\ running' = target
    BY <1>1, <2>1 DEF Copy
  <2> QED
    BY <1>1, <2>2 DEF IInv, CommittedPrefix, TargetValid, Accepted
<1>2. IInv /\ [Next]_vars
        => [running' # running => running' \in Valid /\ committed = Plugins]_vars
  BY <1>1
<1> QED
  BY Inductive, <1>2, PTL DEF Spec, RunningCommitted
==============================================================================
