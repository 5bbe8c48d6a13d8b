------------------------------ MODULE EventLoop ------------------------------
(* The event loop of the daemons (lib/src/clixon_event.c and, with          *)
(* CLICON_EVENT_SELECT, lib/src/clixon_event_select.c): descriptors and     *)
(* timeouts are registered and unregistered by the very callbacks that the  *)
(* loop calls while it walks its lists.  A callback is any of the things a  *)
(* callback of the daemons does to the loop.  Time is what is left until a  *)
(* timeout is due.                                                          *)
EXTENDS Integers, Sequences, Functions

CONSTANTS
    Fds,        \* descriptors
    Fns,        \* function and argument of a timeout
    Delays,     \* how far ahead of now a timeout is registered, ms
    IntMax,     \* INT_MAX: the argument of poll() is an int of milliseconds
    MaxTimers,  \* bound: timeouts registered at a time
    MaxRegs     \* bound: registrations by callbacks

ASSUME EventLoopAssumption ==
    /\ Delays \subseteq Nat
    /\ {IntMax, MaxTimers, MaxRegs} \subseteq Nat

VARIABLES
    select,   \* _event_select: the select() loop instead of the poll() loop
    ee_prio,  \* prioritised descriptors; those of the select loop are in ee
    ee,       \* the other registered descriptors
    timers,   \* _ee_timers, sorted by time
    exit,     \* _clicon_exit: 1 ends the loop, more counts down
    pc,       \* where the loop is
    todo,     \* rest of the list that is walked, from the next entry on
    rev,      \* descriptors whose events poll() returned
    wait,     \* what is left of the time poll() waits; -1: no timeout
    input,    \* descriptors with something to read
    regs      \* registrations so far

loopVars == <<select, ee_prio, ee, timers, exit, pc, todo, rev, wait, input, regs>>

(* struct event_data of a descriptor; pfd: e_pollfd points into the array  *)
(* given to poll()                                                         *)
Entry(fd, prio) == [fd |-> fd, prio |-> prio, pfd |-> FALSE]

Registered == {e.fd : e \in Range(ee_prio \o ee)}

Entries == [fd : Fds, prio : BOOLEAN, pfd : BOOLEAN]

LoopTypeOK ==
    /\ select \in BOOLEAN
    /\ {ee_prio, ee, todo} \subseteq Seq(Entries)
    /\ timers \in Seq([left : Nat, fn : Fns])
    /\ exit \in 0..3
    /\ pc \in {"top", "armed", "poll", "prio", "unprio", "stop"}
    /\ rev \subseteq Fds /\ input \subseteq Fds
    /\ wait \in Int
    /\ regs \in 0..MaxRegs

------------------------------------------------------------------------------
(* Registration *)

(* clixon_event_reg_fd_prio: put first in its list *)
RegFd(list, fd, prio) == <<Entry(fd, prio)>> \o list

First(is) == CHOOSE i \in is : \A j \in is : i <= j

Unlink(list, is) ==
    IF is = {} THEN list
    ELSE SubSeq(list, 1, First(is) - 1) \o SubSeq(list, First(is) + 1, Len(list))

(* clixon_event_unreg_fd: unlink the entry of fd *)
UnregFd(list, fd) == Unlink(list, {i \in DOMAIN list : list[i].fd = fd})

(* clixon_event_reg_timeout: before the first that is due later, which     *)
(* keeps the list sorted                                                   *)
RegTimeout(list, d, fn) ==
    LET i == First({j \in DOMAIN list : d < list[j].left} \union {Len(list) + 1})
    IN  SubSeq(list, 1, i - 1) \o <<[left |-> d, fn |-> fn]>> \o SubSeq(list, i, Len(list))

(* clixon_event_unreg_timeout: the first with the function and argument *)
UnregTimeout(list, fn) == Unlink(list, {i \in DOMAIN list : list[i].fn = fn})

------------------------------------------------------------------------------
(* One round of the loop *)

(* An int of milliseconds: what (int)tdiff makes of the time left *)
Int32(t) == ((t + IntMax + 1) % (2 * (IntMax + 1))) - (IntMax + 1)

(* How long poll() waits: until the first timeout; a negative argument     *)
(* means for ever.  select() takes the time as it is.                      *)
PollTimeout ==
    IF timers = <<>> THEN -1
    ELSE IF select THEN Head(timers).left
    ELSE Int32(Head(timers).left)

(* The loop's condition, and the array of descriptors for poll() *)
LoopTop ==
    /\ pc = "top"
    /\ IF exit = 1
       THEN pc' = "stop" /\ UNCHANGED <<ee_prio, ee, wait>>
       ELSE /\ pc' = "armed"
            /\ wait' = PollTimeout
            /\ ee_prio' = [i \in DOMAIN ee_prio |-> [ee_prio[i] EXCEPT !.pfd = TRUE]]
            /\ ee' = [i \in DOMAIN ee |-> [ee[i] EXCEPT !.pfd = TRUE]]
    /\ UNCHANGED <<select, timers, exit, todo, rev, input, regs>>

EnterPoll ==
    /\ pc = "armed"
    /\ pc' = "poll"
    /\ UNCHANGED <<select, ee_prio, ee, timers, exit, todo, rev, wait, input, regs>>

Ready == input \intersect Registered

(* Entries the walk serves: those with events returned for them.  An entry *)
(* registered after poll() has no e_pollfd; select() has only the number.  *)
Due ==
    {i \in DOMAIN todo :
       /\ todo[i].fd \in rev
       /\ IF select THEN todo[i].prio = (pc = "prio") ELSE todo[i].pfd}

PollEvents ==
    /\ pc = "poll" /\ Ready # {}
    /\ pc' = IF select /\ exit = 1 THEN "stop" ELSE "prio"
    /\ rev' = Ready
    /\ todo' = IF select THEN ee ELSE ee_prio
    /\ UNCHANGED <<select, ee_prio, ee, timers, exit, wait, input, regs>>

(* n = 0: the first timeout is taken off the list and called.  It may      *)
(* register itself or another one again.                                   *)
PollExpires ==
    /\ pc = "poll" /\ Ready = {} /\ wait = 0
    /\ pc' = IF select /\ exit = 1 THEN "stop" ELSE "prio"
    /\ rev' = {}
    /\ todo' = <<>>
    /\ IF select /\ exit = 1
       THEN UNCHANGED <<timers, regs>>
       ELSE \/ timers' = Tail(timers) /\ UNCHANGED regs
            \/ \E d \in Delays, fn \in Fns :
                 /\ regs < MaxRegs
                 /\ regs' = regs + 1
                 /\ timers' = RegTimeout(Tail(timers), d, fn)
    /\ UNCHANGED <<select, ee_prio, ee, exit, wait, input>>

(* SIGTERM or SIGINT: the handler sets the exit flag, and poll() returns   *)
(* EINTR only if the loop is in it                                         *)
Signal ==
    /\ pc # "stop" /\ exit = 0
    /\ exit' = 1
    /\ pc' = IF pc = "poll" THEN "stop" ELSE pc
    /\ UNCHANGED <<select, ee_prio, ee, timers, todo, rev, wait, input, regs>>

------------------------------------------------------------------------------
(* Callbacks *)

(* Mutant: the entry served stays where it is *)
Rotate_not(list, e) == list

(* event_unprio_rotate *)
Rotate(list, e) ==
    LET is == {i \in DOMAIN list : list[i] = e}
    IN  IF is = {} THEN list ELSE Append(Unlink(list, is), e)

(* Mutant: the walk goes on after a descriptor was unregistered *)
Rest_goes_on(unreg, prioExists) ==
    IF pc = "unprio" /\ prioExists THEN <<>>
    ELSE SubSeq(todo, First(Due) + 1, Len(todo))

(* The walk is given up when the callback unregistered a descriptor        *)
(* (_ee_unreg), and after one of the unprioritised when others exist       *)
Rest(unreg, prioExists) ==
    IF unreg \/ (pc = "unprio" /\ prioExists) THEN <<>>
    ELSE SubSeq(todo, First(Due) + 1, Len(todo))

(* event_handle_fds: the callback of the next entry with events has read   *)
(* its input and left the lists p and l behind                             *)
Served(p, l, unreg) ==
    LET e == todo[First(Due)]
        prioExists == \E x \in Range(p \o l) : x.prio
    IN  /\ input' = (input \ {e.fd}) \intersect {x.fd : x \in Range(p \o l)}
        /\ ee_prio' = p
        /\ ee' = IF pc = "unprio" /\ prioExists /\ ~unreg THEN Rotate(l, e) ELSE l
        /\ todo' = Rest(unreg, prioExists)

(* The next callback of the walk; the select loop looks at the exit flag   *)
(* before each                                                             *)
AtCallback ==
    /\ pc \in {"prio", "unprio"} /\ Due # {}
    /\ ~(select /\ exit = 1)

Callback ==
    /\ AtCallback
    /\ Served(ee_prio, ee, FALSE)
    /\ UNCHANGED <<select, timers, exit, pc, rev, wait, regs>>

CallbackRegFd ==
    /\ AtCallback /\ regs < MaxRegs
    /\ \E fd \in Fds \ Registered, prio \in BOOLEAN :
         IF prio /\ ~select THEN Served(RegFd(ee_prio, fd, prio), ee, FALSE)
         ELSE Served(ee_prio, RegFd(ee, fd, prio), FALSE)
    /\ regs' = regs + 1
    /\ UNCHANGED <<select, timers, exit, pc, rev, wait>>

(* A client that goes away, or is killed by another session *)
CallbackUnregFd ==
    /\ AtCallback
    /\ \E fd \in Registered : Served(UnregFd(ee_prio, fd), UnregFd(ee, fd), TRUE)
    /\ UNCHANGED <<select, timers, exit, pc, rev, wait, regs>>

CallbackTimeout ==
    /\ AtCallback /\ regs < MaxRegs /\ Len(timers) < MaxTimers
    /\ Served(ee_prio, ee, FALSE)
    /\ \E d \in Delays, fn \in Fns : timers' = RegTimeout(timers, d, fn)
    /\ regs' = regs + 1
    /\ UNCHANGED <<select, exit, pc, rev, wait>>

CallbackCancel ==
    /\ AtCallback /\ timers # <<>>
    /\ Served(ee_prio, ee, FALSE)
    /\ \E fn \in Fns : timers' = UnregTimeout(timers, fn)
    /\ UNCHANGED <<select, exit, pc, rev, wait, regs>>

(* A callback that returns -1 ends the loop *)
CallbackError ==
    /\ AtCallback
    /\ Served(ee_prio, ee, FALSE)
    /\ pc' = "stop"
    /\ UNCHANGED <<select, timers, exit, rev, wait, regs>>

(* A callback ends the daemon (end of file of the one connection), or, in  *)
(* an upgrade to http/2, puts the end off by some rounds                   *)
CallbackExit ==
    /\ AtCallback
    /\ Served(ee_prio, ee, FALSE)
    /\ \/ exit = 0 /\ exit' = 1 /\ UNCHANGED regs
       \/ exit = 1 /\ exit' = 3 /\ regs < MaxRegs /\ regs' = regs + 1
    /\ UNCHANGED <<select, timers, pc, rev, wait>>

(* Mutant: the count stops short of the end *)
Decr_short(n) == IF n > 2 THEN n - 1 ELSE n

(* clixon_exit_decr *)
Decr(n) == IF n > 1 THEN n - 1 ELSE n

WalkEnds ==
    /\ pc \in {"prio", "unprio"}
    /\ Due = {} \/ (select /\ exit = 1)
    /\ IF pc = "prio"
       THEN pc' = "unprio" /\ todo' = ee /\ UNCHANGED exit
       ELSE pc' = "top" /\ todo' = <<>> /\ exit' = Decr(exit)
    /\ UNCHANGED <<select, ee_prio, ee, timers, rev, wait, input, regs>>

------------------------------------------------------------------------------
(* Environment: input arrives, time passes *)

Input ==
    /\ pc # "stop"
    /\ \E fd \in Registered \ input : input' = input \union {fd}
    /\ UNCHANGED <<select, ee_prio, ee, timers, exit, pc, todo, rev, wait, regs>>

Earlier(n) == IF n > 0 THEN n - 1 ELSE n

(* poll() returns when its time is up; a delay of its return is one of the *)
(* next round                                                              *)
Tick ==
    /\ pc = "top" \/ (pc = "poll" /\ wait # 0)
    /\ wait > 0 \/ \E i \in DOMAIN timers : timers[i].left > 0
    /\ timers' = [i \in DOMAIN timers |-> [timers[i] EXCEPT !.left = Earlier(@)]]
    /\ wait' = Earlier(wait)
    /\ UNCHANGED <<select, ee_prio, ee, exit, pc, todo, rev, input, regs>>

LoopInit ==
    /\ select \in BOOLEAN
    /\ \E fd \in Fds, p \in BOOLEAN :
         /\ ee_prio = IF p /\ ~select THEN <<Entry(fd, TRUE)>> ELSE <<>>
         /\ ee = IF p /\ ~select THEN <<>> ELSE <<Entry(fd, p)>>
    /\ timers = <<>>
    /\ exit = 0 /\ pc = "top" /\ todo = <<>> /\ rev = {} /\ wait = -1
    /\ input = {} /\ regs = 0

LoopStep ==
    \/ LoopTop \/ EnterPoll \/ PollEvents \/ PollExpires \/ WalkEnds
    \/ Callback \/ CallbackRegFd \/ CallbackUnregFd \/ CallbackTimeout
    \/ CallbackCancel \/ CallbackError \/ CallbackExit

LoopNext == LoopStep \/ Signal \/ Input \/ Tick

(* The loop is one thread that keeps running, and time passes *)
LoopFairness == WF_loopVars(LoopStep) /\ WF_loopVars(Tick)

LoopSpec == LoopInit /\ [][LoopNext]_loopVars /\ LoopFairness
------------------------------------------------------------------------------
(* Properties *)

(* Callbacks register and unregister descriptors while the loop walks the  *)
(* list (event_handle_fds): every entry still to be visited is linked in   *)
(* the lists, so no freed entry is followed or called.                     *)
WalkSafe ==
    pc \in {"prio", "unprio"} => Range(todo) \subseteq Range(ee_prio \o ee)

(* The timeout called is due, unless the time left when the loop armed     *)
(* poll() did not fit the int of milliseconds poll() takes.                *)
TimeoutDue ==
    [][PollExpires /\ timers' # timers =>
         Head(timers).left = 0 \/ (~select /\ Head(timers).left > IntMax)]_loopVars

(* A registered descriptor with input is served, also when others are      *)
(* always ready and although only one unprioritised one is served in a     *)
(* round when prioritised ones exist (event_unprio_rotate).                *)
ServedInTurn ==
    \A fd \in Fds : (fd \in Ready) ~> (fd \notin Ready \/ pc = "stop")

InRange == \A i \in DOMAIN timers : timers[i].left <= IntMax

(* A termination signal, or a callback, that sets the exit flag ends the   *)
(* loop when a timeout is pending.  Without one a signal that arrives      *)
(* between the loop's test and poll() waits for the next event.            *)
ExitHonoured ==
    []InRange => ((exit = 1 /\ timers # <<>>) ~> (pc = "stop"))
==============================================================================
