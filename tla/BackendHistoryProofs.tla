------------------------- MODULE BackendHistoryProofs -------------------------
(***************************************************************************)
(* What a confirmed commit promises, for every number of sessions and      *)
(* timers, every set of configurations and persist-ids, and with or        *)
(* without CLICON_AUTOLOCK, the startup datastore and subscriptions with a *)
(* stop time.  It takes clients that commit during a confirmed commit only *)
(* to confirm or extend it, and a daemon that was not started with         *)
(* "-s init".                                                              *)
(***************************************************************************)
EXTENDS BackendHistory, BackendProofs

(* Running has a file with a tree in it, so that a copy of it counts as a  *)
(* rollback datastore.  The failsafe configuration is the one the daemon   *)
(* started with.                                                           *)
FailsafeKept(d) ==
    /\ d["failsafe"].file = FailsafeFile
    /\ d["failsafe"].xml \in {NULL, FailsafeFile}

StoresOK == ds["running"].file # ZeroFile /\ FailsafeKept(ds)

InProgress(c) == c.state \in {"PERSISTENT", "EPHEMERAL"}

(* The rollback datastore has, in its file and if at all in its cache, the *)
(* configuration from before the sequence.                                 *)
Holds(d, t) == d["rollback"].file = t /\ d["rollback"].xml \in {NULL, t}

SequenceOK ==
    \/ /\ cc.state = "INACTIVE"
       /\ cc.timers = 0
       /\ origin = NULL
       /\ ~xmldb_exists(ds, "rollback")
    \/ /\ InProgress(cc)
       /\ cc.timers = 1
       /\ origin \in Valid
       /\ Holds(ds, origin)

HInv == IInv /\ StoresOK /\ SequenceOK

------------------------------------------------------------------------------
(* What a step may do to a sequence of confirmed commits *)

Idle ==
    /\ cc.state = "INACTIVE"
    /\ cc'.state = "INACTIVE"
    /\ cc'.timers = 0
    /\ ~xmldb_exists(ds', "rollback")

Begins ==
    /\ cc.state = "INACTIVE"
    /\ InProgress(cc')
    /\ cc'.timers = 1
    /\ Holds(ds', ds["running"].xml)

GoesOn ==
    /\ InProgress(cc)
    /\ InProgress(cc')
    /\ cc'.timers = 1
    /\ Holds(ds', origin)

Ends ==
    /\ InProgress(cc)
    /\ cc'.state = "INACTIVE"
    /\ cc'.timers = 0
    /\ ~xmldb_exists(ds', "rollback")
    /\ ds'["running"].file \in {ds["running"].file, origin, FailsafeFile}

Move == StoresOK' /\ (Idle \/ Begins \/ GoesOn \/ Ends)

(* After an ordinary daemon start running was validated, and the file has  *)
(* the very tree.                                                          *)
LEMMA RunningStored ==
    ASSUME ~InitMode, NEW d \in Datastores, RunningGood(d, Started),
           d["running"].file # ZeroFile
    PROVE  /\ d["running"].xml \in Valid
           /\ d["running"].file = d["running"].xml
  BY DEF Started, RunningGood, InStep, FileTree

(* Moves keep the invariant, whatever becomes of the sessions *)
LEMMA MoveKeeps ==
    ASSUME ~InitMode, HInv, IInv', Move,
           origin' = CASE Began -> ds["running"].xml
                       [] ~Began /\ cc'.state = "INACTIVE" -> NULL
                       [] ~Began /\ cc'.state # "INACTIVE" -> origin
    PROVE  HInv'
<1>1. ds["running"].xml \in Valid
  BY RunningStored DEF HInv, StoresOK, IInv, StoreOK
<1>2. SequenceOK'
  <2>1. CASE Idle
    BY <2>1 DEF Idle, Began, SequenceOK
  <2>2. CASE Begins
    BY <1>1, <2>2 DEF Begins, Began, SequenceOK, InProgress, Holds
  <2>3. CASE GoesOn
    BY <2>3 DEF GoesOn, Began, SequenceOK, InProgress, Holds, HInv
  <2>4. CASE Ends
    BY <2>4 DEF Ends, Began, SequenceOK, InProgress
  <2> QED
    BY <2>1, <2>2, <2>3, <2>4 DEF Move
<1> QED
  BY <1>2 DEF HInv, Move

(* Moves are steps of the procedure that ConfirmedCommit describes *)
LEMMA MovePromised ==
    ASSUME ~InitMode, HInv, IInv', Move,
           origin' = CASE Began -> ds["running"].xml
                       [] ~Began /\ cc'.state = "INACTIVE" -> NULL
                       [] ~Began /\ cc'.state # "INACTIVE" -> origin
    PROVE  Promise!Next
<1>1. /\ ds["running"].file = ds["running"].xml
      /\ ds["running"].xml \in Valid
  BY RunningStored DEF HInv, StoresOK, IInv, StoreOK
<1>2. /\ ds'["running"].file = ds'["running"].xml
      /\ ds'["running"].xml \in Valid
  <2>1. /\ ds' \in Datastores
        /\ RunningGood(ds', Started)
        /\ ds'["running"].file # ZeroFile
    BY DEF Move, StoresOK, IInv, StoreOK
  <2> QED
    BY <2>1, RunningStored
<1>3. ds'["running"].xml \in Configs
  BY <1>2, CommitAssumption
<1>4. CASE Idle
  <2>1. origin = NULL /\ origin' = NULL
    BY <1>4 DEF Idle, Began, HInv, SequenceOK, InProgress
  <2>2. Promise!Commit
    BY <1>3, <1>4, <2>1 DEF Promise!Commit, Idle
  <2> QED
    BY <2>2 DEF Promise!Next
<1>5. CASE Begins
  <2>1. origin' = ds["running"].xml
    BY <1>5 DEF Begins, Began, InProgress
  <2>2. Promise!Begin
    BY <1>3, <1>5, <2>1 DEF Promise!Begin, Begins, InProgress
  <2> QED
    BY <2>2 DEF Promise!Next
<1>6. CASE GoesOn
  <2>1. origin' = origin
    BY <1>6 DEF GoesOn, Began, InProgress
  <2>2. Promise!Extend
    BY <1>3, <1>6, <2>1 DEF Promise!Extend, GoesOn, InProgress
  <2> QED
    BY <2>2 DEF Promise!Next
<1>7. CASE Ends
  <2>1. origin' = NULL
    BY <1>7 DEF Ends, Began, InProgress
  <2>2. Promise!End
    BY <1>7, <2>1 DEF Promise!End, Ends, InProgress
  <2>3. ds'["running"].xml \in {ds["running"].xml, origin, FailsafeFile}
    BY <1>1, <1>2, <1>7 DEF Ends
  <2> QED
    BY <2>2, <2>3
    DEF Promise!Next, Promise!Confirm, Promise!Rollback, Promise!RollbackError
<1> QED
  BY <1>4, <1>5, <1>6, <1>7 DEF Move

------------------------------------------------------------------------------
(* Requests that do not concern the confirmed commit *)

Same(d, e, b) == e[b].xml = d[b].xml /\ e[b].file = d[b].file

(* Calls that change neither running nor the sequence *)
Quiet(d, e) ==
    /\ Same(d, e, "running")
    /\ Same(d, e, "rollback")
    /\ Same(d, e, "failsafe")

(* Calls that may change running, but not the sequence *)
Calm(d, e) ==
    /\ e["running"].file # ZeroFile
    /\ Same(d, e, "rollback")
    /\ Same(d, e, "failsafe")

(* A call that changes other datastores only is quiet *)
LEMMA QuietFrame ==
    ASSUME NEW d, NEW e, NEW S, Frame(d, e, S), "running" \notin S,
           "rollback" \notin S, "failsafe" \notin S
    PROVE  Quiet(d, e)
  BY Names DEF Frame, Quiet, Same

(* Handlers make several quiet calls *)
LEMMA QuietTransitive ==
    ASSUME NEW d, NEW e, NEW f, Quiet(d, e), Quiet(e, f)
    PROVE  Quiet(d, f)
  BY DEF Quiet, Same

(* A quiet call after one that may change running *)
LEMMA CalmQuiet ==
    ASSUME NEW d, NEW e, NEW f, Calm(d, e), Quiet(e, f)
    PROVE  Calm(d, f)
  BY DEF Calm, Quiet, Same

(* A call that may change running after a quiet one *)
LEMMA QuietCalm ==
    ASSUME NEW d, NEW e, NEW f, d["running"].file # ZeroFile,
           Quiet(d, e), Calm(e, f)
    PROVE  Calm(d, f)
  BY DEF Calm, Quiet, Same

(* A step of quiet calls leaves the sequence as it is *)
LEMMA QuietMove ==
    ASSUME HInv, Quiet(ds, ds'), cc' = cc
    PROVE  Move
<1>1. StoresOK'
  BY DEF HInv, StoresOK, Quiet, Same, FailsafeKept
<1>2. Idle \/ GoesOn
  BY DEF HInv, SequenceOK, Quiet, Same, Idle, GoesOn, Holds, xmldb_exists
<1> QED
  BY <1>1, <1>2 DEF Move

(* Outside of a sequence running may be changed as well *)
LEMMA CalmMove ==
    ASSUME HInv, cc.state = "INACTIVE", Calm(ds, ds'), cc' = cc
    PROVE  Move
<1>1. StoresOK'
  BY DEF HInv, StoresOK, Calm, Same, FailsafeKept
<1>2. Idle
  BY DEF HInv, SequenceOK, Calm, Same, Idle, xmldb_exists, InProgress
<1> QED
  BY <1>1, <1>2 DEF Move

(* xmldb_copy between datastores that clients name *)
LEMMA QuietCopy ==
    ASSUME NEW d \in Datastores, d["running"].xml # NULL,
           NEW from \in {"running", "candidate", "startup"},
           NEW to \in {"candidate", "startup"}, from # to,
           NEW e, e = xmldb_copy(d, from, to)
    PROVE  e \in Datastores /\ Quiet(d, e)
<1>0. from \in DBs /\ to \in DBs
  BY DEF DBs
<1>1. /\ e \in Datastores
      /\ Frame(d, e, {from, to})
      /\ d[from].xml # NULL => e[from] = d[from]
  BY <1>0, Copy
<1>2. CASE from = "running"
  <2>1. Frame(d, e, {to})
    BY <1>1, <1>2 DEF Frame
  <2> QED
    BY <1>1, <2>1, QuietFrame
<1>3. CASE from # "running"
  BY <1>1, <1>3, QuietFrame
<1> QED
  BY <1>2, <1>3

(* The dirty bit does not matter *)
LEMMA QuietModified ==
    ASSUME NEW d \in Datastores, NEW db \in DBs, NEW bit \in BOOLEAN,
           NEW e, e = xmldb_modified_set(d, db, bit)
    PROVE  e \in Datastores /\ Quiet(d, e)
<1>1. /\ e \in Datastores
      /\ Frame(d, e, {db})
      /\ e[db].xml = d[db].xml
      /\ e[db].file = d[db].file
  BY ModifiedSet
<1> QED
  BY <1>1, Names DEF Frame, Quiet, Same

(* Nor do locks *)
LEMMA QuietLock ==
    ASSUME NEW d \in Datastores, NEW db \in DBs, NEW s \in Nat,
           NEW e, e = [d EXCEPT ![db].id = s]
    PROVE  e \in Datastores /\ Quiet(d, e)
<1>1. /\ e \in Datastores
      /\ Frame(d, e, {db})
      /\ e[db].xml = d[db].xml
      /\ e[db].file = d[db].file
  BY DEF Datastores, db_elmnt, Frame
<1> QED
  BY <1>1, Names DEF Frame, Quiet, Same

(* release_all_dbs discards the candidate at most *)
LEMMA QuietRelease ==
    ASSUME NEW d \in Datastores, d["running"].xml # NULL, NEW s,
           NEW e, e = release_all_dbs(d, s)
    PROVE  Quiet(d, e)
<1> DEFINE g == Discarded(d, s)
           c == xmldb_copy(d, "running", "candidate")
<1>1. Quiet(d, g)
  <2>1. CASE Autolock /\ d["candidate"].id = s
    <3>1. g = xmldb_modified_set(c, "candidate", FALSE)
      BY <2>1 DEF Discarded
    <3>2. c \in Datastores /\ Quiet(d, c)
      BY QuietCopy
    <3> HIDE DEF c, g
    <3>3. Quiet(c, g)
      BY <3>1, <3>2, Names, QuietModified, Zenon
    <3> QED
      BY <3>2, <3>3, QuietTransitive
  <2>2. CASE ~(Autolock /\ d["candidate"].id = s)
    BY <2>2, Zenon DEF Discarded, Quiet, Same
  <2> QED
    BY <2>1, <2>2
<1>2. e = [db \in DBs |-> IF g[db].id = s THEN [g[db] EXCEPT !.id = 0]
                          ELSE g[db]]
  BY DEF release_all_dbs
<1> HIDE DEF g
<1>3. \A b \in DBs : e[b].xml = g[b].xml /\ e[b].file = g[b].file
  BY <1>2
<1>4. Quiet(g, e)
  BY <1>3, Names DEF Quiet, Same
<1> QED
  BY <1>1, <1>4, QuietTransitive

------------------------------------------------------------------------------
(* Commits *)

(* The timers of the operations on the confirmed-commit state *)
LEMMA TimersOf ==
    ASSUME NEW c \in confirmed_commit
    PROVE  /\ \A state : Conclude(c, state).timers = c.timers
           /\ \A xe, s : Confirmed(c, xe, s).timers = c.timers
           /\ schedule_rollback_event(c).timers = c.timers + 1
           /\ c.timers = 1 => cancel_rollback_event(c).timers = 0
  BY DEF confirmed_commit, Conclude, Confirmed, schedule_rollback_event,
         cancel_rollback_event

(* The first confirmed commit copies running to rollback *)
LEMMA RunningSaved ==
    ASSUME NEW d \in Datastores, InStep(d, "running"),
           NEW e, e = xmldb_copy(d, "running", "rollback")
    PROVE  /\ e["rollback"].xml = d["running"].xml
           /\ e["rollback"].file = d["running"].file
<1>1. CopyOK(d, "running") /\ "running" # "rollback"
  BY DatastoreAssumption DEF InStep, CopyOK, Readable
<1>2. e["rollback"].xml = d["running"].xml
  <2>1. e = [d EXCEPT !["rollback"].xml = d["running"].xml,
                      !["rollback"].file = d["running"].file]
    BY <1>1, DatastoreAssumption
    DEF xmldb_copy, xmldb_get_cache, InStep, Readable
  <2> QED
    BY <2>1, Names DEF Datastores, db_elmnt
<1>3. e["rollback"].file = d["running"].file
  BY <1>1, Names, CopyFiles
<1> QED
  BY <1>2, <1>3

(* What phase two of a commit in a disciplined sequence does: nothing is   *)
(* left of a sequence that is not in progress, the first <confirmed/>      *)
(* saves running in rollback, a later one keeps what is there.             *)
SecondPhase(g, c, p) ==
    \/ /\ c.state = "INACTIVE"
       /\ p.cc.state = "INACTIVE"
       /\ p.cc.timers = 0
       /\ ~xmldb_exists(p.ds, "rollback")
    \/ /\ c.state = "INACTIVE"
       /\ InProgress(p.cc)
       /\ p.cc.timers = 1
       /\ p.ds["rollback"].file = g["running"].file
       /\ p.ds["rollback"].xml = g["running"].xml
    \/ /\ InProgress(c)
       /\ InProgress(p.cc)
       /\ p.cc.timers = 1
       /\ p.ds = g

(* What phase two of a commit does to the sequence *)
LEMMA PhaseTwoSequence ==
    ASSUME NEW g \in Datastores, InStep(g, "running"),
           NEW c \in confirmed_commit, NEW xe \in CommitRequest,
           NEW s \in Nat, s # 0,
           \/ c.state = "INACTIVE" /\ c.timers = 0 /\ ~xmldb_exists(g, "rollback")
           \/ InProgress(c) /\ c.timers = 1 /\ xmldb_exists(g, "rollback"),
           c.state = "INACTIVE" \/ check_valid_confirming_commit(c, xe, s),
           xe.confirmed \/ ~check_valid_confirming_commit(c, xe, s),
           NEW p, p = PhaseTwo(g, c, xe, s)
    PROVE  SecondPhase(g, c, p)
<1> DEFINE c0 == cancel_rollback_event(c)
           k == Conclude(c0, "INACTIVE")
           c1 == IF check_valid_confirming_commit(c, xe, s) THEN k ELSE c
           e1 == Confirmed(c1, xe, s)
<1>1. c0 \in confirmed_commit
  BY CancelTimer
<1>2. k \in confirmed_commit /\ k.timers = c0.timers
  BY <1>1, Concludes, TimersOf
<1>3. c1 \in confirmed_commit /\ c1.timers = 0
  <2>1. c.timers = 1 => c0.timers = 0
    BY TimersOf
  <2>2. c.state = "INACTIVE" => ~check_valid_confirming_commit(c, xe, s)
    BY DEF check_valid_confirming_commit
  <2> HIDE DEF k, c0
  <2> QED
    BY <1>2, <2>1, <2>2 DEF InProgress
<1>4. c.state = "INACTIVE" => c1 = c
  BY DEF check_valid_confirming_commit
<1>5. CASE xe = Absent
  <2>1. p.ds = g /\ p.cc = c
    BY <1>5 DEF PhaseTwo
  <2> QED
    BY <2>1 DEF SecondPhase
<1>6. CASE xe # Absent /\ xe.confirmed
  <2>1. /\ p.ds = IF xmldb_exists(g, "rollback") THEN g
                  ELSE xmldb_copy(g, "running", "rollback")
        /\ p.cc = schedule_rollback_event(e1)
    BY <1>6 DEF PhaseTwo, handle_confirmed_commit, InProgress
  <2> HIDE DEF c1
  <2>2. e1 \in confirmed_commit /\ InProgress(e1) /\ e1.timers = 0
    BY <1>3, Confirms, TimersOf DEF InProgress
  <2> HIDE DEF e1
  <2>3. InProgress(p.cc) /\ p.cc.timers = 1
    BY <2>1, <2>2, ScheduleTimer, TimersOf DEF InProgress
  <2>4. CASE xmldb_exists(g, "rollback")
    BY <2>1, <2>3, <2>4 DEF SecondPhase
  <2>5. CASE ~xmldb_exists(g, "rollback")
    <3> DEFINE u == p.ds
    <3>1. u = xmldb_copy(g, "running", "rollback")
      BY <2>1, <2>5
    <3> HIDE DEF u
    <3>2. /\ u["rollback"].xml = g["running"].xml
          /\ u["rollback"].file = g["running"].file
      BY <3>1, RunningSaved
    <3> QED
      BY <2>3, <2>5, <3>2 DEF SecondPhase, u
  <2> QED
    BY <2>4, <2>5
<1>7. CASE xe # Absent /\ ~xe.confirmed
  <2>1. c.state = "INACTIVE"
    BY <1>7
  <2>2. p.ds = xmldb_delete(g, "rollback") /\ p.cc = c1
    BY <1>7, <2>1 DEF PhaseTwo, handle_confirmed_commit
  <2>3. p.ds["rollback"].file \in {NoFile, ZeroFile}
    <3> DEFINE u == p.ds
    <3>1. u = xmldb_delete(g, "rollback")
      BY <2>2
    <3> HIDE DEF u
    <3>2. u["rollback"].file = IF g["rollback"].file = NoFile THEN NoFile
                               ELSE ZeroFile
      BY <3>1, Names, Delete
    <3> QED
      BY <3>2 DEF u
  <2> HIDE DEF c1
  <2> QED
    BY <1>3, <1>4, <2>1, <2>2, <2>3 DEF SecondPhase, xmldb_exists
<1> QED
  BY <1>5, <1>6, <1>7

(* What candidate_commit of the candidate leaves alone, and what it does   *)
(* to the sequence: nothing if it ends before phase two.                   *)
Requested(d, c, xe, s, r) ==
    /\ r.ds["failsafe"] = d["failsafe"]
    /\ r.ds["running"].file \in Configs \union {d["running"].file}
    /\ \/ r.cc = c /\ r.ds["rollback"] = d["rollback"]
       \/ \E g \in Datastores :
            /\ Same(d, g, "running")
            /\ InStep(g, "running")
            /\ g["rollback"] = d["rollback"]
            /\ r.cc = PhaseTwo(g, c, xe, s).cc
            /\ r.ds["rollback"] = PhaseTwo(g, c, xe, s).ds["rollback"]

(* A commit request of a session reaches phase two with running and the *)
(* rollback datastore as it found them, or leaves them alone.            *)
LEMMA CandidateFiles ==
    ASSUME NEW d \in Datastores, RunningGood(d, Started),
           NEW c \in confirmed_commit,
           NEW xe \in CommitRequest \union {Absent},
           NEW s \in Nat, NEW oc \in Outcomes,
           NEW r, r = candidate_commit(d, c, xe, "candidate", s, oc)
    PROVE  Requested(d, c, xe, s, r)
<1> DEFINE v == validate_common(d, "candidate", oc)
           w == v.ds
           p == PhaseTwo(w, c, xe, s)
           ret == IF v.ret = 1 /\ oc = "cerror" THEN -1 ELSE v.ret
<1>1. /\ w \in Datastores
      /\ Frame(d, w, {"candidate", "running"})
      /\ v.ret # -1 => w["running"].xml # NULL
      /\ RunningGood(w, Started)
      /\ v.ret = 1 => InStep(w, "candidate") /\ w["candidate"].xml \in Valid
  BY ValidStarted, Names, ValidateCommon, Zenon
<1>2. /\ w["running"].file = d["running"].file
      /\ w["candidate"].file = IF d["candidate"].xml # NULL
                               THEN d["candidate"].xml ELSE d["candidate"].file
  BY Names, ValidateFiles
<1>3. v.ret # -1 => d["candidate"].xml # NULL
  BY DEF validate_common, Readable
<1>4. w["rollback"] = d["rollback"] /\ w["failsafe"] = d["failsafe"]
  BY <1>1, Names DEF Frame
<1>5. CASE v.ret = -1
  <2>1. r.ds = w /\ r.cc = c
    BY <1>5 DEF candidate_commit
  <2> HIDE DEF w
  <2> QED
    BY <1>2, <1>4, <2>1 DEF Requested
<1>6. CASE v.ret # -1
  <2>1. /\ r.ds = IF ret = 1
                  THEN xmldb_modified_set(
                          xmldb_copy(p.ds, "candidate", "running"),
                          "candidate", FALSE)
                  ELSE p.ds
        /\ r.cc = p.cc
    BY <1>6 DEF candidate_commit, Transacted
  <2>9. ret = 1 => v.ret = 1
    OBVIOUS
  <2>2. d["candidate"].xml \in Configs /\ w["candidate"].file \in Configs
    BY <1>2, <1>3, <1>6, Names DEF Datastores, db_elmnt
  <2>3. Same(d, w, "running") /\ InStep(w, "running")
    BY <1>1, <1>2 DEF RunningGood, InStep, Same
  <2> HIDE DEF v, w
  <2>4. p.ds \in Datastores /\ Frame(w, p.ds, {"rollback"})
    BY <1>1, <1>6, PhaseTwoStep
  <2>11. p = PhaseTwo(w, c, xe, s)
    OBVIOUS
  <2> HIDE DEF p, ret
  <2>5. /\ p.ds["running"] = w["running"]
        /\ p.ds["candidate"] = w["candidate"]
        /\ p.ds["failsafe"] = w["failsafe"]
    BY <2>4, Names DEF Frame
  <2>6. /\ r.ds["rollback"] = p.ds["rollback"]
        /\ r.ds["failsafe"] = p.ds["failsafe"]
        /\ r.ds["running"].file \in Configs \union {d["running"].file}
    <3>1. CASE ret # 1
      BY <1>2, <2>1, <2>5, <3>1
    <3>2. CASE ret = 1
      <4> DEFINE x == p.ds
                 q == xmldb_copy(x, "candidate", "running")
                 y == r.ds
      <4>1. y = xmldb_modified_set(q, "candidate", FALSE)
        BY <2>1, <3>2
      <4>2. CopyOK(x, "candidate") /\ x \in Datastores
        BY <1>1, <2>4, <2>5, <2>9, <3>2, DatastoreAssumption
        DEF CopyOK, Readable, InStep
      <4>3. x = p.ds /\ y = r.ds /\ q = xmldb_copy(x, "candidate", "running")
        OBVIOUS
      <4> HIDE DEF x, q, y
      <4>4. q \in Datastores /\ Frame(x, q, {"candidate", "running"})
        BY <4>2, <4>3, Names, Copy
      <4>5. q["running"].file = x["candidate"].file
        BY <4>2, <4>3, Names, CopyFiles
      <4>6. Frame(q, y, {"candidate"})
        BY <4>1, <4>4, Names, ModifiedSet, Zenon
      <4>7. /\ y["rollback"] = x["rollback"]
            /\ y["failsafe"] = x["failsafe"]
            /\ y["running"].file = x["candidate"].file
        BY <4>4, <4>5, <4>6, Names DEF Frame
      <4> QED
        BY <2>2, <2>5, <4>3, <4>7
    <3> QED
      BY <3>1, <3>2
  <2>7. /\ r.cc = PhaseTwo(w, c, xe, s).cc
        /\ r.ds["rollback"] = PhaseTwo(w, c, xe, s).ds["rollback"]
    BY <2>1, <2>6, <2>11
  <2>8. r.ds["failsafe"] = d["failsafe"]
    BY <1>4, <2>5, <2>6
  <2> QED
    BY <1>1, <1>4, <2>3, <2>6, <2>7, <2>8 DEF Requested
<1> QED
  BY <1>5, <1>6

------------------------------------------------------------------------------
(* Rollback *)

(* Generic validation of the rollback datastore succeeds: what it holds    *)
(* was running once.                                                       *)
LEMMA RollbackAccepted ==
    ASSUME NEW d \in Datastores, RunningGood(d, Started),
           NEW o \in Valid, Holds(d, o)
    PROVE  validate_common(d, "rollback", "ok").ret = 1
<1> DEFINE r == validate_common(d, "rollback", "ok")
           d1 == IF d["rollback"].xml # NULL
                 THEN xmldb_write_cache2file(d, "rollback") ELSE d
           d2 == xmldb_get_cache(xmldb_get_cache(d1, "rollback"), "running")
<1>0. "ok" \in Outcomes /\ "rollback" # "running" /\ "rollback" \in DBs
  BY Names DEF Outcomes
<1>1. o \in Configs /\ FileTree(o) = o /\ NULL \notin Configs /\ o # NoFile
  BY CommitAssumption, DatastoreAssumption DEF FileTree
<1>2. Readable(d1, "rollback") /\ Readable(d1, "running")
  <2>1. d["running"].xml # NULL /\ d["rollback"].file = o
    BY RunningCached DEF Holds
  <2>2. d1["running"].xml = d["running"].xml /\ d1["rollback"].xml = d["rollback"].xml
    BY Names DEF xmldb_write_cache2file, Datastores, db_elmnt
  <2>3. d["rollback"].xml = NULL => d1 = d
    OBVIOUS
  <2> QED
    BY <1>1, <2>1, <2>2, <2>3 DEF Readable
<1>3. r.ret = CASE "ok" = "verror" -> -1
                [] "ok" # "verror" /\ d2["rollback"].xml \notin Valid -> 0
                [] "ok" # "verror" /\ d2["rollback"].xml \in Valid -> 1
  BY <1>2 DEF validate_common
<1> HIDE DEF d2, d1
<1>4. r.ret \in {0, 1}
  <2>1. CASE d2["rollback"].xml \in Valid
    BY <1>3, <2>1
  <2>2. CASE d2["rollback"].xml \notin Valid
    BY <1>3, <2>2
  <2> QED
    BY <2>1, <2>2
<1>5. /\ r.ds["rollback"].xml \in {d["rollback"].xml,
                                  FileTree(d["rollback"].file)}
      /\ r.ret = 0 => r.ds["rollback"].xml \in Configs \ Valid
  BY <1>0, ValidateFiles, Zenon
<1> HIDE DEF r
<1>6. r.ret # 0
  BY <1>1, <1>5 DEF Holds
<1>7. r.ret = 1
  BY <1>4, <1>6
<1> QED
  BY <1>7 DEF r

(* What do_rollback leaves: no sequence and no rollback datastore.         *)
(* Running is what it was before the sequence, the failsafe configuration, *)
(* or unchanged; the first of them if no callback fails.                   *)
Undone(d, c, o, oc, r) ==
    /\ r.cc.state = "INACTIVE"
    /\ r.cc.timers = c.timers
    /\ ~xmldb_exists(r.ds, "rollback")
    /\ FailsafeKept(r.ds)
    /\ r.ds["running"].file # ZeroFile
    /\ r.ds["running"].file \in {d["running"].file, o, FailsafeFile}
    /\ oc = "ok" => r.ds["running"].file = o

(* do_rollback ends the sequence, with running as it was before it unless *)
(* a callback fails.                                                      *)
LEMMA RollbackUndoes ==
    ASSUME NEW d \in Datastores, RunningGood(d, Started),
           d["running"].file # ZeroFile, FailsafeKept(d),
           d["tmp"].xml = NULL,
           NEW o \in Valid, Holds(d, o),
           NEW c \in confirmed_commit,
           NEW oc \in Outcomes, NEW foc \in Outcomes,
           NEW r, r = do_rollback(d, c, oc, foc)
    PROVE  Undone(d, c, o, oc, r)
<1> DEFINE c1 == Conclude(c, "ROLLBACK")
           k == candidate_commit(d, c1, Absent, "rollback", 0, oc)
           m == xmldb_rename(k.ds, "rollback")
           f == load_failsafe(m, c1, foc)
           i == [c1 EXCEPT !.state = "INACTIVE"]
<1>1. c1 \in confirmed_commit /\ c1.timers = c.timers
  BY Concludes, TimersOf
<1>2. r = IF k.ret = -1
          THEN [ds |-> f.ds, cc |-> i, ret |-> -1, stop |-> f.ret = -1]
          ELSE [ds |-> xmldb_delete(k.ds, "rollback"), cc |-> i,
                ret |-> 0, stop |-> FALSE]
  BY DEF do_rollback, RolledBack, RollbackError, RollbackResult
<1>3. r.cc = i
  BY <1>2
<1>4. oc = "ok" => k.ret = 1
  <2>1. ASSUME oc = "ok" PROVE validate_common(d, "rollback", oc).ret = 1
    BY <2>1, RollbackAccepted
  <2> QED
    BY <2>1 DEF candidate_commit, Transacted
<1> HIDE DEF c1
<1>5. i.state = "INACTIVE" /\ i.timers = c.timers
  BY <1>1 DEF confirmed_commit
<1> HIDE DEF i
<1>6. Committed(d, "rollback", k)
  BY <1>1, CommitFiles
<1>7. o \in Configs /\ NULL \notin Configs /\ o # ZeroFile /\ o # NoFile
  BY CommitAssumption, DatastoreAssumption
<1> HIDE DEF k
<1>8. /\ k.ds \in Datastores
      /\ k.ds["failsafe"] = d["failsafe"]
      /\ k.ds["tmp"] = d["tmp"]
      /\ k.ds["rollback"].file = o
      /\ k.ret \in {-1, 0, 1}
      /\ k.ret = 1 => k.ds["running"].file = o
      /\ k.ret # 1 => k.ds["running"].file = d["running"].file
  BY <1>6, <1>7, Names DEF Committed, Frame, Holds
<1>9. CASE k.ret = -1
  <2>1. /\ m \in Datastores
        /\ Frame(k.ds, m, {"rollback"})
        /\ m["rollback"].file = NoFile
    BY <1>8, Names, RenameFile
  <2>2. r.ds = f.ds
    BY <1>2, <1>9
  <2> HIDE DEF m
  <2>3. /\ m["running"].file = d["running"].file
        /\ m["running"].file # NoFile
        /\ m["tmp"].xml = NULL
        /\ m["failsafe"] = d["failsafe"]
    BY <1>8, <1>9, <2>1, Names DEF Frame, RunningGood, InStep
  <2>4. /\ f.ds["rollback"] = m["rollback"]
        /\ f.ret \in {-1, 0}
        /\ f.ret = 0 => f.ds["running"].file # ZeroFile
        /\ f.ret = -1 => f.ds["running"].file = m["running"].file
        /\ FailsafeRead(m, f)
    <3>1. f = load_failsafe(m, c1, foc)
      OBVIOUS
    <3> HIDE DEF f
    <3>2. /\ m \in Datastores /\ m["running"].file # NoFile /\ m["tmp"].xml = NULL
          /\ c1 \in confirmed_commit
      BY <1>1, <2>1, <2>3, Zenon
    <3> QED
      BY <3>1, <3>2, FailsafeLoads, SMT
  <2> HIDE DEF f
  <2>5. FileTree(FailsafeFile) = FailsafeFile
    BY BackendAssumption, DatastoreAssumption DEF FileTree
  <2>6. FailsafeKept(f.ds)
    BY <2>3, <2>4, <2>5 DEF FailsafeKept, FailsafeRead
  <2>7. f.ret = 0 => f.ds["running"].file = FailsafeFile
    BY <2>4, <2>6 DEF FailsafeRead, FailsafeKept
  <2>8. ~xmldb_exists(f.ds, "rollback")
    BY <2>1, <2>4 DEF xmldb_exists
  <2> QED
    BY <1>3, <1>4, <1>5, <1>9, <2>2, <2>3, <2>4, <2>6, <2>7, <2>8 DEF Undone
<1>10. CASE k.ret # -1
  <2> DEFINE u == r.ds
             w == k.ds
  <2>1. u = xmldb_delete(w, "rollback") /\ w \in Datastores
    BY <1>2, <1>8, <1>10
  <2>2. u = r.ds /\ w = k.ds
    OBVIOUS
  <2> HIDE DEF u, w
  <2>3. /\ Frame(w, u, {"rollback"})
        /\ u["rollback"].file = IF w["rollback"].file = NoFile THEN NoFile
                                ELSE ZeroFile
    BY <2>1, Names, Delete
  <2>4. ~xmldb_exists(u, "rollback")
    BY <2>3 DEF xmldb_exists
  <2>5. u["running"] = w["running"] /\ u["failsafe"] = w["failsafe"]
    BY <2>3, Names DEF Frame
  <2>6. FailsafeKept(u)
    BY <1>8, <2>2, <2>5 DEF FailsafeKept
  <2>7. u["running"].file \in {d["running"].file, o}
        /\ (oc = "ok" => u["running"].file = o)
    BY <1>4, <1>8, <2>2, <2>5
  <2> QED
    BY <1>3, <1>5, <1>7, <2>2, <2>4, <2>6, <2>7 DEF Undone
<1> QED
  BY <1>9, <1>10

(* The running configuration is back if the callbacks let it *)
Restored(oc) == oc = "ok" => ds'["running"].file = origin

(* A rollback of the sequence in progress, between quiet calls *)
LEMMA RollbackMove ==
    ASSUME HInv, InProgress(cc),
           NEW d \in Datastores, RunningGood(d, Started), d["tmp"].xml = NULL,
           Quiet(ds, d), NEW oc \in Outcomes, NEW foc \in Outcomes,
           NEW r, r = do_rollback(d, cancel_rollback_event(cc), oc, foc),
           cc' = r.cc, Quiet(r.ds, ds')
    PROVE  Move /\ Restored(oc)
<1> DEFINE c == cancel_rollback_event(cc)
<1>1. /\ cc \in confirmed_commit
      /\ cc.timers = 1
      /\ origin \in Valid
      /\ Holds(ds, origin)
  BY DEF HInv, IInv, ConfirmOK, SequenceOK, InProgress
<1>2. c \in confirmed_commit /\ c.timers = 0
  BY <1>1, CancelTimer, TimersOf
<1>3. /\ d["running"].file = ds["running"].file
      /\ d["running"].file # ZeroFile
      /\ FailsafeKept(d)
      /\ Holds(d, origin)
  BY <1>1 DEF HInv, StoresOK, Quiet, Same, FailsafeKept, Holds
<1> HIDE DEF c
<1>4. Undone(d, c, origin, oc, r)
  <2>1. r = do_rollback(d, c, oc, foc)
    BY DEF c
  <2> QED
    BY <1>1, <1>2, <1>3, <2>1, RollbackUndoes
<1>5. /\ StoresOK'
      /\ cc'.state = "INACTIVE"
      /\ cc'.timers = 0
      /\ ~xmldb_exists(ds', "rollback")
      /\ ds'["running"].file \in {d["running"].file, origin, FailsafeFile}
      /\ oc = "ok" => ds'["running"].file = origin
  BY <1>2, <1>4
  DEF Undone, Quiet, Same, StoresOK, FailsafeKept, xmldb_exists
<1> QED
  BY <1>3, <1>5 DEF Move, Ends, Restored

(* backend_client_rm, between quiet calls *)
LEMMA ClientRmMove ==
    ASSUME HInv, NEW s,
           NEW d \in Datastores, RunningGood(d, Started), d["tmp"].xml = NULL,
           Quiet(ds, d), NEW oc \in Outcomes, NEW foc \in Outcomes,
           NEW r, r = backend_client_rm(d, s, oc, foc),
           cc' = r.cc, Quiet(r.ds, ds')
    PROVE  Move /\ (OwnsEphemeral(s) => Restored(oc))
<1>1. CASE OwnsEphemeral(s)
  <2>1. r = do_rollback(d, cancel_rollback_event(cc), oc, foc)
    BY <1>1 DEF backend_client_rm
  <2>2. InProgress(cc)
    BY <1>1 DEF OwnsEphemeral, InProgress
  <2>3. Move /\ Restored(oc)
    BY <2>1, <2>2, RollbackMove
  <2> QED
    BY <2>3
<1>2. CASE ~OwnsEphemeral(s)
  <2>1. r.ds = d /\ cc' = cc
    BY <1>2 DEF backend_client_rm
  <2>2. Quiet(ds, ds')
    BY <2>1, QuietTransitive
  <2> QED
    BY <1>2, <2>1, <2>2, QuietMove
<1> QED
  BY <1>1, <1>2

------------------------------------------------------------------------------
(* One lemma per event: each is a move *)

(* What the lemmas below use of the invariant *)
LEMMA StoreFacts ==
    ASSUME HInv
    PROVE  /\ ds \in Datastores
           /\ RunningGood(ds, Started)
           /\ ds["running"].xml # NULL
           /\ ds["running"].file # ZeroFile
           /\ up => ds["tmp"].xml = NULL
           /\ cc \in confirmed_commit
           /\ clients \subseteq Sessions
           /\ subs \subseteq clients
  BY RunningCached DEF HInv, IInv, StoreOK, StoresOK, ConfirmOK, SessionsOK

(* A client leaves after its locks are released *)
LEMMA LeaveMove ==
    ASSUME HInv, up, NEW s \in clients, NEW oc \in Outcomes,
           NEW foc \in Outcomes,
           Results(backend_client_rm(release_all_dbs(ds, s), s, oc, foc))
    PROVE  Move /\ (OwnsEphemeral(s) => Restored(oc))
<1> DEFINE e == release_all_dbs(ds, s)
           r == backend_client_rm(e, s, oc, foc)
<1>0. s \in Nat
  BY SessionIds, StoreFacts
<1>1. /\ e \in Datastores
      /\ RunningGood(e, Started)
      /\ e["tmp"].xml = NULL
  BY <1>0, ReleaseAll, StoreFacts
<1>2. Quiet(ds, e)
  BY QuietRelease, StoreFacts
<1>3. ds' = r.ds /\ cc' = r.cc
  BY DEF Results
<1>4. Quiet(r.ds, ds')
  BY <1>3 DEF Quiet, Same
<1> HIDE DEF e
<1> QED
  BY <1>1, <1>2, <1>3, <1>4, ClientRmMove

(* <kill-session>: a client leaves before its locks are released *)
LEMMA KillMove ==
    ASSUME HInv, NEW s \in Sessions, NEW t \in Sessions,
           NEW oc \in Outcomes, NEW foc \in Outcomes,
           KillSession(s, t, oc, foc)
    PROVE  Move /\ (OwnsEphemeral(t) /\ t \in clients => Restored(oc))
<1> DEFINE r == IF t \in clients THEN backend_client_rm(ds, t, oc, foc)
                ELSE [ds |-> ds, cc |-> cc, ret |-> 0, stop |-> FALSE]
<1>1. up /\ ds' = release_all_dbs(r.ds, t) /\ cc' = r.cc
  BY DEF KillSession, Killed, Serving
<1>2. r.ds \in Datastores /\ RunningGood(r.ds, Started)
  <2>1. CASE t \in clients
    BY <1>1, <2>1, ClientRm, StoreFacts
  <2>2. CASE t \notin clients
    BY <2>2, StoreFacts
  <2> QED
    BY <2>1, <2>2
<1>3. Quiet(r.ds, ds')
  <2> HIDE DEF r
  <2> QED
    BY <1>1, <1>2, RunningCached, QuietRelease
<1>4. Quiet(ds, ds)
  BY DEF Quiet, Same
<1>5. CASE t \in clients
  <2>1. r = backend_client_rm(ds, t, oc, foc)
    BY <1>5
  <2> HIDE DEF r
  <2> QED
    BY <1>1, <1>3, <1>4, <2>1, StoreFacts, ClientRmMove
<1>6. CASE t \notin clients
  <2>1. r.ds = ds /\ r.cc = cc
    BY <1>6
  <2> HIDE DEF r
  <2>2. Quiet(ds, ds') /\ cc' = cc
    BY <1>1, <1>3, <2>1
  <2> QED
    BY <1>6, <2>2, QuietMove
<1> QED
  BY <1>5, <1>6

(* The stop time of a subscription passes *)
LEMMA StreamStopMove ==
    ASSUME HInv, NEW s \in Sessions, NEW oc \in Outcomes, NEW foc \in Outcomes,
           StreamStop(s, oc, foc)
    PROVE  Move /\ (OwnsEphemeral(s) => Restored(oc))
<1> DEFINE r == backend_client_rm(ds, s, oc, foc)
<1>1. up /\ ds' = r.ds /\ cc' = r.cc
  BY DEF StreamStop, Results
<1>2. Quiet(ds, ds) /\ Quiet(r.ds, ds')
  BY <1>1 DEF Quiet, Same
<1> QED
  BY <1>1, <1>2, StoreFacts, ClientRmMove

(* <close-session>, which leaves the client to its socket unless it has a  *)
(* subscription.                                                           *)
LEMMA CloseMove ==
    ASSUME HInv, NEW s \in Sessions, NEW oc \in Outcomes, NEW foc \in Outcomes,
           CloseSession(s, oc, foc)
    PROVE  Move /\ (OwnsEphemeral(s) /\ s \in subs => Restored(oc))
<1>1. CASE s \in subs
  BY <1>1, LeaveMove DEF CloseSession, Serving
<1>2. CASE s \notin subs
  <2>1. ds' = release_all_dbs(ds, s) /\ cc' = cc
    BY <1>2 DEF CloseSession
  <2>2. Quiet(ds, ds')
    BY <2>1, QuietRelease, StoreFacts
  <2> QED
    BY <1>2, <2>1, <2>2, QuietMove
<1> QED
  BY <1>1, <1>2

(* Quiet calls leave running as good as it was *)
LEMMA QuietGood ==
    ASSUME NEW d, NEW e, Quiet(d, e), RunningGood(d, Started)
    PROVE  RunningGood(e, Started) /\ e["running"].xml # NULL
<1>1. RunningGood(e, Started)
  BY DEF Quiet, Same, RunningGood, InStep
<1> QED
  BY <1>1, RunningCached

(* <lock> and <unlock> *)
LEMMA LockMove ==
    ASSUME HInv, NEW s \in Sessions, NEW db \in NetconfDBs,
           Lock(s, db) \/ Unlock(s, db)
    PROVE  Move
<1>1. PICK t \in {0, s} : ds' = [ds EXCEPT ![db].id = t] /\ cc' = cc
  BY DEF Lock, Unlock, xmldb_lock, xmldb_unlock
<1>2. t \in Nat /\ db \in DBs
  BY SessionIds, NetconfNames, Names
<1>3. Quiet(ds, ds')
  BY <1>1, <1>2, StoreFacts, Names DEF Quiet, Same, Datastores, db_elmnt
<1> QED
  BY <1>1, <1>3, QuietMove

(* CLICON_AUTOLOCK takes the candidate's lock *)
LEMMA QuietAutolocked ==
    ASSUME HInv, NEW s \in Sessions
    PROVE  Autolocked(s) \in Datastores /\ Quiet(ds, Autolocked(s))
<1>1. CASE TakesLock
  <2>1. Autolocked(s) = [ds EXCEPT !["candidate"].id = s]
    BY <1>1 DEF Autolocked, xmldb_lock
  <2> QED
    BY <2>1, SessionIds, StoreFacts, Names
    DEF Quiet, Same, Datastores, db_elmnt
<1>2. CASE ~TakesLock
  BY <1>2, StoreFacts DEF Autolocked, Quiet, Same
<1> QED
  BY <1>1, <1>2

(* An edit, put or refused half-way, changes the candidate only *)
LEMMA QuietEdited ==
    ASSUME NEW d \in Datastores, d["running"].xml # NULL,
           NEW edit \in Edits, NEW new \in Configs,
           NEW e, e = Edited(d, edit, new)
    PROVE  e \in Datastores /\ Quiet(d, e)
<1>1. ASSUME NEW done \in BOOLEAN,
             NEW p, p = xmldb_put(d, "candidate", new, done)
      PROVE  p \in Datastores /\ Quiet(d, p)
  <2>1. p \in Datastores /\ Frame(d, p, {"candidate"})
    BY <1>1, PutCandidate
  <2> QED
    BY <2>1, QuietFrame
<1>2. CASE edit = "refused"
  BY <1>2 DEF Edited, Quiet, Same
<1>3. CASE edit = "partial"
  BY <1>1, <1>3, Zenon DEF Edited
<1>4. CASE edit = "put"
  <2> DEFINE p == xmldb_put(d, "candidate", new, TRUE)
  <2>1. e = xmldb_modified_set(p, "candidate", TRUE)
    BY <1>4 DEF Edited
  <2>2. p \in Datastores /\ Quiet(d, p)
    BY <1>1, Zenon
  <2> HIDE DEF p
  <2>3. e \in Datastores /\ Quiet(p, e)
    BY <2>1, <2>2, Names, QuietModified, Zenon
  <2> QED
    BY <2>2, <2>3, QuietTransitive
<1> QED
  BY <1>2, <1>3, <1>4 DEF Edits

(* candidate_commit for an autocommit leaves the sequence alone *)
LEMMA CalmCommit ==
    ASSUME NEW d \in Datastores, RunningGood(d, Started),
           d["running"].file # ZeroFile,
           NEW c \in confirmed_commit, NEW s \in Nat, NEW oc \in Outcomes,
           NEW r, r = candidate_commit(d, c, Absent, "candidate", s, oc)
    PROVE  r.cc = c /\ Calm(d, r.ds)
<1>1. Requested(d, c, Absent, s, r)
  BY CandidateFiles
<1>2. r.cc = c /\ r.ds["rollback"] = d["rollback"]
  <2>1. \A g : PhaseTwo(g, c, Absent, s).cc = c /\ PhaseTwo(g, c, Absent, s).ds = g
    BY DEF PhaseTwo
  <2> QED
    BY <1>1, <2>1 DEF Requested
<1> QED
  BY <1>1, <1>2, DatastoreAssumption DEF Requested, Calm, Same

(* An autocommit outside of a sequence *)
LEMMA CalmAutocommitted ==
    ASSUME HInv, cc.state = "INACTIVE",
           NEW d \in Datastores, Quiet(ds, d),
           NEW s \in Nat, NEW oc \in Outcomes,
           NEW r, r = Autocommitted(d, s, oc)
    PROVE  /\ r.ds \in Datastores
           /\ RunningGood(r.ds, Started)
           /\ Calm(ds, r.ds)
           /\ r.cc = cc
<1> DEFINE k == candidate_commit(d, cc, Absent, "candidate", s, oc)
<1>1. r = IF k.ret = 1 THEN k
          ELSE [k EXCEPT !.ds = xmldb_copy(@, "running", "candidate")]
  BY DEF Autocommitted
<1>2. /\ RunningGood(d, Started)
      /\ d["running"].file # ZeroFile
      /\ cc \in confirmed_commit
  BY StoreFacts, QuietGood DEF Quiet, Same
<1>3. k.cc = cc /\ Calm(d, k.ds)
  BY <1>2, CalmCommit
<1>4. k.ds \in Datastores /\ RunningGood(k.ds, Started)
  <2>1. Absent \in CommitRequest \union {Absent}
    OBVIOUS
  <2>2. Kept(d, k.ds, s)
    BY <1>2, <2>1, KeptCommit, Zenon
  <2> QED
    BY <2>2 DEF Kept
<1>5. k = [ds |-> k.ds, cc |-> k.cc, ret |-> k.ret]
  BY Zenon DEF candidate_commit, Transacted
<1> HIDE DEF k
<1>6. Calm(ds, k.ds)
  BY <1>3, StoreFacts, QuietCalm
<1>7. CASE k.ret = 1
  BY <1>1, <1>3, <1>4, <1>6, <1>7
<1>8. CASE k.ret # 1
  <2> DEFINE w == k.ds
             u == r.ds
  <2>1. u = xmldb_copy(w, "running", "candidate") /\ r.cc = cc
    BY <1>1, <1>3, <1>5, <1>8
  <2>2. w \in Datastores /\ RunningGood(w, Started) /\ Calm(ds, w)
    BY <1>4, <1>6
  <2> HIDE DEF u, w
  <2>3. w["running"].xml # NULL
    BY <2>2, RunningCached
  <2>4. u \in Datastores /\ Quiet(w, u)
    BY <2>1, <2>2, <2>3, QuietCopy
  <2>5. Calm(ds, u) /\ RunningGood(u, Started)
    BY <2>2, <2>4, CalmQuiet, QuietGood
  <2> QED
    BY <2>1, <2>4, <2>5 DEF u
<1> QED
  BY <1>7, <1>8

(* The end of <edit-config>: startup may be written, the lock given back *)
LEMMA QuietEditEnds ==
    ASSUME NEW w \in Datastores, w["running"].xml # NULL, NEW s,
           NEW u, u \in {w, xmldb_copy(w, "running", "startup")},
           EditEnds(s, u)
    PROVE  Quiet(w, ds')
<1>1. u \in Datastores /\ Quiet(w, u)
  <2>1. CASE u = w
    BY <2>1 DEF Quiet, Same
  <2>2. CASE u = xmldb_copy(w, "running", "startup")
    BY <2>2, QuietCopy
  <2> QED
    BY <2>1, <2>2
<1>2. ds' = u \/ ds' = [u EXCEPT !["candidate"].id = 0]
  BY DEF EditEnds, xmldb_unlock
<1>3. Quiet(u, ds')
  BY <1>1, <1>2, Names DEF Quiet, Same, Datastores, db_elmnt
<1> QED
  BY <1>1, <1>3, QuietTransitive

(* <edit-config>; with autocommit running is changed, outside of a         *)
(* sequence.                                                               *)
LEMMA EditMove ==
    ASSUME Disciplined, HInv,
           NEW s \in Sessions, NEW new \in Configs, NEW edit \in Edits,
           NEW auto \in BOOLEAN, NEW cpstart \in BOOLEAN,
           NEW oc \in Outcomes,
           EditConfig(s, new, edit, auto, cpstart, oc)
    PROVE  Move
<1> DEFINE a == Autolocked(s)
           d == Edited(a, edit, new)
           r == IF edit = "put" /\ auto THEN Autocommitted(d, s, oc)
                ELSE [ds |-> d, cc |-> cc, ret |-> 1]
           cp == edit = "put" /\ cpstart
           w == r.ds
           u == IF cp /\ r.ret = 1 THEN xmldb_copy(w, "running", "startup")
                ELSE w
<1>0. s \in Nat
  BY SessionIds
<1>1. /\ EditEnds(s, u)
      /\ cc' = r.cc
      /\ auto => cc.state = "INACTIVE"
  BY DEF EditConfig, EditResult
<1>2. a \in Datastores /\ Quiet(ds, a)
  BY QuietAutolocked
<1> HIDE DEF a
<1>3. d \in Datastores /\ Quiet(ds, d)
  <2>1. a["running"].xml # NULL
    BY <1>2, QuietGood, StoreFacts
  <2>2. d \in Datastores /\ Quiet(a, d)
    BY <1>2, <2>1, QuietEdited
  <2> QED
    BY <1>2, <2>2, QuietTransitive
<1>9. u \in {w, xmldb_copy(w, "running", "startup")}
  OBVIOUS
<1> HIDE DEF d
<1>4. CASE edit = "put" /\ auto
  <2>1. r = Autocommitted(d, s, oc) /\ cc.state = "INACTIVE"
    BY <1>1, <1>4
  <2> HIDE DEF r
  <2>2. /\ r.ds \in Datastores
        /\ RunningGood(r.ds, Started)
        /\ Calm(ds, r.ds)
        /\ r.cc = cc
    BY <1>0, <1>3, <2>1, CalmAutocommitted
  <2>3. /\ w \in Datastores
        /\ RunningGood(w, Started)
        /\ Calm(ds, w)
        /\ cc' = cc
    BY <1>1, <2>2
  <2> HIDE DEF w, u
  <2>4. w["running"].xml # NULL
    BY <2>3, RunningCached
  <2>5. Quiet(w, ds')
    BY <1>1, <1>9, <2>3, <2>4, QuietEditEnds
  <2>6. Calm(ds, ds')
    BY <2>3, <2>5, CalmQuiet
  <2> QED
    BY <2>1, <2>3, <2>6, CalmMove
<1>5. CASE ~(edit = "put" /\ auto)
  <2>1. w = d /\ cc' = cc
    BY <1>1, <1>5
  <2> HIDE DEF w, u
  <2>2. w["running"].xml # NULL
    BY <1>3, <2>1, QuietGood, StoreFacts
  <2>3. Quiet(w, ds')
    BY <1>1, <1>3, <1>9, <2>1, <2>2, QuietEditEnds
  <2>4. Quiet(ds, ds')
    BY <1>3, <2>1, <2>3, QuietTransitive
  <2> QED
    BY <2>1, <2>4, QuietMove
<1> QED
  BY <1>4, <1>5

(* <copy-config> *)
LEMMA CopyMove ==
    ASSUME HInv, NEW s \in Sessions,
           NEW from \in NetconfDBs, NEW to \in NetconfDBs,
           CopyConfig(s, from, to)
    PROVE  Move
<1> DEFINE a == IF to = "candidate" THEN Autolocked(s) ELSE ds
           c == xmldb_copy(a, from, to)
<1>0. /\ from \in {"running", "candidate", "startup"}
      /\ to \in {"candidate", "startup"}
      /\ from # to
      /\ to \in DBs
  BY NetconfNames, Names DEF CopyConfig
<1>1. /\ ds' = IF to = "candidate" /\ CopyOK(ds, from)
               THEN xmldb_modified_set(c, to, TRUE)
               ELSE c
      /\ cc' = cc
  BY DEF CopyConfig
<1>2. a \in Datastores /\ Quiet(ds, a)
  <2>1. CASE to = "candidate"
    BY <2>1, QuietAutolocked
  <2>2. CASE to # "candidate"
    BY <2>2, StoreFacts DEF Quiet, Same
  <2> QED
    BY <2>1, <2>2
<1> HIDE DEF a
<1>3. c \in Datastores /\ Quiet(ds, c)
  <2>1. a["running"].xml # NULL
    BY <1>2, QuietGood, StoreFacts
  <2>2. c \in Datastores /\ Quiet(a, c)
    BY <1>0, <1>2, <2>1, QuietCopy
  <2> QED
    BY <1>2, <2>2, QuietTransitive
<1> HIDE DEF c
<1>4. Quiet(c, ds')
  <2>1. CASE to = "candidate" /\ CopyOK(ds, from)
    <3>1. ds' = xmldb_modified_set(c, to, TRUE)
      BY <1>1, <2>1
    <3> QED
      BY <1>0, <1>3, <3>1, QuietModified, Zenon
  <2>2. CASE ~(to = "candidate" /\ CopyOK(ds, from))
    BY <1>1, <2>2 DEF Quiet, Same
  <2> QED
    BY <2>1, <2>2
<1>5. Quiet(ds, ds')
  BY <1>3, <1>4, QuietTransitive
<1> QED
  BY <1>1, <1>5, QuietMove

(* <delete-config> of startup *)
LEMMA DeleteMove ==
    ASSUME HInv, NEW s \in Sessions, DeleteConfig(s)
    PROVE  Move
<1> DEFINE e == xmldb_delete(ds, "startup")
           f == xmldb_create(e, "startup")
<1>1. ds' = xmldb_modified_set(f, "startup", TRUE) /\ cc' = cc
  BY DEF DeleteConfig
<1>2. e \in Datastores /\ Frame(ds, e, {"startup"})
  BY StoreFacts, Names, Delete
<1> HIDE DEF e
<1>3. f \in Datastores /\ Frame(e, f, {"startup"})
  BY <1>2, Names, Create
<1> HIDE DEF f
<1>4. Quiet(f, ds')
  BY <1>1, <1>3, Names, QuietModified, Zenon
<1>5. Quiet(ds, e) /\ Quiet(e, f)
  BY <1>2, <1>3, QuietFrame
<1>6. Quiet(ds, ds')
  BY <1>4, <1>5, QuietTransitive
<1> QED
  BY <1>1, <1>6, QuietMove

(* <discard-changes> *)
LEMMA DiscardMove ==
    ASSUME HInv, NEW s \in Sessions, DiscardChanges(s)
    PROVE  Move
<1> DEFINE c == xmldb_copy(ds, "running", "candidate")
           m == xmldb_modified_set(c, "candidate", FALSE)
<1>1. (ds' = m \/ ds' = [m EXCEPT !["candidate"].id = 0]) /\ cc' = cc
  BY DEF DiscardChanges, xmldb_unlock
<1>2. c \in Datastores /\ Quiet(ds, c)
  BY StoreFacts, QuietCopy
<1> HIDE DEF c
<1>3. m \in Datastores /\ Quiet(c, m)
  BY <1>2, Names, QuietModified, Zenon
<1> HIDE DEF m
<1>4. Quiet(m, ds')
  BY <1>1, <1>3, Names DEF Quiet, Same, Datastores, db_elmnt
<1>5. Quiet(ds, ds')
  BY <1>2, <1>3, <1>4, QuietTransitive
<1> QED
  BY <1>1, <1>5, QuietMove

(* <validate> writes the cache of db to its file, which for running is     *)
(* what the file has already.                                              *)
LEMMA ValidateMove ==
    ASSUME HInv, NEW s \in Sessions, NEW db \in NetconfDBs, Validate(s, db)
    PROVE  Move
<1> DEFINE v == validate_common(ds, db, "ok")
           w == v.ds
<1>0. /\ db \in {"running", "candidate", "startup"}
      /\ db \in DBs
      /\ "ok" \in Outcomes
  BY NetconfNames, Names DEF Outcomes
<1>1. ds' = w /\ cc' = cc
  BY DEF Validate
<1>2. /\ Frame(ds, w, {db, "running"})
      /\ RunningGood(w, Started)
  BY <1>0, StoreFacts, ValidStarted, ValidateCommon, Zenon
<1>3. w["running"].file = ds["running"].file
  <2>1. CASE db # "running"
    <3>1. ds \in Datastores
      BY StoreFacts
    <3> QED
      BY <1>0, <2>1, <3>1, ValidateFiles
  <2>2. CASE db = "running"
    <3> DEFINE d1 == xmldb_write_cache2file(ds, db)
    <3>1. /\ d1["running"].file = ds["running"].xml
          /\ d1["running"].xml = ds["running"].xml
      BY <2>2, StoreFacts, Names
      DEF xmldb_write_cache2file, Datastores, db_elmnt
    <3>2. w = d1
      <4>1. xmldb_get_cache(d1, "running") = d1 /\ Readable(d1, "running")
        BY <3>1, StoreFacts DEF xmldb_get_cache, Readable
      <4> HIDE DEF d1
      <4> QED
        BY <2>2, <4>1, StoreFacts DEF validate_common, d1
    <3>3. ds["running"].file = ds["running"].xml
      BY StoreFacts DEF RunningGood, InStep, FileTree
    <3> QED
      BY <3>1, <3>2, <3>3
  <2> QED
    BY <2>1, <2>2
<1> HIDE DEF w
<1>4. w["running"].xml = ds["running"].xml
  BY <1>2, <1>3, StoreFacts DEF RunningGood, InStep
<1>5. w["rollback"] = ds["rollback"] /\ w["failsafe"] = ds["failsafe"]
  BY <1>0, <1>2, Names DEF Frame
<1>6. Quiet(ds, ds')
  BY <1>1, <1>3, <1>4, <1>5 DEF Quiet, Same
<1> QED
  BY <1>1, <1>6, QuietMove

(* <commit> that confirms: running stays, rollback and timer go *)
LEMMA ConfirmingMove ==
    ASSUME HInv, NEW s \in Sessions, NEW xe \in CommitRequest,
           ConfirmingCommit(s, xe)
    PROVE  Move
<1> DEFINE c0 == cancel_rollback_event(cc)
           c1 == Conclude(c0, "INACTIVE")
<1>1. /\ ds' = xmldb_delete(ds, "rollback")
      /\ cc' = c1
      /\ InProgress(cc)
  BY DEF ConfirmingCommit, cancel_confirmed_commit,
         check_valid_confirming_commit, InProgress
<1>2. cc.timers = 1
  BY <1>1 DEF HInv, SequenceOK, InProgress
<1>3. c0 \in confirmed_commit /\ c0.timers = 0
  BY <1>2, StoreFacts, CancelTimer, TimersOf
<1> HIDE DEF c0
<1>4. c1.state = "INACTIVE" /\ c1.timers = 0
  BY <1>3, Concludes, TimersOf
<1> HIDE DEF c1
<1>5. /\ Frame(ds, ds', {"rollback"})
      /\ ds'["rollback"].file = IF ds["rollback"].file = NoFile THEN NoFile
                                ELSE ZeroFile
  BY <1>1, StoreFacts, Names, Delete
<1>6. ds'["running"] = ds["running"] /\ ds'["failsafe"] = ds["failsafe"]
  BY <1>5, Names DEF Frame
<1>7. ~xmldb_exists(ds', "rollback")
  BY <1>5 DEF xmldb_exists
<1>8. StoresOK'
  BY <1>6 DEF HInv, StoresOK, FailsafeKept
<1> QED
  BY <1>1, <1>4, <1>6, <1>7, <1>8 DEF Move, Ends

(* <commit> that commits, with or without <confirmed/> *)
LEMMA CommitMove ==
    ASSUME Disciplined, HInv, NEW s \in Sessions, NEW xe \in CommitRequest,
           NEW oc \in Outcomes, Commit(s, xe, oc)
    PROVE  Move
<1> DEFINE r == candidate_commit(ds, cc, xe, "candidate", s, oc)
           w == r.ds
<1>0. s \in Nat /\ s # 0
  BY SessionIds
<1>1. /\ ds' = w \/ ds' = [w EXCEPT !["candidate"].id = 0]
      /\ cc' = r.cc
      /\ cc.state = "INACTIVE" \/ check_valid_confirming_commit(cc, xe, s)
      /\ xe.confirmed \/ ~check_valid_confirming_commit(cc, xe, s)
  BY DEF Commit, CommitResult, xmldb_unlock
<1>2. Requested(ds, cc, xe, s, r)
  BY <1>0, StoreFacts, CandidateFiles
<1>3. w \in Datastores
  <2>1. Kept(ds, w, s)
    BY <1>0, StoreFacts, KeptCommit, Zenon
  <2> QED
    BY <2>1 DEF Kept
<1> HIDE DEF r
<1>4. /\ w["failsafe"] = ds["failsafe"]
      /\ w["running"].file # ZeroFile
  BY <1>2, StoreFacts, DatastoreAssumption DEF Requested
<1>5. \/ cc' = cc /\ w["rollback"] = ds["rollback"]
      \/ \E g \in Datastores :
           /\ Same(ds, g, "running")
           /\ InStep(g, "running")
           /\ g["rollback"] = ds["rollback"]
           /\ cc' = PhaseTwo(g, cc, xe, s).cc
           /\ w["rollback"] = PhaseTwo(g, cc, xe, s).ds["rollback"]
  BY <1>1, <1>2 DEF Requested
<1> HIDE DEF w
<1>6. Quiet(w, ds')
  BY <1>1, <1>3, Names DEF Quiet, Same, Datastores, db_elmnt
<1>7. StoresOK'
  BY <1>4, <1>6 DEF HInv, StoresOK, FailsafeKept, Quiet, Same
<1>8. CASE cc' = cc /\ w["rollback"] = ds["rollback"]
  <2>1. Idle \/ GoesOn
    BY <1>6, <1>8
    DEF HInv, SequenceOK, Quiet, Same, Idle, GoesOn, Holds, xmldb_exists
  <2> QED
    BY <1>7, <2>1 DEF Move
<1>9. CASE \E g \in Datastores :
             /\ Same(ds, g, "running")
             /\ InStep(g, "running")
             /\ g["rollback"] = ds["rollback"]
             /\ cc' = PhaseTwo(g, cc, xe, s).cc
             /\ w["rollback"] = PhaseTwo(g, cc, xe, s).ds["rollback"]
  <2>1. PICK g \in Datastores :
           /\ Same(ds, g, "running")
           /\ InStep(g, "running")
           /\ g["rollback"] = ds["rollback"]
           /\ cc' = PhaseTwo(g, cc, xe, s).cc
           /\ w["rollback"] = PhaseTwo(g, cc, xe, s).ds["rollback"]
    BY <1>9
  <2> DEFINE p == PhaseTwo(g, cc, xe, s)
  <2>2. \/ cc.state = "INACTIVE" /\ cc.timers = 0 /\ ~xmldb_exists(g, "rollback")
        \/ InProgress(cc) /\ cc.timers = 1 /\ xmldb_exists(g, "rollback")
    <3>1. origin \in Valid => origin \notin {NoFile, ZeroFile}
      BY CommitAssumption, DatastoreAssumption
    <3> QED
      BY <2>1, <3>1 DEF HInv, SequenceOK, Holds, xmldb_exists
  <2>3. SecondPhase(g, cc, p)
    BY <1>0, <1>1, <2>1, <2>2, StoreFacts, PhaseTwoSequence
  <2>4. cc' = p.cc /\ w["rollback"] = p.ds["rollback"]
    BY <2>1
  <2> HIDE DEF p
  <2>5. g["running"].file = ds["running"].xml /\ g["running"].xml = ds["running"].xml
    BY <2>1, StoreFacts DEF Same, RunningGood, InStep, FileTree
  <2>6. CASE cc.state = "INACTIVE" /\ cc'.state = "INACTIVE"
    <3>1. Idle
      BY <1>6, <2>3, <2>4, <2>6
      DEF SecondPhase, InProgress, Idle, Quiet, Same, xmldb_exists
    <3> QED
      BY <1>7, <3>1 DEF Move
  <2>7. CASE cc.state = "INACTIVE" /\ cc'.state # "INACTIVE"
    <3>1. Begins
      BY <1>6, <2>3, <2>4, <2>5, <2>7
      DEF SecondPhase, InProgress, Begins, Quiet, Same, Holds
    <3> QED
      BY <1>7, <3>1 DEF Move
  <2>8. CASE cc.state # "INACTIVE"
    <3>1. Holds(ds, origin)
      BY <2>8 DEF HInv, SequenceOK
    <3>2. GoesOn
      BY <1>6, <2>1, <2>3, <2>4, <2>8, <3>1
      DEF SecondPhase, InProgress, GoesOn, Quiet, Same, Holds
    <3> QED
      BY <1>7, <3>2 DEF Move
  <2> QED
    BY <2>6, <2>7, <2>8
<1> QED
  BY <1>5, <1>8, <1>9

(* <cancel-commit> *)
LEMMA CancelMove ==
    ASSUME HInv, NEW s, NEW q, NEW oc \in Outcomes, NEW foc \in Outcomes,
           CancelCommit(s, q, oc, foc)
    PROVE  Move /\ Restored(oc)
<1> DEFINE r == do_rollback(ds, cancel_rollback_event(cc), oc, foc)
<1>1. up /\ ds' = r.ds /\ cc' = r.cc /\ InProgress(cc)
  BY DEF CancelCommit, Results, Serving, InProgress
<1>2. Quiet(ds, ds) /\ Quiet(r.ds, ds')
  BY <1>1 DEF Quiet, Same
<1> QED
  BY <1>1, <1>2, StoreFacts, RollbackMove

(* The rollback timer *)
LEMMA TimeoutMove ==
    ASSUME HInv, NEW oc \in Outcomes, NEW foc \in Outcomes,
           RollbackTimeout(oc, foc)
    PROVE  Move /\ Restored(oc)
<1> DEFINE r == do_rollback(ds, cancel_rollback_event(cc), oc, foc)
<1>1. up /\ ds' = r.ds /\ cc' = r.cc /\ cc.timers > 0
  BY DEF RollbackTimeout, TimedOut
<1>2. InProgress(cc)
  BY <1>1 DEF HInv, SequenceOK
<1>3. Quiet(ds, ds) /\ Quiet(r.ds, ds')
  BY <1>1 DEF Quiet, Same
<1> QED
  BY <1>1, <1>2, <1>3, StoreFacts, RollbackMove

(* Every request of a session is a move, one step per handler *)
LEMMA RequestMove ==
    ASSUME Disciplined, HInv, NEW s \in Sessions, Request(s)
    PROVE  Move
<1>1. ASSUME NEW r \in EditRequests,
             EditConfig(s, r.new, r.edit, r.auto, r.cpstart, r.oc)
      PROVE  Move
  <2>1. /\ r.new \in Configs
        /\ r.edit \in Edits
        /\ r.auto \in BOOLEAN
        /\ r.oc \in Outcomes
    BY <1>1, OutcomeTypes DEF EditRequests
  <2>2. r.cpstart \in BOOLEAN
    BY <1>1, BackendAssumption, Zenon DEF EditRequests
  <2> QED
    BY <1>1, <2>1, <2>2, EditMove
<1>2. ASSUME NEW xe \in Commits, ConfirmingCommit(s, xe) PROVE Move
  BY <1>2, ConfirmingMove DEF Commits
<1>3. ASSUME NEW xe \in Commits, NEW oc \in Outcomes, Commit(s, xe, oc)
      PROVE  Move
  BY <1>3, CommitMove DEF Commits
<1>4. ASSUME NEW q \in PersistIds \union {NoId, Absent},
             NEW oc \in Failures, NEW foc \in Failures,
             CancelCommit(s, q, oc, foc)
      PROVE  Move
  BY <1>4, OutcomeTypes, CancelMove
<1>5. ASSUME NEW oc \in EndOutcomes(s), NEW foc \in EndOutcomes(s),
             CloseSession(s, oc, foc)
      PROVE  Move
  BY <1>5, OutcomeTypes, CloseMove
<1>6. ASSUME NEW t \in Sessions, NEW oc \in EndOutcomes(t),
             NEW foc \in EndOutcomes(t), KillSession(s, t, oc, foc)
      PROVE  Move
  BY <1>6, OutcomeTypes, KillMove
<1>7. ASSUME CreateSubscription(s) PROVE Move
  <2>1. Quiet(ds, ds') /\ cc' = cc
    BY <1>7 DEF CreateSubscription, Quiet, Same
  <2> QED
    BY <2>1, QuietMove
<1> QED
  BY <1>1, <1>2, <1>3, <1>4, <1>5, <1>6, <1>7, LockMove, CopyMove,
     DeleteMove, DiscardMove, ValidateMove
  DEF Request

(* Every event is a move *)
LEMMA NextMove ==
    ASSUME Disciplined, HInv, Next
    PROVE  Move
<1>1. ASSUME NEW s \in Sessions, SessionEnds(s) PROVE Move
  <2>1. PICK oc \in EndOutcomes(s), foc \in EndOutcomes(s) :
           Disconnect(s, oc, foc) \/ StreamStop(s, oc, foc)
    BY <1>1 DEF SessionEnds
  <2>2. oc \in Outcomes /\ foc \in Outcomes
    BY OutcomeTypes
  <2>3. CASE Disconnect(s, oc, foc)
    BY <2>2, <2>3, LeaveMove DEF Disconnect, Serving
  <2>4. CASE StreamStop(s, oc, foc)
    BY <2>2, <2>4, StreamStopMove
  <2> QED
    BY <2>1, <2>3, <2>4
<1>2. ASSUME Timeout PROVE Move
  BY <1>2, OutcomeTypes, TimeoutMove DEF Timeout
<1>3. ASSUME Accept PROVE Move
  <2>1. Quiet(ds, ds') /\ cc' = cc
    BY <1>3 DEF Accept, Quiet, Same
  <2> QED
    BY <2>1, QuietMove
<1> QED
  BY <1>1, <1>2, <1>3, RequestMove DEF Next

------------------------------------------------------------------------------
(* The induction *)

(* After startup there is no sequence *)
LEMMA InitHInv ==
    ASSUME ~InitMode, HInit
    PROVE  HInv
<1>1. IInv
  BY InitIInv DEF HInit
<1>2. PICK r \in Valid :
        ds = [db \in DBs |->
                 [xml |-> IF db \in {"running", "candidate"} THEN r ELSE NULL,
                  file |-> CASE db \in {"running", "candidate"} ->
                                  IF InitMode THEN ZeroFile ELSE r
                             [] db = "startup" -> StartupFile
                             [] db = "failsafe" -> FailsafeFile
                             [] db \in {"rollback", "tmp"} -> ScratchFile,
                  id |-> 0,
                  modified |-> FALSE]]
  BY DEF HInit, Init
<1>3. /\ ds["running"].file = r
      /\ ds["failsafe"].xml = NULL
      /\ ds["failsafe"].file = FailsafeFile
      /\ ds["rollback"].file = ScratchFile
  BY <1>2, Names
<1>4. r # ZeroFile
  BY CommitAssumption, DatastoreAssumption
<1>5. StoresOK
  BY <1>3, <1>4 DEF StoresOK, FailsafeKept
<1>6. SequenceOK
  BY <1>3, BackendAssumption DEF SequenceOK, HInit, Init, xmldb_exists
<1> QED
  BY <1>1, <1>5, <1>6 DEF HInv

(* Every step preserves the invariant, and is one of ConfirmedCommit *)
LEMMA NextHInv ==
    ASSUME ~InitMode, Disciplined, HInv, [HNext]_hvars
    PROVE  /\ HInv'
           /\ Promise!Next \/ UNCHANGED <<ds["running"].xml,
                                          cc.state # "INACTIVE", origin>>
<1>1. CASE HNext
  <2>1. Next /\ IInv'
    BY <1>1, NextIInv DEF HNext, HInv
  <2>2. Move
    BY <2>1, NextMove
  <2>3. origin' = CASE Began -> ds["running"].xml
                    [] ~Began /\ cc'.state = "INACTIVE" -> NULL
                    [] ~Began /\ cc'.state # "INACTIVE" -> origin
    BY <1>1 DEF HNext
  <2> QED
    BY <2>1, <2>2, <2>3, MoveKeeps, MovePromised
<1>2. CASE UNCHANGED hvars
  <2>1. UNCHANGED vars /\ origin' = origin
    BY <1>2 DEF hvars, vars
  <2>2. IInv'
    BY <2>1, StutterStep DEF HInv
  <2>3. StoresOK' /\ SequenceOK'
    BY <2>1
    DEF vars, HInv, StoresOK, SequenceOK, FailsafeKept, Holds, InProgress,
        xmldb_exists
  <2> QED
    BY <2>1, <2>2, <2>3 DEF HInv, vars
<1> QED
  BY <1>1, <1>2

(* The invariant holds in all behaviours *)
LEMMA HInvariance ==
    ASSUME ~InitMode, Disciplined
    PROVE  HSpec => []HInv
<1>1. HInit => HInv
  BY InitHInv
<1>2. HInv /\ [HNext]_hvars => HInv'
  BY NextHInv
<1> QED
  BY <1>1, <1>2, PTL DEF HSpec

------------------------------------------------------------------------------

(* While a confirmed commit is unconfirmed exactly one rollback timer is   *)
(* registered and otherwise none, however many sessions extend, cancel,    *)
(* confirm or disconnect: schedule_rollback_event is always paired with    *)
(* cancel_rollback_event.                                                  *)
THEOREM ExactlyOneTimer ==
    ASSUME ~InitMode, Disciplined
    PROVE  HSpec => []OneTimer
<1>1. HInv => OneTimer
  BY DEF HInv, SequenceOK, OneTimer, InProgress
<1> QED
  BY <1>1, HInvariance, PTL

(* The file of the rollback datastore has the configuration from before    *)
(* the sequence for as long as the sequence lasts, so that a daemon that   *)
(* is restarted finds it; afterwards xmldb_exists does not see it.         *)
THEOREM RollbackFileKept ==
    ASSUME ~InitMode, Disciplined
    PROVE  HSpec => []RollbackStored
<1>1. HInv => RollbackStored
  BY DEF HInv, SequenceOK, RollbackStored, Holds, InProgress
<1> QED
  BY <1>1, HInvariance, PTL

(* do_rollback, on a timeout, <cancel-commit> or the end of the session,   *)
(* puts back the running configuration from before the sequence unless a   *)
(* plugin callback fails.                                                  *)
THEOREM RollbackPutsBack ==
    ASSUME ~InitMode, Disciplined
    PROVE  HSpec => RollbackRestores
<1>1. ASSUME HInv, HInv', [HNext]_hvars, RollsBack("ok")
      PROVE  ds'["running"].xml = origin
  <2>1. PICK foc \in Failures :
          \/ RollbackTimeout("ok", foc)
          \/ \E s \in Sessions, q \in PersistIds \union {NoId, Absent} :
               CancelCommit(s, q, "ok", foc)
          \/ \E s \in Sessions :
               /\ OwnsEphemeral(s)
               /\ \/ Disconnect(s, "ok", foc)
                  \/ StreamStop(s, "ok", foc)
                  \/ s \in subs /\ CloseSession(s, "ok", foc)
                  \/ \E t \in Sessions : s \in clients /\ KillSession(t, s, "ok", foc)
    BY <1>1 DEF RollsBack
  <2>2. "ok" \in Outcomes /\ foc \in Outcomes
    BY OutcomeTypes DEF Outcomes
  <2>3. ASSUME RollbackTimeout("ok", foc) PROVE Restored("ok")
    BY <1>1, <2>2, <2>3, TimeoutMove
  <2>4. ASSUME NEW s, NEW q, CancelCommit(s, q, "ok", foc)
        PROVE  Restored("ok")
    BY <1>1, <2>2, <2>4, CancelMove
  <2>5. ASSUME NEW s \in Sessions, OwnsEphemeral(s), Disconnect(s, "ok", foc)
        PROVE  Restored("ok")
    BY <1>1, <2>2, <2>5, LeaveMove DEF Disconnect, Serving
  <2>6. ASSUME NEW s \in Sessions, OwnsEphemeral(s), StreamStop(s, "ok", foc)
        PROVE  Restored("ok")
    BY <1>1, <2>2, <2>6, StreamStopMove
  <2>7. ASSUME NEW s \in Sessions, OwnsEphemeral(s), s \in subs,
               CloseSession(s, "ok", foc)
        PROVE  Restored("ok")
    BY <1>1, <2>2, <2>7, CloseMove
  <2>8. ASSUME NEW s \in Sessions, OwnsEphemeral(s), NEW t \in Sessions,
               s \in clients, KillSession(t, s, "ok", foc)
        PROVE  Restored("ok")
    BY <1>1, <2>2, <2>8, KillMove
  <2>9. Restored("ok")
    BY <2>1, <2>3, <2>4, <2>5, <2>6, <2>7, <2>8
  <2>10. /\ ds' \in Datastores
         /\ RunningGood(ds', Started)
         /\ ds'["running"].file # ZeroFile
    BY <1>1 DEF HInv, IInv, StoreOK, StoresOK
  <2>11. ds'["running"].file = ds'["running"].xml
    BY <2>10, RunningStored
  <2> QED
    BY <2>9, <2>11 DEF Restored
<1>2. HInv /\ HInv' /\ [HNext]_hvars =>
        [RollsBack("ok") => ds'["running"].xml = origin]_hvars
  BY <1>1
<1> QED
  BY <1>2, HInvariance, PTL DEF HSpec, RollbackRestores

(* The backend carries out the confirmed-commit procedure: every behaviour *)
(* of its sessions, timers and datastores is one that ConfirmedCommit      *)
(* allows.                                                                 *)
THEOREM PromiseKept ==
    ASSUME ~InitMode, Disciplined
    PROVE  HSpec => KeepsPromise
<1>1. HInit => Promise!Init
  <2> SUFFICES ASSUME HInit PROVE Promise!Init
    OBVIOUS
  <2>1. HInv
    BY InitHInv
  <2>2. ds["running"].xml \in Configs
    BY <2>1, StoreFacts, RunningStored, CommitAssumption
  <2>3. origin = NULL /\ cc.state = "INACTIVE"
    BY DEF HInit, Init
  <2> QED
    BY <2>2, <2>3 DEF Promise!Init
<1>2. HInv /\ [HNext]_hvars =>
        [Promise!Next]_<<ds["running"].xml, cc.state # "INACTIVE", origin>>
  BY NextHInv
<1> QED
  BY <1>1, <1>2, HInvariance, PTL DEF HSpec, KeepsPromise, Promise!Spec
==============================================================================
