---------------------------- MODULE CommitProofs -----------------------------
(***************************************************************************)
(* What the operators of Datastore do to the datastores, field by field,   *)
(* and what those of Commit promise for every set of configurations and    *)
(* every outcome of the plugins' callbacks: they keep the types, take no   *)
(* lock, and leave running valid and in step with its file.                *)
(***************************************************************************)
EXTENDS Commit, TLAPS

------------------------------------------------------------------------------
(* Datastores *)

(* Only the datastores in S differ between d and e *)
Frame(d, e, S) == \A b \in DBs \ S : e[b] = d[b]

SameLocks(d, e) == \A b \in DBs : e[b].id = d[b].id

(* Locks may be released; the candidate's is kept *)
Releases(d, e) ==
    /\ \A b \in DBs : e[b].id \in {0, d[b].id}
    /\ e["candidate"].id = d["candidate"].id

(* The backend can read db, and the file has the tree that is in memory *)
InStep(d, db) ==
    /\ d[db].xml \in Configs
    /\ d[db].file # NoFile
    /\ FileTree(d[db].file) = d[db].xml

(* The files of the datastores hold a tree unless they are missing *)
LEMMA FileTreeType ==
    ASSUME NEW d \in Datastores, NEW db \in DBs, d[db].file # NoFile
    PROVE  FileTree(d[db].file) \in Configs
  BY DatastoreAssumption DEF Datastores, db_elmnt, FileTree

(* Locks that are the same are released by nobody *)
LEMMA SameLocksRelease ==
    ASSUME NEW d, NEW e, SameLocks(d, e)
    PROVE  Releases(d, e)
  BY DEF Releases, SameLocks, DBs

(* Handlers make several calls, none of which takes a lock *)
LEMMA ReleasesTransitive ==
    ASSUME NEW d, NEW e, NEW f, Releases(d, e), Releases(e, f)
    PROVE  Releases(d, f)
  BY DEF Releases

(* xmldb_get_cache loads the cache of one datastore, from its file *)
LEMMA GetCache ==
    ASSUME NEW d \in Datastores, NEW db \in DBs, Readable(d, db),
           NEW e, e = xmldb_get_cache(d, db)
    PROVE  /\ e \in Datastores
           /\ Frame(d, e, {db})
           /\ SameLocks(d, e)
           /\ e[db].xml \in Configs
           /\ d[db].xml # NULL => e = d
           /\ d[db].xml = NULL => e[db].xml = FileTree(d[db].file)
           /\ e[db].file = d[db].file
<1>1. CASE d[db].xml # NULL
  BY <1>1 DEF Datastores, db_elmnt, xmldb_get_cache, Frame, SameLocks
<1>2. CASE d[db].xml = NULL
  <2>1. FileTree(d[db].file) \in Configs
    BY <1>2, FileTreeType DEF Readable
  <2> QED
    BY <1>2, <2>1
    DEF Datastores, db_elmnt, xmldb_get_cache, Frame, SameLocks
<1> QED
  BY <1>1, <1>2

(* xmldb_write_cache2file brings the file in step with the cache *)
LEMMA WriteCache ==
    ASSUME NEW d \in Datastores, NEW db \in DBs, d[db].xml # NULL,
           NEW e, e = xmldb_write_cache2file(d, db)
    PROVE  /\ e \in Datastores
           /\ Frame(d, e, {db})
           /\ SameLocks(d, e)
           /\ e[db].xml = d[db].xml
           /\ InStep(e, db)
<1>1. d[db].xml \in Configs
  BY DEF Datastores, db_elmnt
<1> QED
  BY <1>1, DatastoreAssumption
  DEF Datastores, db_elmnt, xmldb_write_cache2file, Frame, SameLocks, InStep,
      FileTree

(* xmldb_copy makes "to" what "from" is, or, when "from" cannot be read,   *)
(* leaves "to" without a cache.                                            *)
LEMMA Copy ==
    ASSUME NEW d \in Datastores, NEW from \in DBs, NEW to \in DBs, from # to,
           NEW e, e = xmldb_copy(d, from, to)
    PROVE  /\ e \in Datastores
           /\ Frame(d, e, {from, to})
           /\ SameLocks(d, e)
           /\ d[from].xml # NULL => e[from] = d[from]
           /\ InStep(d, from) => InStep(e, to) /\ e[to].xml = d[from].xml
<1>1. CASE Readable(d, from)
  <2> DEFINE g == xmldb_get_cache(d, from)
  <2>1. /\ g \in Datastores
        /\ Frame(d, g, {from})
        /\ SameLocks(d, g)
        /\ g[from].xml \in Configs
        /\ d[from].xml # NULL => g = d
        /\ g[from].file = d[from].file
    BY <1>1, GetCache, Zenon
  <2> DEFINE f == IF g[from].file = NoFile THEN g[to].file ELSE g[from].file
  <2>2. e = [g EXCEPT ![to].xml = g[from].xml, ![to].file = f]
    BY <1>1, <2>1 DEF xmldb_copy, Datastores, db_elmnt
  <2>7. f \in Configs \union {NoFile, ZeroFile}
    BY <2>1 DEF Datastores, db_elmnt
  <2> HIDE DEF g
  <2>3. /\ e \in Datastores
        /\ Frame(g, e, {to})
        /\ SameLocks(g, e)
        /\ e[to].xml = g[from].xml
        /\ g[from].file # NoFile => e[to].file = g[from].file
    <3> DEFINE r == [g[to] EXCEPT !.xml = g[from].xml, !.file = f]
    <3> HIDE DEF f
    <3>1. e = [g EXCEPT ![to] = r]
      BY <2>1, <2>2, Zenon DEF Datastores
    <3>2. /\ r \in db_elmnt
          /\ r.xml = g[from].xml
          /\ r.file = f
          /\ r.id = g[to].id
      <4>1. g[to] \in db_elmnt
        BY <2>1 DEF Datastores
      <4> QED
        BY <2>1, <2>7, <4>1, Zenon DEF db_elmnt
    <3> HIDE DEF r
    <3>3. e \in Datastores /\ Frame(g, e, {to}) /\ e[to] = r
      BY <2>1, <3>1, <3>2 DEF Datastores, Frame
    <3>4. /\ e[to].xml = g[from].xml
          /\ e[to].file = f
          /\ e[to].id = g[to].id
      BY <3>2, <3>3
    <3>5. SameLocks(g, e)
      BY <3>3, <3>4 DEF Frame, SameLocks
    <3> QED
      BY <3>3, <3>4, <3>5 DEF f
  <2>4. Frame(d, e, {from, to}) /\ SameLocks(d, e)
    BY <2>1, <2>3 DEF Frame, SameLocks
  <2>5. d[from].xml # NULL => e[from] = d[from]
    BY <2>1, <2>3 DEF Frame
  <2>6. InStep(d, from) => InStep(e, to) /\ e[to].xml = d[from].xml
    BY <2>1, <2>3, DatastoreAssumption DEF InStep
  <2> QED
    BY <2>3, <2>4, <2>5, <2>6
<1>2. CASE ~Readable(d, from)
  <2>1. ~InStep(d, from) /\ d[from].xml = NULL
    BY <1>2, DatastoreAssumption DEF InStep, Readable
  <2>2. e = [d EXCEPT ![to].xml = NULL]
    BY <1>2 DEF xmldb_copy
  <2> QED
    BY <2>1, <2>2 DEF Datastores, db_elmnt, Frame, SameLocks
<1> QED
  BY <1>1, <1>2

(* A copy that succeeds copies the file and keeps that of "from" *)
LEMMA CopyFiles ==
    ASSUME NEW d \in Datastores, NEW from \in DBs, NEW to \in DBs, from # to,
           CopyOK(d, from),
           NEW e, e = xmldb_copy(d, from, to)
    PROVE  e[to].file = d[from].file /\ e[from].file = d[from].file
<1> DEFINE g == xmldb_get_cache(d, from)
<1>1. Readable(d, from) /\ d[from].file # NoFile
  BY DEF CopyOK
<1>2. g \in Datastores /\ g[from].file = d[from].file
  BY <1>1, GetCache, Zenon
<1>3. e = [g EXCEPT ![to].xml = g[from].xml, ![to].file = g[from].file]
  BY <1>1, <1>2 DEF xmldb_copy, Datastores, db_elmnt
<1> HIDE DEF g
<1> QED
  BY <1>2, <1>3 DEF Datastores, db_elmnt

(* A file in step after being read from disk *)
LEMMA ReadInStep ==
    ASSUME NEW d \in Datastores, NEW db \in DBs, db # "candidate",
           d[db].xml = NULL, d[db].file # NoFile,
           NEW e, e = xmldb_get_cache(d, db)
    PROVE  InStep(e, db)
<1>1. Readable(d, db)
  BY DEF Readable
<1>2. e[db].xml \in Configs /\ e[db].file = d[db].file
      /\ e[db].xml = FileTree(d[db].file)
  BY <1>1, GetCache, Zenon
<1> QED
  BY <1>2 DEF InStep

(* A copy of a datastore that is not in the cache is what its file holds *)
LEMMA RestoreCopy ==
    ASSUME NEW d \in Datastores, NEW from \in DBs, NEW to \in DBs,
           from # to, from # "candidate",
           d[from].xml = NULL, d[from].file # NoFile,
           NEW e, e = xmldb_copy(d, from, to)
    PROVE  /\ InStep(e, to)
           /\ e[to].xml = FileTree(d[from].file)
<1> DEFINE g == xmldb_get_cache(d, from)
<1>1. Readable(d, from)
  BY DEF Readable
<1>2. /\ g \in Datastores
      /\ g[from].xml = FileTree(d[from].file)
      /\ g[from].xml \in Configs
      /\ g[from].file = d[from].file
  BY <1>1, GetCache, Zenon
<1>3. InStep(g, from) /\ Readable(g, from) /\ xmldb_get_cache(g, from) = g
  BY <1>2, DatastoreAssumption DEF InStep, Readable, xmldb_get_cache
<1>4. e = xmldb_copy(g, from, to)
  BY <1>1, <1>3 DEF xmldb_copy
<1> HIDE DEF g
<1>6. g \in Datastores /\ InStep(g, from)
  BY <1>2, <1>3
<1>5. InStep(e, to) /\ e[to].xml = g[from].xml
  BY <1>4, <1>6, Copy, ZenonT(40)
<1> QED
  BY <1>2, <1>5

------------------------------------------------------------------------------
(* The operators that change one datastore *)

(* The lock of one datastore is set, the rest of it stays *)
LEMMA SetLock ==
    ASSUME NEW d \in Datastores, NEW db \in DBs, NEW s \in Nat,
           NEW e, e = [d EXCEPT ![db].id = s]
    PROVE  /\ e \in Datastores
           /\ Frame(d, e, {db})
           /\ e[db].id = s
           /\ e[db].xml = d[db].xml
           /\ e[db].file = d[db].file
           /\ e[db].modified = d[db].modified
  BY DEF Datastores, db_elmnt, Frame

(* xmldb_modified_set changes the dirty bit only *)
LEMMA ModifiedSet ==
    ASSUME NEW d \in Datastores, NEW db \in DBs, NEW bit \in BOOLEAN,
           NEW e, e = xmldb_modified_set(d, db, bit)
    PROVE  /\ e \in Datastores
           /\ Frame(d, e, {db})
           /\ SameLocks(d, e)
           /\ e[db].xml = d[db].xml
           /\ e[db].file = d[db].file
  BY DEF Datastores, db_elmnt, Frame, SameLocks, xmldb_modified_set

(* xmldb_copy_file changes the file only, not the cache *)
LEMMA CopyFile ==
    ASSUME NEW d \in Datastores, NEW from \in DBs, NEW to \in DBs,
           NEW e, e = xmldb_copy_file(d, from, to)
    PROVE  /\ e \in Datastores
           /\ Frame(d, e, {to})
           /\ SameLocks(d, e)
           /\ e[to].xml = d[to].xml
           /\ e[to].file = d[from].file
  BY DEF Datastores, db_elmnt, Frame, SameLocks, xmldb_copy_file

(* xmldb_rename takes the file and keeps the cache and the lock *)
LEMMA RenameFile ==
    ASSUME NEW d \in Datastores, NEW db \in DBs,
           NEW e, e = xmldb_rename(d, db)
    PROVE  /\ e \in Datastores
           /\ Frame(d, e, {db})
           /\ SameLocks(d, e)
           /\ e[db].xml = d[db].xml
           /\ e[db].file = NoFile
  BY DEF Datastores, db_elmnt, Frame, SameLocks, xmldb_rename

(* A deleted datastore other than the candidate loses its lock *)
LEMMA Delete ==
    ASSUME NEW d \in Datastores, NEW db \in DBs, db # "candidate",
           NEW e, e = xmldb_delete(d, db)
    PROVE  /\ e \in Datastores
           /\ Frame(d, e, {db})
           /\ Releases(d, e)
           /\ e[db].xml = NULL
           /\ e[db].file = IF d[db].file = NoFile THEN NoFile ELSE ZeroFile
<1> DEFINE k == [d[db] EXCEPT !.xml = NULL, !.modified = FALSE, !.id = 0]
           c == [d EXCEPT ![db] = k]
           f == IF k.file = NoFile THEN NoFile ELSE ZeroFile
           r == [k EXCEPT !.file = f]
<1>1. /\ k \in db_elmnt
      /\ k.xml = NULL
      /\ k.id = 0
      /\ k.file = d[db].file
  BY Zenon DEF db_elmnt, Datastores
<1>2. xmldb_clear(d, db) = c
  BY Zenon DEF xmldb_clear, Datastores, db_elmnt
<1> HIDE DEF k
<1>3. e = [c EXCEPT ![db] = r]
  BY <1>1, <1>2, Zenon DEF xmldb_delete, Datastores, db_elmnt
<1>4. /\ r \in db_elmnt
      /\ r.xml = NULL
      /\ r.id = 0
      /\ r.file = f
  BY <1>1 DEF db_elmnt
<1>5. f = IF d[db].file = NoFile THEN NoFile ELSE ZeroFile
  BY <1>1
<1> HIDE DEF r, f
<1> QED
  BY <1>3, <1>4, <1>5 DEF Datastores, Frame, Releases, DBs

(* xmldb_clear drops the cache and the lock, not the file *)
LEMMA Clear ==
    ASSUME NEW d \in Datastores, NEW db \in DBs,
           NEW e, e = xmldb_clear(d, db)
    PROVE  /\ e \in Datastores
           /\ Frame(d, e, {db})
           /\ e[db].xml = NULL
           /\ e[db].file = d[db].file
<1> DEFINE k == [d[db] EXCEPT !.xml = NULL, !.modified = FALSE, !.id = 0]
<1>1. k \in db_elmnt /\ k.xml = NULL /\ k.file = d[db].file
  BY Zenon DEF db_elmnt, Datastores
<1>2. e = [d EXCEPT ![db] = k]
  BY Zenon DEF xmldb_clear, Datastores, db_elmnt
<1> HIDE DEF k
<1> QED
  BY <1>1, <1>2 DEF Datastores, Frame

(* xmldb_create drops the cache and makes sure that there is a file *)
LEMMA Create ==
    ASSUME NEW d \in Datastores, NEW db \in DBs,
           NEW e, e = xmldb_create(d, db)
    PROVE  /\ e \in Datastores
           /\ Frame(d, e, {db})
           /\ SameLocks(d, e)
           /\ e[db].xml = NULL
           /\ e[db].file # NoFile
           /\ e[db].file = IF d[db].file = NoFile THEN ZeroFile
                           ELSE d[db].file
<1> DEFINE f == IF d[db].file = NoFile THEN ZeroFile ELSE d[db].file
           r == [d[db] EXCEPT !.xml = NULL, !.file = f]
<1>1. r \in db_elmnt /\ r.xml = NULL /\ r.file = f /\ r.id = d[db].id
  BY Zenon DEF db_elmnt, Datastores
<1>2. e = [d EXCEPT ![db] = r]
  BY Zenon DEF xmldb_create, Datastores, db_elmnt
<1>3. f # NoFile /\ f = IF d[db].file = NoFile THEN ZeroFile ELSE d[db].file
  BY DatastoreAssumption
<1> HIDE DEF r, f
<1> QED
  BY <1>1, <1>2, <1>3 DEF Datastores, Frame, SameLocks

(* A datastore that is reset is an empty file, which can be read *)
LEMMA Reset ==
    ASSUME NEW d \in Datastores, NEW db \in DBs, db # "candidate",
           NEW e, e = xmldb_db_reset(d, db)
    PROVE  /\ e \in Datastores
           /\ Frame(d, e, {db})
           /\ Releases(d, e)
           /\ e[db].file # NoFile
           /\ e[db].xml = NULL /\ e[db].file = ZeroFile
<1>1. PICK g : /\ g = IF xmldb_exists(d, db) THEN xmldb_delete(d, db) ELSE d
               /\ e = xmldb_create(g, db)
  BY DEF xmldb_db_reset
<1>2. /\ g \in Datastores
      /\ Frame(d, g, {db})
      /\ Releases(d, g)
      /\ g[db].file \in {NoFile, ZeroFile}
  <2>1. SameLocks(d, d) /\ Frame(d, d, {db})
    BY DEF SameLocks, Frame
  <2>2. CASE xmldb_exists(d, db)
    BY <1>1, <2>2, Delete
  <2>3. CASE ~xmldb_exists(d, db)
    BY <1>1, <2>1, <2>3, SameLocksRelease DEF xmldb_exists
  <2> QED
    BY <2>2, <2>3
<1>3. /\ e \in Datastores
      /\ Frame(g, e, {db})
      /\ SameLocks(g, e)
      /\ e[db].file # NoFile
      /\ e[db].xml = NULL
      /\ e[db].file = IF g[db].file = NoFile THEN ZeroFile ELSE g[db].file
  BY <1>1, <1>2, Create
<1>4. Releases(d, e)
  BY <1>2, <1>3, SameLocksRelease, ReleasesTransitive
<1>5. Frame(d, e, {db})
  BY <1>2, <1>3 DEF Frame
<1> QED
  BY <1>2, <1>3, <1>4, <1>5

(* The candidate that xmldb_put edits: a copy of running if not cached *)
LEMMA PutBaseCandidate ==
    ASSUME NEW d \in Datastores, d["running"].xml # NULL,
           NEW g, g = PutBase(d, "candidate")
    PROVE  /\ g \in Datastores
           /\ Frame(d, g, {"candidate"})
           /\ SameLocks(d, g)
<1>0. "candidate" \in DBs /\ "running" \in DBs
  BY DEF DBs
<1>1. CASE d["candidate"].xml # NULL
  BY <1>1 DEF PutBase, Frame, SameLocks
<1>2. CASE d["candidate"].xml = NULL
  <2>1. g = xmldb_copy(d, "running", "candidate")
    BY <1>2 DEF PutBase
  <2>2. /\ g \in Datastores
        /\ Frame(d, g, {"running", "candidate"})
        /\ SameLocks(d, g)
        /\ g["running"] = d["running"]
    BY <1>0, <2>1, Copy
  <2> QED
    BY <2>2 DEF Frame
<1> QED
  BY <1>1, <1>2

(* xmldb_put of the candidate touches nothing else, if running is cached *)
LEMMA PutCandidate ==
    ASSUME NEW d \in Datastores, d["running"].xml # NULL,
           NEW new \in Configs, NEW done \in BOOLEAN,
           NEW e, e = xmldb_put(d, "candidate", new, done)
    PROVE  /\ e \in Datastores
           /\ Frame(d, e, {"candidate"})
           /\ SameLocks(d, e)
<1>0. "candidate" \in DBs /\ "running" \in DBs
  BY DEF DBs
<1> DEFINE g == PutBase(d, "candidate")
           h == [g EXCEPT !["candidate"].xml = new]
<1>1. g \in Datastores /\ Frame(d, g, {"candidate"}) /\ SameLocks(d, g)
  BY PutBaseCandidate
<1> HIDE DEF g
<1>2. /\ h \in Datastores
      /\ Frame(g, h, {"candidate"})
      /\ SameLocks(g, h)
      /\ h["candidate"].xml = new
  BY <1>0, <1>1 DEF Datastores, db_elmnt, Frame, SameLocks
<1>3. e = IF done THEN xmldb_write_cache2file(h, "candidate") ELSE h
  BY DEF xmldb_put, g
<1> HIDE DEF h
<1>4. /\ e \in Datastores
      /\ Frame(h, e, {"candidate"})
      /\ SameLocks(h, e)
  <2>1. CASE done
    BY <1>0, <1>2, <1>3, <2>1, WriteCache, DatastoreAssumption, Zenon
  <2>2. CASE ~done
    BY <1>2, <1>3, <2>2 DEF Frame, SameLocks
  <2> QED
    BY <2>1, <2>2
<1> QED
  BY <1>1, <1>2, <1>4 DEF Frame, SameLocks

------------------------------------------------------------------------------
(* Commits *)

(* Running is in V, and its file reads as the tree in memory.  V is a set  *)
(* of configurations with all the valid ones in it.                        *)
RunningGood(d, V) == InStep(d, "running") /\ d["running"].xml \in V

Admits(V) == Valid \subseteq V

(* What a commit for session myid may make of the confirmed commit c *)
CommitStep(c, e, myid) ==
    \/ e = c
    \/ e.state = "INACTIVE"
    \/ e.state = "PERSISTENT" /\ e.timers > 0
    \/ e.state = "EPHEMERAL" /\ e.timers > 0 /\ e.session_id = myid

(* All the datastores there are *)
LEMMA Names ==
    /\ "running" \in DBs
    /\ "candidate" \in DBs
    /\ "startup" \in DBs
    /\ "rollback" \in DBs
    /\ "failsafe" \in DBs
    /\ "tmp" \in DBs
  BY DEF DBs

(* Running is as it was if none but other datastores changed *)
LEMMA RunningGoodFrame ==
    ASSUME NEW V, NEW d, NEW e, NEW S, "running" \notin S, Frame(d, e, S),
           RunningGood(d, V)
    PROVE  RunningGood(e, V)
  BY Names DEF Frame, RunningGood, InStep

------------------------------------------------------------------------------
(* The state of the confirmed commit *)

(* cancel_rollback_event changes the number of timers only *)
LEMMA CancelTimer ==
    ASSUME NEW c \in confirmed_commit
    PROVE  /\ cancel_rollback_event(c) \in confirmed_commit
           /\ cancel_rollback_event(c).state = c.state
           /\ cancel_rollback_event(c).session_id = c.session_id
  BY DEF confirmed_commit, cancel_rollback_event

(* schedule_rollback_event leaves at least one timer *)
LEMMA ScheduleTimer ==
    ASSUME NEW c \in confirmed_commit
    PROVE  /\ schedule_rollback_event(c) \in confirmed_commit
           /\ schedule_rollback_event(c).state = c.state
           /\ schedule_rollback_event(c).session_id = c.session_id
           /\ schedule_rollback_event(c).timers > 0
  BY DEF confirmed_commit, schedule_rollback_event

(* A confirmed commit that is concluded is in the state asked for *)
LEMMA Concludes ==
    ASSUME NEW c \in confirmed_commit,
           NEW state \in {"INACTIVE", "ROLLBACK"}
    PROVE  /\ Conclude(c, state) \in confirmed_commit
           /\ Conclude(c, state).state = state
<1> DEFINE p == IF c.state = "PERSISTENT" THEN NoId ELSE c.persist_id
<1>1. p \in PersistIds \union {NoId}
  BY DEF confirmed_commit
<1>2. Conclude(c, state) = [c EXCEPT !.persist_id = p, !.state = state]
  BY DEF Conclude, confirmed_commit
<1> HIDE DEF p
<1> QED
  BY <1>1, <1>2, Zenon DEF confirmed_commit

(* <confirmed/> makes it persistent, or ephemeral for the session *)
LEMMA Confirms ==
    ASSUME NEW c \in confirmed_commit, NEW xe \in CommitRequest,
           NEW myid \in Nat,
           NEW e, e = Confirmed(c, xe, myid)
    PROVE  /\ e \in confirmed_commit
           /\ \/ e.state = "PERSISTENT"
              \/ e.state = "EPHEMERAL" /\ e.session_id = myid
<1>1. CASE xe.persist # Absent
  <2>1. xe.persist \in PersistIds \union {NoId}
    BY <1>1 DEF CommitRequest
  <2> QED
    BY <1>1, <2>1, Zenon DEF Confirmed, confirmed_commit
<1>2. CASE xe.persist = Absent
  BY <1>2, Zenon DEF Confirmed, confirmed_commit
<1> QED
  BY <1>1, <1>2

(* cancel_confirmed_commit ends the confirmed commit *)
LEMMA CancelConfirmed ==
    ASSUME NEW d \in Datastores, NEW c \in confirmed_commit,
           NEW r, r = cancel_confirmed_commit(d, c)
    PROVE  /\ r.ds \in Datastores
           /\ Frame(d, r.ds, {"rollback"})
           /\ Releases(d, r.ds)
           /\ r.cc \in confirmed_commit
           /\ r.cc.state = "INACTIVE"
<1>1. /\ r.ds = xmldb_delete(d, "rollback")
      /\ r.cc = Conclude(cancel_rollback_event(c), "INACTIVE")
  BY DEF cancel_confirmed_commit
<1>2. cancel_rollback_event(c) \in confirmed_commit
  BY CancelTimer
<1>3. r.cc \in confirmed_commit /\ r.cc.state = "INACTIVE"
  BY <1>1, <1>2, Concludes
<1> QED
  BY <1>1, <1>3, Names, Delete

(* handle_confirmed_commit changes no datastore but rollback.  It leaves   *)
(* the confirmed commit as it is, ends it, or starts one with a timer.     *)
LEMMA HandleConfirmed ==
    ASSUME NEW d \in Datastores, d["running"].xml # NULL,
           NEW c \in confirmed_commit, NEW xe \in CommitRequest,
           NEW myid \in Nat,
           NEW r, r = handle_confirmed_commit(d, c, xe, myid)
    PROVE  /\ r.ds \in Datastores
           /\ Frame(d, r.ds, {"rollback"})
           /\ Releases(d, r.ds)
           /\ r.cc \in confirmed_commit
           /\ CommitStep(c, r.cc, myid)
<1> DEFINE c1 == IF check_valid_confirming_commit(c, xe, myid)
                 THEN Conclude(cancel_rollback_event(c), "INACTIVE")
                 ELSE c
           e1 == Confirmed(c1, xe, myid)
<1>1. c1 \in confirmed_commit /\ (c1 = c \/ c1.state = "INACTIVE")
  BY CancelTimer, Concludes
<1>2. r = IF xe.confirmed
          THEN [ds |-> IF xmldb_exists(d, "rollback") THEN d
                       ELSE xmldb_copy(d, "running", "rollback"),
                cc |-> schedule_rollback_event(e1)]
          ELSE [ds |-> xmldb_delete(d, "rollback"), cc |-> c1]
  BY DEF handle_confirmed_commit
<1> HIDE DEF c1
<1>3. CASE xe.confirmed
  <2>1. /\ r.ds = IF xmldb_exists(d, "rollback") THEN d
                  ELSE xmldb_copy(d, "running", "rollback")
        /\ r.cc = schedule_rollback_event(e1)
    BY <1>2, <1>3
  <2>2. /\ e1 \in confirmed_commit
        /\ \/ e1.state = "PERSISTENT"
           \/ e1.state = "EPHEMERAL" /\ e1.session_id = myid
    BY <1>1, Confirms
  <2> HIDE DEF e1
  <2>3. r.cc \in confirmed_commit /\ CommitStep(c, r.cc, myid)
    BY <2>1, <2>2, ScheduleTimer DEF CommitStep
  <2>4. /\ r.ds \in Datastores
        /\ Frame(d, r.ds, {"rollback"})
        /\ SameLocks(d, r.ds)
    <3>1. CASE xmldb_exists(d, "rollback")
      BY <2>1, <3>1 DEF Frame, SameLocks
    <3>2. CASE ~xmldb_exists(d, "rollback")
      <4>1. /\ r.ds \in Datastores
            /\ Frame(d, r.ds, {"running", "rollback"})
            /\ SameLocks(d, r.ds)
            /\ r.ds["running"] = d["running"]
        BY <2>1, <3>2, Names, Copy
      <4> QED
        BY <4>1 DEF Frame
    <3> QED
      BY <3>1, <3>2
  <2> QED
    BY <2>3, <2>4, SameLocksRelease
<1>4. CASE ~xe.confirmed
  <2>1. r.ds = xmldb_delete(d, "rollback") /\ r.cc = c1
    BY <1>2, <1>4
  <2>2. CommitStep(c, r.cc, myid)
    BY <1>1, <2>1 DEF CommitStep
  <2> QED
    BY <1>1, <2>1, <2>2, Names, Delete
<1> QED
  BY <1>3, <1>4
------------------------------------------------------------------------------
(* Validation and commit *)

(* validate_common changes the caches and files of db and running only.    *)
(* What it accepts is a valid tree whose file has been written.            *)
LEMMA ValidateCommon ==
    ASSUME NEW V, Admits(V),
           NEW d \in Datastores, NEW db \in DBs, NEW oc \in Outcomes,
           NEW r, r = validate_common(d, db, oc)
    PROVE  /\ r.ds \in Datastores
           /\ Frame(d, r.ds, {db, "running"})
           /\ SameLocks(d, r.ds)
           /\ r.ret \in {-1, 0, 1}
           /\ r.ret # -1 => r.ds["running"].xml # NULL
           /\ RunningGood(d, V) => RunningGood(r.ds, V)
           /\ r.ret = 1 => InStep(r.ds, db) /\ r.ds[db].xml \in Valid
<1> DEFINE d1 == IF d[db].xml # NULL THEN xmldb_write_cache2file(d, db) ELSE d
           g == xmldb_get_cache(d1, db)
           d2 == xmldb_get_cache(g, "running")
<1>1. /\ d1 \in Datastores
      /\ Frame(d, d1, {db})
      /\ SameLocks(d, d1)
      /\ d1[db].xml = d[db].xml
      /\ d[db].xml # NULL => InStep(d1, db)
      /\ d[db].xml = NULL => d1 = d
  <2>1. CASE d[db].xml # NULL
    BY <2>1, WriteCache
  <2>2. CASE d[db].xml = NULL
    BY <2>2 DEF Frame, SameLocks
  <2> QED
    BY <2>1, <2>2
<1>2. RunningGood(d, V) => RunningGood(d1, V)
  <2>1. CASE db = "running"
    <3>1. RunningGood(d, V) => d[db].xml # NULL
      BY <2>1, DatastoreAssumption DEF RunningGood, InStep
    <3> QED
      BY <1>1, <2>1, <3>1 DEF RunningGood
  <2>2. CASE db # "running"
    BY <1>1, <2>2, RunningGoodFrame
  <2> QED
    BY <2>1, <2>2
<1>3. CASE ~Readable(d1, db) \/ ~Readable(d1, "running")
  <2>1. r.ds = d1 /\ r.ret = -1
    BY <1>3 DEF validate_common
  <2>2. Frame(d, d1, {db, "running"})
    BY <1>1 DEF Frame
  <2> QED
    BY <1>1, <1>2, <2>1, <2>2
<1>4. CASE Readable(d1, db) /\ Readable(d1, "running")
  <2>1. /\ r.ds = d2
        /\ r.ret = CASE oc = "verror" -> -1
                     [] oc # "verror" /\ d2[db].xml \notin Valid -> 0
                     [] oc # "verror" /\ d2[db].xml \in Valid -> 1
    BY <1>4 DEF validate_common
  <2> HIDE DEF d1
  <2>2. /\ g \in Datastores
        /\ Frame(d1, g, {db})
        /\ SameLocks(d1, g)
        /\ g[db].xml \in Configs
        /\ d1[db].xml # NULL => g = d1
    BY <1>1, <1>4, GetCache
  <2>3. InStep(g, db)
    <3>1. CASE d[db].xml # NULL
      BY <1>1, <2>2, <3>1
    <3>2. CASE d[db].xml = NULL
      <4>1. d1[db].xml = NULL /\ db # "candidate" /\ d1[db].file # NoFile
        BY <1>1, <1>4, <3>2 DEF Readable
      <4> QED
        BY <1>1, <4>1, ReadInStep
    <3> QED
      BY <3>1, <3>2
  <2>4. Readable(g, "running")
    <3>1. CASE db = "running"
      BY <2>2, <3>1, DatastoreAssumption DEF Readable
    <3>2. CASE db # "running"
      <4>1. g["running"] = d1["running"]
        BY <2>2, <3>2, Names DEF Frame
      <4> QED
        BY <1>4, <4>1 DEF Readable
    <3> QED
      BY <3>1, <3>2
  <2> HIDE DEF g
  <2>5. /\ d2 \in Datastores
        /\ Frame(g, d2, {"running"})
        /\ SameLocks(g, d2)
        /\ d2["running"].xml \in Configs
        /\ g["running"].xml # NULL => d2 = g
    BY <2>2, <2>4, Names, GetCache
  <2> HIDE DEF d2
  <2>6. Frame(d, d2, {db, "running"}) /\ SameLocks(d, d2)
    BY <1>1, <2>2, <2>5 DEF Frame, SameLocks
  <2>7. InStep(d2, db)
    <3>1. CASE db = "running"
      <4>1. g["running"].xml # NULL
        BY <2>3, <3>1, DatastoreAssumption DEF InStep
      <4> QED
        BY <2>3, <2>5, <4>1
    <3>2. CASE db # "running"
      <4>1. d2[db] = g[db]
        BY <2>5, <3>2 DEF Frame
      <4> QED
        BY <2>3, <4>1 DEF InStep
    <3> QED
      BY <3>1, <3>2
  <2>8. ASSUME RunningGood(d, V) PROVE RunningGood(d2, V)
    <3>1. RunningGood(d1, V)
      BY <1>2, <2>8
    <3>2. RunningGood(g, V)
      <4>1. CASE db = "running"
        <5>1. d1[db].xml # NULL
          BY <3>1, <4>1, DatastoreAssumption DEF RunningGood, InStep
        <5> QED
          BY <2>2, <3>1, <5>1
      <4>2. CASE db # "running"
        BY <2>2, <3>1, <4>2, RunningGoodFrame
      <4> QED
        BY <4>1, <4>2
    <3>3. g["running"].xml # NULL
      BY <3>2, DatastoreAssumption DEF RunningGood, InStep
    <3> QED
      BY <2>5, <3>2, <3>3
  <2>9. /\ r.ret \in {-1, 0, 1}
        /\ r.ret = 1 => r.ds[db].xml \in Valid
    <3>1. CASE oc = "verror"
      BY <2>1, <3>1
    <3>2. CASE oc # "verror" /\ d2[db].xml \notin Valid
      BY <2>1, <3>2
    <3>3. CASE oc # "verror" /\ d2[db].xml \in Valid
      BY <2>1, <3>3
    <3> QED
      BY <3>1, <3>2, <3>3
  <2> QED
    BY <2>1, <2>5, <2>6, <2>7, <2>8, <2>9, DatastoreAssumption
<1> QED
  BY <1>3, <1>4

(* Phase two, taken or not, changes no datastore but rollback *)
LEMMA PhaseTwoStep ==
    ASSUME NEW d \in Datastores, d["running"].xml # NULL,
           NEW c \in confirmed_commit,
           NEW xe \in CommitRequest \union {Absent}, NEW myid \in Nat,
           NEW r, r = PhaseTwo(d, c, xe, myid)
    PROVE  /\ r.ds \in Datastores
           /\ Frame(d, r.ds, {"rollback"})
           /\ Releases(d, r.ds)
           /\ r.cc \in confirmed_commit
           /\ CommitStep(c, r.cc, myid)
           /\ xe = Absent => r.ds = d /\ r.cc = c
<1>1. CASE c.state # "ROLLBACK" /\ xe # Absent /\ myid # 0
  <2>1. xe \in CommitRequest /\ r = handle_confirmed_commit(d, c, xe, myid)
    BY <1>1 DEF PhaseTwo
  <2> QED
    BY <1>1, <2>1, HandleConfirmed
<1>2. CASE ~(c.state # "ROLLBACK" /\ xe # Absent /\ myid # 0)
  <2>1. r.ds = d /\ r.cc = c
    BY <1>2 DEF PhaseTwo
  <2>2. SameLocks(d, d) /\ Frame(d, d, {"rollback"})
    BY DEF SameLocks, Frame
  <2> QED
    BY <2>1, <2>2, SameLocksRelease DEF CommitStep
<1> QED
  BY <1>1, <1>2

(* candidate_commit replaces running by a valid tree, or does not touch    *)
(* it.  The lock of the candidate is kept, tmp and startup are not used.   *)
LEMMA CandidateCommit ==
    ASSUME NEW V, Admits(V),
           NEW d \in Datastores, NEW c \in confirmed_commit,
           NEW xe \in CommitRequest \union {Absent},
           NEW db \in {"candidate", "rollback", "failsafe"},
           db = "candidate" \/ xe = Absent,
           NEW myid \in Nat, NEW oc \in Outcomes,
           NEW r, r = candidate_commit(d, c, xe, db, myid, oc)
    PROVE  /\ r.ds \in Datastores
           /\ Frame(d, r.ds, {db, "running", "rollback"})
           /\ Releases(d, r.ds)
           /\ r.cc \in confirmed_commit
           /\ CommitStep(c, r.cc, myid)
           /\ xe = Absent => r.cc = c
           /\ r.ret \in {-1, 0, 1}
           /\ r.ret = 1 \/ RunningGood(d, V) => RunningGood(r.ds, V)
<1> DEFINE v == validate_common(d, db, oc)
           p == PhaseTwo(v.ds, c, xe, myid)
           ret == IF v.ret = 1 /\ oc = "cerror" THEN -1 ELSE v.ret
<1>0. db \in DBs /\ db # "running"
  BY DEF DBs
<1>1. /\ v.ds \in Datastores
      /\ Frame(d, v.ds, {db, "running"})
      /\ SameLocks(d, v.ds)
      /\ v.ret \in {-1, 0, 1}
      /\ v.ret # -1 => v.ds["running"].xml # NULL
      /\ RunningGood(d, V) => RunningGood(v.ds, V)
      /\ v.ret = 1 => InStep(v.ds, db) /\ v.ds[db].xml \in Valid
  BY <1>0, ValidateCommon, Zenon
<1>2. CASE v.ret = -1
  <2>1. r.ds = v.ds /\ r.cc = c /\ r.ret = -1
    BY <1>2 DEF candidate_commit
  <2> HIDE DEF v
  <2>2. Releases(d, v.ds)
    BY <1>1, SameLocksRelease
  <2>3. Frame(d, v.ds, {db, "running", "rollback"})
    BY <1>1 DEF Frame
  <2> QED
    BY <1>1, <2>1, <2>2, <2>3 DEF CommitStep
<1>3. CASE v.ret # -1
  <2>1. /\ r.ds = IF ret = 1
                  THEN xmldb_modified_set(xmldb_copy(p.ds, db, "running"), db,
                                          FALSE)
                  ELSE p.ds
        /\ r.cc = p.cc
        /\ r.ret = ret
    BY <1>3 DEF candidate_commit, Transacted
  <2> HIDE DEF v
  <2>2. /\ p.ds \in Datastores
        /\ Frame(v.ds, p.ds, {"rollback"})
        /\ Releases(v.ds, p.ds)
        /\ p.cc \in confirmed_commit
        /\ CommitStep(c, p.cc, myid)
        /\ xe = Absent => p.ds = v.ds /\ p.cc = c
    BY <1>1, <1>3, PhaseTwoStep
  <2> HIDE DEF p
  <2>3. Releases(d, p.ds)
    BY <1>1, <2>2, SameLocksRelease, ReleasesTransitive
  <2>4. Frame(d, p.ds, {db, "running", "rollback"})
    BY <1>1, <2>2 DEF Frame
  <2>5. RunningGood(d, V) => RunningGood(p.ds, V)
    BY <1>1, <2>2, RunningGoodFrame
  <2>6. ret \in {-1, 0, 1} /\ (ret = 1 => v.ret = 1)
    BY <1>1
  <2>7. p.ds[db] = v.ds[db]
    BY <1>0, <2>2 DEF Frame
  <2> HIDE DEF ret
  <2>8. CASE ret # 1
    BY <2>1, <2>2, <2>3, <2>4, <2>5, <2>6, <2>8
  <2>9. CASE ret = 1
    <3> DEFINE q == xmldb_copy(p.ds, db, "running")
    <3>1. InStep(p.ds, db) /\ p.ds[db].xml \in Valid
      BY <1>1, <2>6, <2>7, <2>9 DEF InStep
    <3>8. q = xmldb_copy(p.ds, db, "running")
      OBVIOUS
    <3>3. r.ds = xmldb_modified_set(q, db, FALSE)
      BY <2>1, <2>9
    <3> HIDE DEF q
    <3>2. /\ q \in Datastores
          /\ Frame(p.ds, q, {db, "running"})
          /\ SameLocks(p.ds, q)
          /\ InStep(q, "running")
          /\ q["running"].xml = p.ds[db].xml
      BY <1>0, <2>2, <3>1, <3>8, Names, Copy
    <3>4. /\ r.ds \in Datastores
          /\ Frame(q, r.ds, {db})
          /\ SameLocks(q, r.ds)
      BY <1>0, <3>2, <3>3, ModifiedSet, Zenon
    <3>5. Releases(d, r.ds)
      <4>1. SameLocks(p.ds, r.ds)
        BY <3>2, <3>4 DEF SameLocks
      <4> QED
        BY <2>3, <4>1, SameLocksRelease, ReleasesTransitive
    <3>6. Frame(d, r.ds, {db, "running", "rollback"})
      BY <2>4, <3>2, <3>4 DEF Frame
    <3>7. RunningGood(r.ds, V)
      <4>1. RunningGood(q, V)
        BY <3>1, <3>2 DEF RunningGood, Admits
      <4> QED
        BY <1>0, <3>4, <4>1, RunningGoodFrame
    <3> QED
      BY <2>1, <2>2, <2>6, <3>4, <3>5, <3>6, <3>7, Zenon
  <2> QED
    BY <2>8, <2>9
<1> QED
  BY <1>2, <1>3

(* load_failsafe leaves running valid: it is the failsafe configuration or *)
(* what was saved in tmp.  That takes a tmp that is not in the cache.      *)
LEMMA LoadFailsafeKeeps ==
    ASSUME NEW V, Admits(V),
           NEW d \in Datastores, RunningGood(d, V), d["tmp"].xml = NULL,
           NEW c \in confirmed_commit, NEW oc \in Outcomes,
           NEW r, r = load_failsafe(d, c, oc)
    PROVE  /\ r.ds \in Datastores
           /\ Releases(d, r.ds)
           /\ r.ret \in {-1, 0}
           /\ RunningGood(r.ds, V)
           /\ r.ret = 0 => r.ds["tmp"].xml = NULL
<1>1. CASE ~xmldb_exists(d, "failsafe")
  <2>1. r.ds = d /\ r.ret = -1
    BY <1>1 DEF load_failsafe
  <2>2. SameLocks(d, d)
    BY DEF SameLocks
  <2> QED
    BY <2>1, <2>2, SameLocksRelease
<1>2. CASE xmldb_exists(d, "failsafe")
  <2> DEFINE e == xmldb_copy_file(d, "running", "tmp")
             f == xmldb_db_reset(e, "running")
             k == candidate_commit(f, c, Absent, "failsafe", 0, oc)
  <2>1. /\ r.ds = IF k.ret = 1 THEN k.ds ELSE xmldb_copy(k.ds, "tmp", "running")
        /\ r.ret = IF k.ret = 1 THEN 0 ELSE -1
    BY <1>2 DEF load_failsafe, FailsafeResult
  <2>9. e = xmldb_copy_file(d, "running", "tmp")
    OBVIOUS
  <2> HIDE DEF e
  <2>2. /\ e \in Datastores
        /\ SameLocks(d, e)
        /\ e["tmp"].xml = NULL
        /\ e["tmp"].file = d["running"].file
    <3>1. e \in Datastores /\ SameLocks(d, e)
      BY <2>9, Names, CopyFile, Zenon
    <3>2. e["tmp"].xml = d["tmp"].xml /\ e["tmp"].file = d["running"].file
      BY <2>9, Names DEF xmldb_copy_file, Datastores, db_elmnt
    <3> QED
      BY <3>1, <3>2
  <2>3. /\ f \in Datastores
        /\ Frame(e, f, {"running"})
        /\ Releases(e, f)
    BY <2>2, Names, Reset, Zenon
  <2> HIDE DEF f
  <2>4. /\ k.ds \in Datastores
        /\ Frame(f, k.ds, {"failsafe", "running", "rollback"})
        /\ Releases(f, k.ds)
        /\ k.ret \in {-1, 0, 1}
        /\ k.ret = 1 => RunningGood(k.ds, V)
    BY <2>3, CandidateCommit
  <2> HIDE DEF k
  <2>5. Releases(d, k.ds)
    BY <2>2, <2>3, <2>4, SameLocksRelease, ReleasesTransitive
  <2>6. k.ds["tmp"].xml = NULL /\ k.ds["tmp"].file = d["running"].file
    BY <2>2, <2>3, <2>4, Names DEF Frame
  <2>7. CASE k.ret = 1
    BY <2>1, <2>4, <2>5, <2>6, <2>7
  <2>8. CASE k.ret # 1
    <3> DEFINE u == r.ds
               w == k.ds
    <3>1. u = xmldb_copy(w, "tmp", "running") /\ r.ret = -1
      BY <2>1, <2>8
    <3>5. w \in Datastores
      BY <2>4
    <3> HIDE DEF u, w
    <3>2. SameLocks(w, u) /\ u \in Datastores
      BY <3>1, <3>5, Names, Copy, Zenon
    <3>6. u = r.ds /\ w = k.ds
      BY DEF u, w
    <3>3. Releases(d, r.ds)
      BY <2>5, <3>2, <3>6, SameLocksRelease, ReleasesTransitive
    <3>4. RunningGood(r.ds, V)
      <4>1. /\ FileTree(k.ds["tmp"].file) = d["running"].xml
            /\ d["running"].xml \in V
            /\ k.ds["tmp"].file # NoFile
        BY <2>6 DEF RunningGood, InStep
      <4>2. w["tmp"].xml = NULL /\ w["tmp"].file # NoFile
        BY <2>6, <3>6, <4>1
      <4>3. "tmp" # "running" /\ "tmp" # "candidate"
        OBVIOUS
      <4>4. InStep(u, "running") /\ u["running"].xml = FileTree(w["tmp"].file)
        BY <3>1, <3>5, <4>2, <4>3, Names, RestoreCopy, ZenonT(40)
      <4> QED
        BY <3>6, <4>1, <4>4 DEF RunningGood
    <3> QED
      BY <3>1, <3>2, <3>3, <3>4, <3>6
  <2> QED
    BY <2>7, <2>8
<1> QED
  BY <1>1, <1>2

(* do_rollback ends the confirmed commit and leaves running valid *)
LEMMA DoRollback ==
    ASSUME NEW V, Admits(V),
           NEW d \in Datastores, RunningGood(d, V), d["tmp"].xml = NULL,
           NEW c \in confirmed_commit,
           NEW oc \in Outcomes, NEW foc \in Outcomes,
           NEW r, r = do_rollback(d, c, oc, foc)
    PROVE  /\ r.ds \in Datastores
           /\ Releases(d, r.ds)
           /\ r.cc \in confirmed_commit
           /\ r.cc.state = "INACTIVE"
           /\ r.stop \in BOOLEAN
           /\ RunningGood(r.ds, V)
           /\ ~r.stop \/ r.ret = 0 => r.ds["tmp"].xml = NULL
<1> DEFINE c1 == Conclude(c, "ROLLBACK")
           k == candidate_commit(d, c1, Absent, "rollback", 0, oc)
           f == load_failsafe(xmldb_rename(k.ds, "rollback"), c1, foc)
           i == [c1 EXCEPT !.state = "INACTIVE"]
<1>1. c1 \in confirmed_commit
  BY Concludes
<1>2. r = IF k.ret = -1
          THEN [ds |-> f.ds, cc |-> i, ret |-> -1, stop |-> f.ret = -1]
          ELSE [ds |-> xmldb_delete(k.ds, "rollback"), cc |-> i,
                ret |-> 0, stop |-> FALSE]
  BY DEF do_rollback, RolledBack, RollbackError, RollbackResult
<1> HIDE DEF c1
<1>3. i \in confirmed_commit /\ i.state = "INACTIVE"
  BY <1>1 DEF confirmed_commit
<1>4. /\ k.ds \in Datastores
      /\ Frame(d, k.ds, {"rollback", "running"})
      /\ Releases(d, k.ds)
      /\ RunningGood(k.ds, V)
  <2>1. /\ k.ds \in Datastores
        /\ Frame(d, k.ds, {"rollback", "running", "rollback"})
        /\ Releases(d, k.ds)
        /\ RunningGood(k.ds, V)
    BY <1>1, CandidateCommit
  <2> QED
    BY <2>1 DEF Frame
<1> HIDE DEF i, k
<1>5. k.ds["tmp"].xml = NULL
  BY <1>4, Names DEF Frame
<1>6. CASE k.ret = -1
  <2> DEFINE m == xmldb_rename(k.ds, "rollback")
  <2>1. /\ m \in Datastores
        /\ Frame(k.ds, m, {"rollback"})
        /\ SameLocks(k.ds, m)
    BY <1>4, Names, RenameFile
  <2>2. RunningGood(m, V) /\ m["tmp"].xml = NULL
    BY <1>4, <1>5, <2>1, Names, RunningGoodFrame, ZenonT(40) DEF Frame
  <2> HIDE DEF m
  <2>3. /\ f.ds \in Datastores
        /\ Releases(m, f.ds)
        /\ RunningGood(f.ds, V)
        /\ f.ret \in {-1, 0}
        /\ f.ret = 0 => f.ds["tmp"].xml = NULL
    BY <1>1, <2>1, <2>2, LoadFailsafeKeeps DEF m
  <2> HIDE DEF f
  <2>4. /\ r.ds = f.ds
        /\ r.cc = i
        /\ r.ret = -1
        /\ r.stop = (f.ret = -1)
    BY <1>2, <1>6
  <2>5. Releases(d, r.ds)
    BY <1>4, <2>1, <2>3, <2>4, SameLocksRelease, ReleasesTransitive
  <2> QED
    BY <1>3, <2>3, <2>4, <2>5, Zenon
<1>7. CASE k.ret # -1
  <2>1. /\ r.ds = xmldb_delete(k.ds, "rollback")
        /\ r.cc = i
        /\ r.stop = FALSE
    BY <1>2, <1>7
  <2>2. /\ r.ds \in Datastores
        /\ Frame(k.ds, r.ds, {"rollback"})
        /\ Releases(k.ds, r.ds)
    BY <1>4, <2>1, Names, Delete
  <2>3. Releases(d, r.ds)
    BY <1>4, <2>2, ReleasesTransitive
  <2>4. RunningGood(r.ds, V) /\ r.ds["tmp"].xml = NULL
    BY <1>4, <1>5, <2>2, Names, RunningGoodFrame, Zenon DEF Frame
  <2> QED
    BY <1>3, <2>1, <2>2, <2>3, <2>4, Zenon
<1> QED
  BY <1>6, <1>7

------------------------------------------------------------------------------
(* What commits that the backend itself asks for do to the files *)

(* validate_common writes the file of db if db is cached, and no other *)
LEMMA ValidateFiles ==
    ASSUME NEW d \in Datastores, NEW db \in DBs, db # "running",
           NEW oc \in Outcomes,
           NEW r, r = validate_common(d, db, oc)
    PROVE  /\ r.ds["running"].file = d["running"].file
           /\ r.ds[db].file = IF d[db].xml # NULL THEN d[db].xml ELSE d[db].file
           /\ r.ds[db].xml \in {d[db].xml, FileTree(d[db].file)}
           /\ r.ret = 0 => r.ds[db].xml \in Configs \ Valid
<1> DEFINE d1 == IF d[db].xml # NULL THEN xmldb_write_cache2file(d, db) ELSE d
           g == xmldb_get_cache(d1, db)
           d2 == xmldb_get_cache(g, "running")
<1>1. /\ d1 \in Datastores
      /\ Frame(d, d1, {db})
      /\ d1[db].xml = d[db].xml
      /\ d1[db].file = IF d[db].xml # NULL THEN d[db].xml ELSE d[db].file
  <2>1. CASE d[db].xml # NULL
    BY <2>1 DEF xmldb_write_cache2file, Datastores, db_elmnt, Frame
  <2>2. CASE d[db].xml = NULL
    BY <2>2 DEF Frame
  <2> QED
    BY <2>1, <2>2
<1>2. d1["running"] = d["running"]
  BY <1>1, Names DEF Frame
<1>3. CASE ~Readable(d1, db) \/ ~Readable(d1, "running")
  <2>1. r.ds = d1 /\ r.ret = -1
    BY <1>3 DEF validate_common
  <2> QED
    BY <1>1, <1>2, <2>1
<1>4. CASE Readable(d1, db) /\ Readable(d1, "running")
  <2>1. /\ r.ds = d2
        /\ r.ret = CASE oc = "verror" -> -1
                     [] oc # "verror" /\ d2[db].xml \notin Valid -> 0
                     [] oc # "verror" /\ d2[db].xml \in Valid -> 1
    BY <1>4 DEF validate_common
  <2> HIDE DEF d1
  <2>2. /\ g \in Datastores
        /\ Frame(d1, g, {db})
        /\ g[db].file = d1[db].file
        /\ g[db].xml \in {d1[db].xml, FileTree(d1[db].file)}
        /\ g[db].xml \in Configs
        /\ d1[db].xml # NULL => g = d1
    BY <1>1, <1>4, GetCache
  <2> HIDE DEF g
  <2>3. g["running"] = d["running"]
    BY <1>2, <2>2, Names DEF Frame
  <2>4. Readable(g, "running")
    BY <1>2, <1>4, <2>3 DEF Readable
  <2>5. /\ Frame(g, d2, {"running"})
        /\ d2["running"].file = g["running"].file
    BY <2>2, <2>4, Names, GetCache
  <2> HIDE DEF d2
  <2>6. d2[db] = g[db]
    BY <2>5 DEF Frame
  <2>7. r.ret = 0 => d2[db].xml \notin Valid
    BY <2>1
  <2>8. r.ds[db].xml \in Configs /\ r.ds = d2
    BY <2>1, <2>2, <2>6
  <2> QED
    BY <1>1, <2>2, <2>3, <2>5, <2>6, <2>7, <2>8
<1> QED
  BY <1>3, <1>4

(* candidate_commit without a request writes the file of db if db is       *)
(* cached, and that of running only if it succeeds.  It returns 0 for a    *)
(* tree that does not validate.                                            *)
Committed(d, db, r) ==
    /\ r.ds \in Datastores
    /\ Frame(d, r.ds, {db, "running"})
    /\ r.ds[db].file = IF d[db].xml # NULL THEN d[db].xml ELSE d[db].file
    /\ r.ds[db].xml \in {d[db].xml, FileTree(d[db].file)}
    /\ r.ret \in {-1, 0, 1}
    /\ r.ret = 1 => /\ RunningGood(r.ds, Valid)
                    /\ r.ds["running"].file = r.ds[db].file
    /\ r.ret # 1 => r.ds["running"].file = d["running"].file
    /\ r.ret = 0 => r.ds[db].xml \in Configs \ Valid

(* What candidate_commit of rollback or failsafe does to the files *)
LEMMA CommitFiles ==
    ASSUME NEW d \in Datastores, NEW c \in confirmed_commit,
           NEW db \in {"rollback", "failsafe"}, NEW oc \in Outcomes,
           NEW r, r = candidate_commit(d, c, Absent, db, 0, oc)
    PROVE  Committed(d, db, r)
<1> DEFINE v == validate_common(d, db, oc)
           ret == IF v.ret = 1 /\ oc = "cerror" THEN -1 ELSE v.ret
           q == xmldb_copy(v.ds, db, "running")
<1>0. db \in DBs /\ db # "running" /\ Admits(Valid)
  BY DEF DBs, Admits
<1>1. /\ v.ds \in Datastores
      /\ Frame(d, v.ds, {db, "running"})
      /\ v.ret \in {-1, 0, 1}
      /\ v.ret = 1 => InStep(v.ds, db) /\ v.ds[db].xml \in Valid
  BY <1>0, ValidateCommon, Zenon
<1>2. /\ v.ds["running"].file = d["running"].file
      /\ v.ds[db].file = IF d[db].xml # NULL THEN d[db].xml ELSE d[db].file
      /\ v.ds[db].xml \in {d[db].xml, FileTree(d[db].file)}
      /\ v.ret = 0 => v.ds[db].xml \in Configs \ Valid
  BY <1>0, ValidateFiles, Zenon
<1>3. /\ r.ret = ret
      /\ r.ds = IF ret = 1 THEN xmldb_modified_set(q, db, FALSE) ELSE v.ds
  <2>1. CASE v.ret = -1
    BY <2>1 DEF candidate_commit
  <2>2. CASE v.ret # -1
    BY <2>2 DEF candidate_commit, Transacted, PhaseTwo
  <2> QED
    BY <2>1, <2>2
<1> HIDE DEF v
<1>4. ret \in {-1, 0, 1} /\ (ret = 1 => v.ret = 1) /\ (ret = 0 => v.ret = 0)
  BY <1>1
<1> HIDE DEF ret
<1>5. CASE ret # 1
  BY <1>1, <1>2, <1>3, <1>4, <1>5 DEF Committed
<1>6. CASE ret = 1
  <2>1. InStep(v.ds, db) /\ v.ds[db].xml \in Valid
    BY <1>1, <1>4, <1>6
  <2>2. CopyOK(v.ds, db) /\ v.ds[db].xml # NULL
    BY <2>1, DatastoreAssumption DEF InStep, CopyOK, Readable
  <2>3. q = xmldb_copy(v.ds, db, "running")
    OBVIOUS
  <2>4. r.ds = xmldb_modified_set(q, db, FALSE)
    BY <1>3, <1>6
  <2> HIDE DEF q
  <2>5. /\ q \in Datastores
        /\ Frame(v.ds, q, {db, "running"})
        /\ q[db] = v.ds[db]
        /\ InStep(q, "running")
        /\ q["running"].xml = v.ds[db].xml
    <3>1. v.ds \in Datastores /\ db \in DBs /\ "running" \in DBs /\ db # "running"
      BY <1>0, <1>1, Names, Zenon
    <3>2. /\ q \in Datastores
          /\ Frame(v.ds, q, {db, "running"})
          /\ v.ds[db].xml # NULL => q[db] = v.ds[db]
          /\ InStep(v.ds, db) =>
               InStep(q, "running") /\ q["running"].xml = v.ds[db].xml
      BY <2>3, <3>1, Copy, SMT
    <3> QED
      BY <2>1, <2>2, <3>2, Zenon
  <2>6. q["running"].file = v.ds[db].file
    BY <1>0, <1>1, <2>2, <2>3, Names, CopyFiles
  <2>7. /\ r.ds \in Datastores
        /\ Frame(q, r.ds, {db})
        /\ r.ds[db].xml = q[db].xml
        /\ r.ds[db].file = q[db].file
    BY <1>0, <2>4, <2>5, ModifiedSet, Zenon
  <2>8. r.ds["running"] = q["running"]
    BY <1>0, <2>7, Names DEF Frame
  <2>9. RunningGood(r.ds, Valid)
    BY <2>1, <2>5, <2>8 DEF RunningGood, InStep
  <2>10. Frame(d, r.ds, {db, "running"})
    BY <1>1, <2>5, <2>7 DEF Frame
  <2> QED
    BY <1>2, <1>3, <1>6, <2>5, <2>6, <2>7, <2>8, <2>9, <2>10 DEF Committed
<1> QED
  BY <1>5, <1>6

(* load_failsafe reads the failsafe configuration into the cache, and      *)
(* running is what it read.                                                *)
FailsafeRead(d, r) ==
    /\ r.ds["failsafe"].xml \in {d["failsafe"].xml,
                                 FileTree(d["failsafe"].file)}
    /\ r.ds["failsafe"].file \in
         IF d["failsafe"].xml # NULL
         THEN {d["failsafe"].xml, d["failsafe"].file}
         ELSE {d["failsafe"].file}
    /\ r.ret = 0 => r.ds["running"].file = r.ds["failsafe"].file

(* load_failsafe makes running the failsafe configuration, or gives the    *)
(* file of running back.  That takes a tmp that is not in the cache.       *)
LEMMA FailsafeLoads ==
    ASSUME NEW d \in Datastores,
           d["running"].file # NoFile, d["tmp"].xml = NULL,
           NEW c \in confirmed_commit, NEW oc \in Outcomes,
           NEW r, r = load_failsafe(d, c, oc)
    PROVE  /\ r.ds \in Datastores
           /\ r.ds["rollback"] = d["rollback"]
           /\ r.ret \in {-1, 0}
           /\ r.ret = 0 => /\ RunningGood(r.ds, Valid)
                           /\ r.ds["running"].file # ZeroFile
                           /\ r.ds["tmp"].xml = NULL
           /\ r.ret = -1 => r.ds["running"].file = d["running"].file
           /\ FailsafeRead(d, r)
<1>1. CASE ~xmldb_exists(d, "failsafe")
  BY <1>1 DEF load_failsafe, FailsafeRead
<1>2. CASE xmldb_exists(d, "failsafe")
  <2> DEFINE e == xmldb_copy_file(d, "running", "tmp")
             f == xmldb_db_reset(e, "running")
             k == candidate_commit(f, c, Absent, "failsafe", 0, oc)
  <2>1. /\ r.ds = IF k.ret = 1 THEN k.ds ELSE xmldb_copy(k.ds, "tmp", "running")
        /\ r.ret = IF k.ret = 1 THEN 0 ELSE -1
    BY <1>2 DEF load_failsafe, FailsafeResult
  <2>9. e = xmldb_copy_file(d, "running", "tmp")
    OBVIOUS
  <2> HIDE DEF e
  <2>2. /\ e \in Datastores
        /\ Frame(d, e, {"tmp"})
        /\ e["tmp"].xml = NULL
        /\ e["tmp"].file = d["running"].file
    BY <2>9, Names, CopyFile
  <2>3. f \in Datastores /\ Frame(e, f, {"running"})
    BY <2>2, Names, Reset, Zenon
  <2> HIDE DEF f
  <2>4. /\ k.ds \in Datastores
        /\ Frame(f, k.ds, {"failsafe", "running"})
        /\ k.ds["failsafe"].file = IF f["failsafe"].xml # NULL
                                   THEN f["failsafe"].xml
                                   ELSE f["failsafe"].file
        /\ k.ds["failsafe"].xml \in {f["failsafe"].xml,
                                     FileTree(f["failsafe"].file)}
        /\ k.ret = 1 => /\ RunningGood(k.ds, Valid)
                        /\ k.ds["running"].file = k.ds["failsafe"].file
    <3>1. Committed(f, "failsafe", k)
      BY <2>3, CommitFiles
    <3> HIDE DEF k
    <3> QED
      BY <3>1 DEF Committed
  <2> HIDE DEF k
  <2>5. /\ k.ds["tmp"].xml = NULL
        /\ k.ds["tmp"].file = d["running"].file
        /\ k.ds["rollback"] = d["rollback"]
        /\ f["failsafe"] = d["failsafe"]
    BY <2>2, <2>3, <2>4, Names DEF Frame
  <2>6. k.ds["failsafe"].file # ZeroFile
    <3>1. d["failsafe"].xml \in Configs \union {NULL}
      BY Names DEF Datastores, db_elmnt
    <3> QED
      BY <1>2, <2>4, <2>5, <3>1, DatastoreAssumption DEF xmldb_exists
  <2>7. CASE k.ret = 1
    <3>1. FailsafeRead(d, r)
      BY <2>1, <2>4, <2>5, <2>7 DEF FailsafeRead
    <3> QED
      BY <2>1, <2>4, <2>5, <2>6, <2>7, <3>1
  <2>8. CASE k.ret # 1
    <3> DEFINE u == r.ds
               w == k.ds
    <3>1. u = xmldb_copy(w, "tmp", "running") /\ r.ret = -1
      BY <2>1, <2>8
    <3>2. /\ w \in Datastores
          /\ w["tmp"].file # NoFile
          /\ CopyOK(w, "tmp")
      BY <2>4, <2>5 DEF CopyOK, Readable
    <3> HIDE DEF u, w
    <3>3. u \in Datastores /\ Frame(w, u, {"tmp", "running"})
      BY <3>1, <3>2, Names, Copy
    <3>4. u["running"].file = w["tmp"].file
      BY <3>1, <3>2, Names, CopyFiles
    <3>5. u["rollback"] = w["rollback"] /\ u["failsafe"] = w["failsafe"]
      BY <3>3, Names DEF Frame
    <3>6. FailsafeRead(d, r)
      BY <2>4, <2>5, <3>1, <3>5 DEF FailsafeRead, u, w
    <3> QED
      BY <2>5, <3>1, <3>3, <3>4, <3>5, <3>6 DEF u, w
  <2> QED
    BY <2>7, <2>8
<1> QED
  BY <1>1, <1>2
==============================================================================
