-------------------------- MODULE BackendLockProofs --------------------------
(***************************************************************************)
(* What a lock of Backend protects: which requests leave the candidate and *)
(* startup alone while another session holds their lock, and how a lock    *)
(* that CLICON_AUTOLOCK took ends.                                         *)
(***************************************************************************)
EXTENDS BackendProofs

(* The tree, the dirty bit and the lock of the candidate are the same *)
CandidateSame(d, e) ==
    /\ e["candidate"].xml = d["candidate"].xml
    /\ e["candidate"].modified = d["candidate"].modified
    /\ e["candidate"].id = d["candidate"].id

(* What startup reads as is the same, from the cache or from the file *)
StartupSame(d, e) == StartupTree(e) = StartupTree(d)

(* The datastores of which a rollback makes use *)
RollbackStores == {"running", "rollback", "failsafe", "tmp"}

------------------------------------------------------------------------------
(* Lemmas on the datastores *)

(* Handlers make several calls, each of which changes few datastores *)
LEMMA FrameTransitive ==
    ASSUME NEW d, NEW e, NEW f, NEW S, Frame(d, e, S), Frame(e, f, S)
    PROVE  Frame(d, f, S)
  BY DEF Frame

(* A call that changes few datastores changes no others *)
LEMMA FrameWider ==
    ASSUME NEW d, NEW e, NEW S, NEW T, S \subseteq T, Frame(d, e, S)
    PROVE  Frame(d, e, T)
  BY DEF Frame

(* A call that is not about the candidate leaves it alone *)
LEMMA CandidateFrame ==
    ASSUME NEW d, NEW e, NEW S, "candidate" \notin S, Frame(d, e, S)
    PROVE  CandidateSame(d, e)
<1>1. e["candidate"] = d["candidate"]
  BY Names, Zenon DEF Frame
<1> QED
  BY <1>1 DEF CandidateSame

(* A call that is not about startup leaves it alone *)
LEMMA StartupFrame ==
    ASSUME NEW d, NEW e, NEW S, "startup" \notin S, Frame(d, e, S)
    PROVE  StartupSame(d, e)
<1>1. e["startup"] = d["startup"]
  BY Names, Zenon DEF Frame
<1> QED
  BY <1>1 DEF StartupSame, StartupTree

(* What startup reads as is made of its cache and its file *)
LEMMA StartupParts ==
    ASSUME NEW d, NEW e,
           e["startup"].xml = d["startup"].xml,
           e["startup"].file = d["startup"].file
    PROVE  StartupSame(d, e)
  BY Zenon DEF StartupSame, StartupTree

(* Loading startup into the cache does not change what it reads as, and a  *)
(* candidate is never loaded.                                              *)
LEMMA LoadSame ==
    ASSUME NEW d \in Datastores, NEW db \in DBs, Readable(d, db),
           NEW e, e = xmldb_get_cache(d, db)
    PROVE  CandidateSame(d, e) /\ StartupSame(d, e)
<1>1. CASE d[db].xml # NULL
  BY <1>1 DEF xmldb_get_cache, CandidateSame, StartupSame
<1>2. CASE d[db].xml = NULL
  <2>1. db # "candidate"
    BY <1>2 DEF Readable
  <2>2. /\ Frame(d, e, {db})
        /\ e[db].xml \in Configs
        /\ e[db].xml = FileTree(d[db].file)
    BY <1>2, GetCache, Zenon
  <2>3. CandidateSame(d, e)
    BY <2>1, <2>2, CandidateFrame
  <2>4. CASE db = "startup"
    <3>1. e["startup"].xml # NULL
      BY <2>2, <2>4, DatastoreAssumption
    <3>2. StartupTree(e) = FileTree(d["startup"].file)
      BY <2>2, <2>4, <3>1, Zenon DEF StartupTree
    <3>3. StartupTree(d) = FileTree(d["startup"].file)
      BY <1>2, <2>4, Zenon DEF StartupTree
    <3> QED
      BY <2>3, <3>2, <3>3 DEF StartupSame
  <2>5. CASE db # "startup"
    BY <2>2, <2>3, <2>5, StartupFrame
  <2> QED
    BY <2>3, <2>4, <2>5
<1> QED
  BY <1>1, <1>2

(* Writing the cache to the file does not change what is in the cache *)
LEMMA WriteSame ==
    ASSUME NEW d \in Datastores, NEW db \in DBs, d[db].xml # NULL,
           NEW e, e = xmldb_write_cache2file(d, db)
    PROVE  CandidateSame(d, e) /\ StartupSame(d, e)
<1>1. \A b \in DBs : /\ e[b].xml = d[b].xml
                     /\ e[b].modified = d[b].modified
                     /\ e[b].id = d[b].id
                     /\ b # db => e[b] = d[b]
  BY DEF Datastores, db_elmnt, xmldb_write_cache2file
<1>2. CandidateSame(d, e)
  BY <1>1, Names DEF CandidateSame
<1>3. CASE db = "startup"
  <2>1. d["startup"].xml # NULL /\ e["startup"].xml = d["startup"].xml
    BY <1>1, <1>3, Zenon
  <2> QED
    BY <1>2, <2>1, Zenon DEF StartupSame, StartupTree
<1>4. CASE db # "startup"
  <2>1. e["startup"] = d["startup"]
    BY <1>1, <1>4, Names
  <2> QED
    BY <1>2, <2>1, Zenon DEF StartupSame, StartupTree
<1> QED
  BY <1>2, <1>3, <1>4

(* A copy leaves the datastore it reads as it was *)
LEMMA CopySame ==
    ASSUME NEW d \in Datastores, NEW from \in DBs, NEW to \in DBs, from # to,
           NEW e, e = xmldb_copy(d, from, to)
    PROVE  /\ to # "candidate" => CandidateSame(d, e)
           /\ to # "startup" => StartupSame(d, e)
<1>1. CASE Readable(d, from)
  <2> DEFINE g == xmldb_get_cache(d, from)
             k == [g[to] EXCEPT !.xml = g[from].xml,
                                !.file = IF g[from].file = NoFile THEN @
                                         ELSE g[from].file]
  <2>1. CandidateSame(d, g) /\ StartupSame(d, g)
    BY <1>1, LoadSame
  <2>2. g \in Datastores
    BY <1>1, GetCache, Zenon
  <2>3. e = [g EXCEPT ![to] = k]
    BY <1>1, <2>2 DEF xmldb_copy, Datastores, db_elmnt
  <2> HIDE DEF g, k
  <2>4. Frame(g, e, {to})
    BY <2>2, <2>3 DEF Frame, Datastores
  <2>5. to # "candidate" => CandidateSame(g, e)
    BY <2>4, CandidateFrame
  <2>6. to # "startup" => StartupSame(g, e)
    BY <2>4, StartupFrame
  <2> QED
    BY <2>1, <2>5, <2>6 DEF CandidateSame, StartupSame
<1>2. CASE ~Readable(d, from)
  <2>1. Frame(d, e, {to})
    BY <1>2 DEF xmldb_copy, Frame, Datastores
  <2> QED
    BY <2>1, CandidateFrame, StartupFrame
<1> QED
  BY <1>1, <1>2


(* <validate> writes and loads caches, it changes no tree *)
LEMMA ValidateSame ==
    ASSUME NEW d \in Datastores, NEW db \in DBs, NEW oc \in Outcomes,
           NEW r, r = validate_common(d, db, oc)
    PROVE  CandidateSame(d, r.ds) /\ StartupSame(d, r.ds)
<1> DEFINE d1 == IF d[db].xml # NULL THEN xmldb_write_cache2file(d, db) ELSE d
           g == xmldb_get_cache(d1, db)
           h == xmldb_get_cache(g, "running")
<1>1. r.ds = IF ~Readable(d1, db) \/ ~Readable(d1, "running") THEN d1 ELSE h
  BY DEF validate_common
<1>2. d1 \in Datastores /\ CandidateSame(d, d1) /\ StartupSame(d, d1)
  <2>1. CASE d[db].xml # NULL
    <3>1. d1 = xmldb_write_cache2file(d, db)
      BY <2>1
    <3> HIDE DEF d1
    <3> QED
      BY <2>1, <3>1, WriteCache, WriteSame, Zenon
  <2>2. CASE d[db].xml = NULL
    BY <2>2 DEF CandidateSame, StartupSame
  <2> QED
    BY <2>1, <2>2
<1> HIDE DEF d1
<1>3. CASE ~Readable(d1, db) \/ ~Readable(d1, "running")
  <2>1. r.ds = d1
    BY <1>1, <1>3
  <2> QED
    BY <1>2, <2>1
<1>4. CASE Readable(d1, db) /\ Readable(d1, "running")
  <2>1. r.ds = h
    BY <1>1, <1>4
  <2>2. /\ g \in Datastores
        /\ CandidateSame(d1, g)
        /\ StartupSame(d1, g)
        /\ Frame(d1, g, {db})
        /\ g[db].xml \in Configs
    BY <1>2, <1>4, GetCache, LoadSame
  <2> HIDE DEF g
  <2>3. Readable(g, "running")
    <3>1. CASE db = "running"
      BY <2>2, <3>1, DatastoreAssumption DEF Readable
    <3>2. CASE db # "running"
      <4>1. g["running"] = d1["running"]
        BY <2>2, <3>2, Names DEF Frame
      <4> QED
        BY <1>4, <4>1, Zenon DEF Readable
    <3> QED
      BY <3>1, <3>2
  <2>4. CandidateSame(g, h) /\ StartupSame(g, h)
    BY <2>2, <2>3, Names, LoadSame
  <2> HIDE DEF h
  <2> QED
    BY <1>2, <2>1, <2>2, <2>4 DEF CandidateSame, StartupSame
<1> QED
  BY <1>3, <1>4

(* load_failsafe makes use of running, tmp and failsafe only *)
LEMMA FailsafeFrame ==
    ASSUME NEW d \in Datastores, NEW c \in confirmed_commit,
           NEW oc \in Outcomes,
           NEW r, r = load_failsafe(d, c, oc)
    PROVE  Frame(d, r.ds, RollbackStores)
<1>1. CASE ~xmldb_exists(d, "failsafe")
  <2>1. r.ds = d
    BY <1>1 DEF load_failsafe
  <2> QED
    BY <2>1 DEF Frame
<1>2. CASE xmldb_exists(d, "failsafe")
  <2> DEFINE e == xmldb_copy_file(d, "running", "tmp")
             f == xmldb_db_reset(e, "running")
             k == candidate_commit(f, c, Absent, "failsafe", 0, oc)
  <2>1. r.ds = IF k.ret = 1 THEN k.ds ELSE xmldb_copy(k.ds, "tmp", "running")
    BY <1>2 DEF load_failsafe, FailsafeResult
  <2>2. e \in Datastores /\ Frame(d, e, {"tmp"})
    BY Names, CopyFile, Zenon
  <2> HIDE DEF e
  <2>3. f \in Datastores /\ Frame(e, f, {"running"})
    BY <2>2, Names, Reset, Zenon
  <2> HIDE DEF f
  <2>4. /\ k.ds \in Datastores
        /\ Frame(f, k.ds, {"failsafe", "running", "rollback"})
    BY <2>3, ValidStarted, CandidateCommit
  <2> HIDE DEF k
  <2> DEFINE w == k.ds
             u == r.ds
  <2>5. Frame(d, w, RollbackStores) /\ w \in Datastores
    BY <2>2, <2>3, <2>4 DEF Frame, RollbackStores
  <2>6. u = w \/ u = xmldb_copy(w, "tmp", "running")
    BY <2>1
  <2> HIDE DEF w, u
  <2>7. u = xmldb_copy(w, "tmp", "running") => Frame(w, u, {"tmp", "running"})
    BY <2>5, Names, Copy
  <2>8. Frame(d, u, RollbackStores)
    BY <2>5, <2>6, <2>7 DEF Frame, RollbackStores
  <2> QED
    BY <2>8 DEF u
<1> QED
  BY <1>1, <1>2

(* do_rollback makes use of running, rollback, failsafe and tmp only *)
LEMMA RollbackFrame ==
    ASSUME NEW d \in Datastores, NEW c \in confirmed_commit,
           NEW oc \in Outcomes, NEW foc \in Outcomes,
           NEW r, r = do_rollback(d, c, oc, foc)
    PROVE  Frame(d, r.ds, RollbackStores)
<1> DEFINE c1 == Conclude(c, "ROLLBACK")
           k == candidate_commit(d, c1, Absent, "rollback", 0, oc)
           w == k.ds
           m == xmldb_rename(w, "rollback")
           f == load_failsafe(m, c1, foc)
           x == xmldb_delete(w, "rollback")
<1>1. c1 \in confirmed_commit
  BY Concludes
<1>2. r.ds = IF k.ret = -1 THEN f.ds ELSE x
  BY DEF do_rollback, RolledBack, RollbackError, RollbackResult
<1> HIDE DEF c1
<1>3. w \in Datastores /\ Frame(d, w, {"rollback", "running", "rollback"})
  BY <1>1, ValidStarted, CandidateCommit
<1> HIDE DEF w
<1>4. m \in Datastores /\ Frame(w, m, {"rollback"})
  BY <1>3, Names, RenameFile
<1>5. Frame(w, x, {"rollback"})
  BY <1>3, Names, Delete
<1> HIDE DEF m, x
<1>6. Frame(m, f.ds, RollbackStores)
  BY <1>1, <1>4, FailsafeFrame
<1> HIDE DEF f
<1>7. Frame(d, f.ds, RollbackStores) /\ Frame(d, x, RollbackStores)
  BY <1>3, <1>4, <1>5, <1>6 DEF Frame, RollbackStores
<1> QED
  BY <1>2, <1>7

(* So it changes neither the candidate nor startup *)
LEMMA RollbackSame ==
    ASSUME NEW d \in Datastores, NEW c \in confirmed_commit,
           NEW oc \in Outcomes, NEW foc \in Outcomes,
           NEW r, r = do_rollback(d, c, oc, foc)
    PROVE  CandidateSame(d, r.ds) /\ StartupSame(d, r.ds)
<1>1. Frame(d, r.ds, RollbackStores)
  BY RollbackFrame
<1>2. "candidate" \notin RollbackStores /\ "startup" \notin RollbackStores
  BY DEF RollbackStores
<1> QED
  BY <1>1, <1>2, CandidateFrame, StartupFrame


(* release_all_dbs leaves the candidate of another session alone; with     *)
(* CLICON_AUTOLOCK the edits of the session itself are discarded.          *)
LEMMA ReleaseSame ==
    ASSUME NEW d \in Datastores, NEW s,
           NEW e, e = release_all_dbs(d, s)
    PROVE  /\ d["candidate"].id # s => CandidateSame(d, e)
           /\ StartupSame(d, e)
           /\ Autolock /\ d["candidate"].id = s => e["candidate"].modified = FALSE
<1> DEFINE g == Discarded(d, s)
           c == xmldb_copy(d, "running", "candidate")
<1>1. e = [db \in DBs |-> IF g[db].id = s THEN [g[db] EXCEPT !.id = 0]
                          ELSE g[db]]
  BY DEF release_all_dbs
<1>2. /\ g \in Datastores
      /\ StartupSame(d, g)
      /\ d["candidate"].id # s => g = d
      /\ Autolock /\ d["candidate"].id = s => g["candidate"].modified = FALSE
  <2>1. CASE Autolock /\ d["candidate"].id = s
    <3>1. g = xmldb_modified_set(c, "candidate", FALSE)
      BY <2>1 DEF Discarded
    <3>2. c \in Datastores /\ StartupSame(d, c)
      BY Names, Copy, CopySame
    <3> HIDE DEF c, g
    <3>3. g \in Datastores /\ Frame(c, g, {"candidate"})
      BY <3>1, <3>2, Names, ModifiedSet
    <3>4. StartupSame(c, g)
      BY <3>3, StartupFrame
    <3>5. g["candidate"].modified = FALSE
      BY <3>1, <3>2, Names DEF xmldb_modified_set, Datastores, db_elmnt
    <3> QED
      BY <2>1, <3>2, <3>3, <3>4, <3>5 DEF StartupSame
  <2>2. CASE ~(Autolock /\ d["candidate"].id = s)
    BY <2>2, Zenon DEF Discarded, StartupSame
  <2> QED
    BY <2>1, <2>2
<1> HIDE DEF g
<1>3. \A b \in DBs : /\ e[b].xml = g[b].xml
                     /\ e[b].file = g[b].file
                     /\ e[b].modified = g[b].modified
                     /\ g[b].id # s => e[b] = g[b]
  <2> TAKE b \in DBs
  <2>1. g[b] \in db_elmnt
    BY <1>2 DEF Datastores
  <2>2. CASE g[b].id = s
    BY <1>1, <2>1, <2>2 DEF db_elmnt
  <2>3. CASE g[b].id # s
    BY <1>1, <2>1, <2>3
  <2> QED
    BY <2>2, <2>3
<1>4. d["candidate"].id # s => CandidateSame(d, e)
  BY <1>2, <1>3, Names DEF CandidateSame
<1>5. StartupSame(g, e)
  <2>1. e["startup"].xml = g["startup"].xml /\ e["startup"].file = g["startup"].file
    BY <1>3, Names
  <2> QED
    BY <2>1, StartupParts
<1>6. Autolock /\ d["candidate"].id = s => e["candidate"].modified = FALSE
  BY <1>2, <1>3, Names
<1> QED
  BY <1>2, <1>4, <1>5, <1>6 DEF StartupSame

(* Removing a client rolls back at most its confirmed commit *)
LEMMA ClientRmSame ==
    ASSUME NEW d \in Datastores, cc \in confirmed_commit,
           NEW s, NEW oc \in Outcomes, NEW foc \in Outcomes,
           NEW r, r = backend_client_rm(d, s, oc, foc)
    PROVE  CandidateSame(d, r.ds) /\ StartupSame(d, r.ds)
<1>1. CASE OwnsEphemeral(s)
  <2> DEFINE c == cancel_rollback_event(cc)
  <2>1. c \in confirmed_commit
    BY CancelTimer
  <2>2. r = do_rollback(d, c, oc, foc)
    BY <1>1 DEF backend_client_rm
  <2> HIDE DEF c
  <2> QED
    BY <2>1, <2>2, RollbackSame
<1>2. CASE ~OwnsEphemeral(s)
  <2>1. r.ds = d
    BY <1>2 DEF backend_client_rm
  <2> QED
    BY <2>1 DEF CandidateSame, StartupSame
<1> QED
  BY <1>1, <1>2

------------------------------------------------------------------------------
(* Lemmas on the ends of sessions *)

(* What the end of session s does to the candidate and to startup: another *)
(* session's candidate stays, and with CLICON_AUTOLOCK the edits of s are  *)
(* discarded with its lock.                                                *)
Leaves(d, e, s) ==
    /\ d["candidate"].id # s => CandidateSame(d, e)
    /\ StartupSame(d, e)
    /\ Autolock /\ d["candidate"].id = s => e["candidate"].modified = FALSE

(* Disconnect, and <close-session> of a subscriber, release the locks and  *)
(* then remove the client.                                                 *)
LEMMA ReleasedFirst ==
    ASSUME IInv, up, NEW s \in Sessions, NEW oc \in Outcomes, NEW foc \in Outcomes,
           Results(backend_client_rm(release_all_dbs(ds, s), s, oc, foc))
    PROVE  Leaves(ds, ds', s)
<1> DEFINE e == release_all_dbs(ds, s)
           r == backend_client_rm(e, s, oc, foc)
<1>1. ds' = r.ds
  BY DEF Results
<1>2. ds \in Datastores /\ RunningGood(ds, Started) /\ cc \in confirmed_commit
  BY DEF IInv, StoreOK, ConfirmOK
<1>3. Leaves(ds, e, s)
  BY <1>2, ReleaseSame DEF Leaves
<1>4. e \in Datastores
  BY <1>2, SessionIds, ReleaseAll
<1> HIDE DEF e
<1>5. CandidateSame(e, r.ds) /\ StartupSame(e, r.ds)
  BY <1>2, <1>4, ClientRmSame
<1> HIDE DEF r
<1> QED
  BY <1>1, <1>3, <1>5 DEF Leaves, CandidateSame, StartupSame

(* <close-session> *)
LEMMA CloseLeaves ==
    ASSUME IInv, NEW s \in Sessions, NEW oc \in Outcomes, NEW foc \in Outcomes,
           CloseSession(s, oc, foc)
    PROVE  Leaves(ds, ds', s)
<1>1. CASE s \in subs
  <2>1. up /\ Results(backend_client_rm(release_all_dbs(ds, s), s, oc, foc))
    BY <1>1 DEF CloseSession, Serving
  <2> QED
    BY <2>1, ReleasedFirst
<1>2. CASE s \notin subs
  <2>1. ds' = release_all_dbs(ds, s) /\ ds \in Datastores
    BY <1>2 DEF CloseSession, IInv, StoreOK
  <2> QED
    BY <2>1, ReleaseSame DEF Leaves
<1> QED
  BY <1>1, <1>2

(* <kill-session> removes client t and then releases its locks *)
LEMMA KillLeaves ==
    ASSUME IInv, NEW s \in Sessions, NEW t \in Sessions,
           NEW oc \in Outcomes, NEW foc \in Outcomes,
           KillSession(s, t, oc, foc)
    PROVE  Leaves(ds, ds', t) /\ t \notin clients'
<1> DEFINE r == IF t \in clients THEN backend_client_rm(ds, t, oc, foc)
                ELSE [ds |-> ds, cc |-> cc, ret |-> 0, stop |-> FALSE]
           w == r.ds
           e == ds'
<1>1. e = release_all_dbs(w, t) /\ t \notin clients' /\ up
  BY DEF KillSession, Killed, ForgetClient, Serving
<1>2. /\ ds \in Datastores
      /\ RunningGood(ds, Started)
      /\ cc \in confirmed_commit
      /\ ds["tmp"].xml = NULL
  BY <1>1 DEF IInv, StoreOK, ConfirmOK
<1>3. w \in Datastores /\ CandidateSame(ds, w) /\ StartupSame(ds, w)
  <2>1. CASE t \in clients
    <3>1. r = backend_client_rm(ds, t, oc, foc)
      BY <2>1
    <3> HIDE DEF r
    <3> QED
      BY <1>2, <3>1, ClientRm, ClientRmSame
  <2>2. CASE t \notin clients
    BY <1>2, <2>2 DEF CandidateSame, StartupSame
  <2> QED
    BY <2>1, <2>2
<1> HIDE DEF w, e
<1>4. Leaves(w, e, t)
  BY <1>1, <1>3, ReleaseSame DEF Leaves
<1> QED
  BY <1>1, <1>3, <1>4 DEF Leaves, CandidateSame, StartupSame, e


------------------------------------------------------------------------------
(* Lemmas on requests *)

(* The lock of a datastore that a session took or gives back is not its    *)
(* content.                                                                *)
LEMMA LockChanges ==
    ASSUME NEW d \in Datastores, NEW db \in DBs, NEW s,
           NEW e, e = [d EXCEPT ![db].id = s]
    PROVE  /\ e["candidate"].xml = d["candidate"].xml
           /\ e["candidate"].modified = d["candidate"].modified
           /\ db # "candidate" => CandidateSame(d, e)
           /\ StartupSame(d, e)
<1>1. \A b \in DBs : /\ e[b].xml = d[b].xml
                     /\ e[b].file = d[b].file
                     /\ e[b].modified = d[b].modified
                     /\ b # db => e[b] = d[b]
  BY DEF Datastores, db_elmnt
<1>2. db # "candidate" => CandidateSame(d, e)
  BY <1>1, Names DEF CandidateSame
<1>3. StartupSame(d, e)
  <2>1. e["startup"].xml = d["startup"].xml /\ e["startup"].file = d["startup"].file
    BY <1>1, Names
  <2> QED
    BY <2>1, StartupParts
<1> QED
  BY <1>1, <1>2, <1>3, Names

(* <delete-config> deletes startup *)
LEMMA DeleteFrame ==
    ASSUME IInv, NEW t, DeleteConfig(t)
    PROVE  Frame(ds, ds', {"startup"})
<1> DEFINE x == xmldb_delete(ds, "startup")
           c == xmldb_create(x, "startup")
           e == ds'
<1>1. e = xmldb_modified_set(c, "startup", TRUE) /\ ds \in Datastores
  BY DEF DeleteConfig, IInv, StoreOK
<1>2. x \in Datastores /\ Frame(ds, x, {"startup"})
  BY <1>1, Names, Delete
<1> HIDE DEF x, e
<1>3. c \in Datastores /\ Frame(x, c, {"startup"})
  BY <1>2, Names, Create
<1> HIDE DEF c
<1>4. Frame(c, e, {"startup"})
  BY <1>1, <1>3, Names, ModifiedSet
<1>5. Frame(ds, e, {"startup"})
  BY <1>2, <1>3, <1>4, FrameTransitive
<1> QED
  BY <1>5 DEF e

(* <validate> *)
LEMMA ValidateRequest ==
    ASSUME IInv, NEW t, NEW db \in NetconfDBs, Validate(t, db)
    PROVE  CandidateSame(ds, ds') /\ StartupSame(ds, ds')
<1> DEFINE r == validate_common(ds, db, "ok")
<1>1. ds' = r.ds /\ ds \in Datastores
  BY DEF Validate, IInv, StoreOK
<1>2. db \in DBs /\ "ok" \in Outcomes
  BY NetconfNames, Names DEF Outcomes
<1>3. CandidateSame(ds, r.ds) /\ StartupSame(ds, r.ds)
  BY <1>1, <1>2, ValidateSame
<1> HIDE DEF r
<1> QED
  BY <1>1, <1>3

(* <commit> that confirms ends the confirmed commit only *)
LEMMA ConfirmingRequest ==
    ASSUME IInv, NEW t, NEW xe, ConfirmingCommit(t, xe)
    PROVE  CandidateSame(ds, ds') /\ StartupSame(ds, ds')
<1> DEFINE r == cancel_confirmed_commit(ds, cc)
<1>1. ds' = r.ds /\ ds \in Datastores /\ cc \in confirmed_commit
  BY DEF ConfirmingCommit, IInv, StoreOK, ConfirmOK
<1>2. Frame(ds, r.ds, {"rollback"})
  BY <1>1, CancelConfirmed
<1> HIDE DEF r
<1> QED
  BY <1>1, <1>2, CandidateFrame, StartupFrame

(* <cancel-commit> rolls back *)
LEMMA CancelRequest ==
    ASSUME IInv, NEW t, NEW p, NEW oc \in Failures, NEW foc \in Failures,
           CancelCommit(t, p, oc, foc)
    PROVE  CandidateSame(ds, ds') /\ StartupSame(ds, ds')
<1> DEFINE c == cancel_rollback_event(cc)
           r == do_rollback(ds, c, oc, foc)
<1>1. ds' = r.ds /\ ds \in Datastores
  BY DEF CancelCommit, Results, IInv, StoreOK
<1>2. c \in confirmed_commit /\ oc \in Outcomes /\ foc \in Outcomes
  BY OutcomeTypes, CancelTimer DEF IInv, ConfirmOK
<1> HIDE DEF c
<1>3. CandidateSame(ds, r.ds) /\ StartupSame(ds, r.ds)
  BY <1>1, <1>2, RollbackSame
<1> HIDE DEF r
<1> QED
  BY <1>1, <1>3

(* The rollback timer *)
LEMMA TimeoutSame ==
    ASSUME IInv, Timeout
    PROVE  CandidateSame(ds, ds') /\ StartupSame(ds, ds')
<1>0. PICK oc \in Failures, foc \in Failures : RollbackTimeout(oc, foc)
  BY DEF Timeout
<1> DEFINE c == cancel_rollback_event(cc)
           r == do_rollback(ds, c, oc, foc)
<1>1. ds' = r.ds /\ ds \in Datastores
  BY <1>0 DEF RollbackTimeout, TimedOut, IInv, StoreOK
<1>2. c \in confirmed_commit /\ oc \in Outcomes /\ foc \in Outcomes
  BY OutcomeTypes, CancelTimer DEF IInv, ConfirmOK
<1> HIDE DEF c
<1>3. CandidateSame(ds, r.ds) /\ StartupSame(ds, r.ds)
  BY <1>1, <1>2, RollbackSame
<1> HIDE DEF r
<1> QED
  BY <1>1, <1>3

(* While session s has the lock of the candidate, a request of another     *)
(* session leaves the candidate as it is, unless it kills s.               *)
LEMMA RequestElsewhere ==
    ASSUME IInv, NEW s \in clients, NEW t \in Sessions, t # s,
           ds["candidate"].id = s, Request(t), s \in clients'
    PROVE  ~CandidateTouched
<1>0. ds \in Datastores /\ ~FreeFor("candidate", t) /\ s # 0 /\ s # t
  BY SessionIds DEF IInv, StoreOK, SessionsOK, FreeFor
<1>1. ASSUME NEW db \in NetconfDBs, Lock(t, db) PROVE ~CandidateTouched
  <2>1. ds' = [ds EXCEPT ![db].id = t] /\ db \in DBs
    BY <1>1, NetconfNames, Names DEF Lock, xmldb_lock
  <2> QED
    BY <1>0, <2>1, LockChanges DEF CandidateTouched
<1>2. ASSUME NEW db \in NetconfDBs, Unlock(t, db) PROVE ~CandidateTouched
  <2>1. ds' = [ds EXCEPT ![db].id = 0] /\ db \in DBs
    BY <1>2, NetconfNames, Names DEF Unlock, xmldb_unlock
  <2> QED
    BY <1>0, <2>1, LockChanges DEF CandidateTouched
<1>3. ASSUME NEW r \in EditRequests,
             EditConfig(t, r.new, r.edit, r.auto, r.cpstart, r.oc)
      PROVE  FALSE
  BY <1>0, <1>3 DEF EditConfig, MayWriteCandidate
<1>4. ASSUME NEW from \in NetconfDBs, NEW to \in NetconfDBs,
             CopyConfig(t, from, to)
      PROVE  ~CandidateTouched
  <2>1. to # "candidate" /\ from # to
    BY <1>0, <1>4 DEF CopyConfig, MayWriteCandidate
  <2>2. ds' = xmldb_copy(ds, from, to)
    BY <1>4, <2>1 DEF CopyConfig
  <2>3. from \in DBs /\ to \in DBs
    BY NetconfNames, Names
  <2> QED
    BY <1>0, <2>1, <2>2, <2>3, CopySame DEF CandidateSame, CandidateTouched
<1>5. ASSUME DeleteConfig(t) PROVE ~CandidateTouched
  BY <1>5, DeleteFrame, CandidateFrame DEF CandidateSame, CandidateTouched
<1>6. ASSUME DiscardChanges(t) PROVE FALSE
  BY <1>0, <1>6 DEF DiscardChanges
<1>7. ASSUME NEW xe \in Commits, NEW oc \in Outcomes, Commit(t, xe, oc)
      PROVE  FALSE
  BY <1>0, <1>7 DEF Commit
<1>8. ASSUME NEW db \in NetconfDBs, Validate(t, db) PROVE ~CandidateTouched
  BY <1>8, ValidateRequest DEF CandidateSame, CandidateTouched
<1>9. ASSUME NEW xe \in Commits, ConfirmingCommit(t, xe)
      PROVE  ~CandidateTouched
  BY <1>9, ConfirmingRequest DEF CandidateSame, CandidateTouched
<1>10. ASSUME NEW p \in PersistIds \union {NoId, Absent},
              NEW oc \in Failures, NEW foc \in Failures,
              CancelCommit(t, p, oc, foc)
       PROVE  ~CandidateTouched
  BY <1>10, CancelRequest DEF CandidateSame, CandidateTouched
<1>11. ASSUME NEW oc \in EndOutcomes(t), NEW foc \in EndOutcomes(t),
              CloseSession(t, oc, foc)
       PROVE  ~CandidateTouched
  <2>1. Leaves(ds, ds', t)
    BY <1>11, OutcomeTypes, CloseLeaves
  <2> QED
    BY <1>0, <2>1 DEF Leaves, CandidateSame, CandidateTouched
<1>12. ASSUME NEW u \in Sessions, NEW oc \in EndOutcomes(u),
              NEW foc \in EndOutcomes(u), KillSession(t, u, oc, foc)
       PROVE  ~CandidateTouched
  <2>1. Leaves(ds, ds', u) /\ u \notin clients'
    BY <1>12, OutcomeTypes, KillLeaves
  <2> QED
    BY <1>0, <2>1 DEF Leaves, CandidateSame, CandidateTouched
<1>13. ASSUME CreateSubscription(t) PROVE ~CandidateTouched
  BY <1>13 DEF CreateSubscription, CandidateTouched
<1> QED
  BY <1>1, <1>2, <1>3, <1>4, <1>5, <1>6, <1>7, <1>8, <1>9, <1>10, <1>11,
     <1>12, <1>13
  DEF Request


(* The edit of an <edit-config> changes the candidate and no lock *)
LEMMA EditedFrame ==
    ASSUME NEW d \in Datastores, d["running"].xml # NULL,
           NEW edit \in Edits, NEW new \in Configs,
           NEW e, e = Edited(d, edit, new)
    PROVE  /\ e \in Datastores
           /\ Frame(d, e, {"candidate"})
           /\ SameLocks(d, e)
<1>1. ASSUME NEW done \in BOOLEAN,
             NEW p, p = xmldb_put(d, "candidate", new, done)
      PROVE  p \in Datastores /\ Frame(d, p, {"candidate"}) /\ SameLocks(d, p)
  BY <1>1, PutCandidate
<1>2. CASE edit = "refused"
  BY <1>2 DEF Edited, Frame, SameLocks
<1>3. CASE edit = "partial"
  BY <1>1, <1>3, Zenon DEF Edited
<1>4. CASE edit = "put"
  <2> DEFINE p == xmldb_put(d, "candidate", new, TRUE)
  <2>1. e = xmldb_modified_set(p, "candidate", TRUE)
    BY <1>4 DEF Edited
  <2>2. p \in Datastores /\ Frame(d, p, {"candidate"}) /\ SameLocks(d, p)
    BY <1>1, Zenon
  <2> HIDE DEF p
  <2>3. e \in Datastores /\ Frame(p, e, {"candidate"}) /\ SameLocks(p, e)
    BY <2>1, <2>2, Names, ModifiedSet, Zenon
  <2>4. Frame(d, e, {"candidate"})
    BY <2>2, <2>3, FrameTransitive
  <2> QED
    BY <2>2, <2>3, <2>4 DEF SameLocks
<1> QED
  BY <1>2, <1>3, <1>4 DEF Edits

(* An autocommit changes the candidate, running and rollback, and keeps    *)
(* the candidate's lock.                                                   *)
LEMMA AutocommitFrame ==
    ASSUME NEW d \in Datastores, cc \in confirmed_commit, NEW s \in Nat,
           NEW oc \in Outcomes,
           NEW r, r = Autocommitted(d, s, oc)
    PROVE  /\ r.ds \in Datastores
           /\ Frame(d, r.ds, {"candidate", "running", "rollback"})
           /\ r.ds["candidate"].id = d["candidate"].id
<1>1. CASE cc.state = "PERSISTENT"
  <2>1. r.ds = d
    BY <1>1 DEF Autocommitted
  <2> QED
    BY <2>1 DEF Frame
<1>2. CASE cc.state # "PERSISTENT"
  <2> DEFINE p == IF cc.state = "INACTIVE" THEN [ds |-> d, cc |-> cc]
                  ELSE cancel_confirmed_commit(d, cc)
             v == p.ds
             c == p.cc
             k == candidate_commit(v, c, Absent, "candidate", s, oc)
             w == k.ds
             u == r.ds
  <2>1. r = IF k.ret = 1 THEN k
            ELSE [k EXCEPT !.ds = xmldb_copy(@, "running", "candidate")]
    BY <1>2 DEF Autocommitted
  <2>2. k = [ds |-> k.ds, cc |-> k.cc, ret |-> k.ret]
    BY Zenon DEF candidate_commit, Transacted
  <2>3. /\ v \in Datastores
        /\ Frame(d, v, {"rollback"})
        /\ Releases(d, v)
        /\ c \in confirmed_commit
    <3>1. CASE cc.state = "INACTIVE"
      BY <3>1 DEF Frame, Releases
    <3>2. CASE cc.state # "INACTIVE"
      <4>1. p = cancel_confirmed_commit(d, cc)
        BY <3>2
      <4> HIDE DEF p
      <4> QED
        BY <4>1, CancelConfirmed
    <3> QED
      BY <3>1, <3>2
  <2> HIDE DEF v, c
  <2>4. /\ w \in Datastores
        /\ Frame(v, w, {"candidate", "running", "rollback"})
        /\ Releases(v, w)
    BY <2>3, ValidStarted, CandidateCommit
  <2>5. u = w \/ u = xmldb_copy(w, "running", "candidate")
    <3> HIDE DEF k
    <3> QED
      BY <2>1, <2>2
  <2> HIDE DEF k, w, u
  <2>6. /\ Frame(d, w, {"candidate", "running", "rollback"})
        /\ w["candidate"].id = d["candidate"].id
    BY <2>3, <2>4 DEF Frame, Releases
  <2>7. ASSUME u = xmldb_copy(w, "running", "candidate")
        PROVE  /\ u \in Datastores
               /\ Frame(w, u, {"running", "candidate"})
               /\ u["candidate"].id = w["candidate"].id
    <3>1. u \in Datastores /\ Frame(w, u, {"running", "candidate"}) /\ SameLocks(w, u)
      BY <2>4, <2>7, Names, Copy
    <3> QED
      BY <3>1, Names DEF SameLocks
  <2>8. CASE u = w
    BY <2>4, <2>6, <2>8 DEF u
  <2>9. CASE u = xmldb_copy(w, "running", "candidate")
    <3>1. /\ u \in Datastores
          /\ Frame(d, u, {"candidate", "running", "rollback"})
          /\ u["candidate"].id = d["candidate"].id
      BY <2>6, <2>7, <2>9 DEF Frame
    <3> QED
      BY <3>1 DEF u
  <2> QED
    BY <2>5, <2>8, <2>9
<1> QED
  BY <1>1, <1>2

(* What <edit-config> of session t leaves before an autolock is given back *)
EditedStores(u, t, cpstart) ==
    /\ u \in Datastores
    /\ ~cpstart => StartupSame(ds, u)
    /\ u["candidate"].id = IF TakesLock THEN t ELSE ds["candidate"].id
    /\ ds' = IF EditUnwinds(u, t) THEN xmldb_unlock(u, "candidate") ELSE u

(* <edit-config> changes startup only if it copies running to it, and      *)
(* gives the candidate's lock back in its last step only.                  *)
LEMMA EditRequest ==
    ASSUME IInv, NEW t \in Sessions, NEW new \in Configs, NEW edit \in Edits,
           NEW auto \in BOOLEAN, NEW cpstart \in BOOLEAN, NEW oc \in Outcomes,
           EditConfig(t, new, edit, auto, cpstart, oc)
    PROVE  \E u : EditedStores(u, t, cpstart)
<1> DEFINE a == Autolocked(t)
           d == Edited(a, edit, new)
           r == IF edit = "put" /\ auto THEN Autocommitted(d, t, oc)
                ELSE [ds |-> d, cc |-> cc, ret |-> 1]
           cp == edit = "put" /\ cpstart
           w == r.ds
           u == IF cp /\ r.ret = 1 THEN xmldb_copy(w, "running", "startup")
                ELSE w
<1>0. /\ ds \in Datastores
      /\ cc \in confirmed_commit
      /\ ds["running"].xml # NULL
      /\ t \in Nat
  BY SessionIds, RunningCached DEF IInv, StoreOK, ConfirmOK
<1>1. EditEnds(t, u)
  BY DEF EditConfig, EditResult
<1>2. /\ a \in Datastores
      /\ Frame(ds, a, {"candidate"})
      /\ a["candidate"].id = IF TakesLock THEN t ELSE ds["candidate"].id
  <2>1. CASE TakesLock
    <3>1. a = [ds EXCEPT !["candidate"].id = t]
      BY <2>1 DEF Autolocked, xmldb_lock
    <3> HIDE DEF a
    <3>2. a \in Datastores /\ Frame(ds, a, {"candidate"}) /\ a["candidate"].id = t
      <4>1. a \in Datastores
        BY <1>0, <3>1, Names, SetLock, Zenon
      <4>2. Frame(ds, a, {"candidate"})
        BY <1>0, <3>1, Names, SetLock, Zenon
      <4>3. a["candidate"].id = t
        BY <1>0, <3>1, Names DEF Datastores, db_elmnt
      <4> QED
        BY <4>1, <4>2, <4>3
    <3> QED
      BY <2>1, <3>2
  <2>2. CASE ~TakesLock
    BY <1>0, <2>2 DEF Autolocked, Frame
  <2> QED
    BY <2>1, <2>2
<1> HIDE DEF a
<1>3. d \in Datastores /\ Frame(a, d, {"candidate"}) /\ SameLocks(a, d)
  <2>1. a["running"].xml # NULL
    BY <1>0, <1>2, Names DEF Frame
  <2> QED
    BY <1>2, <2>1, EditedFrame
<1> HIDE DEF d
<1>4. /\ w \in Datastores
      /\ Frame(d, w, {"candidate", "running", "rollback"})
      /\ w["candidate"].id = d["candidate"].id
  <2>1. CASE edit = "put" /\ auto
    <3>1. r = Autocommitted(d, t, oc)
      BY <2>1
    <3> HIDE DEF r
    <3> QED
      BY <1>0, <1>3, <3>1, AutocommitFrame
  <2>2. CASE ~(edit = "put" /\ auto)
    BY <1>3, <2>2 DEF Frame
  <2> QED
    BY <2>1, <2>2
<1> HIDE DEF w
<1>5. /\ StartupSame(ds, w)
      /\ w["candidate"].id = IF TakesLock THEN t ELSE ds["candidate"].id
  <2>1. Frame(ds, w, {"candidate", "running", "rollback"})
    BY <1>2, <1>3, <1>4 DEF Frame
  <2>2. w["candidate"].id = a["candidate"].id
    BY <1>3, <1>4, Names DEF SameLocks
  <2>3. StartupSame(ds, w)
    BY <2>1, StartupFrame
  <2> QED
    BY <1>2, <2>2, <2>3
<1>6. /\ u \in Datastores
      /\ ~cpstart => u = w
      /\ u["candidate"].id = w["candidate"].id
  <2>1. CASE cp /\ r.ret = 1
    <3>1. u = xmldb_copy(w, "running", "startup") /\ cpstart
      BY <2>1
    <3> HIDE DEF u
    <3>2. u \in Datastores /\ SameLocks(w, u)
      BY <1>4, <3>1, Names, Copy
    <3> QED
      BY <3>1, <3>2, Names DEF SameLocks
  <2>2. CASE ~(cp /\ r.ret = 1)
    BY <1>4, <2>2
  <2> QED
    BY <2>1, <2>2
<1> HIDE DEF u
<1>7. EditedStores(u, t, cpstart)
  BY <1>1, <1>5, <1>6 DEF EditedStores, EditEnds
<1> QED
  BY <1>7


(* While session s has the lock of startup, a request of another session   *)
(* leaves what startup reads as, unless it is an edit with copystartup.    *)
LEMMA StartupElsewhere ==
    ASSUME IInv, NEW s \in clients, NEW t \in Sessions, t # s,
           ds["startup"].id = s, Request(t), ~CopiesStartup(t)
    PROVE  StartupSame(ds, ds')
<1>0. ds \in Datastores /\ ~FreeFor("startup", t)
  BY SessionIds DEF IInv, StoreOK, SessionsOK, FreeFor
<1>1. ASSUME NEW db \in NetconfDBs, Lock(t, db) PROVE StartupSame(ds, ds')
  <2>1. ds' = [ds EXCEPT ![db].id = t] /\ db \in DBs
    BY <1>1, NetconfNames, Names DEF Lock, xmldb_lock
  <2> QED
    BY <1>0, <2>1, LockChanges
<1>2. ASSUME NEW db \in NetconfDBs, Unlock(t, db) PROVE StartupSame(ds, ds')
  <2>1. ds' = [ds EXCEPT ![db].id = 0] /\ db \in DBs
    BY <1>2, NetconfNames, Names DEF Unlock, xmldb_unlock
  <2> QED
    BY <1>0, <2>1, LockChanges
<1>3. ASSUME NEW r \in EditRequests,
             EditConfig(t, r.new, r.edit, r.auto, r.cpstart, r.oc)
      PROVE  StartupSame(ds, ds')
  <2>1. /\ r.new \in Configs
        /\ r.edit \in Edits
        /\ r.auto \in BOOLEAN
        /\ r.oc \in Outcomes
    BY <1>3, OutcomeTypes DEF EditRequests
  <2>2. r.cpstart \in BOOLEAN
    BY <1>3, BackendAssumption, Zenon DEF EditRequests
  <2>3. ~r.cpstart
    BY <1>3, Zenon DEF CopiesStartup
  <2>4. PICK u : EditedStores(u, t, r.cpstart)
    BY <1>3, <2>1, <2>2, EditRequest
  <2>5. u \in Datastores /\ StartupSame(ds, u)
    BY <2>3, <2>4 DEF EditedStores
  <2>6. CASE EditUnwinds(u, t)
    <3> DEFINE e == ds'
    <3>1. e = [u EXCEPT !["candidate"].id = 0]
      BY <2>4, <2>6 DEF EditedStores, xmldb_unlock
    <3> HIDE DEF e
    <3>2. StartupSame(u, e)
      BY <2>5, <3>1, Names, LockChanges
    <3> QED
      BY <2>5, <3>2 DEF StartupSame, e
  <2>7. CASE ~EditUnwinds(u, t)
    BY <2>4, <2>5, <2>7 DEF EditedStores
  <2> QED
    BY <2>6, <2>7
<1>4. ASSUME NEW from \in NetconfDBs, NEW to \in NetconfDBs,
             CopyConfig(t, from, to)
      PROVE  StartupSame(ds, ds')
  <2>1. to # "startup" /\ from # to /\ to # "running"
    BY <1>0, <1>4 DEF CopyConfig
  <2>2. to = "candidate" /\ from \in DBs
    BY <2>1, NetconfNames, Names
  <2> DEFINE a == Autolocked(t)
             c == xmldb_copy(a, from, to)
             e == ds'
  <2>3. e = xmldb_modified_set(c, to, TRUE) \/ e = c
    BY <1>4, <2>2 DEF CopyConfig
  <2>4. a \in Datastores /\ StartupSame(ds, a)
    <3>1. CASE TakesLock
      <4>1. a = [ds EXCEPT !["candidate"].id = t]
        BY <3>1 DEF Autolocked, xmldb_lock
      <4> HIDE DEF a
      <4>2. t \in Nat
        BY SessionIds
      <4> QED
        BY <1>0, <4>1, <4>2, Names, SetLock, LockChanges
    <3>2. CASE ~TakesLock
      BY <1>0, <3>2 DEF Autolocked, StartupSame
    <3> QED
      BY <3>1, <3>2
  <2> HIDE DEF a, e
  <2>5. c \in Datastores /\ StartupSame(a, c)
    BY <2>1, <2>2, <2>4, Names, Copy, CopySame
  <2> HIDE DEF c
  <2>6. StartupSame(c, e)
    <3>1. CASE e = c
      BY <3>1 DEF StartupSame
    <3>2. CASE e = xmldb_modified_set(c, to, TRUE)
      <4>1. Frame(c, e, {to})
        BY <2>2, <2>5, <3>2, Names, ModifiedSet
      <4> QED
        BY <2>1, <4>1, StartupFrame
    <3> QED
      BY <2>3, <3>1, <3>2
  <2> QED
    BY <2>4, <2>5, <2>6 DEF StartupSame, e
<1>5. ASSUME DeleteConfig(t) PROVE FALSE
  BY <1>0, <1>5 DEF DeleteConfig
<1>6. ASSUME DiscardChanges(t) PROVE StartupSame(ds, ds')
  <2> DEFINE c == xmldb_copy(ds, "running", "candidate")
             m == xmldb_modified_set(c, "candidate", FALSE)
             e == ds'
  <2>1. e = m \/ e = [m EXCEPT !["candidate"].id = 0]
    BY <1>6 DEF DiscardChanges, xmldb_unlock
  <2>2. c \in Datastores /\ StartupSame(ds, c)
    <3>1. c = xmldb_copy(ds, "running", "candidate")
      OBVIOUS
    <3> HIDE DEF c
    <3>2. c \in Datastores
      BY <1>0, <3>1, Names, Copy
    <3>3. StartupSame(ds, c)
      BY <1>0, <3>1, Names, CopySame
    <3> QED
      BY <3>2, <3>3
  <2> HIDE DEF c, e
  <2>3. m \in Datastores /\ Frame(c, m, {"candidate"})
    BY <2>2, Names, ModifiedSet
  <2>4. StartupSame(c, m)
    BY <2>3, StartupFrame
  <2> HIDE DEF m
  <2>5. StartupSame(m, e)
    <3>1. CASE e = m
      BY <3>1 DEF StartupSame
    <3>2. CASE e = [m EXCEPT !["candidate"].id = 0]
      BY <2>3, <3>2, Names, LockChanges
    <3> QED
      BY <2>1, <3>1, <3>2
  <2> QED
    BY <2>2, <2>4, <2>5 DEF StartupSame, e
<1>7. ASSUME NEW xe \in Commits, NEW oc \in Outcomes, Commit(t, xe, oc)
      PROVE  StartupSame(ds, ds')
  <2> DEFINE r == candidate_commit(ds, cc, xe, "candidate", t, oc)
             w == r.ds
             e == ds'
  <2>1. e = w \/ e = [w EXCEPT !["candidate"].id = 0]
    BY <1>7 DEF Commit, CommitResult, xmldb_unlock
  <2>2. w \in Datastores /\ Frame(ds, w, {"candidate", "running", "rollback"})
    <3>1. xe \in CommitRequest \union {Absent}
      BY DEF Commits
    <3>2. cc \in confirmed_commit /\ t \in Nat
      BY SessionIds DEF IInv, ConfirmOK
    <3> QED
      BY <1>0, <3>1, <3>2, ValidStarted, CandidateCommit
  <2> HIDE DEF r, w, e
  <2>3. StartupSame(ds, w)
    BY <2>2, StartupFrame
  <2>4. StartupSame(w, e)
    <3>1. CASE e = w
      BY <3>1 DEF StartupSame
    <3>2. CASE e = [w EXCEPT !["candidate"].id = 0]
      BY <2>2, <3>2, Names, LockChanges
    <3> QED
      BY <2>1, <3>1, <3>2
  <2> QED
    BY <2>3, <2>4 DEF StartupSame, e
<1>8. ASSUME NEW db \in NetconfDBs, Validate(t, db) PROVE StartupSame(ds, ds')
  BY <1>8, ValidateRequest
<1>9. ASSUME NEW xe \in Commits, ConfirmingCommit(t, xe)
      PROVE  StartupSame(ds, ds')
  BY <1>9, ConfirmingRequest
<1>10. ASSUME NEW p \in PersistIds \union {NoId, Absent},
              NEW oc \in Failures, NEW foc \in Failures,
              CancelCommit(t, p, oc, foc)
       PROVE  StartupSame(ds, ds')
  BY <1>10, CancelRequest
<1>11. ASSUME NEW oc \in EndOutcomes(t), NEW foc \in EndOutcomes(t),
              CloseSession(t, oc, foc)
       PROVE  StartupSame(ds, ds')
  BY <1>11, OutcomeTypes, CloseLeaves DEF Leaves
<1>12. ASSUME NEW u \in Sessions, NEW oc \in EndOutcomes(u),
              NEW foc \in EndOutcomes(u), KillSession(t, u, oc, foc)
       PROVE  StartupSame(ds, ds')
  BY <1>12, OutcomeTypes, KillLeaves DEF Leaves
<1>13. ASSUME CreateSubscription(t) PROVE StartupSame(ds, ds')
  BY <1>13 DEF CreateSubscription, StartupSame
<1> QED
  BY <1>1, <1>2, <1>3, <1>4, <1>5, <1>6, <1>7, <1>8, <1>9, <1>10, <1>11,
     <1>12, <1>13
  DEF Request


------------------------------------------------------------------------------
(* Lemmas on the autolock *)

(* How session s may lose the lock of a dirty candidate *)
LosesLock(s) ==
    /\ ds["candidate"].id = s
    /\ ds["candidate"].modified
    /\ ds'["candidate"].id # s

Accounted(s) ==
    LosesLock(s) => ~ds'["candidate"].modified \/ Unlock(s, "candidate")

(* A step that keeps the candidate loses no lock *)
LEMMA SameAccounted ==
    ASSUME NEW s, CandidateSame(ds, ds')
    PROVE  Accounted(s)
  BY DEF CandidateSame, Accounted, LosesLock

(* The end of any session discards the edits of its owner with the lock *)
LEMMA LeavesAccounted ==
    ASSUME Autolock, NEW s, NEW t, Leaves(ds, ds', t)
    PROVE  Accounted(s)
<1>1. CASE ds["candidate"].id # t
  BY <1>1, SameAccounted DEF Leaves
<1>2. CASE ds["candidate"].id = t
  BY <1>2 DEF Leaves, Accounted, LosesLock
<1> QED
  BY <1>1, <1>2

(* A <commit> gives the lock back with the dirty bit of what it committed *)
LEMMA CommitAccounted ==
    ASSUME IInv, NEW s, NEW t \in Sessions, NEW xe \in CommitRequest,
           NEW oc \in Outcomes, Commit(t, xe, oc)
    PROVE  Accounted(s)
<1> DEFINE v == validate_common(ds, "candidate", oc)
           p == PhaseTwo(v.ds, cc, xe, t)
           k == IF v.ret = 1 /\ oc = "cerror" THEN -1 ELSE v.ret
           r == candidate_commit(ds, cc, xe, "candidate", t, oc)
           c == xmldb_copy(p.ds, "candidate", "running")
           w == r.ds
           e == ds'
<1>0. ds \in Datastores /\ cc \in confirmed_commit /\ t \in Nat
  BY SessionIds DEF IInv, StoreOK, ConfirmOK
<1>1. e = IF r.ret = 1 /\ Autolock THEN [w EXCEPT !["candidate"].id = 0] ELSE w
  BY DEF Commit, CommitResult, xmldb_unlock
<1>2. w \in Datastores /\ w["candidate"].id = ds["candidate"].id
  <2>1. w \in Datastores /\ Releases(ds, w)
    BY <1>0, ValidStarted, CandidateCommit
  <2> QED
    BY <2>1 DEF Releases
<1>3. CASE r.ret = 1 /\ Autolock
  <2>0. r = IF v.ret = -1 THEN [ds |-> v.ds, cc |-> cc, ret |-> -1]
            ELSE Transacted(p, "candidate", k)
    BY Zenon DEF candidate_commit
  <2>1. v.ret # -1 /\ k = 1 /\ r = Transacted(p, "candidate", k)
    <3> HIDE DEF v, p, k, r
    <3>1. v.ret # -1
      BY <1>3, <2>0
    <3>2. r = Transacted(p, "candidate", k)
      BY <2>0, <3>1
    <3>3. r.ret = k
      BY <3>2 DEF Transacted
    <3> QED
      BY <1>3, <3>1, <3>2, <3>3
  <2>3. w = xmldb_modified_set(c, "candidate", FALSE)
    <3> HIDE DEF r, k, p
    <3> QED
      BY <2>1 DEF Transacted
  <2>4. c \in Datastores
    <3>1. /\ v.ds \in Datastores
          /\ v.ret # -1 => v.ds["running"].xml # NULL
      BY <1>0, ValidStarted, Names, ValidateCommon, Zenon
    <3> DEFINE x == v.ds
               y == p.ds
    <3>2. x \in Datastores /\ x["running"].xml # NULL
      BY <2>1, <3>1
    <3> HIDE DEF v, x
    <3>3. y \in Datastores
      BY <1>0, <3>2, PhaseTwoStep DEF x
    <3> HIDE DEF p, y
    <3>4. c = xmldb_copy(y, "candidate", "running")
      BY DEF y
    <3> HIDE DEF c
    <3> QED
      BY <3>3, <3>4, Names, Copy, Zenon
  <2> HIDE DEF c, w, r, e
  <2>5. w["candidate"].modified = FALSE
    BY <2>3, <2>4, Names DEF xmldb_modified_set, Datastores, db_elmnt
  <2>6. e = [w EXCEPT !["candidate"].id = 0]
    BY <1>1, <1>3
  <2>7. e["candidate"].modified = FALSE
    BY <1>2, <2>5, <2>6, Names, LockChanges
  <2> QED
    BY <2>7 DEF Accounted, e
<1>4. CASE ~(r.ret = 1 /\ Autolock)
  <2>1. e = w
    BY <1>1, <1>4
  <2> HIDE DEF w
  <2> QED
    BY <1>2, <2>1 DEF Accounted, LosesLock
<1> QED
  BY <1>3, <1>4

(* <edit-config> gives the lock back if the candidate is clean *)
LEMMA EditAccounted ==
    ASSUME IInv, NEW s \in clients, NEW t \in Sessions, NEW r \in EditRequests,
           EditConfig(t, r.new, r.edit, r.auto, r.cpstart, r.oc)
    PROVE  Accounted(s)
<1>1. /\ r.new \in Configs
      /\ r.edit \in Edits
      /\ r.auto \in BOOLEAN
      /\ r.oc \in Outcomes
  BY OutcomeTypes DEF EditRequests
<1>2. r.cpstart \in BOOLEAN
  BY BackendAssumption, Zenon DEF EditRequests
<1>3. PICK u : EditedStores(u, t, r.cpstart)
  BY <1>1, <1>2, EditRequest
<1>4. CASE EditUnwinds(u, t)
  <2> DEFINE e == ds'
  <2>1. u \in Datastores /\ e = [u EXCEPT !["candidate"].id = 0]
    BY <1>3, <1>4 DEF EditedStores, xmldb_unlock
  <2>2. ~u["candidate"].modified
    BY <1>4 DEF EditUnwinds
  <2> HIDE DEF e
  <2>3. e["candidate"].modified = u["candidate"].modified
    BY <2>1, Names, LockChanges
  <2> QED
    BY <2>2, <2>3 DEF Accounted, e
<1>5. CASE ~EditUnwinds(u, t)
  <2>1. /\ ds' = u
        /\ u["candidate"].id = IF TakesLock THEN t ELSE ds["candidate"].id
    BY <1>3, <1>5 DEF EditedStores
  <2>2. s # 0
    BY SessionIds DEF IInv, SessionsOK
  <2>3. LosesLock(s) => ~TakesLock
    BY <2>2, SMTT(30) DEF LosesLock, TakesLock
  <2> QED
    BY <2>1, <2>3 DEF Accounted, LosesLock
<1> QED
  BY <1>4, <1>5

(* <copy-config> to the candidate keeps the lock it needs *)
LEMMA CopyAccounted ==
    ASSUME IInv, NEW s \in clients, NEW t \in Sessions,
           NEW from \in NetconfDBs, NEW to \in NetconfDBs,
           CopyConfig(t, from, to)
    PROVE  Accounted(s)
<1>0. ds \in Datastores /\ from \in DBs /\ to \in DBs /\ from # to /\ s # 0
  BY NetconfNames, Names, SessionIds DEF CopyConfig, IInv, StoreOK, SessionsOK
<1>1. CASE TakesLock
  <2>1. ~LosesLock(s)
    BY <1>0, <1>1 DEF TakesLock, LosesLock
  <2> QED
    BY <2>1 DEF Accounted
<1>2. CASE ~TakesLock
  <2> DEFINE c == xmldb_copy(ds, from, to)
             e == ds'
  <2>1. e = c \/ e = xmldb_modified_set(c, to, TRUE)
    BY <1>2 DEF CopyConfig, Autolocked
  <2>2. c \in Datastores /\ SameLocks(ds, c)
    BY <1>0, Copy
  <2> HIDE DEF c, e
  <2>3. e = xmldb_modified_set(c, to, TRUE) => SameLocks(c, e)
    BY <1>0, <2>2, ModifiedSet
  <2>4. e["candidate"].id = ds["candidate"].id
    BY <2>1, <2>2, <2>3, Names DEF SameLocks
  <2> QED
    BY <2>4 DEF Accounted, LosesLock, e
<1> QED
  BY <1>1, <1>2

(* <discard-changes> clears the dirty bit before it gives the lock back *)
LEMMA DiscardAccounted ==
    ASSUME IInv, NEW s, NEW t, DiscardChanges(t)
    PROVE  Accounted(s)
<1> DEFINE c == xmldb_copy(ds, "running", "candidate")
           m == xmldb_modified_set(c, "candidate", FALSE)
           e == ds'
<1>1. e = m \/ e = [m EXCEPT !["candidate"].id = 0]
  BY DEF DiscardChanges, xmldb_unlock
<1>2. c \in Datastores
  BY Names, Copy DEF IInv, StoreOK
<1> HIDE DEF c, e
<1>3. m \in Datastores /\ m["candidate"].modified = FALSE
  BY <1>2, Names DEF xmldb_modified_set, Datastores, db_elmnt
<1> HIDE DEF m
<1>4. e = [m EXCEPT !["candidate"].id = 0] => e["candidate"].modified = FALSE
  BY <1>3, Names, LockChanges
<1>5. e["candidate"].modified = FALSE
  BY <1>1, <1>3, <1>4
<1> QED
  BY <1>5 DEF Accounted, e


(* No request loses the lock of a dirty candidate otherwise *)
LEMMA RequestAccounted ==
    ASSUME Autolock, IInv, NEW s \in clients, NEW t \in Sessions, Request(t)
    PROVE  Accounted(s)
<1>0. ds \in Datastores /\ s # 0
  BY SessionIds DEF IInv, StoreOK, SessionsOK
<1>1. ASSUME NEW db \in NetconfDBs, Lock(t, db) PROVE Accounted(s)
  <2>1. ds' = [ds EXCEPT ![db].id = t] /\ db \in DBs /\ ds[db].id = 0
    BY <1>1, NetconfNames, Names DEF Lock, xmldb_lock
  <2>2. CASE db = "candidate"
    BY <1>0, <2>1, <2>2 DEF Accounted, LosesLock
  <2>3. CASE db # "candidate"
    BY <1>0, <2>1, <2>3, LockChanges, SameAccounted
  <2> QED
    BY <2>2, <2>3
<1>2. ASSUME NEW db \in NetconfDBs, Unlock(t, db) PROVE Accounted(s)
  <2>1. ds' = [ds EXCEPT ![db].id = 0] /\ db \in DBs /\ ds[db].id = t
    BY <1>2, NetconfNames, Names DEF Unlock, xmldb_unlock
  <2>2. CASE db = "candidate"
    <3>1. LosesLock(s) => Unlock(s, "candidate")
      BY <1>2, <2>1, <2>2, Zenon DEF LosesLock
    <3> QED
      BY <3>1 DEF Accounted
  <2>3. CASE db # "candidate"
    BY <1>0, <2>1, <2>3, LockChanges, SameAccounted
  <2> QED
    BY <2>2, <2>3
<1>3. ASSUME NEW r \in EditRequests,
             EditConfig(t, r.new, r.edit, r.auto, r.cpstart, r.oc)
      PROVE  Accounted(s)
  BY <1>3, EditAccounted
<1>4. ASSUME NEW from \in NetconfDBs, NEW to \in NetconfDBs,
             CopyConfig(t, from, to)
      PROVE  Accounted(s)
  BY <1>4, CopyAccounted
<1>5. ASSUME DeleteConfig(t) PROVE Accounted(s)
  BY <1>5, DeleteFrame, CandidateFrame, SameAccounted
<1>6. ASSUME DiscardChanges(t) PROVE Accounted(s)
  BY <1>6, DiscardAccounted
<1>7. ASSUME NEW xe \in Commits, NEW oc \in Outcomes, Commit(t, xe, oc)
      PROVE  Accounted(s)
  BY <1>7, CommitAccounted DEF Commits
<1>8. ASSUME NEW db \in NetconfDBs, Validate(t, db) PROVE Accounted(s)
  BY <1>8, ValidateRequest, SameAccounted
<1>9. ASSUME NEW xe \in Commits, ConfirmingCommit(t, xe) PROVE Accounted(s)
  BY <1>9, ConfirmingRequest, SameAccounted
<1>10. ASSUME NEW p \in PersistIds \union {NoId, Absent},
              NEW oc \in Failures, NEW foc \in Failures,
              CancelCommit(t, p, oc, foc)
       PROVE  Accounted(s)
  BY <1>10, CancelRequest, SameAccounted
<1>11. ASSUME NEW oc \in EndOutcomes(t), NEW foc \in EndOutcomes(t),
              CloseSession(t, oc, foc)
       PROVE  Accounted(s)
  BY <1>11, OutcomeTypes, CloseLeaves, LeavesAccounted
<1>12. ASSUME NEW u \in Sessions, NEW oc \in EndOutcomes(u),
              NEW foc \in EndOutcomes(u), KillSession(t, u, oc, foc)
       PROVE  Accounted(s)
  BY <1>12, OutcomeTypes, KillLeaves, LeavesAccounted
<1>13. ASSUME CreateSubscription(t) PROVE Accounted(s)
  BY <1>13, SameAccounted DEF CreateSubscription, CandidateSame
<1> QED
  BY <1>1, <1>2, <1>3, <1>4, <1>5, <1>6, <1>7, <1>8, <1>9, <1>10, <1>11,
     <1>12, <1>13
  DEF Request

(* Nor does any other step: a subscription that ends removes the client    *)
(* and leaves its lock, a disconnect discards the edits.                   *)
LEMMA NextAccounted ==
    ASSUME Autolock, IInv, [Next]_vars, NEW s \in clients
    PROVE  Accounted(s)
<1>1. ASSUME NEW t \in Sessions, SessionEnds(t) PROVE Accounted(s)
  <2>1. PICK oc \in EndOutcomes(t), foc \in EndOutcomes(t) :
           Disconnect(t, oc, foc) \/ StreamStop(t, oc, foc)
    BY <1>1 DEF SessionEnds
  <2>2. oc \in Outcomes /\ foc \in Outcomes
    BY OutcomeTypes
  <2>3. CASE Disconnect(t, oc, foc)
    <3>1. up /\ Results(backend_client_rm(release_all_dbs(ds, t), t, oc, foc))
      BY <2>3 DEF Disconnect, Serving
    <3> QED
      BY <2>2, <3>1, ReleasedFirst, LeavesAccounted
  <2>4. CASE StreamStop(t, oc, foc)
    <3> DEFINE r == backend_client_rm(ds, t, oc, foc)
    <3>1. ds' = r.ds /\ ds \in Datastores /\ cc \in confirmed_commit
      BY <2>4 DEF StreamStop, Results, IInv, StoreOK, ConfirmOK
    <3>2. CandidateSame(ds, r.ds)
      BY <2>2, <3>1, ClientRmSame
    <3> HIDE DEF r
    <3> QED
      BY <3>1, <3>2, SameAccounted
  <2> QED
    BY <2>1, <2>3, <2>4
<1>2. ASSUME Accept \/ UNCHANGED vars PROVE Accounted(s)
  BY <1>2, SameAccounted DEF Accept, vars, CandidateSame
<1> QED
  BY <1>1, <1>2, RequestAccounted, TimeoutSame, SameAccounted DEF Next

------------------------------------------------------------------------------
(* Theorems *)

(* The candidate is its lock owner's: no request of another session and no *)
(* rollback changes its tree or its dirty bit, short of ending the owner's *)
(* session.  backend_client.c looks at the lock in every handler that      *)
(* writes the candidate, and do_rollback never uses the candidate.         *)
THEOREM CandidateBelongsToOwner == Spec => CandidateLockExclusion
<1>1. ASSUME IInv, NEW s \in clients, ds["candidate"].id = s,
             CandidateTouched, s \in clients'
      PROVE  ~Timeout /\ \A t \in clients \ {s} : ~Request(t)
  <2>1. ~Timeout
    BY <1>1, TimeoutSame DEF CandidateSame, CandidateTouched
  <2>2. ASSUME NEW t \in clients \ {s}, Request(t) PROVE FALSE
    <3>1. t \in Sessions /\ t # s
      BY <1>1 DEF IInv, SessionsOK
    <3> QED
      BY <1>1, <2>2, <3>1, RequestElsewhere
  <2> QED
    BY <2>1, <2>2
<1>2. IInv => [\A s \in clients :
                 (/\ ds["candidate"].id = s
                  /\ CandidateTouched
                  /\ s \in clients')
                    => ~Timeout /\ \A t \in clients \ {s} : ~Request(t)]_vars
  BY <1>1
<1> QED
  BY <1>2, Invariance, PTL DEF CandidateLockExclusion

(* What startup reads as is its lock owner's, except for the copystartup   *)
(* attribute of an <edit-config>, for which from_client_edit_config looks  *)
(* at the candidate's lock only.                                           *)
THEOREM StartupBelongsToOwner == Spec => StartupLockExclusion
<1>1. ASSUME IInv, NEW s \in clients, ds["startup"].id = s,
             StartupTree(ds') # StartupTree(ds),
             NEW t \in clients \ {s}, Request(t)
      PROVE  CopiesStartup(t)
  <2>1. t \in Sessions /\ t # s
    BY <1>1 DEF IInv, SessionsOK
  <2> QED
    BY <1>1, <2>1, StartupElsewhere DEF StartupSame
<1>2. IInv => [\A s \in clients :
                 ds["startup"].id = s /\ StartupTree(ds') # StartupTree(ds)
                    => \A t \in clients \ {s} :
                          Request(t) => CopiesStartup(t)]_vars
  BY <1>1
<1> QED
  BY <1>2, Invariance, PTL DEF StartupLockExclusion

(* With CLICON_AUTOLOCK a dirty candidate stays locked: the lock is given  *)
(* back where the dirty bit is cleared, on every path of edit, commit,     *)
(* discard and session end, also when subscriptions end by themselves.     *)
THEOREM DirtyCandidateStaysLocked ==
    ASSUME Autolock
    PROVE  Spec => LockKeptWhileDirty
<1>1. IInv /\ [Next]_vars
        => [\A s \in clients :
              (/\ ds["candidate"].id = s
               /\ ds["candidate"].modified
               /\ ds'["candidate"].id # s)
                 => ~ds'["candidate"].modified \/ Unlock(s, "candidate")]_vars
  BY NextAccounted DEF Accounted, LosesLock
<1> QED
  BY <1>1, Invariance, PTL DEF LockKeptWhileDirty, Spec
==============================================================================
