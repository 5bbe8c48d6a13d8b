---------------------------- MODULE StartupProofs ----------------------------
(***************************************************************************)
(* What holds of Startup for every set of configurations, every start-up   *)
(* mode and wherever the daemon crashes.                                   *)
(***************************************************************************)
EXTENDS Startup, CommitProofs

(* What running may be: the empty tree is not validated by startup_commit *)
Good == Valid \union {Empty}

(* Running has a file that can be read back at any moment, and the cache,  *)
(* when there is one, is what the file holds.  tmp is cached only while    *)
(* the daemon starts from it: load_failsafe restores running from the file *)
(* tmp.                                                                    *)
StoresOK ==
    /\ ds["running"].file # NoFile
    /\ FileTree(ds["running"].file) \in Good
    /\ ds["running"].xml # NULL =>
         FileTree(ds["running"].file) = ds["running"].xml
    /\ pc \in Running => ds["running"].xml # NULL
    /\ pc \in {"down", "load"} => \A db \in DBs : ds[db].xml = NULL
    /\ from # "tmp" \/ pc \in Running \union {"booted", "load_failsafe"} =>
         ds["tmp"].xml = NULL
    /\ pc = "committing" =>
         /\ ds["candidate"].xml \in Valid
         /\ ds["candidate"].file = ds["candidate"].xml

(* A start holds on to its copy of running in tmp until running is done *)
BootOK ==
    /\ loading \notin {"running", "candidate"}
    /\ pc = "put" => ds[loading].xml \in Good
    /\ pc \in {"load", "put", "drop", "failsafe", "rename", "invalid", "error"} =>
         /\ from # "none"
         /\ ds["tmp"].file # NoFile
         /\ FileTree(ds["tmp"].file) \in Good

(* The file rollback is origin as long as there is an unconfirmed commit, *)
(* and is no configuration otherwise.                                     *)
RollbackKept ==
    IF origin = NULL THEN ~xmldb_exists(ds, "rollback")
    ELSE /\ ds["rollback"].file = origin
         /\ ds["rollback"].xml \in {NULL, origin}

(* Where a start that has not given up on the rollback datastore can be *)
CleanStart ==
    /\ pc = "put" =>
         /\ loading # "failsafe"
         /\ IF loading = "rollback"
            THEN origin # NULL /\ ds["rollback"].xml = origin
            ELSE origin = NULL
    /\ pc = "drop" => ds["running"].file = origin /\ origin # NULL
    /\ pc # "rename"
    /\ pc = "failsafe" => origin # NULL
    /\ pc \in {"loaded", "invalid", "error", "load_failsafe", "booted"} =>
         origin = NULL

(* do_rollback has committed the rollback datastore *)
RollbackDone ==
    clean /\ pc = "rolledback" /\ Empty \in Valid => ds["running"].file = origin

ConfirmOK ==
    /\ pending => pc \in Running /\ origin # NULL
    /\ origin # NULL => origin \in Good
    /\ clean =>
         /\ RollbackKept
         /\ CleanStart
         /\ pc \in Running => (origin = NULL <=> ~pending)
         /\ pc \in Running \union {"loaded", "booted", "drop"} =>
              ds["running"].file # ZeroFile
         /\ RollbackDone

IInv == TypeOK /\ StoresOK /\ BootOK /\ ConfirmOK

------------------------------------------------------------------------------
(* Operators of the datastores that only a start uses *)

(* A process that ends leaves the files and no cache *)
LEMMA FilesLeft ==
    ASSUME NEW d \in Datastores
    PROVE  /\ Files(d) \in Datastores
           /\ \A db \in DBs : /\ Files(d)[db].xml = NULL
                              /\ Files(d)[db].file = d[db].file
<1>1. ASSUME NEW db \in DBs
      PROVE  /\ Files(d)[db] \in db_elmnt
             /\ Files(d)[db].xml = NULL
             /\ Files(d)[db].file = d[db].file
  <2>1. d[db] \in db_elmnt
    BY DEF Datastores
  <2> QED
    BY <2>1 DEF Files, db_elmnt
<1>2. Files(d) = [db \in DBs |-> Files(d)[db]]
  BY DEF Files
<1> QED
  BY <1>1, <1>2, Zenon DEF Datastores

WithTree(g, db, new) == [g EXCEPT ![db].xml = new]

(* The second half of xmldb_put, with a whole tree: the cache and the file *)
(* are replaced.                                                           *)
LEMMA PutWhole ==
    ASSUME NEW d, NEW g \in Datastores, NEW db \in DBs, NEW new \in Configs,
           Frame(d, g, {db}),
           NEW e, e = xmldb_write_cache2file(WithTree(g, db, new), db)
    PROVE  /\ e \in Datastores
           /\ Frame(d, e, {db})
           /\ e[db].xml = new
           /\ e[db].file = new
<1> DEFINE r == [[g[db] EXCEPT !.xml = new] EXCEPT !.file = new]
<1>1. e = [g EXCEPT ![db] = r]
  BY DEF WithTree, xmldb_write_cache2file, Datastores, db_elmnt
<1>2. r \in db_elmnt /\ r.xml = new /\ r.file = new
  <2>1. g[db] \in db_elmnt
    BY DEF Datastores
  <2> QED
    BY <2>1 DEF db_elmnt
<1> HIDE DEF r
<1> QED
  BY <1>1, <1>2 DEF Datastores, Frame

PutTree(d, db, new) == xmldb_put(d, db, new, TRUE)

(* The tree of a startup_commit is put into running *)
LEMMA PutRunning ==
    ASSUME NEW d \in Datastores, d["running"].file # NoFile,
           NEW new \in Configs,
           NEW e, e = PutTree(d, "running", new)
    PROVE  /\ e \in Datastores
           /\ Frame(d, e, {"running"})
           /\ e["running"].xml = new
           /\ e["running"].file = new
<1> DEFINE g == PutBase(d, "running")
<1>1. g \in Datastores /\ Frame(d, g, {"running"})
  <2>1. CASE d["running"].xml # NULL
    BY <2>1 DEF PutBase, Frame
  <2>2. CASE d["running"].xml = NULL
    <3>1. g = xmldb_get_cache(d, "running") /\ Readable(d, "running")
      BY <2>2 DEF PutBase, Readable
    <3> QED
      BY <3>1, Names, GetCache, Zenon
  <2> QED
    BY <2>1, <2>2
<1>2. e = xmldb_write_cache2file(WithTree(g, "running", new), "running")
  BY DEF PutTree, xmldb_put, WithTree
<1> HIDE DEF g
<1> QED
  BY <1>1, <1>2, Names, PutWhole

(* StartupResult is 1 only for a tree that may become running *)
LEMMA StartupAccepts ==
    ASSUME NEW d \in Datastores, NEW db \in DBs, NEW oc \in Outcomes
    PROVE  /\ StartupResult(d, db, oc) \in {-1, 0, 1}
           /\ StartupResult(d, db, oc) = 1 =>
                Readable(d, db) /\ xmldb_get_cache(d, db)[db].xml \in Good
<1> DEFINE t == xmldb_get_cache(d, db)[db].xml
<1>1. CASE ~Readable(d, db)
  BY <1>1 DEF StartupResult
<1>2. CASE Readable(d, db)
  <2>1. StartupResult(d, db, oc) =
          CASE ~Readable(d, db) -> -1
            [] Readable(d, db) /\ t # Empty /\ oc = "verror" -> -1
            [] Readable(d, db) /\ t # Empty /\ oc # "verror" /\ t \notin Valid -> 0
            [] Readable(d, db) /\ oc = "cerror" /\ (t = Empty \/ t \in Valid) -> -1
            [] Readable(d, db) /\ (\/ t = Empty /\ oc # "cerror"
                                   \/ t \in Valid /\ oc = "ok") -> 1
    BY DEF StartupResult
  <2> HIDE DEF t
  <2>2. CASE t # Empty /\ oc = "verror"
    BY <1>2, <2>1, <2>2
  <2>3. CASE t # Empty /\ oc # "verror" /\ t \notin Valid
    BY <1>2, <2>1, <2>3
  <2>4. CASE oc = "cerror" /\ (t = Empty \/ t \in Valid)
    BY <1>2, <2>1, <2>4
  <2>5. CASE (t = Empty /\ oc # "cerror") \/ (t \in Valid /\ oc = "ok")
    <3>1. StartupResult(d, db, oc) = 1 /\ t \in Good
      BY <1>2, <2>1, <2>5 DEF Good
    <3> QED
      BY <1>2, <3>1 DEF t
  <2> QED
    BY <2>2, <2>3, <2>4, <2>5 DEF Outcomes
<1> QED
  BY <1>1, <1>2

(* startup_commit loads the cache of db, and empties running only if the   *)
(* tree is accepted.                                                       *)
LEMMA StartupCommits ==
    ASSUME ds \in Datastores, NEW db \in DBs, db # "running",
           ds["running"].file # NoFile,
           NEW oc \in Outcomes, startup_commit(db, oc)
    PROVE  /\ ds' \in Datastores
           /\ Frame(ds, ds', {db, "running"})
           /\ ds'[db].file = ds[db].file
           /\ ds'[db].xml = ds[db].xml \/ ds'[db].xml = FileTree(ds[db].file)
           /\ StartupResult(ds, db, oc) = 1 =>
                /\ ds'[db].xml \in Good
                /\ ds[db].xml = NULL => ds'[db].xml = FileTree(ds[db].file)
                /\ ds'["running"].xml = NULL
                /\ ds'["running"].file = ZeroFile
           /\ StartupResult(ds, db, oc) # 1 => ds'["running"] = ds["running"]
<1> DEFINE d == IF Readable(ds, db) THEN xmldb_get_cache(ds, db) ELSE ds
           k == IF xmldb_exists(d, "running") THEN xmldb_delete(d, "running")
                ELSE d
<1>1. ds' = IF StartupResult(ds, db, oc) = 1 THEN xmldb_create(k, "running")
            ELSE d
  BY DEF startup_commit
<1>2. /\ d \in Datastores
      /\ Frame(ds, d, {db})
      /\ d[db].file = ds[db].file
      /\ d[db].xml = ds[db].xml \/ d[db].xml = FileTree(ds[db].file)
      /\ Readable(ds, db) /\ ds[db].xml = NULL =>
           d[db].xml = FileTree(ds[db].file)
  <2>1. CASE Readable(ds, db)
    BY <2>1, GetCache
  <2>2. CASE ~Readable(ds, db)
    BY <2>2 DEF Frame
  <2> QED
    BY <2>1, <2>2
<1>3. StartupResult(ds, db, oc) = 1 => Readable(ds, db) /\ d[db].xml \in Good
  BY StartupAccepts
<1> HIDE DEF d
<1>4. CASE StartupResult(ds, db, oc) # 1
  BY <1>1, <1>2, <1>4, Names DEF Frame
<1>5. CASE StartupResult(ds, db, oc) = 1
  <2>1. /\ k \in Datastores
        /\ Frame(d, k, {"running"})
        /\ k["running"].file \in {NoFile, ZeroFile}
    <3>1. CASE xmldb_exists(d, "running")
      BY <1>2, <3>1, Names, Delete
    <3>2. CASE ~xmldb_exists(d, "running")
      BY <1>2, <3>2 DEF xmldb_exists, Frame
    <3> QED
      BY <3>1, <3>2
  <2> HIDE DEF k
  <2>2. /\ ds' \in Datastores
        /\ Frame(k, ds', {"running"})
        /\ ds'["running"].xml = NULL
        /\ ds'["running"].file = IF k["running"].file = NoFile THEN ZeroFile
                                 ELSE k["running"].file
    BY <1>1, <1>5, <2>1, Names, Create, Zenon
  <2>3. ds'["running"].file = ZeroFile
    BY <2>1, <2>2
  <2>4. ds'[db] = d[db]
    BY <2>1, <2>2 DEF Frame
  <2>5. Frame(ds, ds', {db, "running"})
    BY <1>2, <2>1, <2>2 DEF Frame
  <2> QED
    BY <1>2, <1>3, <1>5, <2>2, <2>3, <2>4, <2>5
<1> QED
  BY <1>4, <1>5

------------------------------------------------------------------------------
(* The cache of a datastore that is copied has been loaded *)
LEMMA CopyReads ==
    ASSUME NEW d \in Datastores, NEW from0 \in DBs, NEW to \in DBs, from0 # to,
           from0 # "candidate", d[from0].file # NoFile,
           NEW e, e = xmldb_copy(d, from0, to)
    PROVE  e[from0].xml = IF d[from0].xml # NULL THEN d[from0].xml
                          ELSE FileTree(d[from0].file)
<1> DEFINE g == xmldb_get_cache(d, from0)
<1>1. Readable(d, from0)
  BY DEF Readable
<1>2. /\ g \in Datastores
      /\ g[from0].file = d[from0].file
      /\ d[from0].xml # NULL => g = d
      /\ d[from0].xml = NULL => g[from0].xml = FileTree(d[from0].file)
  BY <1>1, GetCache, Zenon
<1>3. e = [g EXCEPT ![to].xml = g[from0].xml, ![to].file = g[from0].file]
  BY <1>1, <1>2 DEF xmldb_copy, Datastores, db_elmnt
<1> HIDE DEF g
<1>4. e[from0] = g[from0]
  BY <1>2, <1>3 DEF Datastores
<1> QED
  BY <1>2, <1>4

(* A tree is read back as it was written *)
LEMMA FileTrees ==
    /\ \A t \in Configs : FileTree(t) = t
    /\ FileTree(ZeroFile) = Empty
    /\ Good \subseteq Configs
    /\ Empty \in Good
  BY DatastoreAssumption, CommitAssumption DEF FileTree, Good

------------------------------------------------------------------------------
(* One lemma per step *)

(* The first start finds a validated running and nothing left over *)
LEMMA InitOK ==
    ASSUME Init
    PROVE  IInv
<1>1. PICK r \in Valid, s \in StartupFiles, f \in FailsafeFiles :
        ds = [db \in DBs |->
                 [xml |-> NULL,
                  file |-> CASE db = "running" -> r
                             [] db = "startup" -> s
                             [] db = "failsafe" -> f
                             [] db \in {"candidate", "rollback", "tmp"} -> NoFile,
                  id |-> 0,
                  modified |-> FALSE]]
  BY DEF Init
<1>2. /\ ds \in Datastores
      /\ \A db \in DBs : ds[db].xml = NULL
      /\ ds["running"].file = r
      /\ ds["rollback"].file = NoFile
  <2>1. ASSUME NEW db \in DBs
        PROVE  ds[db] \in db_elmnt /\ ds[db].xml = NULL
    <3> DEFINE g == CASE db = "running" -> r
                      [] db = "startup" -> s
                      [] db = "failsafe" -> f
                      [] db \in {"candidate", "rollback", "tmp"} -> NoFile
    <3>1. ds[db] = [xml |-> NULL, file |-> g, id |-> 0, modified |-> FALSE]
      BY <1>1
    <3>2. g \in Configs \union {NoFile, ZeroFile}
      BY CommitAssumption, StartupAssumption DEF DBs
    <3> HIDE DEF g
    <3> QED
      BY <3>1, <3>2 DEF db_elmnt
  <2>2. ds["running"].file = r /\ ds["rollback"].file = NoFile
    BY <1>1 DEF DBs
  <2> QED
    BY <1>1, <2>1, <2>2, Zenon DEF Datastores
<1>3. TypeOK
  BY <1>2 DEF Init, TypeOK, DBs
<1>4. StoresOK
  BY <1>2, Names, FileTrees, CommitAssumption, DatastoreAssumption
  DEF StoresOK, Init, Running, Good
<1>5. BootOK /\ ConfirmOK
  BY <1>2, DatastoreAssumption
  DEF BootOK, ConfirmOK, RollbackKept, CleanStart, RollbackDone, Init, Running, xmldb_exists
<1> QED
  BY <1>3, <1>4, <1>5 DEF IInv

(* Load leaves tmp alone, and takes the rollback datastore if there is one *)
LEMMA LoadOK ==
    ASSUME IInv, NEW oc \in Outcomes, Load(oc)
    PROVE  IInv'
<1> DEFINE db == IF xmldb_exists(ds, "rollback") THEN "rollback" ELSE from
           ret == StartupResult(ds, db, oc)
<1>1. /\ pc = "load"
      /\ startup_commit(db, oc)
      /\ pc' = CASE ret = 1 -> "put"
                 [] ret # 1 /\ db = "rollback" -> "failsafe"
                 [] ret = 0 /\ db # "rollback" -> "invalid"
                 [] ret = -1 /\ db # "rollback" -> "error"
      /\ loading' = db
      /\ UNCHANGED <<from, pending, origin, clean>>
  BY DEF Load, startup_commit
<1>2. /\ db \in {"rollback", "tmp", "startup"}
      /\ db \in DBs /\ db # "running"
      /\ db # "rollback" => db = from
      /\ (db = "rollback") <=> xmldb_exists(ds, "rollback")
  BY <1>1 DEF IInv, TypeOK, BootOK, DBs
<1>3. ret \in {-1, 0, 1}
  BY <1>2, StartupAccepts DEF IInv, TypeOK
<1> HIDE DEF db
<1>4. /\ ds' \in Datastores
      /\ Frame(ds, ds', {db, "running"})
      /\ ds'[db].file = ds[db].file
      /\ ds'[db].xml = ds[db].xml \/ ds'[db].xml = FileTree(ds[db].file)
      /\ ret = 1 => /\ ds'[db].xml \in Good
                    /\ ds[db].xml = NULL => ds'[db].xml = FileTree(ds[db].file)
                    /\ ds'["running"].xml = NULL
                    /\ ds'["running"].file = ZeroFile
      /\ ret # 1 => ds'["running"] = ds["running"]
  BY <1>1, <1>2, StartupCommits DEF IInv, TypeOK, StoresOK
<1> HIDE DEF ret
<1>5. /\ pc' \in {"put", "failsafe", "invalid", "error"}
      /\ pc' = "put" <=> ret = 1
      /\ pc' = "failsafe" => db = "rollback"
      /\ pc' \in {"invalid", "error"} => db # "rollback"
  BY <1>1, <1>3
<1>6. /\ ds'["tmp"].file = ds["tmp"].file
      /\ ds'["rollback"].file = ds["rollback"].file
      /\ ds["rollback"].xml = NULL
      /\ db # "rollback" => ds'["rollback"].xml = NULL
      /\ db # "tmp" => ds'["tmp"].xml = NULL
      /\ ds[db].xml = NULL
  BY <1>1, <1>2, <1>4, Names DEF IInv, StoresOK, Frame
<1>7. TypeOK'
  BY <1>1, <1>2, <1>4, <1>5 DEF IInv, TypeOK, Booting
<1>8. StoresOK'
  BY <1>1, <1>2, <1>4, <1>5, <1>6, FileTrees, DatastoreAssumption
  DEF IInv, StoresOK, Running
<1>9. BootOK'
  BY <1>1, <1>2, <1>4, <1>5, <1>6 DEF IInv, BootOK
<1>10. ConfirmOK'
  <2>1. clean => /\ (origin = NULL) <=> (db # "rollback")
                 /\ RollbackKept
    BY <1>2, DatastoreAssumption
    DEF IInv, TypeOK, ConfirmOK, RollbackKept, xmldb_exists
  <2>2. db = "rollback" /\ clean => FileTree(ds["rollback"].file) = origin
    BY <2>1, FileTrees DEF RollbackKept, IInv, TypeOK
  <2>3. clean => RollbackKept'
    BY <1>1, <1>4, <1>6, <2>1, <2>2 DEF RollbackKept, xmldb_exists
  <2>4. clean => CleanStart'
    BY <1>1, <1>2, <1>4, <1>5, <1>6, <2>1, <2>2 DEF CleanStart
  <2> QED
    BY <1>1, <1>5, <2>3, <2>4 DEF ConfirmOK, RollbackDone, IInv, Running
<1> QED
  BY <1>7, <1>8, <1>9, <1>10 DEF IInv

(* The failsafe configuration is tried in place of a rollback that failed *)
LEMMA FailsafeOK ==
    ASSUME IInv, NEW oc \in Outcomes, Failsafe(oc)
    PROVE  IInv'
<1> DEFINE ret == StartupResult(ds, "failsafe", oc)
<1>1. /\ pc = "failsafe"
      /\ startup_commit("failsafe", oc)
      /\ pc' = CASE ret = 1 -> "put"
                 [] ret = 0 -> "rename"
                 [] ret = -1 -> "invalid"
      /\ loading' = "failsafe"
      /\ clean' = FALSE
      /\ UNCHANGED <<from, pending, origin>>
  BY DEF Failsafe, startup_commit
<1>2. ret \in {-1, 0, 1}
  BY Names, StartupAccepts DEF IInv, TypeOK
<1>3. /\ ds' \in Datastores
      /\ Frame(ds, ds', {"failsafe", "running"})
      /\ ret = 1 => /\ ds'["failsafe"].xml \in Good
                    /\ ds'["running"].xml = NULL
                    /\ ds'["running"].file = ZeroFile
      /\ ret # 1 => ds'["running"] = ds["running"]
  BY <1>1, Names, StartupCommits DEF IInv, TypeOK, StoresOK
<1> HIDE DEF ret
<1>4. pc' \in {"put", "rename", "invalid"} /\ (pc' = "put" <=> ret = 1)
  BY <1>1, <1>2
<1>5. ds'["tmp"] = ds["tmp"]
  BY <1>3, Names DEF Frame
<1>6. TypeOK'
  BY <1>1, <1>3, <1>4, Names DEF IInv, TypeOK, Booting
<1>7. StoresOK'
  BY <1>1, <1>3, <1>4, <1>5, FileTrees, DatastoreAssumption
  DEF IInv, StoresOK, Running
<1>8. BootOK' /\ ConfirmOK'
  BY <1>1, <1>3, <1>4, <1>5 DEF IInv, BootOK, ConfirmOK, Running
<1> QED
  BY <1>6, <1>7, <1>8 DEF IInv

(* Running is written whole, in one step *)
LEMMA PutOK ==
    ASSUME IInv, Put
    PROVE  IInv'
<1>1. /\ pc = "put"
      /\ ds' = PutTree(ds, "running", ds[loading].xml)
      /\ pc' = CASE loading = "rollback" -> "drop"
                 [] loading = "failsafe" -> "rename"
                 [] loading \notin {"rollback", "failsafe"} -> "loaded"
      /\ UNCHANGED <<from, loading, pending, origin, clean>>
  BY DEF Put, PutTree
<1>2. ds[loading].xml \in Good /\ ds[loading].xml \in Configs
  BY <1>1, FileTrees DEF IInv, BootOK
<1>3. /\ ds' \in Datastores
      /\ Frame(ds, ds', {"running"})
      /\ ds'["running"].xml = ds[loading].xml
      /\ ds'["running"].file = ds[loading].xml
  BY <1>1, <1>2, PutRunning DEF IInv, TypeOK, StoresOK
<1>4. /\ pc' \in {"drop", "rename", "loaded"}
      /\ pc' = "drop" <=> loading = "rollback"
      /\ pc' = "rename" <=> loading = "failsafe"
  BY <1>1
<1>5. ds'["tmp"] = ds["tmp"] /\ ds'["rollback"] = ds["rollback"]
  BY <1>3, Names DEF Frame
<1>6. TypeOK'
  BY <1>1, <1>3, <1>4 DEF IInv, TypeOK, Booting
<1>7. StoresOK'
  BY <1>1, <1>2, <1>3, <1>4, <1>5, FileTrees, DatastoreAssumption
  DEF IInv, StoresOK, Running
<1>8. BootOK'
  BY <1>1, <1>4, <1>5 DEF IInv, BootOK
<1>9. ConfirmOK'
  BY <1>1, <1>2, <1>3, <1>4, <1>5, DatastoreAssumption
  DEF IInv, ConfirmOK, RollbackKept, CleanStart, RollbackDone, Running, xmldb_exists
<1> QED
  BY <1>6, <1>7, <1>8, <1>9 DEF IInv

(* The rollback datastore goes once running is what it held *)
LEMMA DropRollbackOK ==
    ASSUME IInv, DropRollback
    PROVE  IInv'
<1>1. /\ pc = "drop"
      /\ ds' = xmldb_delete(ds, "rollback")
      /\ pc' = "loaded"
      /\ origin' = NULL
      /\ UNCHANGED <<from, loading, pending, clean>>
  BY DEF DropRollback
<1>2. /\ ds' \in Datastores
      /\ Frame(ds, ds', {"rollback"})
      /\ ds'["rollback"].file \in {NoFile, ZeroFile}
  BY <1>1, Names, Delete DEF IInv, TypeOK
<1>3. ds'["tmp"] = ds["tmp"] /\ ds'["running"] = ds["running"]
  BY <1>2, Names DEF Frame
<1>4. TypeOK'
  BY <1>1, <1>2 DEF IInv, TypeOK, Booting
<1>5. StoresOK' /\ BootOK'
  BY <1>1, <1>3 DEF IInv, StoresOK, BootOK, Running
<1>6. ConfirmOK'
  BY <1>1, <1>2, <1>3
  DEF IInv, ConfirmOK, RollbackKept, CleanStart, RollbackDone, Running, xmldb_exists
<1> QED
  BY <1>4, <1>5, <1>6 DEF IInv

(* The file moved away is tmp or startup *)
LEMMA RenameOK ==
    ASSUME IInv, Rename
    PROVE  IInv'
<1>1. /\ pc = "rename"
      /\ ds' = xmldb_rename(ds, from)
      /\ pc' = "loaded"
      /\ UNCHANGED <<from, loading, pending, origin, clean>>
  BY DEF Rename
<1>2. from \in {"tmp", "startup"} /\ from \in DBs
  BY <1>1, Names DEF IInv, TypeOK, BootOK
<1>3. /\ ds' \in Datastores
      /\ Frame(ds, ds', {from})
      /\ ds'[from].xml = ds[from].xml
  BY <1>1, <1>2, RenameFile DEF IInv, TypeOK
<1>4. ds'["running"] = ds["running"] /\ ds'["tmp"].xml = ds["tmp"].xml
  BY <1>2, <1>3, Names DEF Frame
<1>5. TypeOK'
  BY <1>1, <1>3 DEF IInv, TypeOK, Booting
<1>6. StoresOK' /\ BootOK'
  BY <1>1, <1>4 DEF IInv, StoresOK, BootOK, Running
<1>7. ConfirmOK'
  BY <1>1 DEF IInv, ConfirmOK, CleanStart, Running
<1> QED
  BY <1>5, <1>6, <1>7 DEF IInv

(* After a start from tmp or startup neither is in the cache *)
LEMMA AfterLoads ==
    ASSUME NEW d \in Datastores, from = "tmp" \/ d["tmp"].xml = NULL,
           NEW e, e = AfterLoad(d)
    PROVE  /\ e \in Datastores
           /\ e["running"] = d["running"]
           /\ e["rollback"] = d["rollback"]
           /\ e["tmp"].xml = NULL
<1>1. CASE from = "tmp"
  <2>1. /\ e \in Datastores
        /\ Frame(d, e, {"tmp"})
        /\ e["tmp"].xml = NULL
    BY <1>1, Names, Delete DEF AfterLoad
  <2> QED
    BY <2>1, Names DEF Frame
<1>2. CASE from # "tmp"
  <2>1. e \in Datastores /\ Frame(d, e, {"startup"})
    BY <1>2, Names, Clear DEF AfterLoad
  <2> QED
    BY <1>2, <2>1, Names DEF Frame
<1> QED
  BY <1>1, <1>2

(* The saved running comes back before the daemon ends or goes on *)
LEMMA RestoreOK ==
    ASSUME IInv, Restore
    PROVE  IInv'
<1> DEFINE f == xmldb_copy_file(ds, "tmp", "running")
           g == xmldb_clear(f, "running")
           d == AfterLoad(g)
<1>1. /\ pc \in {"invalid", "error"}
      /\ \/ pc = "error" /\ ds' = Files(d) /\ pc' = "down"
         \/ pc = "invalid" /\ ds' = d /\ pc' = "load_failsafe"
      /\ UNCHANGED <<from, loading, pending, origin, clean>>
  BY DEF Restore
<1>2. f = xmldb_copy_file(ds, "tmp", "running")
  OBVIOUS
<1> HIDE DEF f
<1>3. /\ f \in Datastores
      /\ Frame(ds, f, {"running"})
      /\ f["running"].file = ds["tmp"].file
  <2>1. ds \in Datastores
    BY DEF IInv, TypeOK
  <2> QED
    BY <1>2, <2>1, Names DEF xmldb_copy_file, Datastores, db_elmnt, Frame
<1>4. /\ g \in Datastores
      /\ Frame(f, g, {"running"})
      /\ g["running"].xml = NULL
      /\ g["running"].file = f["running"].file
  BY <1>3, Names, Clear
<1> HIDE DEF g
<1>5. g["tmp"] = ds["tmp"] /\ g["rollback"] = ds["rollback"]
  BY <1>3, <1>4, Names DEF Frame
<1>6. from = "tmp" \/ g["tmp"].xml = NULL
  BY <1>5 DEF IInv, StoresOK
<1>7. /\ d \in Datastores
      /\ d["running"] = g["running"]
      /\ d["rollback"] = g["rollback"]
      /\ d["tmp"].xml = NULL
  BY <1>4, <1>6, AfterLoads
<1> HIDE DEF d
<1>8. /\ ds' \in Datastores
      /\ ds'["running"].xml = NULL
      /\ ds'["running"].file = ds["tmp"].file
      /\ ds'["tmp"].xml = NULL
      /\ ds'["rollback"].file = ds["rollback"].file
      /\ pc' = "down" => \A db \in DBs : ds'[db].xml = NULL
  BY <1>1, <1>3, <1>4, <1>5, <1>7, Names, FilesLeft
<1>9. TypeOK'
  BY <1>1, <1>8 DEF IInv, TypeOK, Booting
<1>10. StoresOK'
  BY <1>1, <1>8 DEF IInv, StoresOK, BootOK, Running
<1>11. BootOK'
  BY <1>1 DEF IInv, BootOK
<1>12. ConfirmOK'
  BY <1>1, <1>8
  DEF IInv, ConfirmOK, RollbackKept, CleanStart, RollbackDone, Running, xmldb_exists
<1> QED
  BY <1>9, <1>10, <1>11, <1>12 DEF IInv

(* There is no confirmed commit while the daemon starts *)
LEMMA InactiveType == Inactive \in confirmed_commit
  BY DEF Inactive, confirmed_commit

(* A start that falls back on the failsafe configuration *)
LEMMA LoadFailsafeOK ==
    ASSUME IInv, NEW oc \in Outcomes, LoadFailsafe(oc)
    PROVE  IInv'
<1> DEFINE r == load_failsafe(ds, Inactive, oc)
<1>1. /\ pc = "load_failsafe"
      /\ \/ r.ret = 0 /\ ds' = r.ds /\ pc' = "booted"
         \/ r.ret = -1 /\ ds' = Files(r.ds) /\ pc' = "down"
      /\ UNCHANGED <<from, loading, pending, origin, clean>>
  BY DEF LoadFailsafe
<1>2. /\ r.ds \in Datastores
      /\ r.ds["rollback"] = ds["rollback"]
      /\ r.ret \in {-1, 0}
      /\ r.ret = 0 => /\ RunningGood(r.ds, Valid)
                      /\ r.ds["running"].file # ZeroFile
                      /\ r.ds["tmp"].xml = NULL
      /\ r.ret = -1 => r.ds["running"].file = ds["running"].file
  BY <1>1, InactiveType, FailsafeLoads DEF IInv, TypeOK, StoresOK
<1> HIDE DEF r
<1>3. CASE r.ret = 0
  <2>1. ds' = r.ds /\ pc' = "booted"
    BY <1>1, <1>3
  <2>2. TypeOK'
    BY <1>1, <1>2, <2>1 DEF IInv, TypeOK, Booting
  <2>3. StoresOK' /\ BootOK'
    BY <1>1, <1>2, <1>3, <2>1
    DEF IInv, StoresOK, BootOK, Running, RunningGood, InStep, Good
  <2>4. ConfirmOK'
    BY <1>1, <1>2, <1>3, <2>1
    DEF IInv, ConfirmOK, RollbackKept, CleanStart, RollbackDone, Running, xmldb_exists
  <2> QED
    BY <2>2, <2>3, <2>4 DEF IInv
<1>4. CASE r.ret # 0
  <2>1. /\ ds' \in Datastores
        /\ pc' = "down"
        /\ \A db \in DBs : ds'[db].xml = NULL
        /\ ds'["running"].file = ds["running"].file
        /\ ds'["rollback"].file = ds["rollback"].file
    BY <1>1, <1>2, <1>4, Names, FilesLeft
  <2>2. TypeOK'
    BY <1>1, <2>1 DEF IInv, TypeOK
  <2>3. StoresOK' /\ BootOK'
    BY <1>1, <2>1, Names DEF IInv, StoresOK, BootOK, Running
  <2>4. ConfirmOK'
    BY <1>1, <2>1, Names
    DEF IInv, ConfirmOK, RollbackKept, CleanStart, RollbackDone, Running, xmldb_exists
  <2> QED
    BY <2>2, <2>3, <2>4 DEF IInv
<1> QED
  BY <1>3, <1>4

(* The datastores of a start are put away *)
LEMMA LoadedOK ==
    ASSUME IInv, Loaded
    PROVE  IInv'
<1> DEFINE d == AfterLoad(ds)
           e == xmldb_db_reset(d, "tmp")
<1>1. /\ pc = "loaded"
      /\ ds' = xmldb_delete(e, "tmp")
      /\ pc' = "booted"
      /\ UNCHANGED <<from, loading, pending, origin, clean>>
  BY DEF Loaded
<1>2. /\ d \in Datastores
      /\ d["running"] = ds["running"]
      /\ d["rollback"] = ds["rollback"]
  BY AfterLoads DEF IInv, TypeOK, StoresOK
<1> HIDE DEF d
<1>3. e \in Datastores /\ Frame(d, e, {"tmp"})
  BY <1>2, Names, Reset, Zenon
<1> HIDE DEF e
<1>4. ds' \in Datastores /\ Frame(e, ds', {"tmp"}) /\ ds'["tmp"].xml = NULL
  BY <1>1, <1>3, Names, Delete
<1>5. ds'["running"] = ds["running"] /\ ds'["rollback"] = ds["rollback"]
  BY <1>2, <1>3, <1>4, Names DEF Frame
<1>6. TypeOK'
  BY <1>1, <1>4 DEF IInv, TypeOK, Booting
<1>7. StoresOK' /\ BootOK'
  BY <1>1, <1>4, <1>5 DEF IInv, StoresOK, BootOK, Running
<1>8. ConfirmOK'
  BY <1>1, <1>5
  DEF IInv, ConfirmOK, RollbackKept, CleanStart, RollbackDone, Running, xmldb_exists
<1> QED
  BY <1>6, <1>7, <1>8 DEF IInv

(* The candidate is made from running, which is then in the cache *)
LEMMA BootedOK ==
    ASSUME IInv, Booted
    PROVE  IInv'
<1> DEFINE d == xmldb_copy(ds, "running", "candidate")
<1>1. /\ pc = "booted"
      /\ ds' = xmldb_modified_set(d, "candidate", FALSE)
      /\ pc' = "up"
      /\ origin' = NULL
      /\ UNCHANGED <<from, loading, pending, clean>>
  BY DEF Booted
<1>2. ds["running"].file # NoFile /\ CopyOK(ds, "running")
  BY DEF IInv, StoresOK, CopyOK, Readable
<1>3. d = xmldb_copy(ds, "running", "candidate")
  OBVIOUS
<1> HIDE DEF d
<1>4. d \in Datastores /\ Frame(ds, d, {"running", "candidate"})
  BY <1>3, Names, Copy DEF IInv, TypeOK
<1>5. d["running"].file = ds["running"].file
  BY <1>2, <1>3, Names, CopyFiles DEF IInv, TypeOK
<1>6. d["running"].xml = IF ds["running"].xml # NULL THEN ds["running"].xml
                         ELSE FileTree(ds["running"].file)
  BY <1>2, <1>3, Names, CopyReads DEF IInv, TypeOK
<1>7. ds' \in Datastores /\ Frame(d, ds', {"candidate"})
  BY <1>1, <1>4, Names, ModifiedSet
<1>8. /\ ds'["running"] = d["running"]
      /\ ds'["tmp"] = ds["tmp"]
      /\ ds'["rollback"] = ds["rollback"]
  BY <1>4, <1>7, Names DEF Frame
<1>9. /\ FileTree(ds["running"].file) # NULL
      /\ ds'["running"].xml = FileTree(ds["running"].file)
  BY <1>6, <1>8, FileTrees, DatastoreAssumption DEF IInv, StoresOK
<1>10. TypeOK'
  BY <1>1, <1>7 DEF IInv, TypeOK, Running
<1>11. StoresOK' /\ BootOK'
  BY <1>1, <1>5, <1>8, <1>9 DEF IInv, StoresOK, BootOK, Running
<1>12. ConfirmOK'
  BY <1>1, <1>5, <1>8
  DEF IInv, ConfirmOK, RollbackKept, CleanStart, RollbackDone, Running, xmldb_exists
<1> QED
  BY <1>10, <1>11, <1>12 DEF IInv

(* A start saves running in tmp, or leaves the rollback datastore alone    *)
(* and is no longer clean.                                                 *)
LEMMA BootOKs ==
    ASSUME IInv, NEW mode \in Modes, Boot(mode)
    PROVE  IInv'
<1> DEFINE there == xmldb_exists(ds, "running")
           b == IF there THEN ds ELSE xmldb_create(ds, "running")
           d == [b EXCEPT !["candidate"].file = NoFile]
           e == xmldb_copy_file(d, "running", "tmp")
           k == xmldb_delete(d, "rollback")
           m == CASE mode = "running_startup" /\ there -> "running"
                  [] mode = "running_startup" /\ ~there -> "startup"
                  [] mode # "running_startup" -> mode
<1>1. /\ pc = "down"
      /\ UNCHANGED <<loading, pending, origin>>
      /\ \/ /\ ds' = xmldb_delete(xmldb_db_reset(d, "tmp"), "tmp")
            /\ pc' = "booted"
            /\ from' = "none"
            /\ clean' = FALSE
         \/ /\ ds' = xmldb_delete(
                       xmldb_db_reset(xmldb_db_reset(k, "running"), "tmp"),
                       "tmp")
            /\ pc' = "booted"
            /\ from' = "none"
            /\ clean' = FALSE
         \/ /\ from' \in {"tmp", "startup"}
            /\ ds' = IF xmldb_exists(e, from') THEN e ELSE xmldb_create(e, from')
            /\ pc' = "load"
            /\ UNCHANGED clean
  BY DEF Boot
<1>2. /\ ds \in Datastores
      /\ \A db \in DBs : ds[db].xml = NULL
      /\ ds["running"].file # NoFile
      /\ FileTree(ds["running"].file) \in Good
      /\ loading \in DBs \ {"running", "candidate"}
      /\ pending = FALSE
      /\ origin # NULL => origin \in Good
  BY <1>1 DEF IInv, TypeOK, StoresOK, BootOK, ConfirmOK, Running
<1>3. /\ b \in Datastores
      /\ \A db \in DBs : b[db].xml = NULL /\ b[db].file = ds[db].file
  <2>1. CASE there
    BY <1>2, <2>1
  <2>2. CASE ~there
    <3>1. /\ b \in Datastores
          /\ Frame(ds, b, {"running"})
          /\ b["running"].xml = NULL
          /\ b["running"].file = IF ds["running"].file = NoFile THEN ZeroFile
                                 ELSE ds["running"].file
      BY <1>2, <2>2, Names, Create
    <3> QED
      BY <1>2, <3>1 DEF Frame
  <2> QED
    BY <2>1, <2>2
<1> HIDE DEF b
<1>4. /\ d \in Datastores
      /\ \A db \in DBs : /\ d[db].xml = NULL
                         /\ db # "candidate" => d[db].file = ds[db].file
  BY <1>3, Names DEF Datastores, db_elmnt
<1> HIDE DEF d
<1>5. ASSUME ds' = xmldb_delete(xmldb_db_reset(d, "tmp"), "tmp"),
             pc' = "booted", from' = "none", clean' = FALSE
      PROVE  IInv'
  <2> DEFINE g == xmldb_db_reset(d, "tmp")
  <2>1. g \in Datastores /\ Frame(d, g, {"tmp"})
    BY <1>4, Names, Reset, Zenon
  <2>2. ds' = xmldb_delete(g, "tmp")
    BY <1>5
  <2> HIDE DEF g
  <2>3. ds' \in Datastores /\ Frame(g, ds', {"tmp"}) /\ ds'["tmp"].xml = NULL
    BY <2>1, <2>2, Names, Delete
  <2>4. ds'["running"].xml = NULL /\ ds'["running"].file = ds["running"].file
    BY <1>4, <2>1, <2>3, Names DEF Frame
  <2>5. TypeOK'
    BY <1>1, <1>2, <1>5, <2>3 DEF IInv, TypeOK, Booting
  <2>6. StoresOK' /\ BootOK' /\ ConfirmOK'
    BY <1>1, <1>2, <1>5, <2>3, <2>4 DEF StoresOK, BootOK, ConfirmOK, Running
  <2> QED
    BY <2>5, <2>6 DEF IInv
<1>6. ASSUME ds' = xmldb_delete(
                     xmldb_db_reset(xmldb_db_reset(k, "running"), "tmp"), "tmp"),
             pc' = "booted", from' = "none", clean' = FALSE
      PROVE  IInv'
  <2> DEFINE f == xmldb_db_reset(k, "running")
             g == xmldb_db_reset(f, "tmp")
  <2>1. k \in Datastores
    BY <1>4, Names, Delete
  <2> HIDE DEF k
  <2>2. /\ f \in Datastores
        /\ f["running"].xml = NULL
        /\ f["running"].file = ZeroFile
    BY <2>1, Names, Reset
  <2> HIDE DEF f
  <2>3. g \in Datastores /\ Frame(f, g, {"tmp"})
    BY <2>2, Names, Reset, Zenon
  <2>4. ds' = xmldb_delete(g, "tmp")
    BY <1>6 DEF f
  <2> HIDE DEF g
  <2>5. ds' \in Datastores /\ Frame(g, ds', {"tmp"}) /\ ds'["tmp"].xml = NULL
    BY <2>3, <2>4, Names, Delete
  <2>6. ds'["running"].xml = NULL /\ ds'["running"].file = ZeroFile
    BY <2>2, <2>3, <2>5, Names DEF Frame
  <2>7. TypeOK'
    BY <1>1, <1>2, <1>6, <2>5 DEF IInv, TypeOK, Booting
  <2>8. StoresOK' /\ BootOK' /\ ConfirmOK'
    BY <1>1, <1>2, <1>6, <2>5, <2>6, FileTrees, DatastoreAssumption
    DEF StoresOK, BootOK, ConfirmOK, Running
  <2> QED
    BY <2>7, <2>8 DEF IInv
<1>7. ASSUME from' \in {"tmp", "startup"},
             ds' = IF xmldb_exists(e, from') THEN e ELSE xmldb_create(e, from'),
             pc' = "load", UNCHANGED clean
      PROVE  IInv'
  <2>1. /\ e \in Datastores
        /\ \A db \in DBs : e[db].xml = NULL
        /\ e["tmp"].file = ds["running"].file
        /\ e["running"].file = ds["running"].file
        /\ e["rollback"].file = ds["rollback"].file
    BY <1>4, Names DEF xmldb_copy_file, Datastores, db_elmnt
  <2> HIDE DEF e
  <2>2. /\ ds' \in Datastores
        /\ \A db \in DBs : ds'[db].xml = NULL
        /\ ds'["tmp"].file = ds["running"].file
        /\ ds'["running"].file = ds["running"].file
        /\ ds'["rollback"].file = ds["rollback"].file
    <3>1. CASE xmldb_exists(e, from')
      BY <1>7, <2>1, <3>1
    <3>2. CASE ~xmldb_exists(e, from')
      <4>1. from' \in DBs
        BY <1>7, Names
      <4>2. /\ ds' \in Datastores
            /\ Frame(e, ds', {from'})
            /\ ds'[from'].xml = NULL
            /\ ds'[from'].file = IF e[from'].file = NoFile THEN ZeroFile
                                 ELSE e[from'].file
        BY <1>7, <2>1, <3>2, <4>1, Create
      <4>3. ds'["tmp"].file = e["tmp"].file
        BY <1>2, <1>7, <2>1, <4>2, Names DEF Frame
      <4> QED
        BY <1>7, <2>1, <4>2, <4>3, Names DEF Frame
    <3> QED
      BY <3>1, <3>2
  <2>3. TypeOK'
    BY <1>1, <1>2, <1>7, <2>2 DEF IInv, TypeOK, Booting
  <2>4. StoresOK' /\ BootOK'
    BY <1>1, <1>2, <1>7, <2>2, Names DEF StoresOK, BootOK, Running
  <2>5. ConfirmOK'
    BY <1>1, <1>2, <1>7, <2>2, Names
    DEF IInv, ConfirmOK, RollbackKept, CleanStart, RollbackDone, Running, xmldb_exists
  <2> QED
    BY <2>3, <2>4, <2>5 DEF IInv
<1> QED
  BY <1>1, <1>5, <1>6, <1>7, Zenon

(* While the daemon runs, running is cached and in step with its file *)
LEMMA RunningInStep ==
    ASSUME IInv, pc \in Running
    PROVE  /\ ds \in Datastores
           /\ InStep(ds, "running")
           /\ ds["running"].xml \in Good
           /\ ds["running"].xml # NULL
           /\ ds["tmp"].xml = NULL
           /\ CopyOK(ds, "running")
  BY FileTrees DEF IInv, TypeOK, StoresOK, InStep, CopyOK, Readable

(* An edit of the candidate that is written *)
LEMMA EditOK ==
    ASSUME IInv, pc \in Running, NEW c \in Configs, NEW e, e = Edit(c)
    PROVE  /\ e \in Datastores
           /\ Frame(ds, e, {"candidate"})
           /\ e["candidate"].xml = c
           /\ e["candidate"].file = c
<1>1. ds \in Datastores /\ ds["running"].xml # NULL
  BY RunningInStep
<1> DEFINE g == PutBase(ds, "candidate")
<1>2. e = xmldb_write_cache2file(WithTree(g, "candidate", c), "candidate")
  BY DEF Edit, xmldb_put, WithTree
<1>3. g \in Datastores /\ Frame(ds, g, {"candidate"})
  BY <1>1, PutBaseCandidate, Zenon
<1> HIDE DEF g
<1> QED
  BY <1>2, <1>3, Names, PutWhole

(* A candidate in step becomes running *)
LEMMA CandidateCopied ==
    ASSUME NEW d \in Datastores,
           d["candidate"].xml \in Configs,
           d["candidate"].file = d["candidate"].xml,
           NEW e, e = xmldb_copy(d, "candidate", "running")
    PROVE  /\ e \in Datastores
           /\ e["running"].xml = d["candidate"].xml
           /\ e["running"].file = d["candidate"].xml
           /\ e["tmp"] = d["tmp"]
           /\ e["rollback"] = d["rollback"]
<1>1. CopyOK(d, "candidate") /\ InStep(d, "candidate")
  BY FileTrees, DatastoreAssumption DEF CopyOK, Readable, InStep
<1>2. /\ e \in Datastores
      /\ Frame(d, e, {"candidate", "running"})
      /\ e["running"].xml = d["candidate"].xml
  BY <1>1, Names, Copy
<1>3. e["running"].file = d["candidate"].file
  BY <1>1, Names, CopyFiles
<1>4. e["tmp"] = d["tmp"] /\ e["rollback"] = d["rollback"]
  BY <1>2, Names DEF Frame
<1> QED
  BY <1>2, <1>3, <1>4

(* Running is saved in another datastore *)
LEMMA RunningCopied ==
    ASSUME NEW d \in Datastores, InStep(d, "running"),
           NEW to \in DBs, to # "running",
           NEW e, e = xmldb_copy(d, "running", to)
    PROVE  /\ e \in Datastores
           /\ Frame(d, e, {to})
           /\ e[to].xml = d["running"].xml
           /\ e[to].file = d["running"].file
<1>1. d["running"].xml # NULL /\ CopyOK(d, "running")
  BY DatastoreAssumption DEF InStep, CopyOK, Readable
<1>2. /\ e \in Datastores
      /\ Frame(d, e, {"running", to})
      /\ e["running"] = d["running"]
      /\ e[to].xml = d["running"].xml
  BY <1>1, Names, Copy
<1>3. e[to].file = d["running"].file
  BY <1>1, Names, CopyFiles
<1>4. Frame(d, e, {to})
  BY <1>2 DEF Frame
<1> QED
  BY <1>2, <1>3, <1>4

(* A commit outside a confirmed commit *)
LEMMA CommitOK ==
    ASSUME IInv, NEW c \in Configs, Commit(c)
    PROVE  IInv'
<1> DEFINE e == Edit(c)
           f == xmldb_delete(e, "rollback")
<1>1. /\ pc = "up"
      /\ ~pending
      /\ c \in Valid
      /\ ds' = xmldb_copy(f, "candidate", "running")
      /\ UNCHANGED <<pc, from, loading, pending, origin, clean>>
  BY DEF Commit
<1>2. pc \in Running
  BY <1>1 DEF Running
<1>3. /\ e \in Datastores
      /\ Frame(ds, e, {"candidate"})
      /\ e["candidate"].xml = c
      /\ e["candidate"].file = c
  BY <1>2, EditOK
<1> HIDE DEF e
<1>4. /\ f \in Datastores
      /\ Frame(e, f, {"rollback"})
      /\ f["rollback"].file \in {NoFile, ZeroFile}
  BY <1>3, Names, Delete
<1> HIDE DEF f
<1>5. /\ f["candidate"].xml = c
      /\ f["candidate"].file = c
      /\ f["tmp"] = ds["tmp"]
  BY <1>3, <1>4, Names DEF Frame
<1>6. /\ ds' \in Datastores
      /\ ds'["running"].xml = c
      /\ ds'["running"].file = c
      /\ ds'["tmp"] = f["tmp"]
      /\ ds'["rollback"] = f["rollback"]
  BY <1>1, <1>4, <1>5, CandidateCopied
<1>7. TypeOK'
  BY <1>1, <1>6 DEF IInv, TypeOK
<1>8. StoresOK' /\ BootOK'
  BY <1>1, <1>5, <1>6, FileTrees, DatastoreAssumption
  DEF IInv, StoresOK, BootOK, Running, Good
<1>9. ConfirmOK'
  BY <1>1, <1>2, <1>4, <1>6, DatastoreAssumption
  DEF IInv, ConfirmOK, RollbackKept, CleanStart, RollbackDone, xmldb_exists
<1> QED
  BY <1>7, <1>8, <1>9 DEF IInv

(* A confirmed commit copies running to rollback unless one is there *)
LEMMA ConfirmedCommitOK ==
    ASSUME IInv, NEW c \in Configs, ConfirmedCommit(c)
    PROVE  IInv'
<1> DEFINE e == Edit(c)
           kept == xmldb_exists(ds, "rollback")
<1>1. /\ pc = "up"
      /\ c \in Valid
      /\ ds' = IF kept THEN e ELSE xmldb_copy(e, "running", "rollback")
      /\ pending' = TRUE
      /\ origin' = IF pending THEN origin ELSE ds["running"].xml
      /\ pc' = "committing"
      /\ UNCHANGED <<from, loading, clean>>
  BY DEF ConfirmedCommit
<1>2. pc \in Running
  BY <1>1 DEF Running
<1>3. /\ ds \in Datastores
      /\ InStep(ds, "running")
      /\ ds["running"].xml \in Good
      /\ ds["running"].xml # NULL
      /\ ds["tmp"].xml = NULL
  BY <1>2, RunningInStep
<1>4. /\ e \in Datastores
      /\ Frame(ds, e, {"candidate"})
      /\ e["candidate"].xml = c
      /\ e["candidate"].file = c
  BY <1>2, EditOK
<1> HIDE DEF e
<1>5. /\ e["running"] = ds["running"]
      /\ e["rollback"] = ds["rollback"]
      /\ e["tmp"] = ds["tmp"]
  BY <1>4, Names DEF Frame
<1>6. /\ ds' \in Datastores
      /\ ds'["candidate"] = e["candidate"]
      /\ ds'["running"] = ds["running"]
      /\ ds'["tmp"] = ds["tmp"]
      /\ kept => ds'["rollback"] = ds["rollback"]
      /\ ~kept => /\ ds'["rollback"].xml = ds["running"].xml
                  /\ ds'["rollback"].file = ds["running"].file
  <2>1. CASE kept
    BY <1>1, <1>4, <1>5, <2>1
  <2>2. CASE ~kept
    <3>1. ds' = xmldb_copy(e, "running", "rollback")
      BY <1>1, <2>2
    <3>2. InStep(e, "running")
      BY <1>3, <1>5 DEF InStep
    <3>3. /\ ds' \in Datastores
          /\ Frame(e, ds', {"rollback"})
          /\ ds'["rollback"].xml = e["running"].xml
          /\ ds'["rollback"].file = e["running"].file
      BY <1>4, <3>1, <3>2, Names, RunningCopied
    <3>4. /\ ds'["candidate"] = e["candidate"]
          /\ ds'["tmp"] = e["tmp"]
          /\ ds'["running"] = e["running"]
      BY <3>3, Names DEF Frame
    <3> QED
      BY <1>5, <2>2, <3>3, <3>4
  <2> QED
    BY <2>1, <2>2
<1>7. TypeOK'
  BY <1>1, <1>3, <1>6, FileTrees DEF IInv, TypeOK, Running
<1>8. StoresOK' /\ BootOK'
  BY <1>1, <1>3, <1>4, <1>6 DEF IInv, StoresOK, BootOK, Running
<1>9. pending' => pc' \in Running /\ origin' # NULL
  BY <1>1, <1>3 DEF IInv, ConfirmOK, Running
<1>10. ASSUME clean
       PROVE  /\ RollbackKept'
              /\ ds'["running"].file # ZeroFile
  <2>1. RollbackKept /\ (origin = NULL <=> ~pending)
        /\ ds["running"].file # ZeroFile
    BY <1>2, <1>10 DEF IInv, ConfirmOK
  <2>2. CASE pending
    <3>1. ds["rollback"].file = origin /\ origin \in Configs
      BY <2>1, <2>2 DEF RollbackKept, IInv, TypeOK
    <3>2. kept
      BY <3>1, DatastoreAssumption DEF xmldb_exists
    <3> QED
      BY <1>1, <1>6, <2>1, <2>2, <3>2 DEF RollbackKept
  <2>3. CASE ~pending
    <3>1. ~kept
      BY <2>1, <2>3 DEF RollbackKept
    <3>2. ds["running"].file = ds["running"].xml
      BY <1>3, <2>1 DEF InStep, FileTree
    <3> QED
      BY <1>1, <1>3, <1>6, <2>1, <2>3, <3>1, <3>2 DEF RollbackKept
  <2> QED
    BY <2>2, <2>3
<1>11. ConfirmOK'
  <2>1. origin' # NULL => origin' \in Good
    BY <1>1, <1>3 DEF IInv, ConfirmOK
  <2> QED
    BY <1>1, <1>9, <1>10, <2>1 DEF ConfirmOK, CleanStart, RollbackDone
<1> QED
  BY <1>7, <1>8, <1>11 DEF IInv

(* The callbacks of a confirmed commit succeed or fail *)
LEMMA FinishCommitOK ==
    ASSUME IInv, NEW ok \in BOOLEAN, FinishCommit(ok)
    PROVE  IInv'
<1>1. /\ pc = "committing"
      /\ ds' = IF ok THEN xmldb_copy(ds, "candidate", "running") ELSE ds
      /\ pc' = "up"
      /\ UNCHANGED <<from, loading, pending, origin, clean>>
  BY DEF FinishCommit
<1>2. /\ pc \in Running
      /\ pc' \in Running
      /\ ds \in Datastores
      /\ ds["candidate"].xml \in Valid
      /\ ds["candidate"].xml \in Configs
      /\ ds["candidate"].file = ds["candidate"].xml
  BY <1>1, CommitAssumption DEF IInv, TypeOK, StoresOK, Running
<1>3. CASE ok
  <2>1. /\ ds' \in Datastores
        /\ ds'["running"].xml = ds["candidate"].xml
        /\ ds'["running"].file = ds["candidate"].xml
        /\ ds'["tmp"] = ds["tmp"]
        /\ ds'["rollback"] = ds["rollback"]
    BY <1>1, <1>2, <1>3, CandidateCopied
  <2>2. TypeOK'
    BY <1>1, <1>2, <2>1 DEF IInv, TypeOK
  <2>3. StoresOK' /\ BootOK'
    BY <1>1, <1>2, <2>1, FileTrees, DatastoreAssumption
    DEF IInv, StoresOK, BootOK, Good
  <2>4. ConfirmOK'
    BY <1>1, <1>2, <2>1, DatastoreAssumption
    DEF IInv, ConfirmOK, RollbackKept, CleanStart, RollbackDone, xmldb_exists
  <2> QED
    BY <2>2, <2>3, <2>4 DEF IInv
<1>4. CASE ~ok
  <2>1. ds' = ds
    BY <1>1, <1>4
  <2>2. TypeOK'
    BY <1>1, <1>2, <2>1 DEF IInv, TypeOK
  <2>3. StoresOK' /\ BootOK'
    BY <1>1, <1>2, <2>1 DEF IInv, StoresOK, BootOK
  <2>4. ConfirmOK'
    BY <1>1, <1>2, <2>1
    DEF IInv, ConfirmOK, RollbackKept, CleanStart, RollbackDone, xmldb_exists
  <2> QED
    BY <2>2, <2>3, <2>4 DEF IInv
<1> QED
  BY <1>3, <1>4

(* The confirmed commit ends, with it the rollback datastore: a confirming *)
(* commit, and the end of a rollback.                                      *)
LEMMA RollbackDropped ==
    ASSUME IInv, pc \in Running, ds' = xmldb_delete(ds, "rollback"),
           pc' = "up", pending' = FALSE, origin' = NULL,
           UNCHANGED <<from, loading, clean>>
    PROVE  IInv'
<1>1. /\ ds' \in Datastores
      /\ Frame(ds, ds', {"rollback"})
      /\ ds'["rollback"].file \in {NoFile, ZeroFile}
  BY Names, Delete DEF IInv, TypeOK
<1>2. ds'["running"] = ds["running"] /\ ds'["tmp"] = ds["tmp"]
  BY <1>1, Names DEF Frame
<1>3. TypeOK'
  BY <1>1 DEF IInv, TypeOK, Running
<1>4. StoresOK' /\ BootOK'
  BY <1>2 DEF IInv, StoresOK, BootOK, Running
<1>5. ConfirmOK'
  BY <1>1, <1>2
  DEF IInv, ConfirmOK, RollbackKept, CleanStart, RollbackDone, Running, xmldb_exists
<1> QED
  BY <1>3, <1>4, <1>5 DEF IInv

(* A rollback: the rollback datastore is committed, or the failsafe loaded *)
LEMMA RollBackOK ==
    ASSUME IInv, NEW oc \in Failures, NEW foc \in Failures, RollBack(oc, foc)
    PROVE  IInv'
<1> DEFINE c1 == [Inactive EXCEPT !.state = "ROLLBACK"]
           r == candidate_commit(ds, c1, Absent, "rollback", 0, oc)
           m == xmldb_rename(r.ds, "rollback")
           l == load_failsafe(m, c1, foc)
           f == do_rollback(ds, Inactive, oc, foc)
<1>0. oc \in Outcomes /\ foc \in Outcomes
  BY DEF Failures, Outcomes
<1>1. /\ pc = "up"
      /\ pending
      /\ IF r.ret = -1
         THEN /\ ds' = IF f.stop THEN Files(f.ds) ELSE f.ds
              /\ pc' = IF f.stop THEN "down" ELSE "up"
              /\ pending' = FALSE
              /\ origin' = NULL
         ELSE ds' = r.ds /\ pc' = "rolledback" /\ UNCHANGED <<pending, origin>>
      /\ UNCHANGED <<from, loading, clean>>
  BY DEF RollBack
<1>2. c1 \in confirmed_commit
  BY InactiveType DEF confirmed_commit
<1>3. pc \in Running /\ Admits(Good)
  BY <1>1 DEF Running, Admits, Good
<1>4. /\ ds \in Datastores
      /\ RunningGood(ds, Good)
      /\ ds["tmp"].xml = NULL
  BY <1>3, RunningInStep DEF RunningGood
<1>5. r.ret = -1 => f.ds = l.ds /\ f.stop = (l.ret = -1)
  <2>1. Conclude(Inactive, "ROLLBACK") = c1
    BY DEF Conclude, Inactive
  <2> HIDE DEF c1
  <2>2. f = RolledBack(c1, r, foc)
    BY <2>1 DEF do_rollback
  <2> HIDE DEF r, f, l
  <2>3. r.ret = -1 => f = RollbackError(c1, l)
    BY <2>2 DEF RolledBack, l
  <2> QED
    BY <2>3 DEF RollbackError
<1> HIDE DEF c1, f
<1>6. /\ r.ds \in Datastores
      /\ Frame(ds, r.ds, {"rollback", "running"})
      /\ r.ds["rollback"].file = IF ds["rollback"].xml # NULL
                                 THEN ds["rollback"].xml
                                 ELSE ds["rollback"].file
      /\ r.ds["rollback"].xml \in {ds["rollback"].xml,
                                   FileTree(ds["rollback"].file)}
      /\ r.ret \in {-1, 0, 1}
      /\ r.ret = 1 => r.ds["running"].file = r.ds["rollback"].file
      /\ r.ret # 1 => r.ds["running"].file = ds["running"].file
      /\ r.ret = 0 => r.ds["rollback"].xml \in Configs \ Valid
  <2>1. Committed(ds, "rollback", r)
    BY <1>0, <1>2, <1>4, CommitFiles
  <2> HIDE DEF r
  <2> QED
    BY <2>1 DEF Committed
<1>7. RunningGood(r.ds, Good)
  BY <1>0, <1>2, <1>3, <1>4, CandidateCommit
<1> HIDE DEF r
<1>8. r.ds["tmp"].xml = NULL
  BY <1>4, <1>6, Names DEF Frame
<1>9. CASE r.ret # -1
  <2>1. /\ ds' = r.ds
        /\ pc' = "rolledback"
        /\ UNCHANGED <<pending, origin, from, loading, clean>>
    BY <1>1, <1>9
  <2>2. TypeOK'
    BY <1>6, <2>1 DEF IInv, TypeOK, Running
  <2>3. StoresOK' /\ BootOK'
    BY <1>7, <1>8, <2>1, DatastoreAssumption
    DEF IInv, StoresOK, BootOK, Running, RunningGood, InStep
  <2>4. ASSUME clean
        PROVE  /\ RollbackKept'
               /\ ds'["running"].file # ZeroFile
               /\ RollbackDone'
    <3>1. /\ origin \in Configs
          /\ origin \in Good
          /\ ds["rollback"].file = origin
          /\ ds["rollback"].xml \in {NULL, origin}
          /\ ds["running"].file # ZeroFile
      BY <1>1, <1>3, <2>4 DEF IInv, TypeOK, ConfirmOK, RollbackKept
    <3>2. FileTree(origin) = origin
      BY <3>1, FileTrees
    <3>3. r.ds["rollback"].file = origin /\ r.ds["rollback"].xml \in {NULL, origin}
      BY <1>6, <3>1, <3>2
    <3>4. r.ds["running"].file # ZeroFile
      BY <1>6, <3>1, <3>3, DatastoreAssumption
    <3>5. Empty \in Valid => r.ret = 1
      BY <1>6, <1>9, <3>1, <3>3, DatastoreAssumption DEF Good
    <3> QED
      BY <1>6, <2>1, <3>1, <3>3, <3>4, <3>5, DatastoreAssumption
      DEF RollbackKept, RollbackDone
  <2>5. ConfirmOK'
    <3>1. CleanStart'
      BY <2>1 DEF CleanStart
    <3>2. /\ pc' \in Running
          /\ pending => origin # NULL
          /\ origin # NULL => origin \in Good
          /\ clean => (origin = NULL <=> ~pending)
      BY <1>3, <2>1 DEF IInv, ConfirmOK, Running
    <3> QED
      BY <2>1, <2>4, <3>1, <3>2, Zenon DEF ConfirmOK
  <2> QED
    BY <2>2, <2>3, <2>5 DEF IInv
<1>10. CASE r.ret = -1
  <2>1. /\ m \in Datastores
        /\ Frame(r.ds, m, {"rollback"})
        /\ m["rollback"].file = NoFile
    BY <1>6, Names, RenameFile
  <2>2. /\ m["running"].file # NoFile
        /\ FileTree(m["running"].file) \in Good
        /\ m["tmp"].xml = NULL
    BY <1>7, <1>8, <2>1, Names DEF Frame, RunningGood, InStep
  <2> HIDE DEF m
  <2>3. /\ l.ds \in Datastores
        /\ l.ds["rollback"] = m["rollback"]
        /\ l.ret \in {-1, 0}
        /\ l.ret = 0 => /\ RunningGood(l.ds, Valid)
                        /\ l.ds["running"].file # ZeroFile
                        /\ l.ds["tmp"].xml = NULL
        /\ l.ret = -1 => l.ds["running"].file = m["running"].file
    <3>1. l = load_failsafe(m, c1, foc)
      OBVIOUS
    <3> HIDE DEF l
    <3>2. /\ m \in Datastores /\ m["running"].file # NoFile /\ m["tmp"].xml = NULL
          /\ c1 \in confirmed_commit /\ foc \in Outcomes
      BY <1>0, <1>2, <2>1, <2>2, Zenon
    <3> QED
      BY <3>1, <3>2, FailsafeLoads, SMT
  <2> HIDE DEF l
  <2>4. /\ pending' = FALSE
        /\ origin' = NULL
        /\ UNCHANGED <<from, loading, clean>>
        /\ l.ret = -1 => ds' = Files(l.ds) /\ pc' = "down"
        /\ l.ret = 0 => ds' = l.ds /\ pc' = "up"
    <3>1. f.ds = l.ds /\ (f.stop <=> l.ret = -1)
      BY <1>5, <1>10
    <3>2. /\ ds' = IF f.stop THEN Files(f.ds) ELSE f.ds
          /\ pc' = IF f.stop THEN "down" ELSE "up"
          /\ pending' = FALSE
          /\ origin' = NULL
          /\ UNCHANGED <<from, loading, clean>>
      BY <1>1, <1>10
    <3>3. CASE l.ret = -1
      BY <3>1, <3>2, <3>3
    <3>4. CASE l.ret # -1
      BY <3>1, <3>2, <3>4
    <3> QED
      BY <3>3, <3>4
  <2>5. CASE l.ret = 0
    <3>1. TypeOK'
      BY <2>3, <2>4, <2>5 DEF IInv, TypeOK, Running
    <3>2. StoresOK' /\ BootOK'
      BY <2>3, <2>4, <2>5, CommitAssumption, DatastoreAssumption
      DEF IInv, StoresOK, BootOK, Running, RunningGood, InStep, Good
    <3>3. ConfirmOK'
      BY <2>1, <2>3, <2>4, <2>5
      DEF IInv, ConfirmOK, RollbackKept, CleanStart, RollbackDone, xmldb_exists
    <3> QED
      BY <3>1, <3>2, <3>3 DEF IInv
  <2>6. CASE l.ret = -1
    <3>1. /\ ds' \in Datastores
          /\ pc' = "down"
          /\ \A db \in DBs : ds'[db].xml = NULL
          /\ ds'["running"].file = m["running"].file
          /\ ds'["rollback"].file = NoFile
      <4>1. ds' = Files(l.ds) /\ pc' = "down"
        BY <2>4, <2>6
      <4>2. /\ Files(l.ds) \in Datastores
            /\ \A db \in DBs : /\ Files(l.ds)[db].xml = NULL
                               /\ Files(l.ds)[db].file = l.ds[db].file
        BY <2>3, FilesLeft, Zenon
      <4>3. /\ l.ds["running"].file = m["running"].file
            /\ l.ds["rollback"].file = NoFile
        BY <2>1, <2>3, <2>6
      <4> QED
        BY <4>1, <4>2, <4>3, Names
    <3>2. TypeOK'
      BY <2>4, <3>1 DEF IInv, TypeOK
    <3>3. StoresOK' /\ BootOK'
      BY <2>2, <2>4, <3>1, Names DEF IInv, StoresOK, BootOK, Running
    <3>4. ConfirmOK'
      BY <2>4, <3>1
      DEF ConfirmOK, RollbackKept, CleanStart, RollbackDone, Running, xmldb_exists
    <3> QED
      BY <3>2, <3>3, <3>4 DEF IInv
  <2> QED
    BY <2>3, <2>5, <2>6
<1> QED
  BY <1>9, <1>10

(* <copy-config> to startup touches no other datastore *)
LEMMA SaveStartupOK ==
    ASSUME IInv, SaveStartup
    PROVE  IInv'
<1>1. /\ pc = "up"
      /\ ds' = xmldb_copy(ds, "running", "startup")
      /\ UNCHANGED <<pc, from, loading, pending, origin, clean>>
  BY DEF SaveStartup
<1>2. pc \in Running
  BY <1>1 DEF Running
<1>3. ds \in Datastores /\ InStep(ds, "running")
  BY <1>2, RunningInStep
<1>4. ds' \in Datastores /\ Frame(ds, ds', {"startup"})
  BY <1>1, <1>3, Names, RunningCopied
<1>5. /\ ds'["running"] = ds["running"]
      /\ ds'["tmp"] = ds["tmp"]
      /\ ds'["rollback"] = ds["rollback"]
  BY <1>4, Names DEF Frame
<1>6. TypeOK'
  BY <1>1, <1>4 DEF IInv, TypeOK
<1>7. StoresOK' /\ BootOK'
  BY <1>1, <1>5 DEF IInv, StoresOK, BootOK, Running
<1>8. ConfirmOK'
  BY <1>1, <1>5 DEF IInv, ConfirmOK, RollbackKept, CleanStart, RollbackDone, xmldb_exists
<1> QED
  BY <1>6, <1>7, <1>8 DEF IInv

(* Whenever the process dies, the files are enough to start from *)
LEMMA CrashOK ==
    ASSUME IInv, Crash
    PROVE  IInv'
<1>1. /\ ds' = Files(ds)
      /\ pc' = "down"
      /\ pending' = FALSE
      /\ UNCHANGED <<from, loading, origin, clean>>
  BY DEF Crash
<1>2. /\ ds' \in Datastores
      /\ \A db \in DBs : ds'[db].xml = NULL /\ ds'[db].file = ds[db].file
  BY <1>1, FilesLeft DEF IInv, TypeOK
<1>3. TypeOK'
  BY <1>1, <1>2 DEF IInv, TypeOK
<1>4. StoresOK' /\ BootOK'
  BY <1>1, <1>2, Names DEF IInv, StoresOK, BootOK, Running
<1>5. ConfirmOK'
  BY <1>1, <1>2, Names
  DEF IInv, ConfirmOK, RollbackKept, CleanStart, RollbackDone, Running, xmldb_exists
<1> QED
  BY <1>3, <1>4, <1>5 DEF IInv

(* A crash while load_failsafe has running reset leaves it empty *)
LEMMA CrashInFailsafeOK ==
    ASSUME IInv, CrashInFailsafe
    PROVE  IInv'
<1> DEFINE e == xmldb_copy_file(ds, "running", "tmp")
           f == xmldb_db_reset(e, "running")
<1>1. /\ pc = "load_failsafe"
      /\ ds' = Files(f)
      /\ pc' = "down"
      /\ UNCHANGED <<from, loading, pending, origin, clean>>
  BY DEF CrashInFailsafe
<1>2. e \in Datastores /\ e["rollback"] = ds["rollback"]
  BY Names DEF IInv, TypeOK, xmldb_copy_file, Datastores, db_elmnt
<1> HIDE DEF e
<1>3. /\ f \in Datastores
      /\ Frame(e, f, {"running"})
      /\ f["running"].file = ZeroFile
  BY <1>2, Names, Reset
<1> HIDE DEF f
<1>4. f["rollback"] = ds["rollback"]
  BY <1>2, <1>3, Names DEF Frame
<1>5. /\ ds' \in Datastores
      /\ \A db \in DBs : ds'[db].xml = NULL
      /\ ds'["running"].file = ZeroFile
      /\ ds'["rollback"].file = ds["rollback"].file
  BY <1>1, <1>3, <1>4, Names, FilesLeft
<1>6. TypeOK'
  BY <1>1, <1>5 DEF IInv, TypeOK
<1>7. StoresOK' /\ BootOK'
  BY <1>1, <1>5, Names, FileTrees, DatastoreAssumption
  DEF IInv, StoresOK, BootOK, Running
<1>8. ConfirmOK'
  BY <1>1, <1>5, Names
  DEF IInv, ConfirmOK, RollbackKept, CleanStart, RollbackDone, Running, xmldb_exists
<1> QED
  BY <1>6, <1>7, <1>8 DEF IInv

------------------------------------------------------------------------------

(* Every step of a start, of the daemon and of a crash keeps IInv *)
LEMMA StepOK ==
    ASSUME IInv, [Next]_vars
    PROVE  IInv'
<1>1. ASSUME NEW mode \in Modes, Boot(mode)
      PROVE  IInv'
  BY <1>1, BootOKs
<1>2. ASSUME NEW oc \in Outcomes, Load(oc) \/ Failsafe(oc) \/ LoadFailsafe(oc)
      PROVE  IInv'
  BY <1>2, LoadOK, FailsafeOK, LoadFailsafeOK
<1>3. CASE Put \/ DropRollback \/ Rename \/ Restore \/ Loaded \/ Booted
  BY <1>3, PutOK, DropRollbackOK, RenameOK, RestoreOK, LoadedOK, BootedOK
<1>4. ASSUME NEW c \in Configs, Commit(c) \/ ConfirmedCommit(c)
      PROVE  IInv'
  BY <1>4, CommitOK, ConfirmedCommitOK
<1>5. ASSUME NEW ok \in BOOLEAN, FinishCommit(ok)
      PROVE  IInv'
  BY <1>5, FinishCommitOK, Zenon
<1>6. CASE Confirm
  BY <1>6, RollbackDropped DEF Confirm, Running
<1>7. ASSUME NEW oc \in Failures, NEW foc \in Failures, RollBack(oc, foc)
      PROVE  IInv'
  BY <1>7, RollBackOK
<1>8. CASE FinishRollback
  BY <1>8, RollbackDropped DEF FinishRollback, Running
<1>9. CASE SaveStartup \/ Crash \/ CrashInFailsafe
  BY <1>9, SaveStartupOK, CrashOK, CrashInFailsafeOK
<1>10. CASE UNCHANGED vars
  <2>1. UNCHANGED <<ds, pc, from, loading, pending, origin, clean>>
    BY <1>10 DEF vars
  <2>2. TypeOK' /\ StoresOK' /\ BootOK'
    BY <2>1 DEF IInv, TypeOK, StoresOK, BootOK
  <2>3. (RollbackKept => RollbackKept') /\ (RollbackDone => RollbackDone')
    BY <2>1 DEF RollbackKept, RollbackDone, xmldb_exists
  <2>4. CleanStart => CleanStart'
    BY <2>1 DEF CleanStart
  <2>5. ConfirmOK'
    BY <2>1, <2>3, <2>4 DEF IInv, ConfirmOK
  <2> QED
    BY <2>2, <2>5 DEF IInv
<1> QED
  BY <1>1, <1>2, <1>3, <1>4, <1>5, <1>6, <1>7, <1>8, <1>9, <1>10, Zenon
  DEF Next, BootStep, RunStep

(* IInv holds from the first start on, over crashes and restarts *)
LEMMA Inductive == Spec => []IInv
<1>1. Init => IInv
  BY InitOK
<1>2. IInv /\ [Next]_vars => IInv'
  BY StepOK
<1> QED
  BY <1>1, <1>2, PTL DEF Spec

(* The variables of Startup keep their types over starts, crashes and      *)
(* rollbacks: no sequence of datastore calls leaves a file or a cache that *)
(* is neither missing, empty nor a configuration.                          *)
THEOREM StartupTypes == Spec => []TypeOK
  BY Inductive, PTL DEF IInv

(* Running that is served was validated, in the cache and in the file,     *)
(* whatever start the daemon had and wherever the one before was cut off   *)
(* (startup_commit, load_failsafe).  startup_commit does not validate an   *)
(* empty tree, so the theorem is for schemas that the empty tree satisfies.*)
THEOREM ServedRunningValid ==
    ASSUME Empty \in Valid
    PROVE  Spec => []RunningValid
<1>1. IInv => RunningValid
  BY DEF IInv, StoresOK, RunningValid, Good
<1> QED
  BY <1>1, Inductive, PTL

(* The file rollback is running as it was before the confirmed commit, for *)
(* as long as the confirmed commit is in progress (handle_confirmed_commit *)
(* and the start that keeps or drops a rollback datastore).                *)
THEOREM RollbackStaysOrigin == Spec => []RollbackIsOrigin
<1>1. IInv => RollbackIsOrigin
  BY DEF IInv, ConfirmOK, RollbackKept, RollbackIsOrigin
<1> QED
  BY <1>1, Inductive, PTL

(* A start undoes an unconfirmed commit before it gives the rollback       *)
(* datastore up or serves requests (startup_mode_startup), however often   *)
(* the daemon dies on the way.                                             *)
THEOREM UnconfirmedIsUndone == Spec => []UnconfirmedUndone
<1>1. IInv => UnconfirmedUndone
  BY DEF IInv, ConfirmOK, CleanStart, UnconfirmedUndone
<1> QED
  BY <1>1, Inductive, PTL

(* When do_rollback reports success, running is what it was before the     *)
(* confirmed commit: the rollback datastore validates, because it was      *)
(* running (candidate_commit on rollback).                                 *)
THEOREM RollbackSucceeds == Spec => []RollbackDone
<1>1. IInv => RollbackDone
  BY DEF IInv, ConfirmOK, RollbackDone
<1> QED
  BY <1>1, Inductive, PTL
==============================================================================
