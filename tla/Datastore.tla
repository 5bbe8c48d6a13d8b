------------------------------ MODULE Datastore ------------------------------
(***************************************************************************)
(* The datastores of the Clixon backend (lib/src/clixon_datastore*.c).     *)
(*                                                                         *)
(* A datastore is a db_elmnt: the XML tree cache de_xml, the file that     *)
(* backs it, the session that holds its lock (de_id, 0 when unlocked) and  *)
(* the dirty bit de_modified.  The cache policy is the default one,        *)
(* FILE_INMEM: a write goes to the cache and to the file.  A configuration *)
(* tree is one opaque value; what matters here is where it is kept.        *)
(*                                                                         *)
(* Every operator takes the function d from names to datastores and        *)
(* returns the function after the call, so a handler that makes several    *)
(* calls is the composition of their operators.                            *)
(***************************************************************************)
EXTENDS Integers

CONSTANTS Configs,    \* configuration trees
          Empty,      \* the tree <config/>, also what an empty file is read as
          NULL,       \* no tree in the cache
          NoFile,     \* there is no file
          ZeroFile    \* the file exists and has size 0

ASSUME DatastoreAssumption ==
    /\ Empty \in Configs
    /\ NULL \notin Configs
    /\ NoFile \notin Configs
    /\ ZeroFile \notin Configs
    /\ NoFile # ZeroFile

(* The datastores the backend itself names.  The candidate is the shared   *)
(* one: CLICON_XMLDB_PRIVATE_CANDIDATE is off.                             *)
DBs == {"running", "candidate", "startup", "rollback", "failsafe", "tmp"}

(* struct db_elmnt, without the lock's time stamp *)
db_elmnt == [xml: Configs \union {NULL},
             file: Configs \union {NoFile, ZeroFile},
             id: Nat,
             modified: BOOLEAN]

Datastores == [DBs -> db_elmnt]

xmldb_exists(d, db) == d[db].file \notin {NoFile, ZeroFile}

(* Can xmldb_get_cache return a tree?  A candidate is never read from file *)
Readable(d, db) ==
    \/ d[db].xml # NULL
    \/ db # "candidate" /\ d[db].file # NoFile

(* The tree xmldb_readfile makes of a file *)
FileTree(f) == IF f = ZeroFile THEN Empty ELSE f

(* xmldb_get_cache of a readable datastore: the cache is loaded on demand *)
xmldb_get_cache(d, db) ==
    IF d[db].xml # NULL
    THEN d
    ELSE [d EXCEPT ![db].xml = FileTree(d[db].file)]

xmldb_write_cache2file(d, db) == [d EXCEPT ![db].file = d[db].xml]

(* Does xmldb_copy return 0?  Both the tree and the file must be there. *)
CopyOK(d, from) == Readable(d, from) /\ d[from].file # NoFile

(* xmldb_copy: cache and file of "from" replace those of "to"; lock and    *)
(* dirty bit of "to" stay.  A copy that fails has already dropped the      *)
(* cache of "to" when "from" cannot be read, and has replaced it when only *)
(* the file of "from" is missing.                                          *)
xmldb_copy(d, from, to) ==
    IF Readable(d, from)
    THEN LET e == xmldb_get_cache(d, from)
         IN  [e EXCEPT ![to].xml = e[from].xml,
                       ![to].file = IF e[from].file = NoFile THEN @
                                    ELSE e[from].file]
    ELSE [d EXCEPT ![to].xml = NULL]

(* xmldb_copy_file of an existing file *)
xmldb_copy_file(d, from, to) == [d EXCEPT ![to].file = d[from].file]

xmldb_lock(d, db, sid) == [d EXCEPT ![db].id = sid]

xmldb_unlock(d, db) == [d EXCEPT ![db].id = 0]

xmldb_modified_set(d, db, bit) == [d EXCEPT ![db].modified = bit]

(* xmldb_clear drops the cache, and with it the lock and the dirty bit *)
xmldb_clear(d, db) ==
    [d EXCEPT ![db].xml = NULL, ![db].modified = FALSE, ![db].id = 0]

(* xmldb_delete truncates the file, it does not remove it *)
xmldb_delete(d, db) ==
    [xmldb_clear(d, db) EXCEPT ![db].file = IF @ = NoFile THEN NoFile
                                            ELSE ZeroFile]

(* xmldb_create opens the file without truncating it *)
xmldb_create(d, db) ==
    [d EXCEPT ![db].xml = NULL,
              ![db].file = IF @ = NoFile THEN ZeroFile ELSE @]

xmldb_db_reset(d, db) ==
    xmldb_create(IF xmldb_exists(d, db) THEN xmldb_delete(d, db) ELSE d, db)

(* xmldb_rename moves the file away and leaves the cache as it is *)
xmldb_rename(d, db) == [d EXCEPT ![db].file = NoFile]

(* The first half of xmldb_put: the tree that will be modified.  A         *)
(* candidate without a cache is copied from running.                       *)
PutBase(d, db) ==
    IF d[db].xml # NULL THEN d
    ELSE IF db = "candidate" THEN xmldb_copy(d, "running", db)
    ELSE xmldb_get_cache(d, db)

(* xmldb_put that makes the tree new.  When one of the edits of a request  *)
(* is refused, text_modify has already applied the ones before it to the   *)
(* cached tree, and xmldb_put returns before it writes the file.           *)
xmldb_put(d, db, new, done) ==
    LET e == [PutBase(d, db) EXCEPT ![db].xml = new]
    IN  IF done THEN xmldb_write_cache2file(e, db) ELSE e
==============================================================================
