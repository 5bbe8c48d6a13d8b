------------------------------- MODULE Startup -------------------------------
(***************************************************************************)
(* Crashes and restarts of the backend (apps/backend/backend_main.c,       *)
(* backend_startup.c, startup_commit and load_failsafe in                  *)
(* backend_commit.c).                                                      *)
(*                                                                         *)
(* A crash takes the caches, the timers and the sessions, and leaves the   *)
(* files.  It may come between any two writes of a file: while a confirmed *)
(* commit or a rollback is under way, and while the daemon starts.  Files  *)
(* are written whole, except where the code truncates a file in a step of  *)
(* its own.  Extra XML (the -c option, ca_reset) is not used.              *)
(***************************************************************************)
EXTENDS Commit

CONSTANTS Modes,         \* values of CLICON_STARTUP_MODE the daemon is started with
          StartupFiles,  \* what the startup datastore may be on disk at first
          FailsafeFiles  \* what the failsafe datastore may be on disk

ASSUME StartupAssumption ==
    /\ Modes \subseteq {"none", "init", "running", "startup", "running_startup"}
    /\ StartupFiles \subseteq Configs \union {NoFile}
    /\ FailsafeFiles \subseteq Configs \union {NoFile}

VARIABLES
    ds,       \* the datastores
    pc,       \* what the daemon is doing
    from,     \* db of startup_mode_startup: "tmp", "startup", or "none"
    loading,  \* datastore being committed by startup_commit
    pending,  \* a confirmed commit is in progress, in memory
    origin,   \* history: running before the unconfirmed commit, or NULL
    clean     \* history: all starts were from a datastore, no rollback failed

vars == <<ds, pc, from, loading, pending, origin, clean>>

Running == {"up", "committing", "rolledback"}

Booting == {"load", "put", "drop", "failsafe", "rename", "invalid", "error",
            "load_failsafe", "loaded", "booted"}

TypeOK ==
    /\ ds \in Datastores
    /\ pc \in Running \union Booting \union {"down"}
    /\ from \in {"tmp", "startup", "none"}
    /\ loading \in DBs
    /\ pending \in BOOLEAN
    /\ origin \in Configs \union {NULL}
    /\ clean \in BOOLEAN

Init ==
    /\ \E r \in Valid, s \in StartupFiles, f \in FailsafeFiles :
         ds = [db \in DBs |->
                 [xml |-> NULL,
                  file |-> CASE db = "running" -> r
                             [] db = "startup" -> s
                             [] db = "failsafe" -> f
                             [] db \in {"candidate", "rollback", "tmp"} -> NoFile,
                  id |-> 0,
                  modified |-> FALSE]]
    /\ pc = "down"
    /\ from = "none"
    /\ loading = "tmp"
    /\ pending = FALSE
    /\ origin = NULL
    /\ clean = TRUE

(* What a process that ends leaves of the datastores: their files *)
Files(d) == [db \in DBs |-> [d[db] EXCEPT !.xml = NULL, !.id = 0,
                                          !.modified = FALSE]]

------------------------------------------------------------------------------
(* Starting *)

(* main up to the switch on the startup mode, and its first branch *)
Boot(mode) ==
    /\ pc = "down"
    /\ LET there == xmldb_exists(ds, "running")
           m == CASE mode = "running_startup" /\ there -> "running"
                  [] mode = "running_startup" /\ ~there -> "startup"
                  [] mode # "running_startup" -> mode
           d == [(IF there THEN ds ELSE xmldb_create(ds, "running"))
                   EXCEPT !["candidate"].file = NoFile]
       IN  \/ /\ m = "none"
              /\ ds' = xmldb_delete(xmldb_db_reset(d, "tmp"), "tmp")
              /\ pc' = "booted"
              /\ from' = "none"
              /\ clean' = FALSE
           \/ /\ m = "init"
              /\ ds' = xmldb_delete(
                         xmldb_db_reset(
                           xmldb_db_reset(xmldb_delete(d, "rollback"), "running"),
                           "tmp"),
                         "tmp")
              /\ pc' = "booted"
              /\ from' = "none"
              /\ clean' = FALSE
           \/ /\ m \in {"running", "startup"}
              /\ from' = IF m = "running" THEN "tmp" ELSE "startup"
              /\ LET e == xmldb_copy_file(d, "running", "tmp")
                 IN  ds' = IF xmldb_exists(e, from') THEN e
                           ELSE xmldb_create(e, from')
              /\ pc' = "load"
              /\ UNCHANGED clean
    /\ UNCHANGED <<loading, pending, origin>>

(* Mutant: a tree that does not validate is taken as well *)
StartupResult_unvalidated(d, db, oc) ==
    IF Readable(d, db) /\ oc = "ok" THEN 1 ELSE -1

(* startup_common, then the commit callbacks of startup_commit: 1, 0 or    *)
(* -1.  An empty tree is neither validated nor shown to validate callbacks.*)
StartupResult(d, db, oc) ==
    LET t == xmldb_get_cache(d, db)[db].xml
    IN  CASE ~Readable(d, db) -> -1
          [] Readable(d, db) /\ t # Empty /\ oc = "verror" -> -1
          [] Readable(d, db) /\ t # Empty /\ oc # "verror" /\ t \notin Valid -> 0
          [] Readable(d, db) /\ oc = "cerror" /\ (t = Empty \/ t \in Valid) -> -1
          [] Readable(d, db) /\ (\/ t = Empty /\ oc # "cerror"
                                 \/ t \in Valid /\ oc = "ok") -> 1

(* startup_commit up to where running is deleted and created *)
startup_commit(db, oc) ==
    /\ ds' = LET d == IF Readable(ds, db) THEN xmldb_get_cache(ds, db) ELSE ds
             IN  IF StartupResult(ds, db, oc) = 1
                 THEN xmldb_create(IF xmldb_exists(d, "running")
                                   THEN xmldb_delete(d, "running") ELSE d,
                                   "running")
                 ELSE d
    /\ loading' = db

(* Mutant: a rollback datastore is not looked for *)
Load_from(oc) ==
    /\ pc = "load"
    /\ LET ret == StartupResult(ds, from, oc)
       IN  /\ startup_commit(from, oc)
           /\ pc' = CASE ret = 1 -> "put"
                      [] ret = 0 -> "invalid"
                      [] ret = -1 -> "error"
    /\ UNCHANGED <<from, pending, origin, clean>>

(* startup_mode_startup: a rollback datastore left by a crash is committed *)
(* in place of db.                                                         *)
Load(oc) ==
    /\ pc = "load"
    /\ LET db == IF xmldb_exists(ds, "rollback") THEN "rollback" ELSE from
           ret == StartupResult(ds, db, oc)
       IN  /\ startup_commit(db, oc)
           /\ pc' = CASE ret = 1 -> "put"
                      [] ret # 1 /\ db = "rollback" -> "failsafe"
                      [] ret = 0 /\ db # "rollback" -> "invalid"
                      [] ret = -1 /\ db # "rollback" -> "error"
    /\ UNCHANGED <<from, pending, origin, clean>>

(* The tree is put into the new running *)
Put ==
    /\ pc = "put"
    /\ ds' = xmldb_put(ds, "running", ds[loading].xml, TRUE)
    /\ pc' = CASE loading = "rollback" -> "drop"
               [] loading = "failsafe" -> "rename"
               [] loading \notin {"rollback", "failsafe"} -> "loaded"
    /\ UNCHANGED <<from, loading, pending, origin, clean>>

(* The rollback datastore is done with *)
DropRollback ==
    /\ pc = "drop"
    /\ ds' = xmldb_delete(ds, "rollback")
    /\ pc' = "loaded"
    /\ origin' = NULL
    /\ UNCHANGED <<from, loading, pending, clean>>

(* Mutant: an error leads back to the rollback datastore *)
Failsafe_retries(oc) ==
    /\ pc = "failsafe"
    /\ startup_commit("failsafe", oc)
    /\ pc' = CASE StartupResult(ds, "failsafe", oc) = 1 -> "put"
               [] StartupResult(ds, "failsafe", oc) = 0 -> "rename"
               [] StartupResult(ds, "failsafe", oc) = -1 -> "load"
    /\ clean' = FALSE
    /\ UNCHANGED <<from, pending, origin>>

(* The rollback datastore could not be committed: the failsafe is tried,   *)
(* and taken for done also when it does not validate.                      *)
Failsafe(oc) ==
    /\ pc = "failsafe"
    /\ startup_commit("failsafe", oc)
    /\ pc' = CASE StartupResult(ds, "failsafe", oc) = 1 -> "put"
               [] StartupResult(ds, "failsafe", oc) = 0 -> "rename"
               [] StartupResult(ds, "failsafe", oc) = -1 -> "invalid"
    /\ clean' = FALSE
    /\ UNCHANGED <<from, pending, origin>>

(* The file moved away is that of db, not of rollback *)
Rename ==
    /\ pc = "rename"
    /\ ds' = xmldb_rename(ds, from)
    /\ pc' = "loaded"
    /\ UNCHANGED <<from, loading, pending, origin, clean>>

(* What main does after startup_mode_startup in either mode *)
AfterLoad(d) ==
    IF from = "tmp" THEN xmldb_delete(d, "tmp") ELSE xmldb_clear(d, "startup")

(* Running is restored from its copy.  An error ends the daemon, a         *)
(* configuration that does not validate leads to the failsafe.             *)
Restore ==
    /\ pc \in {"invalid", "error"}
    /\ LET d == AfterLoad(xmldb_clear(xmldb_copy_file(ds, "tmp", "running"),
                                      "running"))
       IN  \/ pc = "error" /\ ds' = Files(d) /\ pc' = "down"
           \/ pc = "invalid" /\ ds' = d /\ pc' = "load_failsafe"
    /\ UNCHANGED <<from, loading, pending, origin, clean>>

Inactive == [state |-> "INACTIVE", persist_id |-> NoId, session_id |-> 0,
             timers |-> 0]

LoadFailsafe(oc) ==
    /\ pc = "load_failsafe"
    /\ LET r == load_failsafe(ds, Inactive, oc)
       IN  \/ r.ret = 0 /\ ds' = r.ds /\ pc' = "booted"
           \/ r.ret = -1 /\ ds' = Files(r.ds) /\ pc' = "down"
    /\ UNCHANGED <<from, loading, pending, origin, clean>>

(* startup_extraxml with nothing to add resets and deletes tmp *)
Loaded ==
    /\ pc = "loaded"
    /\ ds' = xmldb_delete(xmldb_db_reset(AfterLoad(ds), "tmp"), "tmp")
    /\ pc' = "booted"
    /\ UNCHANGED <<from, loading, pending, origin, clean>>

(* xmldb_candidate_new, and the event loop starts *)
Booted ==
    /\ pc = "booted"
    /\ ds' = xmldb_modified_set(xmldb_copy(ds, "running", "candidate"),
                                "candidate", FALSE)
    /\ pc' = "up"
    /\ origin' = NULL
    /\ UNCHANGED <<from, loading, pending, clean>>

------------------------------------------------------------------------------
(* Running: what writes running, rollback and startup, a file at a time *)

Edit(c) == xmldb_put(ds, "candidate", c, TRUE)

(* <commit> outside a confirmed commit; rollback is deleted first *)
Commit(c) ==
    /\ pc = "up"
    /\ ~pending
    /\ c \in Valid
    /\ ds' = xmldb_copy(xmldb_delete(Edit(c), "rollback"), "candidate", "running")
    /\ UNCHANGED <<pc, from, loading, pending, origin, clean>>

(* <commit> with <confirmed/>, up to the plugins' commit callbacks *)
ConfirmedCommit(c) ==
    /\ pc = "up"
    /\ c \in Valid
    /\ ds' = IF xmldb_exists(ds, "rollback") THEN Edit(c)
             ELSE xmldb_copy(Edit(c), "running", "rollback")
    /\ pending' = TRUE
    /\ origin' = IF pending THEN origin ELSE ds["running"].xml
    /\ pc' = "committing"
    /\ UNCHANGED <<from, loading, clean>>

(* The commit callbacks succeed and running is written, or they fail *)
FinishCommit(ok) ==
    /\ pc = "committing"
    /\ ds' = IF ok THEN xmldb_copy(ds, "candidate", "running") ELSE ds
    /\ pc' = "up"
    /\ UNCHANGED <<from, loading, pending, origin, clean>>

(* Mutant: rollback is not deleted *)
Confirm_rollback_left ==
    /\ pc = "up"
    /\ pending
    /\ pending' = FALSE
    /\ origin' = NULL
    /\ UNCHANGED <<ds, pc, from, loading, clean>>

(* A confirming commit: cancel_confirmed_commit *)
Confirm ==
    /\ pc = "up"
    /\ pending
    /\ ds' = xmldb_delete(ds, "rollback")
    /\ pending' = FALSE
    /\ origin' = NULL
    /\ UNCHANGED <<pc, from, loading, clean>>

(* do_rollback up to where running is written, or to the failsafe *)
RollBack(oc, foc) ==
    /\ pc = "up"
    /\ pending
    /\ LET r == candidate_commit(ds, [Inactive EXCEPT !.state = "ROLLBACK"],
                                 Absent, "rollback", 0, oc)
           f == do_rollback(ds, Inactive, oc, foc)
       IN  IF r.ret = -1
           THEN /\ ds' = IF f.stop THEN Files(f.ds) ELSE f.ds
                /\ pc' = IF f.stop THEN "down" ELSE "up"
                /\ pending' = FALSE
                /\ origin' = NULL
           ELSE /\ ds' = r.ds
                /\ pc' = "rolledback"
                /\ UNCHANGED <<pending, origin>>
    /\ UNCHANGED <<from, loading, clean>>

FinishRollback ==
    /\ pc = "rolledback"
    /\ ds' = xmldb_delete(ds, "rollback")
    /\ pc' = "up"
    /\ pending' = FALSE
    /\ origin' = NULL
    /\ UNCHANGED <<from, loading, clean>>

(* <copy-config> of running to startup *)
SaveStartup ==
    /\ pc = "up"
    /\ ds' = xmldb_copy(ds, "running", "startup")
    /\ UNCHANGED <<pc, from, loading, pending, origin, clean>>

(* The process dies, or is stopped and started again *)
Crash ==
    /\ pc # "down"
    /\ ds' = Files(ds)
    /\ pc' = "down"
    /\ pending' = FALSE
    /\ UNCHANGED <<from, loading, origin, clean>>

(* load_failsafe is hit by the crash after it has reset running *)
CrashInFailsafe ==
    /\ pc = "load_failsafe"
    /\ xmldb_exists(ds, "failsafe")
    /\ ds' = Files(xmldb_db_reset(xmldb_copy_file(ds, "running", "tmp"),
                                  "running"))
    /\ pc' = "down"
    /\ UNCHANGED <<from, loading, pending, origin, clean>>

------------------------------------------------------------------------------

BootStep ==
    \/ \E oc \in Outcomes : Load(oc) \/ Failsafe(oc) \/ LoadFailsafe(oc)
    \/ Put
    \/ DropRollback
    \/ Rename
    \/ Restore
    \/ Loaded
    \/ Booted

RunStep ==
    \/ \E c \in Configs : Commit(c) \/ ConfirmedCommit(c)
    \/ \E ok \in BOOLEAN : FinishCommit(ok)
    \/ Confirm
    \/ \E oc, foc \in Failures : RollBack(oc, foc)
    \/ FinishRollback
    \/ SaveStartup

Next ==
    \/ \E mode \in Modes : Boot(mode)
    \/ BootStep
    \/ RunStep
    \/ Crash
    \/ CrashInFailsafe

(* A daemon that is starting goes on starting, unless it crashes *)
Spec == Init /\ [][Next]_vars /\ WF_vars(BootStep)

------------------------------------------------------------------------------

(* A start undoes a confirmed commit that was not confirmed, wherever the  *)
(* daemon died in between, also if it dies again while it starts: the      *)
(* rollback datastore is given up only once running is back to what it was *)
(* before the confirmed commit, and the daemon comes up only then          *)
(* (startup_mode_startup on a rollback datastore that exists).  It holds   *)
(* until a start leaves a rollback datastore where it is, or running empty *)
(* (modes none and init, a rollback that plugins refuse).                  *)
UnconfirmedUndone ==
    clean => /\ pc = "drop" => ds["running"].file = origin
             /\ pc = "booted" => origin = NULL

(* While a confirmed commit is in progress, the file rollback holds the    *)
(* configuration running had before it, never one left by an earlier life  *)
(* of the daemon (handle_confirmed_commit keeps a rollback it finds).      *)
RollbackIsOrigin == clean /\ pending => ds["rollback"].file = origin

(* Whenever the daemon serves requests, running is a configuration that    *)
(* was validated, in the cache and in the file, whichever start the daemon *)
(* had and wherever the start before was cut off (startup_commit truncates *)
(* running before it writes it).                                           *)
RunningValid ==
    pc \in Running => /\ ds["running"].xml \in Valid
                      /\ FileTree(ds["running"].file) = ds["running"].xml

(* A start ends: the daemon comes up, or goes down.                        *)
StartEnds == pc \in Booting ~> pc \in {"up", "down"}

(* A rollback datastore that could not be committed at startup is not      *)
(* tried again (the comment on the rename in startup_mode_startup).        *)
RollbackNotRetried ==
    [][pc = "rename" /\ pc' = "loaded" => ~xmldb_exists(ds', "rollback")]_vars
==============================================================================
