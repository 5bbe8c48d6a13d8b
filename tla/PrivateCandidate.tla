-------------------------- MODULE PrivateCandidate ---------------------------
(* Private candidates (CLICON_XMLDB_PRIVATE_CANDIDATE): every session edits *)
(* a candidate of its own, and keeps what running was when it was created   *)
(* (candidate-orig) to rebase it on what running has become: backend_update *)
(* of apps/backend/backend_commit.c.  Locks are those of Backend.           *)
(*                                                                          *)
(* The caches of defaults are recomputed at every use: they only depend on  *)
(* the YANG as long as no default is below a when.  Validation is not that  *)
(* of Validate: it may go either way.                                       *)
EXTENDS XmlDiff, TextModify

CONSTANTS
    Sessions,
    Running,      \* what running may be at first
    PrivEdits,    \* edit trees
    MaxPrivEdits  \* number of edits

VARIABLES
    running,  \* the tree of running
    priv,     \* per session, candidate and candidate-orig
    privNr    \* number of edits

privVars == <<running, priv, privNr>>

Populated(x) == CacheDefaults(xml_global_defaults(x, NoCaches)).x

NoPriv == [cand |-> NoXml, orig |-> NoXml]

PrivInit ==
    /\ running \in {Populated(x) : x \in Running}
    /\ priv = [s \in Sessions |-> NoPriv]
    /\ privNr = 0

(* xmldb_find_create, which every request on the candidate starts with *)
xmldb_find_create(s) ==
    [cand |-> IF priv[s].cand = NoXml THEN running ELSE priv[s].cand,
     orig |-> IF priv[s].orig = NoXml THEN running ELSE priv[s].orig]

(* backend_update: rebase, sort, fill in defaults; running is the new       *)
(* original.  A conflict leaves everything as it was.                       *)
Rebased(d, dr) ==
    IF dr.conflict THEN [ok |-> FALSE, d |-> d]
    ELSE [ok |-> TRUE,
          d |-> [cand |-> Populated(xml_sort_recurse(diff_rebase_exec(d.cand, <<>>, dr))),
                 orig |-> running]]
backend_update_keeps(d) == [Rebased(d, NoRebase) EXCEPT !.d.orig = running]
backend_update(d) == Rebased(d, xml_rebase(d.orig, d.cand, running, <<>>, 1, 1, 1))

(* edit-config of the candidate *)
PrivEdit(s, x1) ==
    /\ privNr < MaxPrivEdits
    /\ privNr' = privNr + 1
    /\ \E d \in {xmldb_find_create(s)} : \E m \in {text_modify_top(d.cand, x1, "merge")} :
         priv' = [priv EXCEPT ![s] = [d EXCEPT !.cand =
                    IF m.st = "ok" THEN PutDefaults(m.xp, NoCaches).x ELSE m.xp]]
    /\ UNCHANGED running

(* update *)
from_client_update(s) ==
    /\ \E u \in {backend_update(xmldb_find_create(s))} : priv' = [priv EXCEPT ![s] = u.d]
    /\ UNCHANGED <<running, privNr>>

(* commit: validate, update, validate what came of it, commit; then the     *)
(* private datastores are deleted                                           *)
PrivCommit(s, valid, valid1) ==
    /\ \E d \in {xmldb_find_create(s)} : \E u \in {backend_update(d)} :
         IF ~valid \/ ~u.ok \/ ~valid1
         THEN priv' = [priv EXCEPT ![s] = IF valid THEN u.d ELSE d] /\ UNCHANGED running
         ELSE priv' = [priv EXCEPT ![s] = NoPriv] /\ running' = u.d.cand
    /\ UNCHANGED privNr

(* discard-changes: back to the original, not to running *)
PrivDiscard(s) ==
    /\ \E d \in {xmldb_find_create(s)} : priv' = [priv EXCEPT ![s] = [d EXCEPT !.cand = d.orig]]
    /\ UNCHANGED <<running, privNr>>

(* copy-config from running *)
PrivCopy(s) ==
    /\ \E d \in {xmldb_find_create(s)} : priv' = [priv EXCEPT ![s] = [d EXCEPT !.cand = running]]
    /\ UNCHANGED <<running, privNr>>

(* delete-config, and release_all_dbs when the session ends *)
PrivDelete(s) ==
    /\ priv' = [priv EXCEPT ![s] = NoPriv]
    /\ UNCHANGED <<running, privNr>>

PrivNext ==
    \E s \in Sessions :
      \/ \E x1 \in PrivEdits : PrivEdit(s, x1)
      \/ from_client_update(s)
      \/ \E valid \in BOOLEAN : \E valid1 \in {FALSE, valid} : PrivCommit(s, valid, valid1)
      \/ PrivDiscard(s)
      \/ PrivCopy(s)
      \/ PrivDelete(s)

PrivSpec == PrivInit /\ [][PrivNext]_privVars

------------------------------------------------------------------------------
(* Properties *)

Explicit(x) == Data(x, <<>>, FALSE)

(* What should come of replaying the changes from D0 to D1 on D2 *)
Replayed1(D0, D1, D2) == (D2 \ (D0 \ D1)) \cup (D1 \ D0)

(* D3 is D2 with the changes from D0 to D1, but for data new in D2 that    *)
(* may be missing where the candidate has changes of its own.               *)
Replays(D0, D1, D2, D3) ==
    /\ D3 \subseteq Replayed1(D0, D1, D2)
    /\ Replayed1(D0, D1, D2) \ D3 \subseteq D2 \ D0
    /\ D0 = D1 => D3 = D2

(* A commit replays the changes of the session on what running is by then:  *)
(* no change of the session is lost, nothing comes back that another        *)
(* session has removed, nothing that neither wrote appears, and values that *)
(* others changed are theirs.  (Additions of others may get lost: xml_      *)
(* rebase passes over a node that is new in running where the candidate has *)
(* a new node or has removed the next one.)                                 *)
CommitReplays ==
    [][running' # running =>
         \E s \in Sessions : \E d \in {xmldb_find_create(s)} :
           /\ priv'[s] = NoPriv
           /\ Replays(Explicit(d.orig), Explicit(d.cand), Explicit(running), Explicit(running'))]_privVars
==============================================================================
