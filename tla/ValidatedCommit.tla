--------------------------- MODULE ValidatedCommit ---------------------------
(* Edits of the candidate, checked as from_client_edit_config() checks      *)
(* them, and commits that validate it incrementally against running         *)
(* (apps/backend/backend_client.c, backend_commit.c).  Locks, sessions and  *)
(* plugins are those of Backend and Transaction.                            *)
EXTENDS Validate

CONSTANTS
    ValRunning,       \* what running may be at first
    ValEdits,         \* edit trees
    MaxValEdits,      \* number of edits
    DUPLICATE_ALLOW   \* CLICON_NETCONF_DUPLICATE_ALLOW

VARIABLES
    vrun,   \* the tree of running
    vcand,  \* the tree of the candidate
    vnr     \* number of edits

valVars == <<vrun, vcand, vnr>>

Filled(x) == CacheDefaults(xml_global_defaults(x, NoCaches)).x

ValInit ==
    /\ vrun \in {Filled(x) : x \in ValRunning}
    /\ vcand = vrun
    /\ vnr = 0

(* from_client_edit_config: an edit that fails a check changes nothing *)
EditPut(m) == vcand' = IF m.st = "ok" THEN PutDefaults(m.xp, NoCaches).x ELSE m.xp
EditChecked(d) ==
    IF d.ok /\ xml_yang_validate_list_key_only(d.x) THEN EditPut(text_modify_top(vcand, d.x, "merge"))
    ELSE UNCHANGED vcand
from_client_edit_config(xc) ==
    /\ vnr < MaxValEdits
    /\ vnr' = vnr + 1
    /\ IF xml_yang_validate_minmax(xc, TRUE)
       THEN EditChecked(xml_duplicate_detect(xml_sort_recurse(xc), DUPLICATE_ALLOW))
       ELSE UNCHANGED vcand
    /\ UNCHANGED vrun

(* candidate_commit: running is what was validated *)
candidate_commit ==
    /\ validate_common(vrun, vcand) = TRUE
    /\ vrun' = vcand
    /\ UNCHANGED <<vcand, vnr>>

from_client_discard_changes ==
    /\ vcand' = vrun
    /\ UNCHANGED <<vrun, vnr>>

ValNext ==
    \/ \E xc \in ValEdits : from_client_edit_config(xc)
    \/ candidate_commit
    \/ from_client_discard_changes

ValSpec == ValInit /\ [][ValNext]_valVars

------------------------------------------------------------------------------
(* Properties *)

Idents(x, p) == Map(Ident, Along(x, p) \o <<>>)

(* find_target_equiv found the node it looked for, not another entry with   *)
(* the same first key                                                       *)
EquivExact(src, target) ==
    \A p \in xml_diff(src, target).del : \A q \in find_target_equiv(src, target, Front(p)) :
      Idents(src, Front(p)) = Idents(target, q)

(* Incremental validation accepts nothing that full validation refuses: if  *)
(* running is valid, so is what a commit makes of it, although checks were  *)
(* skipped wherever compute_diffs flagged no change.  The exception is the  *)
(* code's: a node deleted below a list entry flags the first entry with the *)
(* same first key (find_target_equiv), maybe another one.                   *)
IncrementalIsFull ==
    [][vrun' # vrun /\ EquivExact(vrun, vrun') /\ xml_yang_validate_all_state_td(vrun, FALSE)
         => xml_yang_validate_all_state_td(vrun', FALSE)]_valVars
==============================================================================
