------------------------------ MODULE MCBackend ------------------------------
(* Small instances of Backend for TLC. *)
EXTENDS Backend

CONSTANTS empty, bad

FewConfigs == {empty, bad}
FewValid == {empty}
NoPersistIds == {}
==============================================================================
