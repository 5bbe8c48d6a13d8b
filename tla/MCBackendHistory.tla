--------------------------- MODULE MCBackendHistory ---------------------------
(* Small instances of BackendHistory for TLC. *)
EXTENDS BackendHistory

CONSTANTS empty, conf1, bad

TwoConfigs == {empty, conf1}
ThreeConfigs == {empty, conf1, bad}
NoPersistIds == {}
==============================================================================
