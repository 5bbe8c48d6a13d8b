------------------------------ MODULE MCStartup ------------------------------
(* Small instances of Startup for TLC. *)
EXTENDS Startup

CONSTANTS empty, conf1, bad

MCConfigs == {empty, conf1, bad}
MCValid == {empty, conf1}
NoPersistIds == {}
AllModes == {"none", "init", "running", "startup", "running_startup"}
RunningOnly == {"running"}
AnyFile == {NoFile, conf1, bad}
EmptyFile == {empty}
==============================================================================
