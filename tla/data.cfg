SPECIFICATION Spec
CONSTANTS YSpec <- MCY
YSpecKw <- MCKw
YSpecOrder <- MCYOrder
Edits <- MCEdits
Ops <- MCOps
Files <- MCFiles
MaxEdits=2
Clients={c1,c2}
Names={n1}
Retention=1
MaxTime=3
Sessions={s1,s2}
Running <- MCRun
PrivEdits <- MCPEdits
MaxPrivEdits=2
ValRunning <- MCVRun
ValEdits <- MCVEdits
MaxValEdits = 3
NacmConfigs <- MCNacm
NacmTrees <- MCNTrees
NacmRpcs = {"get", "edit-config", "kill-session"}
NacmUsers = {"u1", "admin"}
NacmModule <- MCNModule
Credentials = "exact"
Recovery = "admin"
OsGroups <- MCOsGroups
Messages <- MCMessages
Scripts <- MCScripts
BaseCap = 1
HelloOptional = FALSE
PrivateCand = FALSE
BufSize = 24
ChunkMax = 99
MaxNotes = 3
DUPLICATE_ALLOW = TRUE
Nodes <- MCNodes
Under <- MCBelow
BadNode = "bad"
PickyNode = "picky"
MaxCrash = 1
MaxLate = 1
MaxRival = 1
UpdateStartup = TRUE
Requests <- MCRequests
FollowUps <- MCFollowUps
SocketConf <- MCSockets
MaxConns = 3
MaxRequests = 2
MaxFails = 2
Http2Plain = TRUE
XpTrees <- MCXpTrees
XpExprs <- MCXpExprs
XpContexts <- MCXpContexts
XpModules <- MCNModule
XpPrefixes <- MCXpPrefix
XpNames <- MCXpName
CHECK_DEADLOCK FALSE
SYMMETRY Sym
PROPERTIES IncrementalIsFull   
INVARIANTS TreeSorted ReloadSame     
