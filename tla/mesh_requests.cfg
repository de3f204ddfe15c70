CONSTANTS
  r1 = r1
  r2 = r2
  daemon = daemon
  peer = peer
  Requests <- TwoRequests
  Daemon = daemon
  Peers <- OnePeer
  Sold = {"indie", "team"}
  Edited = {"team"}
SPECIFICATION MeshFairSpec
INVARIANTS MeshSettles MeshWasLicensed
PROPERTY MeshTasksEnd
