SPECIFICATION FilesSpec
CONSTANTS
  Uploads = {}
  Directs = {f1, f2}
  FileRecords = {rec1, rec2}
  Chunks = {1}
  Contents = {"a"}
  Mixed = "mixed"
  Nothing = "nothing"
  Declared = "a"
  ChunkRequests = {w1}
INVARIANTS ReferencedIsOnDisk
CHECK_DEADLOCK FALSE
