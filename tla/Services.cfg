SPECIFICATION Spec
CONSTANTS
  Query <- Queries
  Gateway = {"g1", "g2"}
  MaxOutages = 2
  Worker = {"w1", "w2"}
  Key = {"k"}
  Value = {"v1", "v2"}
  Default <- Defaults
  MaxChanges = 2
  MaxRestarts = 1
  MaxLoads = 2
  Command = {"c1", "c2"}
  MaxDbOutages = 2
  MaxRefusals = 1
  Ip = {"i1", "i2"}
  lookup <- Pool
  MaxProbes = 2
  MaxFlips = 2
  Process = {"w1", "w2"}
  Incoming <- Requests
  HashFiles <- Hashes
  MaxAnswers = 1
  MaxDeaths = 1
INVARIANTS ServicesTypeOK ResultIsTrue NoOrphan
PROPERTIES WorkerRecovers WorkersConverge PoolFailsOver ClusterRecovers
CHECK_DEADLOCK FALSE
