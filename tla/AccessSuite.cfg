SPECIFICATION AccessSpec
CONSTANTS
  Session = {b1, b2}
  Request = {a1, a2}
  RefreshTtl = 2
  AccessTtl = 1
  MaxTime = 2
  MaxTokens = 3
  MaxAdmin = 1
  Key = {k1, k2}
  Caller = {c1}
  SecretKeys = {k1}
  CacheTtl = 1
  MaxKeyClock = 2
  UserId = {b1, b2}
  Email = {e1, e2}
  Subject = {p1}
  Actor = {a1, a2}
  Flow = {f1}
  MaxFails = 1
  MaxStarts = 3
  User = {u1, u2}
  Team = {t1, t2}
  RowId = {i1}
  Me = u1
  Named = {t1}
  Client = {c1}
  GrantAdmin = {g1}
  MaxGrants = 2
  MaxMoves = 1
  Conn = {"c1", "c2"}
  Requests <- HttpRequests
  MaxHttp = 1
  ByteLimit = 2
  MaxBody = 1
  AuthWorkers = 1
  MaxStudio = 1
  SessionTtl = 1
  MaxHttpClock = 3
  MaxIssued = 2
  Peer = {"p1", "p2"}
  Pipelines <- RespPipelines
  MaxResp = 2
  RequestBytes = 5
  MaxQueued = 1
  MaxWatched = 1
  SubCapacity = 2
  MaxSubs = 2
  MaxBlocked = 1
  MaxReads = 2
  MaxBulkLen = 40
  MaxArrayLen = 2
  Socket = {s1, s2}
  Incremental = {s1}
  Writer = {w1}
  LivePk = {1}
  QueueCap = 1
  OverflowCap = 1
  ReceiverCap = 1
  MaxChanges = 2
  MaxNoBudget = 1
  PushToken = {b1, b2}
  Sender = {a1, a2}
  MaxPerSubject = 1
  MaxOutbox = 1
  MaxAttempts = 2
  MaxDead = 1
  MaxSends = 2
  MaxPushFaults = 1
SYMMETRY AccessSymmetry
INVARIANTS
  AccessTypeOK
  AccountsSound
  HttpSound
  RespSound
  LiveSound
PROPERTIES
  SessionsSound
  ApiKeysSound
  GrantsSound
  PushSound
CHECK_DEADLOCK FALSE
