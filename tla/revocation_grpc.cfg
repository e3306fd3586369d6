SPECIFICATION Spec
CONSTANTS
  Handlers = {h1, h2}
  Sessions = {s1}
  NoJti = NoJti
  Ordinary = Ordinary
  Calls <- GrpcCalls
  RevokedTTL = 2
  FetchTimeout = 1
  CacheLife = 2
  NoEntry = NoEntry
  Nobody = Nobody
  MaxTime = 2
INVARIANT ViewAsUserOnlyReads
