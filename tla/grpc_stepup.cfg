SPECIFICATION GrpcSpec
CONSTANTS
  Accounts = {ann}
  Whitelisted = {}
  Anyone = Anyone
CHECK_DEADLOCK FALSE
INVARIANT PublicCallsPass
