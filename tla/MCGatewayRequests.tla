-------------------------- MODULE MCGatewayRequests --------------------------
(***************************************************************************)
(* What the handlers of the gateway do for their callers, for TLC: the     *)
(* chain of an HTTP call (HttpChain) and of a gRPC call (GrpcChain), and   *)
(* three proxies behind them (UnifiedSearch, StorageUploads, Preferences). *)
(* The five share no state, so a behaviour is one of any of them: "part"   *)
(* says of which, and the others stand still.                              *)
(***************************************************************************)
EXTENDS HttpChain, GrpcChain, UnifiedSearch, StorageUploads, Preferences

CONSTANTS me, ann, ben

\* The directories of auth-service: with the caller, and with a full page
\* more, or less, than the others.
MCDirectories == {<<ann, me, ben>>, <<me, ben>>, <<ben>>}

VARIABLE part

requestVars == <<chainVars, grpcVars, searchVars, storageVars, preferencesVars>>

\* Initial states that differ in a part that stands still are left out, and
\* only ben, whom every directory has, is saved more than once.
RequestsInit ==
  /\ part \in {"http", "grpc", "search", "storage", "preferences"}
  /\ ChainInit /\ GrpcInit /\ SearchInit /\ StorageInit /\ PreferencesInit
  /\ part # "search" => directory = <<ben>> /\ Saved \cup members \cup payable = {}
  /\ \A p \in People : saved[p] > 1 => p = ben
  /\ part # "storage" => backend = "local" /\ publicStorage
  /\ part # "preferences" => \A e \in Entries : stored[e]
  /\ part # "http" => request.token = "good"

RequestsNext ==
  /\ part' = part
  /\ \/ /\ part = "http" /\ ChainNext
        /\ UNCHANGED <<grpcVars, searchVars, storageVars, preferencesVars>>
     \/ /\ part = "grpc" /\ GrpcNext
        /\ UNCHANGED <<chainVars, searchVars, storageVars, preferencesVars>>
     \/ /\ part = "search" /\ SearchNext
        /\ UNCHANGED <<chainVars, grpcVars, storageVars, preferencesVars>>
     \/ /\ part = "storage" /\ StorageNext
        /\ UNCHANGED <<chainVars, grpcVars, searchVars, preferencesVars>>
     \/ /\ part = "preferences" /\ PreferencesNext
        /\ UNCHANGED <<chainVars, grpcVars, searchVars, storageVars>>

RequestsSpec == RequestsInit /\ [][RequestsNext]_<<part, requestVars>>

\* The inductive invariants of the five parts, their types among them: a call
\* past the authentication is its caller's (interceptors/auth.go:14-53), a
\* record about to be written is the one read or empty
\* (user_proxy.go:215-228), the pages of a search lie apart
\* (unified_search_proxy.go:396), and every object has a name of its own
\* (storage_proxy.go:485-511).
RequestsInv == HttpInv /\ GrpcInv /\ SearchInv /\ StorageInv /\ PreferencesInv
=============================================================================
