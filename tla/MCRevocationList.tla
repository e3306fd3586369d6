-------------------------- MODULE MCRevocationList --------------------------
(***************************************************************************)
(* Values of the constants of RevocationList for TLC.                      *)
(***************************************************************************)
EXTENDS RevocationList

HttpCall(s, r) == [session |-> s, transport |-> "HTTP", read |-> r]

\* Reads of view-as-user sessions over HTTP.
Reads == {HttpCall(s, TRUE) : s \in Sessions}

\* And writes, one of them by a token without a jti.
HttpCalls == Reads \cup {HttpCall(s, FALSE) : s \in Sessions \cup {NoJti}}

GrpcCalls ==
  {[session |-> s, transport |-> "GRPC", read |-> r] :
     s \in Sessions \cup {Ordinary}, r \in BOOLEAN}
=============================================================================
