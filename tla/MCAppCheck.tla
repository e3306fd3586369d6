----------------------------- MODULE MCAppCheck -----------------------------
(***************************************************************************)
(* Values of the constants of AppCheck for TLC: a phone that logs in from  *)
(* the genuine app, which attaches its App Check token to logins only      *)
(* (appcheck.go:38-41), or from something else.                            *)
(***************************************************************************)
EXTENDS AppCheck, TLC

CONSTANTS phone, misspelt

By(method, attested) ==
  [device |-> phone, method |-> method, attested |-> attested]

LoginCalls ==
  {By("Login", TRUE), By("Login", FALSE), By("VerifyLoginOtp", FALSE)}

Interchangeable == Permutations(Handlers)
=============================================================================
