-------------------------- MODULE MCResponseCache --------------------------
(***************************************************************************)
(* Values of the constants of ResponseCache for TLC.  There are at most    *)
(* two tokens, one scoping header (X-Currency), one forwarded header       *)
(* outside the key (X-Service-Name) and two paths that share a key.        *)
(***************************************************************************)
EXTENDS ResponseCache, TLC

CONSTANTS t1, t2, alice, bob, currency, serviceName, absent, usd, euro,
          cards, all, points, page

MCValues == {absent, usd, euro}

\* The euro sign is not in the alphabet sanitizeScopeValue keeps.
MCClean == [v \in MCValues |-> IF v = euro THEN absent ELSE v]

MCHeaders == {currency, serviceName}

MCWords == {cards, all, points}

Segment(separator, w) == [sep |-> separator, word |-> w]

\* /cards/all?page, the same with its words in one segment, /all and /points.
catalogue == [path |-> <<Segment("slash", cards), Segment("slash", all)>>,
              query |-> page]
joined    == [path |-> <<Segment("slash", cards), Segment("colon", all)>>,
              query |-> page]
history   == [path |-> <<Segment("slash", all)>>, query |-> NoQuery]
public    == [path |-> <<Segment("slash", points)>>, query |-> NoQuery]

MCPaths   == {catalogue, joined, history, public}
MCSkipped == {history}
MCPublic  == {public}

\* The forwarded headers of a call in one currency.
In(value) == [h \in MCHeaders |-> IF h = currency THEN value ELSE absent]

Get(t, v, p, f) ==
  [method |-> "GET", token |-> t, view |-> v, path |-> p, nonce |-> FALSE,
   fresh |-> f]

Mutate(t, v, n) ==
  [method |-> "MUTATION", token |-> t, view |-> v, path |-> catalogue,
   nonce |-> n, fresh |-> FALSE]

OwnTokens == (t1 :> alice) @@ (t2 :> bob)

\* t1 expires at 2, t2 is not a JWT.
OneExpires == (t1 :> 2) @@ (t2 :> NoExpiry)

\* Reads in two currencies and, with one more header, of another user, and
\* mutations in one currency.
MixedCalls ==
  {Get(t1, In(v), catalogue, FALSE) : v \in {usd, euro}} \cup
  {Get(t2, [In(usd) EXCEPT ![serviceName] = usd], catalogue, FALSE),
   Mutate(t1, In(usd), FALSE)}

\* And refreshes of a path that shares its key with another, reads of a path
\* that is not cached and of a public one without a token.
OneClientCalls ==
  MixedCalls \cup
  {Get(t1, In(usd), joined, TRUE), Get(t1, In(usd), history, FALSE),
   Get(NoToken, In(usd), public, FALSE)}

Interchangeable == Permutations(Handlers)
=============================================================================
