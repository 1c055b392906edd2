------------------------------ MODULE OidcKeys ------------------------------
(***************************************************************************)
(* The signing keys of the OIDC provider as the validator caches them      *)
(* (src/src/mcp_app/oidc.py): requests validate tokens concurrently on one *)
(* event loop, so that steps interleave only where the code awaits, at the *)
(* discovery document, at _jwks_lock and at the answer of the provider,    *)
(* which rotates its keys meanwhile and may fail to answer.                *)
(*                                                                         *)
(* Time is counted in ticks up to Horizon, beyond which ages make no       *)
(* difference.  A token stands for the key id it names; what the signature *)
(* library makes of the key is left out.                                   *)
(***************************************************************************)
EXTENDS Integers

CONSTANTS Validations,  \* the requests with a token
          Kids,         \* the key ids tokens may name
          LastKeySet,   \* the provider's key sets are 1..LastKeySet, in order
          KeySet,       \* KeySet[v]: the usable signing keys of the v-th one
          Lifetime,     \* QI_OIDC_JWKS_CACHE_TTL
          Timeout       \* http_timeout of one fetch

ASSUME OidcKeysAssumption ==
    /\ LastKeySet \in Nat \ {0} /\ KeySet \in [1..LastKeySet -> SUBSET Kids]
    /\ Lifetime \in Nat \ {0} /\ Timeout \in Nat
    /\ "nobody" \notin Validations

VARIABLES provider,  \* the key set the provider publishes
          keys,      \* _jwks; 0 is None
          age,       \* the time since _jwks_fetched_at
          gone,      \* gone[v]: the time since key set v was replaced
          fetcher,   \* the request that holds _jwks_lock
          token      \* token[r]: where request r is, and what it has got

okVars == <<provider, keys, age, gone, fetcher, token>>

NoRequest == "nobody"
NoToken == [at |-> "idle", kid |-> "none", since |-> 0, got |-> 0,
            forced |-> FALSE, waited |-> 0]
Horizon == Lifetime + Timeout + 1
Later(t) == IF t < Horizon THEN t + 1 ELSE t

\* Slip: a cache once filled is never looked at again.
FilledCache == keys # 0

ValidCache == keys # 0 /\ age < Lifetime

OKInit ==
    /\ provider = 1 /\ keys = 0 /\ age = 0
    /\ gone = [v \in 1..LastKeySet |-> 0]
    /\ fetcher = NoRequest
    /\ token = [r \in Validations |-> NoToken]

(* _resolve_key with the set it has got: accept, refresh once, give up.    *)
Looked(t, v) ==
    IF t.kid \in KeySet[v] THEN [t EXCEPT !.at = "accepted", !.got = v]
    ELSE IF t.forced THEN [t EXCEPT !.at = "rejected", !.got = v]
    ELSE [t EXCEPT !.at = "discovery", !.got = 0, !.forced = TRUE]

\* A request comes in; a valid cache is used without awaiting anything.
ReceiveToken(r) ==
    /\ token[r].at = "idle"
    /\ \E kid \in Kids :
         LET t == [NoToken EXCEPT !.at = "discovery", !.kid = kid, !.since = provider]
         IN token' = [token EXCEPT ![r] = IF ValidCache THEN Looked(t, keys) ELSE t]
    /\ UNCHANGED <<provider, keys, age, gone, fetcher>>

\* _get_discovery, from its own cache or from the provider.
Discover(r) ==
    /\ token[r].at = "discovery"
    /\ token' = [token EXCEPT ![r].at = "waiting"]
    /\ UNCHANGED <<provider, keys, age, gone, fetcher>>

(* async with self._jwks_lock: somebody may have fetched meanwhile, which  *)
(* is good enough unless this is the refresh for an unknown key.           *)
UseFetched(r) ==
    /\ token[r].at = "waiting" /\ fetcher = NoRequest
    /\ ~token[r].forced /\ ValidCache
    /\ token' = [token EXCEPT ![r] = Looked(token[r], keys)]
    /\ UNCHANGED <<provider, keys, age, gone, fetcher>>

\* Slip: the refresh for an unknown key makes do with any valid cache.
FetchUnlessValid(r) ==
    /\ token[r].at = "waiting" /\ fetcher = NoRequest
    /\ fetcher' = IF ValidCache THEN NoRequest ELSE r
    /\ token' = [token EXCEPT ![r] = IF ValidCache THEN Looked(token[r], keys)
                                     ELSE [token[r] EXCEPT !.at = "fetching"]]
    /\ UNCHANGED <<provider, keys, age, gone>>

Fetch(r) ==
    /\ token[r].at = "waiting" /\ fetcher = NoRequest
    /\ token[r].forced \/ ~ValidCache
    /\ fetcher' = r
    /\ token' = [token EXCEPT ![r].at = "fetching"]
    /\ UNCHANGED <<provider, keys, age, gone>>

\* The provider reads its key set; the answer is on its way from now on.
Publish(r) ==
    /\ token[r].at = "fetching"
    /\ token' = [token EXCEPT ![r].at = "answered", ![r].got = provider,
                              ![r].waited = 0]
    /\ UNCHANGED <<provider, keys, age, gone, fetcher>>

StoreKeys(r) ==
    /\ token[r].at = "answered"
    /\ keys' = token[r].got /\ age' = 0
    /\ fetcher' = NoRequest
    /\ token' = [token EXCEPT ![r] = Looked(token[r], token[r].got)]
    /\ UNCHANGED <<provider, gone>>

\* A network error, a status of 400 or more, a timeout: the cache stays.
FetchFails(r) ==
    /\ token[r].at \in {"discovery", "fetching", "answered"}
    /\ fetcher' = IF fetcher = r THEN NoRequest ELSE fetcher
    /\ token' = [token EXCEPT ![r] = NoToken]
    /\ UNCHANGED <<provider, keys, age, gone>>

Respond(r) ==
    /\ token[r].at \in {"accepted", "rejected"}
    /\ token' = [token EXCEPT ![r] = NoToken]
    /\ UNCHANGED <<provider, keys, age, gone, fetcher>>

Rotate ==
    /\ provider < LastKeySet
    /\ provider' = provider + 1
    /\ UNCHANGED <<keys, age, gone, fetcher, token>>

\* No answer is waited for beyond the timeout.
Elapse ==
    /\ \A r \in Validations : token[r].at = "answered" => token[r].waited < Timeout
    /\ age' = Later(age)
    /\ gone' = [v \in 1..LastKeySet |-> IF v < provider THEN Later(gone[v]) ELSE 0]
    /\ token' = [r \in Validations |->
                    IF token[r].at = "answered"
                    THEN [token[r] EXCEPT !.waited = @ + 1] ELSE token[r]]
    /\ UNCHANGED <<provider, keys, fetcher>>

OKNext ==
    \/ Rotate \/ Elapse
    \/ \E r \in Validations : \/ ReceiveToken(r) \/ Discover(r) \/ UseFetched(r)
                              \/ Fetch(r) \/ Publish(r) \/ StoreKeys(r)
                              \/ FetchFails(r) \/ Respond(r)
OKSpec == OKInit /\ [][OKNext]_okVars

-----------------------------------------------------------------------------
OKTypeOK ==
    /\ provider \in 1..LastKeySet /\ keys \in 0..provider
    /\ age \in 0..Horizon /\ gone \in [1..LastKeySet -> 0..Horizon]
    /\ fetcher \in Validations \cup {NoRequest}
    /\ \A r \in Validations :
         fetcher = r <=> token[r].at \in {"fetching", "answered"}

(* A key the provider has withdrawn is not accepted from the cache for     *)
(* longer than the lifetime, and the time one answer may take, however the *)
(* refreshes of other requests fall; a cache that is in use is that young  *)
(* (oidc.py:3-4 and 166-180).                                              *)
WithdrawnKeysExpire ==
    ValidCache => gone[keys] < Lifetime + Timeout

(* A token is turned away only if its key was not published at some moment *)
(* of the call: after a rotation the refresh asks the provider itself, and *)
(* what another request has cached meanwhile does not stand in for it      *)
(* (oidc.py:3-4, "an unknown kid triggers exactly one refresh before       *)
(* failing").                                                              *)
RejectedKeyWasMissing ==
    \A r \in Validations : token[r].at = "rejected" =>
        \E v \in token[r].since..provider : token[r].kid \notin KeySet[v]
=============================================================================
