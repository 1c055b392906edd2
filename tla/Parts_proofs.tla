---------------------------- MODULE Parts_proofs ----------------------------
(***************************************************************************)
(* What the two caches of the service promise, for any number of readers   *)
(* and versions: the secret store's cache of secrets.yaml and the token    *)
(* validator's cache of the provider's signing keys.  And what reloads of  *)
(* the catalog leave in the scheduler, and that none loses a connection    *)
(* unnoticed, for any jobs, edits and requests;                            *)
(* what restarts do to a schedule, what deletions of a job leave, which    *)
(* jobs of a catalog run beside each other, what a sync lets a run give    *)
(* up, that every part is well typed, its locks with their one owner, and  *)
(* that the scan and rclone read plain patterns alike.                     *)
(***************************************************************************)
EXTENDS SecretStore, OidcKeys, CatalogReload, StartupCatchUp, OrphanDeletion,
        CatalogRules, SourceSync, Filters, PartsTypes, EmbedLimiter_proofs, RunHistory_proofs,
        WellFoundedInduction, TLAPS

-----------------------------------------------------------------------------
(* SecretStore.  What a signature stands for is the values of its version  *)
(* or of a later one; a lookup's signature is that of the version it saw.  *)
AllValues == {<<>>} \cup {Values(v) : v \in 1..LastSecrets}
CacheType == [loaded : BOOLEAN, signature : Nat, values : AllValues]
LookupType ==
    [at : {"idle", "waiting", "locked", "read", "answered"},
     name : SecretNames \cup {Missing}, since : Nat, signature : Nat,
     values : AllValues]

SSTypes ==
    /\ file \in 1..LastSecrets
    /\ cached \in CacheType
    /\ lookup \in [Lookups -> LookupType]

\* The values of some version from `from' on, and none when there was no file.
From(from, signature, values) ==
    /\ \E v \in from..file : values = Values(v)
    /\ signature = 0 => values = <<>>

CachedFrom ==
    cached.loaded =>
        IF cached.signature = 0 THEN cached.values = <<>>
        ELSE \E v \in cached.signature..file : cached.values = Values(v)
SeenFrom(l) ==
    lookup[l].at # "idle" => /\ lookup[l].since \in 1..file
                             /\ lookup[l].signature = Signature(lookup[l].since)
ReadFrom(l) ==
    lookup[l].at \in {"read", "answered"} =>
        From(lookup[l].since, lookup[l].signature, lookup[l].values)

SSInv == SSTypes /\ CachedFrom /\ \A l \in Lookups : SeenFrom(l) /\ ReadFrom(l)

LEMMA SSInitInv == SSInit => SSInv
<1> SUFFICES ASSUME SSInit PROVE SSInv OBVIOUS
<1>1. file = 1 /\ 1 \in 1..LastSecrets BY SecretStoreAssumption DEF SSInit
<1>2. cached \in CacheType /\ ~cached.loaded
  BY DEF SSInit, CacheType, AllValues
<1>3. NoLookup \in LookupType /\ NoLookup.at = "idle"
  BY DEF NoLookup, LookupType, AllValues
<1>4. \A l \in Lookups : lookup[l] = NoLookup BY DEF SSInit
<1>5. lookup \in [Lookups -> LookupType] BY <1>3 DEF SSInit
<1> QED BY <1>1, <1>2, <1>3, <1>4, <1>5 DEF SSInv, SSTypes, CachedFrom, SeenFrom, ReadFrom

\* A lookup's signature is 0 when there was no file, and else its version.
LEMMA SeenSignature ==
    ASSUME SSInv, NEW l \in Lookups, lookup[l].at # "idle"
    PROVE  /\ lookup[l].since \in 1..file /\ file \in 1..LastSecrets
           /\ lookup[l].signature = 0 => Values(lookup[l].since) = <<>>
           /\ lookup[l].signature # 0 => lookup[l].signature = lookup[l].since
  BY DEF SSInv, SSTypes, SeenFrom, Signature, Values

\* The file gets newer; what was of a version before is so still.
LEMMA ReplaceInv == SSInv /\ Replace => SSInv'
<1> SUFFICES ASSUME SSInv, Replace PROVE SSInv' OBVIOUS
<1>1. /\ file \in Nat /\ file' = file + 1 /\ file' \in 1..LastSecrets
      /\ cached' = cached /\ lookup' = lookup
  BY SecretStoreAssumption DEF Replace, SSInv, SSTypes
<1>2. \A n \in Nat : n..file \subseteq n..file' BY <1>1
<1>3. SSTypes' BY <1>1 DEF SSInv, SSTypes
<1>4. CachedFrom'
  <2>1. CASE cached.loaded /\ cached.signature # 0
    <3>1. cached.signature \in Nat BY DEF SSInv, SSTypes, CacheType
    <3>2. \E v \in cached.signature..file : cached.values = Values(v)
      BY <2>1 DEF SSInv, CachedFrom
    <3> QED BY <1>1, <1>2, <2>1, <3>1, <3>2 DEF CachedFrom
  <2>2. CASE ~(cached.loaded /\ cached.signature # 0)
    BY <1>1, <2>2 DEF SSInv, CachedFrom
  <2> QED BY <2>1, <2>2
<1>5. ASSUME NEW l \in Lookups PROVE (SeenFrom(l) /\ ReadFrom(l))'
  <2>1. lookup[l].since \in Nat BY DEF SSInv, SSTypes, LookupType
  <2>2. SeenFrom(l)' BY <1>1, <1>2, <2>1 DEF SSInv, SeenFrom
  <2>3. ReadFrom(l)'
    <3>1. lookup[l].since..file \subseteq lookup[l].since..file' BY <1>2, <2>1
    <3> QED BY <1>1, <3>1 DEF SSInv, ReadFrom, From
  <2> QED BY <2>2, <2>3
<1> QED BY <1>3, <1>4, <1>5 DEF SSInv

\* What one lookup does, when it is told what becomes of it.
LEMMA LookupMoves ==
    ASSUME SSInv, NEW l \in Lookups, NEW new \in LookupType, file' = file,
           lookup' = [lookup EXCEPT ![l] = new],
           cached' \in CacheType, CachedFrom',
           new.at # "idle" => /\ new.since \in 1..file
                              /\ new.signature = Signature(new.since),
           new.at \in {"read", "answered"} =>
               From(new.since, new.signature, new.values)
    PROVE  SSInv'
<1>1. lookup \in [Lookups -> LookupType] BY DEF SSInv, SSTypes
<1>2. lookup' \in [Lookups -> LookupType] BY <1>1
<1>3. SSTypes' BY <1>2 DEF SSInv, SSTypes
<1>4. ASSUME NEW k \in Lookups PROVE (SeenFrom(k) /\ ReadFrom(k))'
  <2>1. lookup'[k] = IF k = l THEN new ELSE lookup[k] BY <1>1
  <2>2. CASE k = l BY <2>1, <2>2 DEF SeenFrom, ReadFrom, From
  <2>3. CASE k # l BY <2>1, <2>3 DEF SSInv, SeenFrom, ReadFrom, From
  <2> QED BY <2>2, <2>3
<1> QED BY <1>3, <1>4 DEF SSInv

LEMMA CacheStays ==
    ASSUME SSInv, file' = file, cached' = cached
    PROVE  cached' \in CacheType /\ CachedFrom'
  BY DEF SSInv, SSTypes, CachedFrom

LEMMA LookupInv ==
    ASSUME SSInv, NEW l \in Lookups,
           \/ TakeStat(l) \/ TakeLock(l) \/ Hit(l)
           \/ ReadFile(l) \/ Remember(l) \/ Answered(l)
    PROVE  SSInv'
<1>1. /\ lookup \in [Lookups -> LookupType] /\ lookup[l] \in LookupType
      /\ file \in 1..LastSecrets /\ file \in Nat /\ <<>> \in AllValues
      /\ cached \in CacheType
      /\ SeenFrom(l) /\ ReadFrom(l) /\ CachedFrom
  BY SecretStoreAssumption DEF SSInv, SSTypes, AllValues
<1>2. NoLookup \in LookupType /\ NoLookup.at = "idle"
  BY <1>1 DEF NoLookup, LookupType
<1>3. CASE TakeStat(l)
  <2>1. PICK n \in SecretNames :
          lookup' = [lookup EXCEPT ![l] =
                      [NoLookup EXCEPT !.at = "waiting", !.name = n, !.since = file,
                                       !.signature = Signature(file)]]
    BY <1>3 DEF TakeStat
  <2> DEFINE new == [NoLookup EXCEPT !.at = "waiting", !.name = n, !.since = file,
                                     !.signature = Signature(file)]
  <2>2. Signature(file) \in Nat BY <1>1 DEF Signature
  <2>3. /\ new \in LookupType /\ new.at = "waiting" /\ new.since = file
        /\ new.signature = Signature(file)
    BY <1>1, <2>2 DEF NoLookup, LookupType
  <2>4. file' = file /\ cached' = cached BY <1>3 DEF TakeStat
  <2>5. file \in 1..file BY <1>1
  <2>6. lookup' = [lookup EXCEPT ![l] = new] BY <2>1
  <2> HIDE DEF new
  <2> QED BY <2>3, <2>4, <2>5, <2>6, CacheStays, LookupMoves
<1>4. CASE TakeLock(l)
  <2> DEFINE new == [lookup[l] EXCEPT !.at = "locked"]
  <2>1. /\ new \in LookupType /\ new.at = "locked" /\ new.since = lookup[l].since
        /\ new.signature = lookup[l].signature
    BY <1>1 DEF LookupType
  <2>2. /\ lookup[l].at = "waiting" /\ file' = file /\ cached' = cached
        /\ lookup' = [lookup EXCEPT ![l] = new]
    BY <1>4 DEF TakeLock
  <2>3. /\ lookup[l].since \in 1..file
        /\ lookup[l].signature = Signature(lookup[l].since)
    BY <1>1, <2>2 DEF SeenFrom
  <2> HIDE DEF new
  <2> QED BY <2>1, <2>2, <2>3, CacheStays, LookupMoves
<1>5. CASE Hit(l)
  <2> DEFINE new == [lookup[l] EXCEPT !.at = "answered", !.values = cached.values]
  <2>1. /\ new \in LookupType /\ new.at = "answered" /\ new.since = lookup[l].since
        /\ new.signature = lookup[l].signature /\ new.values = cached.values
    BY <1>1 DEF LookupType, CacheType
  <2>2. /\ lookup[l].at = "locked" /\ file' = file /\ cached' = cached
        /\ cached.loaded /\ cached.signature = lookup[l].signature
        /\ lookup' = [lookup EXCEPT ![l] = new]
    BY <1>5 DEF Hit, Known
  <2>3. /\ lookup[l].since \in 1..file
        /\ lookup[l].signature = Signature(lookup[l].since)
    BY <1>1, <2>2 DEF SeenFrom
  <2>4. From(new.since, new.signature, new.values)
    <3>1. CASE lookup[l].signature = 0
      <4>1. cached.values = <<>> BY <1>1, <2>2, <3>1 DEF CachedFrom
      <4>2. Values(lookup[l].since) = <<>> BY <2>2, <3>1, SeenSignature
      <4>3. lookup[l].since \in lookup[l].since..file BY <1>1, <2>3
      <4> QED BY <2>1, <4>1, <4>2, <4>3 DEF From
    <3>2. CASE lookup[l].signature # 0
      <4>1. lookup[l].signature = lookup[l].since BY <2>2, <3>2, SeenSignature
      <4>2. \E v \in lookup[l].since..file : cached.values = Values(v)
        BY <1>1, <2>2, <3>2, <4>1 DEF CachedFrom
      <4> QED BY <2>1, <3>2, <4>2 DEF From
    <3> QED BY <3>1, <3>2
  <2> HIDE DEF new
  <2> QED BY <2>1, <2>2, <2>3, <2>4, CacheStays, LookupMoves
<1>6. CASE ReadFile(l)
  <2> DEFINE got == IF lookup[l].signature = 0 THEN <<>> ELSE Values(file)
             new == [lookup[l] EXCEPT !.at = "read", !.values = got]
  <2>1. got \in AllValues BY <1>1 DEF AllValues
  <2>2. /\ new \in LookupType /\ new.at = "read" /\ new.since = lookup[l].since
        /\ new.signature = lookup[l].signature /\ new.values = got
    BY <1>1, <2>1 DEF LookupType
  <2>3. /\ lookup[l].at = "locked" /\ file' = file /\ cached' = cached
        /\ lookup' = [lookup EXCEPT ![l] = new]
    BY <1>6 DEF ReadFile
  <2>4. /\ lookup[l].since \in 1..file
        /\ lookup[l].signature = Signature(lookup[l].since)
    BY <1>1, <2>3 DEF SeenFrom
  <2>5. From(new.since, new.signature, new.values)
    <3>1. lookup[l].since \in lookup[l].since..file /\ file \in lookup[l].since..file
      BY <1>1, <2>4
    <3>2. CASE lookup[l].signature = 0
      <4>1. Values(lookup[l].since) = <<>> BY <2>3, <3>2, SeenSignature
      <4> QED BY <2>2, <3>1, <3>2, <4>1 DEF From
    <3>3. CASE lookup[l].signature # 0
      <4>1. got = Values(file) BY <3>3
      <4> QED BY <2>2, <3>1, <3>3, <4>1 DEF From
    <3> QED BY <3>2, <3>3
  <2> HIDE DEF new, got
  <2> QED BY <2>2, <2>3, <2>4, <2>5, CacheStays, LookupMoves
<1>7. CASE Remember(l)
  <2> DEFINE new == [lookup[l] EXCEPT !.at = "answered"]
  <2>1. /\ new \in LookupType /\ new.at = "answered" /\ new.since = lookup[l].since
        /\ new.signature = lookup[l].signature /\ new.values = lookup[l].values
    BY <1>1 DEF LookupType
  <2>2. /\ lookup[l].at = "read" /\ file' = file
        /\ cached' = [loaded |-> TRUE, signature |-> lookup[l].signature,
                      values |-> lookup[l].values]
        /\ lookup' = [lookup EXCEPT ![l] = new]
    BY <1>7 DEF Remember
  <2>3. /\ lookup[l].since \in 1..file
        /\ lookup[l].signature = Signature(lookup[l].since)
        /\ From(lookup[l].since, lookup[l].signature, lookup[l].values)
    BY <1>1, <2>2 DEF SeenFrom, ReadFrom
  <2>4. cached' \in CacheType BY <1>1, <2>2 DEF CacheType, LookupType
  <2>5. CachedFrom'
    <3>1. /\ cached'.signature = lookup[l].signature
          /\ cached'.values = lookup[l].values
      BY <2>2
    <3>2. lookup[l].signature # 0 => lookup[l].signature = lookup[l].since
      BY <2>2, SeenSignature
    <3> QED BY <2>2, <2>3, <3>1, <3>2 DEF CachedFrom, From
  <2> HIDE DEF new
  <2> QED BY <2>1, <2>2, <2>3, <2>4, <2>5, LookupMoves
<1>8. CASE Answered(l)
  <2>1. /\ file' = file /\ cached' = cached
        /\ lookup' = [lookup EXCEPT ![l] = NoLookup]
    BY <1>8 DEF Answered
  <2> QED BY <1>2, <2>1, CacheStays, LookupMoves
<1> QED BY <1>3, <1>4, <1>5, <1>6, <1>7, <1>8

LEMMA SSNextInv == SSInv /\ [SSNext]_ssVars => SSInv'
<1> SUFFICES ASSUME SSInv, [SSNext]_ssVars PROVE SSInv' OBVIOUS
<1>1. CASE Replace BY <1>1, ReplaceInv
<1>2. ASSUME NEW l \in Lookups,
             \/ TakeStat(l) \/ TakeLock(l) \/ Hit(l)
             \/ ReadFile(l) \/ Remember(l) \/ Answered(l)
      PROVE SSInv'
  BY <1>2, LookupInv
<1>3. CASE UNCHANGED ssVars
  BY <1>3 DEF ssVars, SSInv, SSTypes, CachedFrom, SeenFrom, ReadFrom, From
<1> QED BY <1>1, <1>2, <1>3 DEF SSNext

(* A lookup answers with a value the file had between its call and its     *)
(* answer, for any number of lookups and replacements                      *)
(* (secret_store.py:186-192).                                              *)
THEOREM LookupsFresh == SSSpec => []LookupsAreFresh
<1>1. SSInv => LookupsAreFresh
  <2> SUFFICES ASSUME SSInv, NEW l \in Lookups, lookup[l].at = "answered"
               PROVE  \E v \in lookup[l].since..file :
                        Resolved(lookup[l].name, lookup[l].values)
                          = Resolved(lookup[l].name, Values(v))
    BY DEF LookupsAreFresh
  <2>1. PICK v \in lookup[l].since..file : lookup[l].values = Values(v)
    BY DEF SSInv, ReadFrom, From
  <2> QED BY <2>1
<1> QED BY SSInitInv, SSNextInv, <1>1, PTL DEF SSSpec

-----------------------------------------------------------------------------
(* OidcKeys.  A cached key set was the provider's when its answer was      *)
(* sent: it has been withdrawn for no longer than it is cached, plus the   *)
(* time the answer may have taken.                                         *)
TokenType ==
    [at : {"idle", "discovery", "waiting", "fetching", "answered",
           "accepted", "rejected"},
     kid : Kids \cup {"none"}, since : Nat, got : Nat, forced : BOOLEAN, waited : Nat]

OKTypes ==
    /\ provider \in 1..LastKeySet /\ keys \in 0..provider /\ age \in Nat
    /\ gone \in [1..LastKeySet -> 0..Horizon]
    /\ token \in [Validations -> TokenType]

PublishedNow == \A v \in 1..LastKeySet : v >= provider => gone[v] = 0
CachedLate == keys # 0 => gone[keys] <= age + Timeout

\* What a token that is underway has seen of the provider.
Seen(t) ==
    /\ t.at # "idle" => t.since \in 1..provider
    /\ t.at = "answered" => /\ t.got \in t.since..provider
                            /\ t.waited <= Timeout /\ gone[t.got] <= t.waited
    /\ t.at = "rejected" => t.got \in t.since..provider /\ t.kid \notin KeySet[t.got]

OKInv ==
    /\ OKTypes /\ PublishedNow /\ CachedLate
    /\ \A r \in Validations : Seen(token[r])

LEMMA HorizonNat ==
    Horizon \in Nat /\ Horizon <= Horizon + Timeout /\ 0 \in 0..Horizon
  BY OidcKeysAssumption DEF Horizon

LEMMA Inner ==
    ASSUME NEW n \in Nat, NEW p \in 1..n, NEW a \in 1..p, NEW g \in a..p
    PROVE  g \in 1..p /\ g \in 1..n
  OBVIOUS

LEMMA OKInitInv == OKInit => OKInv
<1> SUFFICES ASSUME OKInit PROVE OKInv OBVIOUS
<1>1. provider \in 1..LastKeySet /\ keys = 0 /\ keys \in 0..provider /\ age \in Nat
  BY OidcKeysAssumption DEF OKInit
<1>2. /\ gone \in [1..LastKeySet -> 0..Horizon]
      /\ \A v \in 1..LastKeySet : gone[v] = 0
  BY HorizonNat DEF OKInit
<1>3. NoToken \in TokenType /\ NoToken.at = "idle" BY DEF NoToken, TokenType
<1>4. token = [r \in Validations |-> NoToken] BY DEF OKInit
<1>5. token \in [Validations -> TokenType] BY <1>3, <1>4
<1>6. \A r \in Validations : Seen(token[r]) BY <1>3, <1>4 DEF Seen
<1> QED BY <1>1, <1>2, <1>5, <1>6 DEF OKInv, OKTypes, PublishedNow, CachedLate

\* One request gets further while the provider stays as it is.
LEMMA TokenMoves ==
    ASSUME OKInv, NEW r \in Validations, NEW new \in TokenType, Seen(new),
           provider' = provider, gone' = gone,
           keys' \in 0..provider, age' \in Nat, CachedLate',
           token' = [token EXCEPT ![r] = new]
    PROVE  OKInv'
<1>1. token \in [Validations -> TokenType] BY DEF OKInv, OKTypes
<1>2. token' \in [Validations -> TokenType] BY <1>1
<1>3. OKTypes' /\ PublishedNow' BY <1>2 DEF OKInv, OKTypes, PublishedNow, Horizon
<1>4. ASSUME NEW q \in Validations PROVE Seen(token[q])'
  <2>1. token'[q] = IF q = r THEN new ELSE token[q] BY <1>1
  <2>2. CASE q = r BY <2>1, <2>2 DEF Seen
  <2>3. CASE q # r BY <2>1, <2>3 DEF OKInv, Seen
  <2> QED BY <2>2, <2>3
<1> QED BY <1>3, <1>4 DEF OKInv

LEMMA KeysStay ==
    ASSUME OKInv, keys' = keys, age' = age, gone' = gone
    PROVE  keys' \in 0..provider /\ age' \in Nat /\ CachedLate'
  BY DEF OKInv, OKTypes, CachedLate

\* A look at a key set the provider had since the request came in.
LEMMA LookedSeen ==
    ASSUME OKInv, NEW t \in TokenType, t.since \in 1..provider, NEW v \in 1..provider,
           t.forced => v \in t.since..provider
    PROVE  Looked(t, v) \in TokenType /\ Seen(Looked(t, v))
<1>1. v \in Nat /\ 0 \in Nat BY OidcKeysAssumption DEF OKInv, OKTypes
<1>2. CASE t.kid \in KeySet[v]
  <2> DEFINE new == [t EXCEPT !.at = "accepted", !.got = v]
  <2>1. new \in TokenType /\ new.at = "accepted" /\ new.since = t.since
    BY <1>1 DEF TokenType
  <2>2. Looked(t, v) = new BY <1>2 DEF Looked
  <2> HIDE DEF new
  <2> QED BY <2>1, <2>2 DEF Seen
<1>3. CASE t.kid \notin KeySet[v] /\ t.forced
  <2> DEFINE new == [t EXCEPT !.at = "rejected", !.got = v]
  <2>1. /\ new \in TokenType /\ new.at = "rejected" /\ new.since = t.since
        /\ new.got = v /\ new.kid = t.kid
    BY <1>1 DEF TokenType
  <2>2. Looked(t, v) = new BY <1>3 DEF Looked
  <2> HIDE DEF new
  <2> QED BY <1>3, <2>1, <2>2 DEF Seen
<1>4. CASE t.kid \notin KeySet[v] /\ ~t.forced
  <2> DEFINE new == [t EXCEPT !.at = "discovery", !.got = 0, !.forced = TRUE]
  <2>1. new \in TokenType /\ new.at = "discovery" /\ new.since = t.since
    BY <1>1 DEF TokenType
  <2>2. Looked(t, v) = new BY <1>4 DEF Looked
  <2> HIDE DEF new
  <2> QED BY <2>1, <2>2 DEF Seen
<1> QED BY <1>2, <1>3, <1>4

LEMMA RequestInv ==
    ASSUME OKInv, NEW r \in Validations,
           \/ ReceiveToken(r) \/ Discover(r) \/ UseFetched(r) \/ Fetch(r)
           \/ Publish(r) \/ StoreKeys(r) \/ FetchFails(r) \/ Respond(r)
    PROVE  OKInv'
<1>1. /\ token \in [Validations -> TokenType] /\ token[r] \in TokenType
      /\ Seen(token[r]) /\ provider \in 1..LastKeySet /\ provider \in Nat
      /\ keys \in 0..provider /\ gone \in [1..LastKeySet -> 0..Horizon]
  BY OidcKeysAssumption DEF OKInv, OKTypes
<1>2. NoToken \in TokenType /\ Seen(NoToken) BY DEF NoToken, TokenType, Seen
<1>3. ValidCache => keys \in 1..provider BY <1>1 DEF ValidCache
<1>4. CASE ReceiveToken(r)
  <2>1. PICK kid \in Kids :
          LET t == [NoToken EXCEPT !.at = "discovery", !.kid = kid, !.since = provider]
          IN token' = [token EXCEPT ![r] = IF ValidCache THEN Looked(t, keys) ELSE t]
    BY <1>4 DEF ReceiveToken
  <2> DEFINE t == [NoToken EXCEPT !.at = "discovery", !.kid = kid, !.since = provider]
             new == IF ValidCache THEN Looked(t, keys) ELSE t
  <2>2. /\ t \in TokenType /\ t.at = "discovery" /\ t.since = provider /\ ~t.forced
    BY <1>1 DEF NoToken, TokenType
  <2>3. token' = [token EXCEPT ![r] = new] BY <2>1
  <2>4. t.since \in 1..provider BY <1>1, <2>2
  <2> HIDE DEF t
  <2>5. new \in TokenType /\ Seen(new)
    <3>1. CASE ValidCache BY <1>3, <2>2, <2>4, <3>1, LookedSeen
    <3>2. CASE ~ValidCache BY <2>2, <2>4, <3>2 DEF Seen
    <3> QED BY <3>1, <3>2
  <2>6. provider' = provider /\ gone' = gone /\ keys' = keys /\ age' = age
    BY <1>4 DEF ReceiveToken
  <2> HIDE DEF new
  <2> QED BY <2>3, <2>5, <2>6, KeysStay, TokenMoves
<1>5. CASE Discover(r)
  <2> DEFINE new == [token[r] EXCEPT !.at = "waiting"]
  <2>1. new \in TokenType /\ new.at = "waiting" /\ new.since = token[r].since
    BY <1>1 DEF TokenType
  <2>2. /\ token[r].at = "discovery" /\ token' = [token EXCEPT ![r] = new]
        /\ provider' = provider /\ gone' = gone /\ keys' = keys /\ age' = age
    BY <1>5 DEF Discover
  <2> HIDE DEF new
  <2>3. Seen(new) BY <1>1, <2>1, <2>2 DEF Seen
  <2> QED BY <2>1, <2>2, <2>3, KeysStay, TokenMoves
<1>6. CASE UseFetched(r)
  <2> DEFINE new == Looked(token[r], keys)
  <2>1. /\ token[r].at = "waiting" /\ ~token[r].forced /\ ValidCache
        /\ token' = [token EXCEPT ![r] = new]
        /\ provider' = provider /\ gone' = gone /\ keys' = keys /\ age' = age
    BY <1>6 DEF UseFetched
  <2>2. token[r].since \in 1..provider BY <1>1, <2>1 DEF Seen
  <2>3. new \in TokenType /\ Seen(new) BY <1>1, <1>3, <2>1, <2>2, LookedSeen
  <2> HIDE DEF new
  <2> QED BY <2>1, <2>3, KeysStay, TokenMoves
<1>7. CASE Fetch(r)
  <2> DEFINE new == [token[r] EXCEPT !.at = "fetching"]
  <2>1. new \in TokenType /\ new.at = "fetching" /\ new.since = token[r].since
    BY <1>1 DEF TokenType
  <2>2. /\ token[r].at = "waiting" /\ token' = [token EXCEPT ![r] = new]
        /\ provider' = provider /\ gone' = gone /\ keys' = keys /\ age' = age
    BY <1>7 DEF Fetch
  <2> HIDE DEF new
  <2>3. Seen(new) BY <1>1, <2>1, <2>2 DEF Seen
  <2> QED BY <2>1, <2>2, <2>3, KeysStay, TokenMoves
<1>8. CASE Publish(r)
  <2> DEFINE new == [token[r] EXCEPT !.at = "answered", !.got = provider, !.waited = 0]
  <2>1. /\ new \in TokenType /\ new.at = "answered" /\ new.since = token[r].since
        /\ new.got = provider /\ new.waited = 0
    BY <1>1 DEF TokenType
  <2>2. /\ token[r].at = "fetching" /\ token' = [token EXCEPT ![r] = new]
        /\ provider' = provider /\ gone' = gone /\ keys' = keys /\ age' = age
    BY <1>8 DEF Publish
  <2> HIDE DEF new
  <2>3. gone[provider] = 0 BY <1>1 DEF OKInv, PublishedNow
  <2>4. token[r].since \in 1..provider BY <1>1, <2>2 DEF Seen
  <2>5. Seen(new) BY <1>1, <2>1, <2>3, <2>4, OidcKeysAssumption DEF Seen
  <2> QED BY <2>1, <2>2, <2>5, KeysStay, TokenMoves
<1>9. CASE StoreKeys(r)
  <2> DEFINE new == Looked(token[r], token[r].got)
  <2>1. /\ token[r].at = "answered" /\ token' = [token EXCEPT ![r] = new]
        /\ provider' = provider /\ gone' = gone
        /\ keys' = token[r].got /\ age' = 0
    BY <1>9 DEF StoreKeys
  <2>2. /\ token[r].since \in 1..provider /\ token[r].got \in token[r].since..provider
        /\ token[r].waited <= Timeout /\ gone[token[r].got] <= token[r].waited
    BY <1>1, <2>1 DEF Seen
  <2>3. token[r].got \in 1..provider /\ token[r].got \in 1..LastKeySet
    <3>1. LastKeySet \in Nat BY OidcKeysAssumption
    <3> QED BY <1>1, <2>2, <3>1, Inner
  <2>4. new \in TokenType /\ Seen(new) BY <1>1, <2>2, <2>3, LookedSeen
  <2>5. keys' \in 0..provider /\ age' \in Nat BY <2>1, <2>3
  <2>6. CachedLate'
    <3>1. gone[token[r].got] \in Nat /\ token[r].waited \in Nat
      BY <1>1, <2>3, HorizonNat DEF TokenType
    <3>2. gone[token[r].got] <= 0 + Timeout BY <2>2, <3>1, OidcKeysAssumption
    <3> QED BY <2>1, <3>2 DEF CachedLate
  <2> HIDE DEF new
  <2> QED BY <2>1, <2>4, <2>5, <2>6, TokenMoves
<1>10. CASE FetchFails(r) \/ Respond(r)
  <2>1. /\ token' = [token EXCEPT ![r] = NoToken]
        /\ provider' = provider /\ gone' = gone /\ keys' = keys /\ age' = age
    BY <1>10 DEF FetchFails, Respond
  <2> QED BY <1>2, <2>1, KeysStay, TokenMoves
<1> QED BY <1>4, <1>5, <1>6, <1>7, <1>8, <1>9, <1>10

LEMMA RotateInv == OKInv /\ Rotate => OKInv'
<1> SUFFICES ASSUME OKInv, Rotate PROVE OKInv' OBVIOUS
<1>1. /\ provider \in Nat /\ provider' = provider + 1 /\ provider' \in 1..LastKeySet
      /\ keys' = keys /\ age' = age /\ gone' = gone /\ token' = token
  BY OidcKeysAssumption DEF Rotate, OKInv, OKTypes
<1>2. \A n \in Nat : n..provider \subseteq n..provider' BY <1>1
<1>3. OKTypes' BY <1>1, <1>2 DEF OKInv, OKTypes, Horizon
<1>4. PublishedNow' /\ CachedLate' BY <1>1 DEF OKInv, PublishedNow, CachedLate
<1>5. ASSUME NEW r \in Validations PROVE Seen(token[r])'
  <2>1. token[r].since \in Nat BY DEF OKInv, OKTypes, TokenType
  <2>2. /\ 1..provider \subseteq 1..provider'
        /\ token[r].since..provider \subseteq token[r].since..provider'
    BY <1>2, <2>1
  <2> QED BY <1>1, <2>2 DEF OKInv, Seen
<1> QED BY <1>3, <1>4, <1>5 DEF OKInv

\* The cache grows older with the keys it holds, up to the horizon of both.
LEMMA ElapseInv == OKInv /\ Elapse => OKInv'
<1> SUFFICES ASSUME OKInv, Elapse PROVE OKInv' OBVIOUS
<1>1. /\ provider' = provider /\ keys' = keys /\ age' = Later(age)
      /\ provider \in 1..LastKeySet /\ provider \in Nat /\ keys \in 0..provider
      /\ age \in Nat /\ gone \in [1..LastKeySet -> 0..Horizon]
      /\ token \in [Validations -> TokenType]
  BY OidcKeysAssumption DEF Elapse, OKInv, OKTypes
<1>2. Horizon \in Nat /\ Timeout \in Nat /\ LastKeySet \in Nat
  BY HorizonNat, OidcKeysAssumption
<1>3. gone' = [v \in 1..LastKeySet |-> IF v < provider THEN Later(gone[v]) ELSE 0]
  BY DEF Elapse
<1>4. \A v \in 1..LastKeySet :
        /\ gone[v] \in 0..Horizon /\ gone'[v] \in 0..Horizon
        /\ gone'[v] <= gone[v] + 1
        /\ v >= provider => gone'[v] = 0
  BY <1>1, <1>2, <1>3 DEF Later
<1>5. age' \in Nat /\ (age' = age + 1 \/ age' >= Horizon) BY <1>1, <1>2 DEF Later
<1>6. \A r \in Validations :
        token'[r] = IF token[r].at = "answered"
                    THEN [token[r] EXCEPT !.waited = @ + 1] ELSE token[r]
  BY DEF Elapse
<1>7. ASSUME NEW r \in Validations PROVE token'[r] \in TokenType /\ Seen(token[r])'
  <2>1. token[r] \in TokenType /\ Seen(token[r]) BY <1>1 DEF OKInv
  <2>2. CASE token[r].at = "answered"
    <3> DEFINE new == [token[r] EXCEPT !.waited = @ + 1]
    <3>1. /\ new \in TokenType /\ new.at = "answered" /\ new.since = token[r].since
          /\ new.got = token[r].got /\ new.waited = token[r].waited + 1
          /\ token[r].waited \in Nat /\ token[r].since \in Nat
      BY <2>1, <2>2 DEF TokenType
    <3>2. token'[r] = new BY <1>6, <2>2
    <3>3. token[r].waited < Timeout BY <2>2 DEF Elapse
    <3>4. /\ token[r].since \in 1..provider
          /\ token[r].got \in token[r].since..provider
          /\ gone[token[r].got] <= token[r].waited
      BY <2>1, <2>2 DEF Seen
    <3>5. token[r].got \in 1..LastKeySet BY <1>1, <1>2, <3>4, Inner
    <3>6. gone'[token[r].got] <= token[r].waited + 1
      <4> DEFINE g == token[r].got
      <4>1. /\ gone[g] \in 0..Horizon /\ gone'[g] \in 0..Horizon
            /\ gone'[g] <= gone[g] + 1 /\ gone[g] <= token[r].waited
        BY <1>4, <3>4, <3>5
      <4> HIDE DEF g
      <4>2. gone'[g] <= token[r].waited + 1 BY <1>2, <3>1, <4>1
      <4> QED BY <4>2 DEF g
    <3>7. token[r].waited + 1 <= Timeout BY <1>2, <3>1, <3>3
    <3> HIDE DEF new
    <3>8. Seen(token[r])' BY <1>1, <3>1, <3>2, <3>4, <3>6, <3>7 DEF Seen
    <3> QED BY <3>1, <3>2, <3>8
  <2>3. CASE token[r].at # "answered"
    <3>1. token'[r] = token[r] BY <1>6, <2>3
    <3> QED BY <1>1, <2>1, <2>3, <3>1 DEF Seen
  <2> QED BY <2>2, <2>3
<1>8. OKTypes'
  <2>1. token' \in [Validations -> TokenType] BY <1>7 DEF Elapse
  <2>2. gone' \in [1..LastKeySet -> 0..Horizon] BY <1>3, <1>4
  <2> QED BY <1>1, <1>5, <2>1, <2>2 DEF OKTypes, Horizon
<1>9. PublishedNow' BY <1>1, <1>4 DEF PublishedNow
<1>10. CachedLate'
  <2> SUFFICES ASSUME keys # 0 PROVE gone'[keys] <= age' + Timeout
    BY <1>1 DEF CachedLate
  <2>1. keys \in 1..provider BY <1>1
  <2>2. keys \in 1..LastKeySet BY <1>1, <1>2, <2>1
  <2>3. gone[keys] <= age + Timeout BY DEF OKInv, CachedLate
  <2>4. /\ gone[keys] \in 0..Horizon /\ gone'[keys] \in 0..Horizon
        /\ gone'[keys] <= gone[keys] + 1
    BY <1>4, <2>2
  <2> QED BY <1>1, <1>2, <1>5, <2>3, <2>4
<1> QED BY <1>7, <1>8, <1>9, <1>10 DEF OKInv

LEMMA OKNextInv == OKInv /\ [OKNext]_okVars => OKInv'
<1> SUFFICES ASSUME OKInv, [OKNext]_okVars PROVE OKInv' OBVIOUS
<1>1. CASE Rotate BY <1>1, RotateInv
<1>2. CASE Elapse BY <1>2, ElapseInv
<1>3. ASSUME NEW r \in Validations,
             \/ ReceiveToken(r) \/ Discover(r) \/ UseFetched(r) \/ Fetch(r)
             \/ Publish(r) \/ StoreKeys(r) \/ FetchFails(r) \/ Respond(r)
      PROVE OKInv'
  BY <1>3, RequestInv
<1>4. CASE UNCHANGED okVars
  BY <1>4 DEF okVars, OKInv, OKTypes, PublishedNow, CachedLate, Seen, Horizon
<1> QED BY <1>1, <1>2, <1>3, <1>4 DEF OKNext

(* A key the provider has withdrawn is not accepted from the cache for     *)
(* longer than its lifetime and the time one answer may take, for any      *)
(* number of requests and rotations (oidc.py:166-180).                     *)
THEOREM WithdrawnExpire == OKSpec => []WithdrawnKeysExpire
<1>1. OKInv => WithdrawnKeysExpire
  <2> SUFFICES ASSUME OKInv, ValidCache PROVE gone[keys] < Lifetime + Timeout
    BY DEF WithdrawnKeysExpire
  <2>1. keys # 0 /\ age < Lifetime /\ gone[keys] <= age + Timeout
    BY DEF ValidCache, OKInv, CachedLate
  <2>2. keys \in 1..LastKeySet /\ gone[keys] \in Nat /\ age \in Nat
    BY <2>1, HorizonNat, OidcKeysAssumption DEF OKInv, OKTypes
  <2> QED BY <2>1, <2>2, OidcKeysAssumption
<1> QED BY OKInitInv, OKNextInv, <1>1, PTL DEF OKSpec

(* A token is turned away only if its key was missing at some moment of    *)
(* the call, for any number of requests and rotations (oidc.py:3-4).       *)
THEOREM RejectionJustified == OKSpec => []RejectedKeyWasMissing
<1>1. OKInv => RejectedKeyWasMissing
  BY DEF OKInv, Seen, RejectedKeyWasMissing
<1> QED BY OKInitInv, OKNextInv, <1>1, PTL DEF OKSpec

-----------------------------------------------------------------------------
(* OidcKeys, the lock.  The request that holds _jwks_lock is the one       *)
(* between sending its fetch and its end.                                  *)
Fetching == {"fetching", "answered"}
OKLock == /\ age \in 0..Horizon /\ fetcher \in Validations \cup {NoRequest}
          /\ \A r \in Validations : fetcher = r <=> token[r].at \in Fetching

\* A look at a key set ends a request or sends it back for the lock.
LEMMA LookedAt ==
    ASSUME NEW t \in TokenType, NEW v PROVE Looked(t, v).at \notin Fetching
<1>1. CASE t.kid \in KeySet[v]
  <2>1. Looked(t, v) = [t EXCEPT !.at = "accepted", !.got = v] BY <1>1 DEF Looked
  <2> QED BY <2>1 DEF TokenType, Fetching
<1>2. CASE t.kid \notin KeySet[v] /\ t.forced
  <2>1. Looked(t, v) = [t EXCEPT !.at = "rejected", !.got = v] BY <1>2 DEF Looked
  <2> QED BY <2>1 DEF TokenType, Fetching
<1>3. CASE t.kid \notin KeySet[v] /\ ~t.forced
  <2>1. Looked(t, v) = [t EXCEPT !.at = "discovery", !.got = 0, !.forced = TRUE]
    BY <1>3 DEF Looked
  <2> QED BY <2>1 DEF TokenType, Fetching
<1> QED BY <1>1, <1>2, <1>3

\* A request moves on, and the lock with it.
LEMMA LockMoves ==
    ASSUME OKInv, OKLock, NEW r \in Validations, NEW new,
           token' = [token EXCEPT ![r] = new],
           fetcher' \in Validations \cup {NoRequest},
           fetcher' = r <=> new.at \in Fetching,
           \A q \in Validations : q # r => (fetcher' = q <=> fetcher = q),
           age' \in 0..Horizon
    PROVE  OKLock'
<1>1. token \in [Validations -> TokenType] BY DEF OKInv, OKTypes
<1>2. ASSUME NEW q \in Validations PROVE fetcher' = q <=> token'[q].at \in Fetching
  <2>1. token'[q] = IF q = r THEN new ELSE token[q] BY <1>1
  <2>2. CASE q = r BY <2>1, <2>2
  <2>3. CASE q # r
    <3>1. fetcher = q <=> token[q].at \in Fetching BY DEF OKLock
    <3> QED BY <2>1, <2>3, <3>1
  <2> QED BY <2>2, <2>3
<1> QED BY <1>2 DEF OKLock, Horizon

LEMMA LockStep ==
    ASSUME OKInv, OKLock, NEW r \in Validations,
           \/ ReceiveToken(r) \/ Discover(r) \/ UseFetched(r) \/ Fetch(r)
           \/ Publish(r) \/ StoreKeys(r) \/ FetchFails(r) \/ Respond(r)
    PROVE  OKLock'
<1>1. /\ token[r] \in TokenType /\ NoToken \in TokenType /\ age \in 0..Horizon
      /\ fetcher \in Validations \cup {NoRequest} /\ NoRequest \notin Validations
      /\ fetcher = r <=> token[r].at \in Fetching
  BY OidcKeysAssumption DEF OKInv, OKTypes, OKLock, NoToken, TokenType, NoRequest
<1>2. CASE ReceiveToken(r)
  <2>1. PICK kid \in Kids :
          LET t == [NoToken EXCEPT !.at = "discovery", !.kid = kid, !.since = provider]
          IN token' = [token EXCEPT ![r] = IF ValidCache THEN Looked(t, keys) ELSE t]
    BY <1>2 DEF ReceiveToken
  <2> DEFINE t == [NoToken EXCEPT !.at = "discovery", !.kid = kid, !.since = provider]
             new == IF ValidCache THEN Looked(t, keys) ELSE t
  <2>0. provider \in Nat BY OidcKeysAssumption DEF OKInv, OKTypes
  <2>2. t \in TokenType /\ t.at = "discovery" BY <2>0 DEF NoToken, TokenType
  <2>3. token' = [token EXCEPT ![r] = new] BY <2>1
  <2> HIDE DEF t
  <2>4. new.at \notin Fetching BY <2>2, LookedAt DEF Fetching
  <2>5. fetcher' = fetcher /\ age' = age /\ fetcher # r
    BY <1>1, <1>2 DEF ReceiveToken, Fetching
  <2> HIDE DEF new
  <2> QED BY <1>1, <2>3, <2>4, <2>5, LockMoves
<1>3. CASE Discover(r)
  <2> DEFINE new == [token[r] EXCEPT !.at = "waiting"]
  <2>1. /\ token' = [token EXCEPT ![r] = new] /\ new.at \notin Fetching
        /\ fetcher' = fetcher /\ age' = age /\ fetcher # r
    BY <1>1, <1>3 DEF Discover, Fetching, TokenType
  <2> HIDE DEF new
  <2> QED BY <1>1, <2>1, LockMoves
<1>4. CASE UseFetched(r)
  <2> DEFINE new == Looked(token[r], keys)
  <2>1. /\ token' = [token EXCEPT ![r] = new]
        /\ fetcher' = fetcher /\ age' = age /\ fetcher # r
    BY <1>1, <1>4 DEF UseFetched
  <2>2. new.at \notin Fetching BY <1>1, LookedAt
  <2> HIDE DEF new
  <2> QED BY <1>1, <2>1, <2>2, LockMoves
<1>5. CASE Fetch(r)
  <2> DEFINE new == [token[r] EXCEPT !.at = "fetching"]
  <2>1. /\ token' = [token EXCEPT ![r] = new] /\ new.at \in Fetching
        /\ fetcher' = r /\ age' = age /\ fetcher = NoRequest
    BY <1>1, <1>5 DEF Fetch, Fetching, TokenType
  <2> HIDE DEF new
  <2> QED BY <1>1, <2>1, LockMoves
<1>6. CASE Publish(r)
  <2> DEFINE new == [token[r] EXCEPT !.at = "answered", !.got = provider, !.waited = 0]
  <2>1. /\ token' = [token EXCEPT ![r] = new] /\ new.at \in Fetching
        /\ fetcher' = fetcher /\ age' = age /\ fetcher = r
    BY <1>1, <1>6 DEF Publish, Fetching, TokenType
  <2> HIDE DEF new
  <2> QED BY <1>1, <2>1, LockMoves
<1>7. CASE StoreKeys(r)
  <2> DEFINE new == Looked(token[r], token[r].got)
  <2>1. /\ token' = [token EXCEPT ![r] = new] /\ fetcher = r
        /\ fetcher' = NoRequest /\ age' = 0
    BY <1>1, <1>7 DEF StoreKeys, Fetching
  <2>2. new.at \notin Fetching BY <1>1, LookedAt
  <2>3. age' \in 0..Horizon BY <2>1, HorizonNat
  <2> HIDE DEF new
  <2> QED BY <1>1, <2>1, <2>2, <2>3, LockMoves
<1>8. CASE FetchFails(r) \/ Respond(r)
  <2>1. /\ token' = [token EXCEPT ![r] = NoToken] /\ NoToken.at \notin Fetching
        /\ age' = age
    BY <1>8 DEF FetchFails, Respond, NoToken, Fetching
  <2>2. fetcher' = IF fetcher = r THEN NoRequest ELSE fetcher
    BY <1>1, <1>8 DEF FetchFails, Respond, Fetching
  <2> QED BY <1>1, <2>1, <2>2, LockMoves
<1> QED BY <1>2, <1>3, <1>4, <1>5, <1>6, <1>7, <1>8

LEMMA LockNext == OKInv /\ OKLock /\ [OKNext]_okVars => OKLock'
<1> SUFFICES ASSUME OKInv, OKLock, [OKNext]_okVars PROVE OKLock' OBVIOUS
<1>1. CASE Rotate \/ UNCHANGED okVars
  <2>1. token' = token /\ fetcher' = fetcher /\ age' = age BY <1>1 DEF Rotate, okVars
  <2> QED BY <2>1 DEF OKLock, Horizon
<1>2. CASE Elapse
  <2>1. token \in [Validations -> TokenType] BY DEF OKInv, OKTypes
  <2>2. \A r \in Validations : token'[r].at = token[r].at
    <3> SUFFICES ASSUME NEW r \in Validations PROVE token'[r].at = token[r].at OBVIOUS
    <3>1. token'[r] = IF token[r].at = "answered"
                      THEN [token[r] EXCEPT !.waited = @ + 1] ELSE token[r]
      BY <1>2 DEF Elapse
    <3>2. token[r] \in TokenType BY <2>1
    <3> QED BY <3>1, <3>2 DEF TokenType
  <2>3. age' \in 0..Horizon
    <3>1. age' = Later(age) /\ age \in 0..Horizon BY <1>2 DEF Elapse, OKLock
    <3> QED BY <3>1, HorizonNat DEF Later
  <2>4. fetcher' = fetcher BY <1>2 DEF Elapse
  <2> QED BY <2>2, <2>3, <2>4 DEF OKLock, Horizon
<1>3. CASE \E r \in Validations :
             \/ ReceiveToken(r) \/ Discover(r) \/ UseFetched(r) \/ Fetch(r)
             \/ Publish(r) \/ StoreKeys(r) \/ FetchFails(r) \/ Respond(r)
  BY <1>3, LockStep
<1> QED BY <1>1, <1>2, <1>3 DEF OKNext

(* The key cache is well typed, and _jwks_lock is held by the one request  *)
(* that fetches, from its fetch to the answer or the failure               *)
(* (oidc.py:166-180).                                                      *)
THEOREM KeyCacheTypes == OKSpec => []OKTypeOK
<1>1. OKInit => OKLock
  <2> SUFFICES ASSUME OKInit PROVE OKLock OBVIOUS
  <2>1. age \in 0..Horizon /\ fetcher = NoRequest /\ NoRequest \notin Validations
    BY HorizonNat, OidcKeysAssumption DEF OKInit, NoRequest
  <2>2. \A r \in Validations : token[r].at = "idle" BY DEF OKInit, NoToken
  <2> QED BY <2>1, <2>2 DEF OKLock, Fetching
<1>2. OKInv /\ OKLock => OKTypeOK BY DEF OKInv, OKTypes, OKLock, Fetching, OKTypeOK
<1> QED BY OKInitInv, OKNextInv, LockNext, <1>1, <1>2, PTL DEF OKSpec

-----------------------------------------------------------------------------
(* CatalogReload.  A trigger that is not as the engine reports its job is  *)
(* one that some thread is on its way to: a request between the set and    *)
(* the trigger, or the loop of a reload that has not met the job yet.  An  *)
(* exception leaves triggers that fire though their jobs are paused, never *)
(* the other way round.                                                    *)
HandFields == {"initial", "restat", "connections", "names", "jobs", "secrets",
               "size", "begun", "visited", "at"}
HandOk(t, h) == /\ HandFields \subseteq DOMAIN h
                /\ \A x, y \in h.at : x = y
                /\ h.initial => t = "poll"
HandsOk ==
    /\ DOMAIN pc = Threads /\ hand = [t \in Threads |-> hand[t]]
    /\ \A t \in Threads : HandOk(t, hand[t])
LiveFields == {"def", "trigger", "paused", "counted"}
LiveOk == \A j \in DOMAIN live : /\ LiveFields \subseteq DOMAIN live[j]
                                 /\ live[j].paused \in BOOLEAN

NoRace == "crossed" \notin mishaps
Reported(j) == /\ live[j].paused => j \in paused
               /\ j \in paused => live[j].paused \/ "raised" \in mishaps
OnItsWay(t, j) ==
    \/ pc[t] \in {"pause trigger", "resume trigger", "pausing one"} /\ j \in hand[t].at
    \/ pc[t] \in {"pausing", "pausing one"} /\ j \in paused \ hand[t].visited
Accounted ==
    NoRace => \A j \in DOMAIN live : Reported(j) \/ \E t \in Threads : OnItsWay(t, j)

CRInv == HandsOk /\ LiveOk /\ ScheduleFollowsCatalog /\ Accounted

LEMMA NothingOk == (\A t \in Threads : HandOk(t, Nothing)) /\ Nothing.at = {}
  BY DEF Nothing, HandOk, HandFields

LEMMA StartingOk == HandOk("poll", Starting) /\ Starting.visited = {}
  BY DEF Starting, Nothing, HandOk, HandFields

LEMMA CRInitInv == CRInit => CRInv
<1> SUFFICES ASSUME CRInit PROVE CRInv OBVIOUS
<1>1. /\ pc = [t \in Threads |-> IF t = "poll" THEN "registry" ELSE "idle"]
      /\ hand = [t \in Threads |-> IF t = "poll" THEN Starting ELSE Nothing]
      /\ live = <<>> /\ jobs = <<>>
  BY DEF CRInit
<1>2. HandsOk BY <1>1, NothingOk, StartingOk DEF HandsOk
<1>3. DOMAIN live = {} /\ DOMAIN jobs = {} BY <1>1
<1> QED BY <1>2, <1>3 DEF CRInv, LiveOk, ScheduleFollowsCatalog, Scheduled, Accounted

\* A thread goes on with what it now knows.
LEMMA HandsMove ==
    ASSUME HandsOk, NEW t \in Threads, NEW label, NEW what, HandOk(t, what),
           Goto(t, label), Keep(t, what)
    PROVE  /\ HandsOk'
           /\ \A u \in Threads : /\ pc'[u] = IF u = t THEN label ELSE pc[u]
                                 /\ hand'[u] = IF u = t THEN what ELSE hand[u]
<1>1. /\ DOMAIN pc = Threads /\ DOMAIN hand = Threads
      /\ \A u \in Threads : HandOk(u, hand[u])
  BY DEF HandsOk
<1>2. /\ pc' = [pc EXCEPT ![t] = label] /\ hand' = [hand EXCEPT ![t] = what]
  BY DEF Goto, Keep
<1>3. \A u \in Threads : /\ pc'[u] = IF u = t THEN label ELSE pc[u]
                         /\ hand'[u] = IF u = t THEN what ELSE hand[u]
  BY <1>1, <1>2
<1>4. DOMAIN pc' = Threads /\ hand' = [u \in Threads |-> hand'[u]] BY <1>1, <1>2
<1>5. ASSUME NEW u \in Threads PROVE HandOk(u, hand'[u])
  <2>1. CASE u = t BY <1>3, <2>1
  <2>2. CASE u # t BY <1>1, <1>3, <2>2
  <2> QED BY <2>1, <2>2
<1>6. HandsOk' BY <1>4, <1>5 DEF HandsOk, HandOk
<1> QED BY <1>3, <1>6

LEMMA KeepsAll ==
    ASSUME HandsOk, NEW t \in Threads, hand' = hand PROVE Keep(t, hand[t])
<1>1. hand = [u \in Threads |-> hand[u]] BY DEF HandsOk
<1> QED BY <1>1 DEF Keep

\* A step of one thread that changes neither the set nor a trigger.
LEMMA Elsewhere ==
    ASSUME CRInv, NEW t \in Threads, NEW label, NEW what, HandOk(t, what),
           Goto(t, label), Keep(t, what),
           live' = live, jobs' = jobs, paused' = paused, mishaps \subseteq mishaps',
           NoRace' => \A j \in DOMAIN live :
                        OnItsWay(t, j) => Reported(j)' \/ OnItsWay(t, j)'
    PROVE  CRInv'
<1>0. HandsOk BY DEF CRInv
<1>1. /\ HandsOk'
      /\ \A u \in Threads : u # t => pc'[u] = pc[u] /\ hand'[u] = hand[u]
  BY <1>0, HandsMove
<1>2. LiveOk' /\ ScheduleFollowsCatalog'
  BY DEF CRInv, LiveOk, ScheduleFollowsCatalog, Scheduled, Buildable
<1>3. Accounted'
  <2> SUFFICES ASSUME NoRace', NEW j \in DOMAIN live
               PROVE  Reported(j)' \/ \E u \in Threads : OnItsWay(u, j)'
    BY DEF Accounted
  <2>1. NoRace BY DEF NoRace
  <2>2. Reported(j) => Reported(j)' BY DEF Reported
  <2>3. CASE Reported(j) BY <2>2, <2>3
  <2>4. ASSUME NEW u \in Threads, OnItsWay(u, j), u # t PROVE OnItsWay(u, j)'
    BY <1>1, <2>4 DEF OnItsWay
  <2>5. CASE OnItsWay(t, j) BY <2>2, <2>5
  <2> QED BY <2>1, <2>3, <2>4, <2>5 DEF CRInv, Accounted
<1> QED BY <1>1, <1>2, <1>3 DEF CRInv

\* One that is not on its way to any trigger.
LEMMA Reading ==
    ASSUME CRInv, NEW t \in Threads, NEW label, NEW what, HandOk(t, what),
           Goto(t, label), Keep(t, what),
           live' = live, jobs' = jobs, paused' = paused, mishaps \subseteq mishaps',
           pc[t] \notin {"pause trigger", "resume trigger", "pausing", "pausing one"}
    PROVE  CRInv'
<1>1. \A j : ~OnItsWay(t, j) BY DEF OnItsWay
<1> QED BY <1>1, Elsewhere

\* What SetPaused leaves alone.
LEMMA PausedSet ==
    ASSUME CRInv, NEW j, NEW value \in BOOLEAN, SetPaused(j, value), jobs' = jobs
    PROVE  /\ DOMAIN live' = DOMAIN live /\ LiveOk' /\ ScheduleFollowsCatalog'
           /\ \A i \in DOMAIN live : /\ live'[i].paused = IF i = j THEN value
                                                           ELSE live[i].paused
                                     /\ live'[i].trigger = live[i].trigger
                                     /\ live'[i].counted = live[i].counted
<1>1. /\ DOMAIN live' = DOMAIN live
      /\ \A i \in DOMAIN live :
           live'[i] = IF i = j THEN [live[i] EXCEPT !.paused = value] ELSE live[i]
  BY DEF SetPaused
<1>2. ASSUME NEW i \in DOMAIN live
      PROVE  /\ LiveFields \subseteq DOMAIN live'[i]
             /\ live'[i].paused = IF i = j THEN value ELSE live[i].paused
             /\ live'[i].trigger = live[i].trigger /\ live'[i].def = live[i].def
             /\ live'[i].counted = live[i].counted
  <2>1. LiveFields \subseteq DOMAIN live[i] BY DEF CRInv, LiveOk
  <2>2. CASE i = j
    <3>1. live'[i] = [live[i] EXCEPT !.paused = value] BY <1>1, <2>2
    <3> QED BY <2>1, <2>2, <3>1 DEF LiveFields
  <2>3. CASE i # j BY <1>1, <2>1, <2>3
  <2> QED BY <2>2, <2>3
<1>3. LiveOk'
  <2> SUFFICES ASSUME NEW i \in DOMAIN live
               PROVE  /\ LiveFields \subseteq DOMAIN live'[i]
                      /\ live'[i].paused \in BOOLEAN
    BY <1>1 DEF LiveOk
  <2>1. live[i].paused \in BOOLEAN BY DEF CRInv, LiveOk
  <2> QED BY <1>2, <2>1
<1>4. ScheduleFollowsCatalog'
  BY <1>1, <1>2 DEF CRInv, ScheduleFollowsCatalog, Scheduled, Buildable
<1> QED BY <1>1, <1>2, <1>3, <1>4

\* The triggers are as they were, but for the time they have counted off.
LEMMA TimeSpent ==
    ASSUME CRInv, TimePasses
    PROVE  /\ DOMAIN live' = DOMAIN live /\ LiveOk' /\ ScheduleFollowsCatalog'
           /\ \A i \in DOMAIN live : /\ live'[i].paused = live[i].paused
                                     /\ live'[i].trigger = live[i].trigger
                                     /\ live'[i].counted
<1>1. /\ live' = [i \in DOMAIN live |-> [live[i] EXCEPT !.counted = TRUE]]
      /\ jobs' = jobs
  BY DEF TimePasses
<1>2. ASSUME NEW i \in DOMAIN live
      PROVE  /\ LiveFields \subseteq DOMAIN live'[i]
             /\ live'[i].paused = live[i].paused /\ live'[i].trigger = live[i].trigger
             /\ live'[i].def = live[i].def /\ live'[i].counted
             /\ live'[i].paused \in BOOLEAN
  <2>1. LiveFields \subseteq DOMAIN live[i] /\ live[i].paused \in BOOLEAN
    BY DEF CRInv, LiveOk
  <2>2. live'[i] = [live[i] EXCEPT !.counted = TRUE] BY <1>1
  <2>3. /\ live'[i].paused = live[i].paused /\ live'[i].trigger = live[i].trigger
        /\ live'[i].def = live[i].def /\ live'[i].counted = TRUE
        /\ LiveFields \subseteq DOMAIN live'[i]
    BY <2>1, <2>2 DEF LiveFields
  <2> QED BY <2>1, <2>3
<1>3. DOMAIN live' = DOMAIN live BY <1>1
<1>4. LiveOk' BY <1>2, <1>3 DEF LiveOk
<1>5. ScheduleFollowsCatalog'
  BY <1>1, <1>2, <1>3 DEF CRInv, ScheduleFollowsCatalog, Scheduled, Buildable
<1> QED BY <1>2, <1>3, <1>4, <1>5

LEMMA TimeInv == ASSUME CRInv, TimePasses PROVE CRInv'
<1>1. UNCHANGED <<jobs, paused, pc, hand, mishaps>> BY DEF TimePasses
<1>2. HandsOk' BY <1>1 DEF CRInv, HandsOk, HandOk
<1>3. ASSUME NEW i \in DOMAIN live PROVE Reported(i)' <=> Reported(i)
  BY <1>1, TimeSpent DEF Reported
<1>4. Accounted'
  BY <1>1, <1>3, TimeSpent DEF CRInv, Accounted, NoRace, OnItsWay
<1> QED BY <1>2, <1>4, TimeSpent DEF CRInv

\* A trigger is set as some thread was on its way to do; if that is not what
\* the set says by now, they have crossed.
LEMMA TriggerSet ==
    ASSUME CRInv, NEW t \in Threads, NEW label, NEW what, HandOk(t, what),
           Goto(t, label), Keep(t, what),
           NEW j \in hand[t].at, NEW value \in BOOLEAN, SetPaused(j, value),
           jobs' = jobs, paused' = paused, mishaps \subseteq mishaps',
           NoRace' => (value <=> j \in paused),
           \A i \in DOMAIN live : i # j /\ OnItsWay(t, i) => OnItsWay(t, i)'
    PROVE  CRInv'
<1>0. HandsOk BY DEF CRInv
<1>1. /\ HandsOk'
      /\ \A u \in Threads : u # t => pc'[u] = pc[u] /\ hand'[u] = hand[u]
  BY <1>0, HandsMove
<1>2. /\ DOMAIN live' = DOMAIN live /\ LiveOk' /\ ScheduleFollowsCatalog'
      /\ \A i \in DOMAIN live : live'[i].paused = IF i = j THEN value
                                                   ELSE live[i].paused
  BY PausedSet
<1>3. Accounted'
  <2> SUFFICES ASSUME NoRace', NEW i \in DOMAIN live
               PROVE  Reported(i)' \/ \E u \in Threads : OnItsWay(u, i)'
    BY <1>2 DEF Accounted
  <2>1. NoRace BY DEF NoRace
  <2>2. CASE i = j BY <1>2, <2>2 DEF Reported
  <2>3. CASE i # j
    <3>1. Reported(i) => Reported(i)' BY <1>2, <2>3 DEF Reported
    <3>2. ASSUME NEW u \in Threads, OnItsWay(u, i), u # t PROVE OnItsWay(u, i)'
      BY <1>1, <3>2 DEF OnItsWay
    <3>3. OnItsWay(t, i) => OnItsWay(t, i)' BY <2>3
    <3> QED BY <2>1, <3>1, <3>2, <3>3 DEF CRInv, Accounted
  <2> QED BY <2>2, <2>3
<1> QED BY <1>1, <1>2, <1>3 DEF CRInv

LEMMA TriggerInv ==
    ASSUME CRInv, NEW t \in Threads,
           PauseAgain(t) \/ PauseTrigger(t) \/ ResumeTrigger(t)
    PROVE  CRInv'
<1>1. /\ \A x, y \in hand[t].at : x = y
      /\ DOMAIN pc = Threads /\ DOMAIN hand = Threads /\ HandOk(t, hand[t])
  BY DEF CRInv, HandsOk, HandOk
<1>2. CASE PauseAgain(t)
  <2>1. PICK j \in hand[t].at :
          SetPaused(j, TRUE) /\ Note(IF j \in paused THEN {} ELSE {"crossed"})
    BY <1>2 DEF PauseAgain
  <2>2. /\ pc[t] = "pausing one" /\ Goto(t, "pausing") /\ hand' = hand
        /\ jobs' = jobs /\ paused' = paused
    BY <1>2 DEF PauseAgain
  <2>3. Keep(t, hand[t]) BY <2>2, KeepsAll DEF CRInv
  <2>4. /\ mishaps \subseteq mishaps'
        /\ NoRace' => (TRUE <=> j \in paused)
    BY <2>1 DEF Note, NoRace
  <2>5. pc'[t] = "pausing" BY <1>1, <2>2 DEF Goto
  <2>6. \A i \in DOMAIN live : i # j /\ OnItsWay(t, i) => OnItsWay(t, i)'
    BY <1>1, <2>2, <2>5 DEF OnItsWay
  <2> QED BY <1>1, <2>1, <2>2, <2>3, <2>4, <2>6, TriggerSet
<1>3. CASE PauseTrigger(t)
  <2>1. PICK j \in hand[t].at : SetPaused(j, TRUE) BY <1>3 DEF PauseTrigger
  <2>2. /\ pc[t] = "pause trigger" /\ Goto(t, "idle") /\ Keep(t, Nothing)
        /\ jobs' = jobs /\ paused' = paused
        /\ mishaps' = mishaps \cup (IF hand[t].at \subseteq paused THEN {} ELSE {"crossed"})
    BY <1>3 DEF PauseTrigger, Unserved, Note
  <2>3. mishaps \subseteq mishaps' BY <2>2
  <2>4. NoRace' => (TRUE <=> j \in paused)
    <3>1. CASE hand[t].at \subseteq paused BY <3>1
    <3>2. CASE ~(hand[t].at \subseteq paused) BY <2>2, <3>2 DEF NoRace
    <3> QED BY <3>1, <3>2
  <2>5. \A i : i # j => ~OnItsWay(t, i) BY <1>1, <2>2 DEF OnItsWay
  <2> QED BY <2>1, <2>2, <2>3, <2>4, <2>5, NothingOk, TriggerSet
<1>4. CASE ResumeTrigger(t)
  <2>1. PICK j \in hand[t].at : SetPaused(j, FALSE) BY <1>4 DEF ResumeTrigger
  <2>2. /\ pc[t] = "resume trigger" /\ Goto(t, "idle") /\ Keep(t, Nothing)
        /\ jobs' = jobs /\ paused' = paused
        /\ mishaps' = mishaps \cup (IF hand[t].at \cap paused = {} THEN {} ELSE {"crossed"})
    BY <1>4 DEF ResumeTrigger, Unserved, Note
  <2>3. mishaps \subseteq mishaps' BY <2>2
  <2>4. NoRace' => (FALSE <=> j \in paused)
    <3>1. CASE hand[t].at \cap paused = {} BY <3>1
    <3>2. CASE hand[t].at \cap paused # {} BY <2>2, <3>2 DEF NoRace
    <3> QED BY <3>1, <3>2
  <2>5. \A i : i # j => ~OnItsWay(t, i) BY <1>1, <2>2 DEF OnItsWay
  <2> QED BY <2>1, <2>2, <2>3, <2>4, <2>5, NothingOk, TriggerSet
<1> QED BY <1>2, <1>3, <1>4

\* A request changes the set, and is then on its way to the trigger.
LEMMA SwitchInv ==
    ASSUME CRInv, NEW t \in Threads, AddPaused(t) \/ DiscardPaused(t)
    PROVE  CRInv'
<1>1. /\ DOMAIN pc = Threads /\ DOMAIN hand = Threads
      /\ \A u \in Threads : HandOk(u, hand[u])
  BY DEF CRInv, HandsOk
<1>2. /\ pc[t] \in {"pause", "resume"} /\ hand' = hand /\ live' = live
      /\ jobs' = jobs /\ mishaps' = mishaps
      /\ \/ paused' = paused \cup hand[t].at /\ Goto(t, "pause trigger")
         \/ paused' = paused \ hand[t].at /\ Goto(t, "resume trigger")
  BY DEF AddPaused, DiscardPaused, Unserved
<1>3. /\ \A i : i \notin hand[t].at => (i \in paused' <=> i \in paused)
      /\ pc'[t] \in {"pause trigger", "resume trigger"}
      /\ \A u \in Threads : u # t => pc'[u] = pc[u]
  BY <1>1, <1>2 DEF Goto
<1>4. DOMAIN pc' = Threads BY <1>1, <1>2 DEF Goto
<1>5. HandsOk'
  <2>1. hand = [u \in Threads |-> hand[u]] BY DEF CRInv, HandsOk
  <2>2. hand' = [u \in Threads |-> hand'[u]] BY <1>2, <2>1
  <2>3. \A u \in Threads : HandOk(u, hand'[u]) BY <1>1, <1>2
  <2> QED BY <1>4, <2>2, <2>3 DEF HandsOk, HandOk
<1>6. LiveOk' /\ ScheduleFollowsCatalog'
  BY <1>2 DEF CRInv, LiveOk, ScheduleFollowsCatalog, Scheduled, Buildable
<1>7. Accounted'
  <2> SUFFICES ASSUME NoRace', NEW i \in DOMAIN live
               PROVE  Reported(i)' \/ \E u \in Threads : OnItsWay(u, i)'
    BY <1>2 DEF Accounted
  <2>1. NoRace BY <1>2 DEF NoRace
  <2>2. CASE i \in hand[t].at
    <3>1. OnItsWay(t, i)' BY <1>2, <1>3, <2>2 DEF OnItsWay
    <3> QED BY <3>1
  <2>3. CASE i \notin hand[t].at
    <3>1. Reported(i)' <=> Reported(i) BY <1>2, <1>3, <2>3 DEF Reported
    <3>2. ASSUME NEW u \in Threads, OnItsWay(u, i) PROVE OnItsWay(u, i)'
      <4>1. u # t BY <1>2, <3>2 DEF OnItsWay
      <4> QED BY <1>2, <1>3, <2>3, <3>2, <4>1 DEF OnItsWay
    <3> QED BY <2>1, <3>1, <3>2 DEF CRInv, Accounted
  <2> QED BY <2>2, <2>3
<1> QED BY <1>5, <1>6, <1>7 DEF CRInv

\* A job that the diff has seen to.
LEMMA DiffOfOne ==
    ASSUME CRInv, NEW new, NEW j \in Scheduled(new)
    PROVE  LET d == Diffed(new)[j] IN
           /\ d.def = new[j] /\ d.trigger = new[j].schedule
           /\ LiveFields \subseteq DOMAIN d /\ d.paused \in BOOLEAN
           /\ \/ /\ j \in DOMAIN live /\ d.paused = live[j].paused
                 /\ d.counted = live[j].counted
              \/ /\ ~d.paused
                 /\ j \in DOMAIN live => live[j].trigger # d.trigger
<1> DEFINE d == Diffed(new)[j]
<1>1. CASE Unmoved(new, j)
  <2>1. d = [live[j] EXCEPT !.def = new[j]] BY <1>1 DEF Diffed
  <2>2. /\ j \in DOMAIN live /\ live[j].trigger = new[j].schedule
        /\ LiveFields \subseteq DOMAIN live[j] /\ live[j].paused \in BOOLEAN
    BY <1>1 DEF Unmoved, CRInv, LiveOk
  <2> HIDE DEF d
  <2>3. /\ d.def = new[j] /\ d.trigger = new[j].schedule
        /\ LiveFields \subseteq DOMAIN d
    BY <2>1, <2>2 DEF LiveFields
  <2>4. d.paused = live[j].paused /\ d.counted = live[j].counted BY <2>1, <2>2 DEF LiveFields
  <2>5. d.paused \in BOOLEAN BY <2>2, <2>4
  <2> QED BY <2>2, <2>3, <2>4, <2>5 DEF d
<1>2. CASE ~Unmoved(new, j)
  <2>1. d = [def |-> new[j], trigger |-> new[j].schedule, paused |-> FALSE,
             counted |-> FALSE]
    BY <1>2 DEF Diffed, Added
  <2>2. j \in DOMAIN live => live[j].trigger # new[j].schedule
    BY <1>2 DEF Unmoved
  <2> HIDE DEF d
  <2>3. /\ d.def = new[j] /\ d.trigger = new[j].schedule
        /\ LiveFields \subseteq DOMAIN d
    BY <2>1 DEF LiveFields
  <2>4. d.paused = FALSE BY <2>1
  <2> QED BY <2>2, <2>3, <2>4 DEF d
<1> QED BY <1>1, <1>2

\* What happens to the triggers of the jobs that are still scheduled.
DiffKeeps ==
    \A j \in DOMAIN live' :
        \/ /\ j \in DOMAIN live /\ live'[j].paused = live[j].paused
           /\ live'[j].counted = live[j].counted
        \/ /\ ~live'[j].paused
           /\ j \in DOMAIN live => live[j].trigger # live'[j].trigger

\* The scheduler after the diff, whatever was in it.
LEMMA DiffFollows ==
    ASSUME CRInv, NEW new, jobs' = new, live' = Diffed(new)
    PROVE  /\ ScheduleFollowsCatalog' /\ LiveOk' /\ DiffKeeps
           /\ DOMAIN live' = Scheduled(new) /\ Scheduled(new) \subseteq DOMAIN new
<1>1. /\ DOMAIN live' = Scheduled(new) /\ Scheduled(new) \subseteq DOMAIN new
      /\ Scheduled(jobs') = Scheduled(new)
  BY DEF Diffed, Scheduled
<1>2. ScheduleFollowsCatalog' BY <1>1, DiffOfOne DEF ScheduleFollowsCatalog
<1>3. LiveOk' BY <1>1, DiffOfOne DEF LiveOk
<1>4. DiffKeeps BY <1>1, DiffOfOne DEF DiffKeeps
<1> QED BY <1>1, <1>2, <1>3, <1>4

\* The scheduler when a trigger could not be built.
LEMMA HalfDiffFollows ==
    ASSUME CRInv, NEW new, jobs' = new, Refused(new) # {},
           NEW before \in SUBSET (Scheduled(new) \ Refused(new)),
           live' = HalfDiffed(new, before)
    PROVE  /\ ScheduleFollowsCatalog' /\ LiveOk' /\ DiffKeeps
           /\ DOMAIN live' \subseteq Scheduled(new) /\ Scheduled(new) \subseteq DOMAIN new
<1>1. /\ DOMAIN live' \subseteq Scheduled(new) /\ Scheduled(new) \subseteq DOMAIN new
      /\ Scheduled(jobs') = Scheduled(new)
  BY DEF HalfDiffed, Scheduled
<1>2. ~Buildable(new) BY DEF Refused, Buildable
<1>3. ScheduleFollowsCatalog' BY <1>1, <1>2 DEF ScheduleFollowsCatalog
<1>4. ASSUME NEW j \in DOMAIN live'
      PROVE  \/ j \in Scheduled(new) /\ live'[j] = Diffed(new)[j]
             \/ j \in DOMAIN live /\ live'[j] = live[j]
  BY DEF HalfDiffed
<1>5. ASSUME NEW j \in DOMAIN live' PROVE LiveFields \subseteq DOMAIN live'[j]
                                         /\ live'[j].paused \in BOOLEAN
  BY <1>4, DiffOfOne DEF CRInv, LiveOk
<1>6. LiveOk' BY <1>5 DEF LiveOk
<1>7. DiffKeeps BY <1>4, DiffOfOne DEF DiffKeeps
<1> QED BY <1>1, <1>3, <1>6, <1>7

\* While _config_lock is free, a paused trigger of a job that is not is one
\* that a request is on its way to.
LEMMA Hurried ==
    ASSUME CRInv, NoRace, LockFree, NEW t \in Threads, pc[t] = "apply",
           \A u \in Threads : u # t => pc'[u] = pc[u] /\ hand'[u] = hand[u],
           NEW j \in DOMAIN live, live[j].paused, j \notin paused
    PROVE  \E u \in Threads : u # t /\ OnItsWay(u, j)'
<1>1. ~Reported(j) BY DEF Reported
<1>2. PICK u \in Threads : OnItsWay(u, j) BY <1>1 DEF CRInv, Accounted
<1>3. pc[u] \in {"pause trigger", "resume trigger"} /\ j \in hand[u].at
  BY <1>2 DEF LockFree, OnItsWay
<1>4. u # t BY <1>3
<1>5. OnItsWay(u, j)' BY <1>3, <1>4 DEF OnItsWay
<1> QED BY <1>4, <1>5

\* The diff is followed by the loop over the paused jobs.
LEMMA ApplyInv == ASSUME CRInv, NEW t \in Threads, Apply(t) PROVE CRInv'
<1> DEFINE new == Accepts(t)
           still == paused \cap DOMAIN new
           what == [hand[t] EXCEPT !.size = Cardinality(still), !.begun = still,
                                   !.visited = {}, !.at = {}]
<1>1. /\ pc[t] = "apply" /\ LockFree /\ jobs' = new /\ paused' = still
      /\ live' = Diffed(new) /\ Keep(t, what) /\ Goto(t, "pausing")
      /\ mishaps \subseteq mishaps'
  BY DEF Apply, Note
<1>2. HandOk(t, hand[t]) BY DEF CRInv, HandsOk
<1>3. HandOk(t, what) /\ what.visited = {} BY <1>2 DEF HandOk, HandFields
<1> HIDE DEF new, what
<1>4. /\ HandsOk' /\ pc'[t] = "pausing" /\ hand'[t] = what
      /\ \A u \in Threads : u # t => pc'[u] = pc[u] /\ hand'[u] = hand[u]
  <2>1. HandsOk BY DEF CRInv
  <2> QED BY <1>1, <1>3, <2>1, HandsMove
<1>5. /\ ScheduleFollowsCatalog' /\ LiveOk' /\ DiffKeeps
      /\ DOMAIN live' = Scheduled(new) /\ Scheduled(new) \subseteq DOMAIN new
  BY <1>1, DiffFollows
<1>6. Accounted'
  <2> SUFFICES ASSUME NoRace', NEW j \in DOMAIN live'
               PROVE  Reported(j)' \/ \E u \in Threads : OnItsWay(u, j)'
    BY DEF Accounted
  <2>1. NoRace BY <1>1 DEF NoRace
  <2>2. CASE j \in still
    <3>1. OnItsWay(t, j)' BY <1>1, <1>3, <1>4, <2>2 DEF OnItsWay
    <3> QED BY <3>1
  <2>3. CASE j \notin still /\ ~live'[j].paused
    BY <1>1, <2>3 DEF Reported
  <2>4. CASE j \notin still /\ live'[j].paused
    <3>1. j \in DOMAIN live /\ live[j].paused /\ j \notin paused
      BY <1>5, <2>4 DEF DiffKeeps
    <3>2. \E u \in Threads : u # t /\ OnItsWay(u, j)' BY <1>1, <1>4, <2>1, <3>1, Hurried
    <3> QED BY <3>2
  <2> QED BY <2>2, <2>3, <2>4
<1> QED BY <1>4, <1>5, <1>6 DEF CRInv

\* It is not: no job is paused again, and the exception is no secret.
LEMMA RaiseInv == ASSUME CRInv, NEW t \in Threads, ApplyRaises(t) PROVE CRInv'
<1> DEFINE new == Accepts(t)
<1>1. /\ pc[t] = "apply" /\ LockFree /\ jobs' = new /\ paused' = paused \cap DOMAIN new
      /\ Refused(new) # {} /\ Dies(t)
      /\ mishaps \subseteq mishaps' /\ "raised" \in mishaps'
      /\ \E before \in SUBSET (Scheduled(new) \ Refused(new)) :
           live' = HalfDiffed(new, before)
  BY DEF ApplyRaises, Note
<1> HIDE DEF new
<1>2. /\ ScheduleFollowsCatalog' /\ LiveOk' /\ DiffKeeps
      /\ DOMAIN live' \subseteq Scheduled(new) /\ Scheduled(new) \subseteq DOMAIN new
  BY <1>1, HalfDiffFollows
<1>3. /\ HandsOk'
      /\ \A u \in Threads : u # t => pc'[u] = pc[u] /\ hand'[u] = hand[u]
  <2>1. HandsOk BY DEF CRInv
  <2> QED BY <1>1, <2>1, NothingOk, HandsMove DEF Dies
<1>4. Accounted'
  <2> SUFFICES ASSUME NoRace', NEW j \in DOMAIN live'
               PROVE  Reported(j)' \/ \E u \in Threads : OnItsWay(u, j)'
    BY DEF Accounted
  <2>1. NoRace BY <1>1 DEF NoRace
  <2>2. CASE live'[j].paused => j \in paused' BY <1>1, <2>2 DEF Reported
  <2>3. CASE live'[j].paused /\ j \notin paused'
    <3>1. j \in DOMAIN live /\ live[j].paused /\ j \notin paused
      BY <1>1, <1>2, <2>3 DEF DiffKeeps
    <3>2. \E u \in Threads : u # t /\ OnItsWay(u, j)' BY <1>1, <1>3, <2>1, <3>1, Hurried
    <3> QED BY <3>2
  <2> QED BY <2>2, <2>3
<1> QED BY <1>2, <1>3, <1>4 DEF CRInv

\* The process has ended, and nothing is scheduled by the next one yet.
LEMMA FailInv == ASSUME CRInv, NEW t \in Threads, StartFails(t) PROVE CRInv'
<1>1. /\ t = "poll" /\ Goto(t, "registry") /\ Keep(t, Starting) /\ live' = <<>>
      /\ jobs' = <<>>
  BY DEF StartFails, CRInv, HandsOk, HandOk
<1>2. HandsOk' BY <1>1, StartingOk, HandsMove DEF CRInv
<1>3. DOMAIN live' = {} /\ Scheduled(jobs') = {} BY <1>1 DEF Scheduled
<1> QED BY <1>2, <1>3 DEF CRInv, LiveOk, ScheduleFollowsCatalog, Accounted

\* The loop of a reload: it meets a paused job, ends, or raises.
LEMMA LoopInv ==
    ASSUME CRInv, NEW t \in Threads,
           PickPaused(t) \/ EndReload(t) \/ LoopRaises(t)
    PROVE  CRInv'
<1>1. HandOk(t, hand[t]) /\ DOMAIN hand = Threads /\ DOMAIN pc = Threads
  BY DEF CRInv, HandsOk
<1>2. CASE PickPaused(t)
  <2>1. PICK j \in paused \ hand[t].visited :
          Keep(t, [hand[t] EXCEPT !.at = {j}, !.visited = @ \cup {j}])
    BY <1>2 DEF PickPaused
  <2> DEFINE what == [hand[t] EXCEPT !.at = {j}, !.visited = @ \cup {j}]
  <2>2. HandOk(t, what) /\ what.at = {j} /\ what.visited = hand[t].visited \cup {j}
    BY <1>1 DEF HandOk, HandFields
  <2>3. /\ pc[t] = "pausing" /\ Goto(t, "pausing one") /\ live' = live /\ jobs' = jobs
        /\ paused' = paused /\ mishaps' = mishaps
    BY <1>2 DEF PickPaused
  <2>4. Keep(t, what) BY <2>1
  <2> HIDE DEF what
  <2>5. pc'[t] = "pausing one" /\ hand'[t] = what
    BY <1>1, <2>3, <2>4 DEF Goto, Keep
  <2>6. \A i \in DOMAIN live : OnItsWay(t, i) => OnItsWay(t, i)'
    BY <2>2, <2>3, <2>5 DEF OnItsWay
  <2> QED BY <2>2, <2>3, <2>4, <2>6, Elsewhere
<1>3. CASE EndReload(t)
  <2> DEFINE races == IF paused \subseteq hand[t].visited THEN {} ELSE {"crossed"}
  <2>1. /\ pc[t] = "pausing" /\ Ends(t, races)
        /\ live' = live /\ jobs' = jobs /\ paused' = paused
    BY <1>3 DEF EndReload
  <2>2. /\ mishaps \cup races \subseteq mishaps'
        /\ \/ Goto(t, After(t)) /\ Keep(t, Left(t))
           \/ Dies(t)
    BY <2>1 DEF Ends, Note
  <2>3. NoRace' => \A i : ~OnItsWay(t, i)
    <3>1. CASE paused \subseteq hand[t].visited BY <2>1, <3>1 DEF OnItsWay
    <3>2. CASE ~(paused \subseteq hand[t].visited) BY <2>2, <3>2 DEF NoRace
    <3> QED BY <3>1, <3>2
  <2>4. mishaps \subseteq mishaps' BY <2>2
  <2> HIDE DEF races
  <2>5. CASE Goto(t, After(t)) /\ Keep(t, Left(t))
    <3>1. HandOk(t, Left(t)) BY <1>1, NothingOk DEF Left, HandOk, HandFields
    <3> QED BY <2>1, <2>3, <2>4, <2>5, <3>1, Elsewhere
  <2>6. CASE Dies(t)
    BY <2>1, <2>3, <2>4, <2>6, NothingOk, Elsewhere DEF Dies
  <2> QED BY <2>2, <2>5, <2>6
<1>4. CASE LoopRaises(t)
  <2>1. /\ pc[t] = "pausing" /\ Dies(t)
        /\ live' = live /\ jobs' = jobs /\ paused' = paused
        /\ mishaps' = mishaps \cup {"raised"}
    BY <1>4 DEF LoopRaises, Note
  <2>2. "raised" \in mishaps' /\ mishaps \subseteq mishaps' BY <2>1
  <2>3. \A i : OnItsWay(t, i) => Reported(i)' BY <2>1, <2>2 DEF OnItsWay, Reported
  <2> QED BY <2>1, <2>2, <2>3, NothingOk, Elsewhere DEF Dies
<1> QED BY <1>2, <1>3, <1>4

LEMMA ReadingInv ==
    ASSUME CRInv, NEW t \in Threads,
           \/ ReadConnections(t) \/ InstallConnections(t) \/ ReadNames(t)
           \/ ReadJobs(t) \/ Validate(t) \/ KeepPrevious(t) \/ PostReload(t)
           \/ \E j \in JobIds : PostSwitch(t, j, "pause") \/ PostSwitch(t, j, "resume")
    PROVE  CRInv'
<1>1. HandOk(t, hand[t]) /\ DOMAIN hand = Threads BY DEF CRInv, HandsOk
<1>2. CASE ReadConnections(t)
  <2>1. HandOk(t, [hand[t] EXCEPT !.connections = disk["connections"]])
    BY <1>1 DEF HandOk, HandFields
  <2> QED BY <1>2, <2>1, Reading DEF ReadConnections
<1>3. CASE InstallConnections(t)
  <2>1. Keep(t, hand[t]) BY <1>3, KeepsAll DEF InstallConnections, CRInv
  <2>2. /\ pc[t] = "install" /\ Goto(t, "names") /\ live' = live /\ jobs' = jobs
        /\ paused' = paused /\ mishaps' = mishaps
    BY <1>3 DEF InstallConnections
  <2> QED BY <1>1, <2>1, <2>2, Reading
<1>4. CASE ReadNames(t)
  <2>1. HandOk(t, [hand[t] EXCEPT !.names = registry.names])
    BY <1>1 DEF HandOk, HandFields
  <2> QED BY <1>4, <2>1, Reading DEF ReadNames
<1>5. CASE ReadJobs(t)
  <2>1. HandOk(t, [hand[t] EXCEPT !.jobs = disk["jobs"]])
    BY <1>1 DEF HandOk, HandFields
  <2> QED BY <1>5, <2>1, Reading DEF ReadJobs
<1>6. CASE Validate(t)
  <2>1. HandOk(t, [hand[t] EXCEPT !.secrets = disk["secrets"]])
    BY <1>1 DEF HandOk, HandFields
  <2> QED BY <1>6, <2>1, Reading DEF Validate
<1>7. CASE KeepPrevious(t)
  <2>1. /\ pc[t] = "apply" /\ live' = live /\ jobs' = jobs /\ paused' = paused
        /\ mishaps \subseteq mishaps'
        /\ \/ Goto(t, After(t)) /\ Keep(t, Left(t))
           \/ Dies(t)
    BY <1>7 DEF KeepPrevious, Ends, Note
  <2>2. CASE Goto(t, After(t)) /\ Keep(t, Left(t))
    <3>1. HandOk(t, Left(t)) BY <1>1, NothingOk DEF Left, HandOk, HandFields
    <3> QED BY <2>1, <2>2, <3>1, Reading
  <2>3. CASE Dies(t) BY <2>1, <2>3, NothingOk, Reading DEF Dies
  <2> QED BY <2>1, <2>2, <2>3
<1>8. CASE PostReload(t)
  BY <1>8, NothingOk, Reading DEF PostReload, Unserved
<1>9. ASSUME NEW j \in JobIds, NEW label, PostSwitch(t, j, label) PROVE CRInv'
  <2>1. HandOk(t, [Nothing EXCEPT !.at = {j}]) BY DEF Nothing, HandOk, HandFields
  <2> QED BY <1>9, <2>1, Reading DEF PostSwitch, Unserved
<1> QED BY <1>2, <1>3, <1>4, <1>5, <1>6, <1>7, <1>8, <1>9

LEMMA PollInv == ASSUME CRInv, Poll PROVE CRInv'
<1>1. "poll" \in Threads BY DEF Threads
<1>2. /\ HandOk("poll", [Nothing EXCEPT !.restat = TRUE])
      /\ HandOk("poll", [Nothing EXCEPT !.restat = FALSE])
  BY DEF Nothing, HandOk, HandFields
<1>3. CASE FirstStat
  <2>1. mishaps \subseteq mishaps' BY <1>3 DEF FirstStat, Note
  <2> QED BY <1>1, <1>3, <2>1, NothingOk, Reading DEF FirstStat
<1>4. CASE PollConnections
  BY <1>1, <1>2, <1>4, Reading DEF PollConnections, Noticed
<1>5. CASE PollSecrets BY <1>1, <1>2, <1>5, Reading DEF PollSecrets, Noticed
<1>6. CASE PollJobs BY <1>1, <1>2, <1>6, Reading DEF PollJobs, Noticed
<1>7. CASE StatAgain
  <2>1. mishaps \subseteq mishaps' BY <1>7 DEF StatAgain, Note
  <2> QED BY <1>1, <1>7, <2>1, NothingOk, Reading DEF StatAgain
<1> QED BY <1>3, <1>4, <1>5, <1>6, <1>7 DEF Poll

LEMMA CRNextInv == CRInv /\ [CRNext]_crVars => CRInv'
<1> SUFFICES ASSUME CRInv, [CRNext]_crVars PROVE CRInv' OBVIOUS
<1>1. ASSUME UNCHANGED <<jobs, paused, live, pc, hand, mishaps>> PROVE CRInv'
  BY <1>1 DEF CRInv, HandsOk, HandOk, LiveOk, ScheduleFollowsCatalog, Scheduled,
              Buildable, Accounted, NoRace, Reported, OnItsWay
<1>2. ASSUME NEW f \in Files, Edit(f) PROVE CRInv' BY <1>1, <1>2 DEF Edit
<1>3. ASSUME NEW t \in Threads, Reload(t) PROVE CRInv'
  BY <1>3, ReadingInv, ApplyInv, RaiseInv, FailInv, LoopInv, TriggerInv DEF Reload
<1>4. CASE Poll BY <1>4, PollInv
<1>5. ASSUME NEW r \in Requests, Request(r) PROVE CRInv'
  <2>1. r \in Threads BY DEF Threads
  <2> QED BY <1>5, <2>1, ReadingInv, SwitchInv, TriggerInv DEF Request
<1>6. CASE UNCHANGED crVars BY <1>1, <1>6 DEF crVars
<1> QED BY <1>2, <1>3, <1>4, <1>5, <1>6, TimeInv DEF CRNext

(* Whatever reloads ran, raised or overtook each other, no job fires that  *)
(* the catalog in force does not schedule; and if a trigger can be built   *)
(* for each of its schedules, the scheduler has exactly its jobs with      *)
(* their definitions and schedules, for any jobs, files, edits, reloads    *)
(* and requests (aps.py:79-117).                                           *)
THEOREM SchedulesFollow == CRSpec => []ScheduleFollowsCatalog
<1>1. CRInv => ScheduleFollowsCatalog BY DEF CRInv
<1> QED BY CRInitInv, CRNextInv, <1>1, PTL DEF CRSpec

(* Once nothing is under way, only the triggers of jobs that are reported  *)
(* as paused are paused, and all of them are unless a reload has raised;   *)
(* but for a pause or a resume that has crossed another or the loop of a   *)
(* reload (service.py:157-184, 296-307).                                   *)
THEOREM PausedRest == CRSpec => []PausedTriggersRest
<1>1. CRInv => PausedTriggersRest
  <2> SUFFICES ASSUME CRInv, Quiet, NoRace, NEW j \in DOMAIN live PROVE Reported(j)
    BY DEF PausedTriggersRest, NoRace, Reported
  <2>1. \A t \in Threads : pc[t] \in {"idle", "wait", "dead"}
    BY DEF Quiet, Threads
  <2>2. \A t \in Threads : ~OnItsWay(t, j) BY <2>1 DEF OnItsWay
  <2> QED BY <2>2 DEF CRInv, Accounted
<1> QED BY CRInitInv, CRNextInv, <1>1, PTL DEF CRSpec

\* The action of UnchangedScheduleKeepsTrigger.
TriggersKept ==
    \A j \in DOMAIN live \cap DOMAIN live' :
        live[j].trigger = live'[j].trigger =>
            /\ live[j].counted => live'[j].counted
            /\ live[j].paused /\ ~live'[j].paused =>
                 \E r \in Requests : pc[r] = "resume trigger" /\ j \in hand[r].at

LEMMA TriggersStep == CRInv /\ [CRNext]_crVars => [TriggersKept]_crVars
<1> SUFFICES ASSUME CRInv, CRNext PROVE TriggersKept OBVIOUS
<1>1. CASE live' = live BY <1>1 DEF TriggersKept
<1>2. CASE DiffKeeps BY <1>2 DEF TriggersKept, DiffKeeps
<1>3. ASSUME NEW t \in Threads, NEW j, SetPaused(j, TRUE), jobs' = jobs
      PROVE  TriggersKept
  <2>1. \A i \in DOMAIN live : /\ live'[i].paused = IF i = j THEN TRUE ELSE live[i].paused
                               /\ live'[i].counted = live[i].counted
    BY <1>3, PausedSet
  <2> QED BY <2>1 DEF TriggersKept
<1>4. ASSUME NEW r \in Requests, ResumeTrigger(r) PROVE TriggersKept
  <2>1. pc[r] = "resume trigger" /\ jobs' = jobs BY <1>4 DEF ResumeTrigger, Unserved
  <2>2. PICK j \in hand[r].at : SetPaused(j, FALSE) BY <1>4 DEF ResumeTrigger
  <2>3. \A i \in DOMAIN live :
          /\ live'[i].paused = IF i = j THEN FALSE ELSE live[i].paused
          /\ live'[i].counted = live[i].counted
    BY <2>1, <2>2, PausedSet
  <2> QED BY <2>1, <2>2, <2>3 DEF TriggersKept
<1>5. ASSUME NEW t \in Threads, Reload(t) PROVE TriggersKept
  <2>1. CASE PauseAgain(t) BY <1>3, <2>1 DEF PauseAgain
  <2>2. CASE Apply(t)
    <3> DEFINE new == Accepts(t)
    <3>1. jobs' = new /\ live' = Diffed(new) BY <2>2 DEF Apply
    <3> HIDE DEF new
    <3> QED BY <1>2, <3>1, DiffFollows
  <2>3. CASE ApplyRaises(t)
    <3> DEFINE new == Accepts(t)
    <3>1. /\ jobs' = new /\ Refused(new) # {}
          /\ \E before \in SUBSET (Scheduled(new) \ Refused(new)) :
               live' = HalfDiffed(new, before)
      BY <2>3 DEF ApplyRaises
    <3> HIDE DEF new
    <3> QED BY <1>2, <3>1, HalfDiffFollows
  <2>4. CASE StartFails(t)
    <3>1. live' = <<>> BY <2>4 DEF StartFails
    <3>2. DOMAIN live' = {} BY <3>1
    <3> QED BY <3>2 DEF TriggersKept
  <2>5. CASE ~PauseAgain(t) /\ ~Apply(t) /\ ~ApplyRaises(t) /\ ~StartFails(t)
    BY <1>1, <1>5, <2>5 DEF Reload, ReadConnections, InstallConnections, ReadNames,
        ReadJobs, Validate, KeepPrevious, PickPaused, EndReload, LoopRaises
  <2> QED BY <2>1, <2>2, <2>3, <2>4, <2>5
<1>6. ASSUME NEW r \in Requests, Request(r) PROVE TriggersKept
  <2>1. CASE PauseTrigger(r)
    <3>1. r \in Threads BY DEF Threads
    <3> QED BY <1>3, <2>1, <3>1 DEF PauseTrigger, Unserved
  <2>2. CASE ResumeTrigger(r) BY <1>4, <2>2
  <2>3. CASE ~PauseTrigger(r) /\ ~ResumeTrigger(r)
    BY <1>1, <1>6, <2>3 DEF Request, PostReload, PostSwitch, AddPaused, DiscardPaused
  <2> QED BY <2>1, <2>2, <2>3
<1>7. CASE Poll
  BY <1>1, <1>7 DEF Poll, FirstStat, PollConnections, PollSecrets, PollJobs, Noticed,
                    StatAgain
<1>8. ASSUME NEW f \in Files, Edit(f) PROVE TriggersKept BY <1>1, <1>8 DEF Edit
<1>9. CASE TimePasses BY <1>9, TimeSpent DEF TriggersKept
<1> QED BY <1>5, <1>6, <1>7, <1>8, <1>9 DEF CRNext

(* A job whose schedule a reload finds as it was scheduled last keeps what *)
(* its timer has counted off, and its pause until it is resumed, for any   *)
(* jobs, edits, reloads and requests (README.md:227-229, aps.py:49-51).    *)
THEOREM TriggersStay == CRSpec => UnchangedScheduleKeepsTrigger
<1>1. CRInv /\ [CRNext]_crVars => [TriggersKept]_crVars BY TriggersStep
<1> QED BY CRInitInv, CRNextInv, <1>1, PTL
        DEF CRSpec, UnchangedScheduleKeepsTrigger, TriggersKept

-----------------------------------------------------------------------------
\* CatalogReload, the connections.  The catalog in force goes by those in
\* force; or the polling thread has replaced them, and has yet to apply or to
\* refuse a catalog; or the last reload has refused one.
InOrder == mishaps \cap {"overtaken", "raised"} = {}
Connected == \A j \in DOMAIN jobs : jobs[j].connection \in registry.names
Reloads == {"names", "read", "validate", "apply"}
Loop == {"pausing", "pausing one"}
OnlyPollInstalls == \A r \in Requests : pc[r] \notin {"registry", "install"}
ConnectionsKnown ==
    InOrder => /\ pc["poll"] \in Reloads \/ Connected \/ ~loaded.ok
               /\ \A t \in Threads : pc[t] \in Loop => pc["poll"] \in Reloads \/ Connected
LostInv == OnlyPollInstalls /\ ConnectionsKnown

\* Where the threads are after a step of one of them.
LEMMA PcMoves ==
    ASSUME HandsOk, NEW t \in Threads, NEW label, Goto(t, label)
    PROVE  \A u \in Threads : pc'[u] = IF u = t THEN label ELSE pc[u]
BY DEF HandsOk, Goto

\* Only the polling thread goes on to read connections.yaml.
LEMMA InstallsKept ==
    ASSUME HandsOk, LostInv, NEW t \in Threads, NEW label, Goto(t, label),
           t \in Requests => label \notin {"registry", "install"}
    PROVE  OnlyPollInstalls'
<1>1. ASSUME NEW r \in Requests PROVE pc'[r] \notin {"registry", "install"}
  <2>1. r \in Threads BY DEF Threads
  <2>2. pc'[r] = IF r = t THEN label ELSE pc[r] BY <2>1, PcMoves
  <2> QED BY <2>2 DEF LostInv, OnlyPollInstalls
<1> QED BY <1>1 DEF OnlyPollInstalls

\* A step that touches neither the catalog, the connections nor the verdict,
\* and neither enters the loop nor leaves a reload.
LEMMA ConnectionsKept ==
    ASSUME HandsOk, LostInv, NEW t \in Threads, NEW label, Goto(t, label),
           jobs' = jobs, registry' = registry, loaded' = loaded,
           mishaps \subseteq mishaps',
           t \in Requests => label \notin {"registry", "install"},
           label \in Loop => pc[t] \in Loop,
           t = "poll" /\ pc[t] \in Reloads => label \in Reloads
    PROVE  LostInv'
<1>1. "poll" \in Threads BY DEF Threads
<1>2. \A u \in Threads : pc'[u] = IF u = t THEN label ELSE pc[u] BY PcMoves
<1>3. OnlyPollInstalls' BY InstallsKept
<1>4. ConnectionsKnown'
  <2> SUFFICES ASSUME InOrder'
               PROVE  /\ pc'["poll"] \in Reloads \/ Connected' \/ ~loaded'.ok
                      /\ \A u \in Threads :
                           pc'[u] \in Loop => pc'["poll"] \in Reloads \/ Connected'
    BY DEF ConnectionsKnown, Reloads, Loop
  <2>1. InOrder BY DEF InOrder
  <2>2. Connected' <=> Connected BY DEF Connected
  <2>3. pc["poll"] \in Reloads => pc'["poll"] \in Reloads BY <1>1, <1>2
  <2>4. pc["poll"] \in Reloads \/ Connected \/ ~loaded.ok
    BY <2>1 DEF LostInv, ConnectionsKnown
  <2>5. ASSUME NEW u \in Threads, pc'[u] \in Loop
        PROVE  pc["poll"] \in Reloads \/ Connected
    <3>1. pc[u] \in Loop BY <1>2, <2>5
    <3> QED BY <2>1, <3>1 DEF LostInv, ConnectionsKnown
  <2> QED BY <2>2, <2>3, <2>4, <2>5
<1> QED BY <1>3, <1>4 DEF LostInv

\* The polling thread replaces the connections, and has a catalog to load.
LEMMA ConnectionsInstalled ==
    ASSUME HandsOk, LostInv, NEW t \in Threads, InstallConnections(t)
    PROVE  LostInv'
<1>1. t = "poll"
  BY DEF InstallConnections, LostInv, OnlyPollInstalls, Threads
<1>2. pc'["poll"] = "names"
  BY <1>1, PcMoves DEF InstallConnections
<1>3. OnlyPollInstalls' BY InstallsKept DEF InstallConnections
<1>4. ConnectionsKnown' BY <1>2 DEF ConnectionsKnown, Reloads
<1> QED BY <1>3, <1>4 DEF LostInv

\* A catalog that is applied in order goes by the connections in force.
LEMMA ConnectionsApplied ==
    ASSUME HandsOk, LostInv, NEW t \in Threads, Apply(t) PROVE LostInv'
<1> DEFINE new == Accepts(t)
<1>1. /\ jobs' = new /\ registry' = registry /\ Goto(t, "pausing")
      /\ mishaps' = mishaps \cup (IF Overtaken(t) THEN {"overtaken"} ELSE {})
  BY DEF Apply, Note, Late
<1>2. \A j \in DOMAIN new : new[j].connection \in hand[t].names
  BY DEF Accepts, Accepted, Rejected
<1>3. OnlyPollInstalls' BY <1>1, InstallsKept
<1>4. InOrder' => Connected'
  <2> SUFFICES ASSUME InOrder' PROVE Connected' OBVIOUS
  <2>1. ~Overtaken(t) BY <1>1 DEF InOrder
  <2>2. hand[t].names = registry.names BY <2>1 DEF Overtaken
  <2> HIDE DEF new
  <2> QED BY <1>1, <1>2, <2>2 DEF Connected
<1> QED BY <1>3, <1>4 DEF LostInv, ConnectionsKnown

\* An exception is noted, whatever it leaves behind.
LEMMA ConnectionsRaised ==
    ASSUME HandsOk, LostInv, NEW t \in Threads, NEW label, Goto(t, label),
           t \in Requests => label \notin {"registry", "install"},
           "raised" \in mishaps'
    PROVE  LostInv'
<1>1. OnlyPollInstalls' BY InstallsKept
<1>2. ~InOrder' BY DEF InOrder
<1> QED BY <1>1, <1>2 DEF LostInv, ConnectionsKnown

LEMMA EndsInOrder ==
    ASSUME HandsOk, LostInv, NEW t \in Threads, NEW races, Ends(t, races)
    PROVE  LostInv' \/ (Goto(t, After(t)) /\ mishaps' = mishaps \cup races)
<1>1. CASE Dies(t) /\ Note(races \cup {"raised"})
  BY <1>1, ConnectionsRaised DEF Dies, Note
<1> QED BY <1>1 DEF Ends, Note

\* A catalog that is refused is reported.
LEMMA ConnectionsRefused ==
    ASSUME HandsOk, LostInv, NEW t \in Threads, KeepPrevious(t) PROVE LostInv'
<1> SUFFICES ASSUME Goto(t, After(t)) PROVE LostInv'
  BY EndsInOrder DEF KeepPrevious
<1>1. /\ LockFree /\ ~Applies(t) /\ Record(t)
      /\ jobs' = jobs /\ registry' = registry
  BY DEF KeepPrevious
<1>2. ~loaded'.ok BY <1>1 DEF Record, Applies
<1>3. \A u \in Threads : pc'[u] = IF u = t THEN After(t) ELSE pc[u]
  BY PcMoves
<1>4. \A u \in Threads : pc'[u] \notin Loop
  BY <1>1, <1>3 DEF LockFree, Loop, After
<1>5. OnlyPollInstalls' BY InstallsKept DEF After, Threads
<1> QED BY <1>2, <1>4, <1>5 DEF LostInv, ConnectionsKnown, Loop

\* The verdict on the catalog in force is recorded.
LEMMA ConnectionsRecorded ==
    ASSUME HandsOk, LostInv, NEW t \in Threads, EndReload(t) PROVE LostInv'
<1> SUFFICES ASSUME Goto(t, After(t)), mishaps \subseteq mishaps' PROVE LostInv'
  BY EndsInOrder DEF EndReload
<1>1. pc[t] = "pausing" /\ jobs' = jobs /\ registry' = registry
  BY DEF EndReload
<1>2. \A u \in Threads : pc'[u] = IF u = t THEN After(t) ELSE pc[u]
  BY PcMoves
<1>3. OnlyPollInstalls' BY InstallsKept DEF After, Threads
<1>4. "poll" \in Threads BY DEF Threads
<1>5. InOrder' => pc'["poll"] \in Reloads \/ Connected'
  <2> SUFFICES ASSUME InOrder' PROVE pc'["poll"] \in Reloads \/ Connected' OBVIOUS
  <2>1. InOrder BY DEF InOrder
  <2>2. pc["poll"] \in Reloads \/ Connected
    BY <1>1, <2>1 DEF LostInv, ConnectionsKnown, Loop
  <2>3. pc["poll"] \in Reloads => t # "poll" BY <1>1 DEF Reloads
  <2>4. pc["poll"] \in Reloads => pc'["poll"] \in Reloads BY <1>2, <1>4, <2>3
  <2>5. Connected => Connected' BY <1>1 DEF Connected
  <2> QED BY <2>2, <2>4, <2>5
<1> QED BY <1>3, <1>5 DEF LostInv, ConnectionsKnown, Reloads

LEMMA LostInitInv == CRInit => LostInv
<1> SUFFICES ASSUME CRInit PROVE LostInv OBVIOUS
<1>1. \A t \in Threads : pc[t] = IF t = "poll" THEN "registry" ELSE "idle"
  BY DEF CRInit
<1>2. OnlyPollInstalls
  BY <1>1, CatalogReloadAssumption DEF OnlyPollInstalls, Threads
<1>3. Connected BY DEF CRInit, Connected
<1> QED BY <1>2, <1>3 DEF LostInv, ConnectionsKnown

LEMMA LostNextInv == CRInv /\ LostInv /\ [CRNext]_crVars => LostInv'
<1> SUFFICES ASSUME CRInv, LostInv, [CRNext]_crVars PROVE LostInv' OBVIOUS
<1>0. HandsOk /\ "poll" \in Threads /\ "poll" \notin Requests
  BY CatalogReloadAssumption DEF CRInv, Threads
<1>1. ASSUME UNCHANGED <<jobs, registry, loaded, pc, mishaps>> PROVE LostInv'
  BY <1>1 DEF LostInv, OnlyPollInstalls, ConnectionsKnown, InOrder, Connected,
              Reloads, Loop
<1>2. ASSUME NEW f \in Files, Edit(f) PROVE LostInv' BY <1>1, <1>2 DEF Edit
<1>3. ASSUME NEW t \in Threads, Reload(t) PROVE LostInv'
  <2>1. CASE ReadConnections(t)
    <3>1. pc[t] = "registry" /\ t \notin Requests
      BY <2>1 DEF ReadConnections, LostInv, OnlyPollInstalls
    <3> QED BY <1>0, <2>1, <3>1, ConnectionsKept DEF ReadConnections, Loop, Reloads
  <2>2. CASE InstallConnections(t) BY <1>0, <2>2, ConnectionsInstalled
  <2>3. CASE ReadNames(t)
    BY <1>0, <2>3, ConnectionsKept DEF ReadNames, Loop, Reloads
  <2>4. CASE ReadJobs(t) BY <1>0, <2>4, ConnectionsKept DEF ReadJobs, Loop, Reloads
  <2>5. CASE Validate(t) BY <1>0, <2>5, ConnectionsKept DEF Validate, Loop, Reloads
  <2>6. CASE Apply(t) BY <1>0, <2>6, ConnectionsApplied
  <2>7. CASE KeepPrevious(t) BY <1>0, <2>7, ConnectionsRefused
  <2>8. CASE PickPaused(t)
    BY <1>0, <2>8, ConnectionsKept DEF PickPaused, Loop, Reloads
  <2>9. CASE PauseAgain(t)
    <3>1. mishaps \subseteq mishaps' BY <2>9 DEF PauseAgain, Note
    <3> QED BY <1>0, <2>9, <3>1, ConnectionsKept DEF PauseAgain, Loop, Reloads
  <2>10. CASE EndReload(t) BY <1>0, <2>10, ConnectionsRecorded
  <2>11. CASE LoopRaises(t) \/ ApplyRaises(t)
    <3>1. Dies(t) /\ "raised" \in mishaps' BY <2>11 DEF LoopRaises, ApplyRaises, Note
    <3> QED BY <1>0, <3>1, ConnectionsRaised DEF Dies
  <2>12. CASE StartFails(t)
    <3>1. t = "poll" BY <2>12 DEF StartFails, CRInv, HandsOk, HandOk
    <3>2. Goto(t, "registry") /\ "raised" \in mishaps' BY <2>12 DEF StartFails, Note
    <3> QED BY <1>0, <3>1, <3>2, ConnectionsRaised
  <2> QED BY <1>3, <2>1, <2>2, <2>3, <2>4, <2>5, <2>6, <2>7, <2>8, <2>9, <2>10,
             <2>11, <2>12 DEF Reload
<1>4. CASE Poll
  <2>1. \E label \in {"wait", "registry", "names"} : Goto("poll", label)
    BY <1>4 DEF Poll, FirstStat, PollConnections, PollSecrets, PollJobs, StatAgain,
                Noticed
  <2>2. /\ jobs' = jobs /\ registry' = registry /\ loaded' = loaded
        /\ mishaps \subseteq mishaps' /\ pc["poll"] \notin Reloads
    BY <1>4 DEF Poll, FirstStat, PollConnections, PollSecrets, PollJobs, StatAgain,
                Noticed, Note, Reloads
  <2> QED BY <1>0, <2>1, <2>2, ConnectionsKept DEF Loop
<1>5. ASSUME NEW r \in Requests, Request(r) PROVE LostInv'
  <2>1. r \in Threads /\ r # "poll" BY <1>0 DEF Threads
  <2>2. \E label \in {"names", "pause", "resume", "pause trigger", "resume trigger",
                      "idle"} : Goto(r, label)
    BY <1>5 DEF Request, PostReload, PostSwitch, AddPaused, DiscardPaused,
                PauseTrigger, ResumeTrigger
  <2>3. /\ jobs' = jobs /\ registry' = registry /\ loaded' = loaded
        /\ mishaps \subseteq mishaps'
    BY <1>5 DEF Request, PostReload, PostSwitch, AddPaused, DiscardPaused,
                PauseTrigger, ResumeTrigger, Unserved, Note
  <2> QED BY <1>0, <2>1, <2>2, <2>3, ConnectionsKept DEF Loop
<1>6. CASE UNCHANGED crVars BY <1>1, <1>6 DEF crVars
<1>7. CASE TimePasses BY <1>1, <1>7 DEF TimePasses
<1> QED BY <1>2, <1>3, <1>4, <1>5, <1>6, <1>7 DEF CRNext

(* A job of the catalog in force whose connection is gone is reported, for *)
(* any files, edits, reloads and requests, unless a reload was overtaken   *)
(* by another or ended by an exception (service.py:157-184).               *)
THEOREM LostConnectionsShow == CRSpec => []LostConnectionIsReported
<1> DEFINE Inv == CRInv /\ LostInv
<1>1. CRInit => Inv BY CRInitInv, LostInitInv
<1>2. Inv /\ [CRNext]_crVars => Inv' BY CRNextInv, LostNextInv
<1>3. Inv => LostConnectionIsReported
  BY DEF LostInv, ConnectionsKnown, InOrder, Connected, Reloads, Quiet,
         LostConnectionIsReported
<1> HIDE DEF Inv
<1> QED BY <1>1, <1>2, <1>3, PTL DEF CRSpec

-----------------------------------------------------------------------------
(* CatalogReload, the types.  A reading is a version that the file has had *)
(* by then, and _config_lock belongs to the thread that is in the loop.    *)
Versions(f) == 1..LastVersion[f]
HandTyped(h, label) ==
    /\ h.jobs \in 0..LastVersion["jobs"]
    /\ h.connections \in 0..LastVersion["connections"] /\ h.at \subseteq JobIds
    /\ label \in {"validate", "apply"} => h.jobs \in Versions("jobs")
RestTyped ==
    /\ disk \in [Files -> Nat] /\ seen \in [Files -> Nat]
    /\ \A f \in Files : disk[f] \in Versions(f)
    /\ registry.version \in 0..LastVersion["connections"]
    /\ DOMAIN jobs \subseteq JobIds /\ paused \subseteq JobIds
    /\ loaded.jobs \in 0..LastVersion["jobs"] /\ loaded.ok \in BOOLEAN
    /\ mishaps \subseteq {"hidden", "overtaken", "raised", "crossed"}
LockOwned == \A t, u \in Threads : pc[t] \in Loop /\ pc[u] \in Loop => t = u

CRTypes == RestTyped /\ LockOwned /\ \A t \in Threads : HandTyped(hand[t], pc[t])

LEMMA LastVersions ==
    \A f \in Files : LastVersion[f] \in Nat /\ LastVersion[f] # 0
  BY CatalogReloadAssumption

\* A thread goes on; it enters the loop only when the lock is free.
LEMMA TypesMove ==
    ASSUME HandsOk, CRTypes, NEW t \in Threads, NEW label, NEW what,
           Goto(t, label), Keep(t, what), HandTyped(what, label), RestTyped',
           label \in Loop => pc[t] \in Loop \/ LockFree
    PROVE  CRTypes'
<1>1. \A u \in Threads : /\ pc'[u] = IF u = t THEN label ELSE pc[u]
                         /\ hand'[u] = IF u = t THEN what ELSE hand[u]
  <2>1. DOMAIN pc = Threads /\ DOMAIN hand = Threads BY DEF HandsOk
  <2> QED BY <2>1 DEF Goto, Keep
<1>2. LockOwned'
  <2> SUFFICES ASSUME NEW u \in Threads, NEW v \in Threads, pc'[u] \in Loop, pc'[v] \in Loop
               PROVE  u = v
    BY DEF LockOwned, Loop
  <2>1. CASE LockFree
    <3>1. \A x \in Threads : x # t => pc'[x] \notin Loop BY <1>1, <2>1 DEF LockFree, Loop
    <3> QED BY <3>1
  <2>2. CASE label \in Loop => pc[t] \in Loop
    <3>1. pc[u] \in Loop /\ pc[v] \in Loop BY <1>1, <2>2
    <3> QED BY <3>1 DEF CRTypes, LockOwned
  <2> QED BY <2>1, <2>2
<1>3. ASSUME NEW u \in Threads PROVE HandTyped(hand[u], pc[u])'
  <2>1. CASE u = t BY <1>1, <2>1 DEF HandTyped, Versions
  <2>2. CASE u # t BY <1>1, <2>2 DEF CRTypes, HandTyped, Versions
  <2> QED BY <2>1, <2>2
<1> QED BY <1>2, <1>3 DEF CRTypes

LEMMA NothingTyped ==
    \A label : label \notin {"validate", "apply"} => HandTyped(Nothing, label)
  BY LastVersions DEF Nothing, HandTyped, Files

LEMMA StartingTyped == HandTyped(Starting, "registry")
  BY LastVersions DEF Starting, Nothing, HandTyped, Files

LEMMA FlagTyped ==
    ASSUME NEW b \in BOOLEAN, NEW label, label \notin {"validate", "apply"}
    PROVE  HandTyped([Nothing EXCEPT !.restat = b], label)
  BY LastVersions DEF Nothing, HandTyped, Files

\* A reload is over: what it has read is forgotten but for the versions.
LEMMA LeftTyped ==
    ASSUME HandsOk, CRTypes, NEW t \in Threads
    PROVE  HandTyped(Left(t), After(t)) /\ After(t) \notin Loop
<1>1. HandOk(t, hand[t]) /\ HandTyped(hand[t], pc[t]) BY DEF HandsOk, CRTypes
<1>2. After(t) \notin {"validate", "apply", "pausing", "pausing one"} BY DEF After
<1>3. CASE Left(t) = Nothing
  <2>1. HandTyped(Nothing, After(t)) BY <1>2, NothingTyped
  <2> QED BY <1>2, <1>3, <2>1 DEF Loop
<1>4. CASE Left(t) # Nothing
  <2>1. Left(t) = [hand[t] EXCEPT !.size = 0, !.begun = {}, !.visited = {}, !.at = {},
                                  !.names = {}]
    BY <1>4 DEF Left
  <2>2. /\ Left(t).jobs = hand[t].jobs /\ Left(t).connections = hand[t].connections
        /\ Left(t).at = {}
    BY <1>1, <2>1 DEF HandOk, HandFields
  <2> QED BY <1>1, <1>2, <2>2 DEF HandTyped, Loop
<1> QED BY <1>3, <1>4

\* A step that changes nothing but the thread and the mishaps.
RestStays == /\ UNCHANGED <<disk, seen, registry, jobs, paused, loaded>>
             /\ mishaps' \subseteq mishaps \cup {"hidden", "overtaken", "raised", "crossed"}
LEMMA RestKept == ASSUME CRTypes, RestStays PROVE RestTyped'
  BY DEF CRTypes, RestTyped, RestStays, Versions

LEMMA CatalogTyped ==
    ASSUME NEW v \in Versions("jobs"), NEW names, NEW s
    PROVE  DOMAIN Accepted(v, names, s) \subseteq JobIds
<1>1. Catalog[v] # Unparsable => DOMAIN Catalog[v] \subseteq JobIds
  BY CatalogReloadAssumption DEF Versions
<1>2. DOMAIN CatalogJobs(v) \subseteq JobIds BY <1>1 DEF CatalogJobs
<1> QED BY <1>2 DEF Accepted

\* A thread that an exception has ended.
LEMMA DeadTyped ==
    ASSUME CRInv, CRTypes, NEW t \in Threads, Dies(t), RestTyped' PROVE CRTypes'
<1> DEFINE label == IF t = "poll" THEN "dead" ELSE "idle"
<1>1. Keep(t, Nothing) /\ Goto(t, label) BY DEF Dies
<1>2. HandTyped(Nothing, label) /\ label \notin Loop BY NothingTyped DEF Loop
<1> HIDE DEF label
<1> QED BY <1>1, <1>2, TypesMove DEF CRInv

LEMMA ReloadTyped ==
    ASSUME CRInv, CRTypes, NEW t \in Threads, Reload(t) PROVE CRTypes'
<1>1. /\ HandsOk /\ HandOk(t, hand[t]) /\ HandTyped(hand[t], pc[t]) /\ RestTyped
      /\ "jobs" \in Files /\ "connections" \in Files
  BY DEF CRInv, HandsOk, CRTypes, Files
<1>2. /\ LastVersion["jobs"] \in Nat /\ LastVersion["connections"] \in Nat
      /\ disk["jobs"] \in Versions("jobs") /\ disk["connections"] \in Versions("connections")
  BY <1>1, LastVersions DEF RestTyped
<1>3. ASSUME UNCHANGED <<disk, seen, registry, jobs, paused, loaded, mishaps>>
      PROVE  RestTyped'
  BY <1>3, RestKept DEF RestStays
<1>4. CASE ReadConnections(t)
  <2> DEFINE what == [hand[t] EXCEPT !.connections = disk["connections"]]
  <2>1. /\ what.jobs = hand[t].jobs /\ what.connections = disk["connections"]
        /\ what.at = hand[t].at
    BY <1>1 DEF HandOk, HandFields
  <2>2. Keep(t, what) /\ Goto(t, "install") BY <1>4 DEF ReadConnections
  <2> HIDE DEF what
  <2>3. HandTyped(what, "install") BY <1>1, <1>2, <2>1 DEF HandTyped, Versions
  <2>4. RestTyped' BY <1>3, <1>4 DEF ReadConnections
  <2> QED BY <1>1, <2>2, <2>3, <2>4, TypesMove DEF Loop
<1>5. CASE InstallConnections(t)
  <2>1. Keep(t, hand[t]) BY <1>1, <1>5, KeepsAll DEF InstallConnections
  <2>2. HandTyped(hand[t], "names") BY <1>1 DEF HandTyped
  <2>3. registry'.version = hand[t].connections BY <1>5 DEF InstallConnections
  <2>4. UNCHANGED <<disk, seen, jobs, paused, loaded, mishaps>> /\ Goto(t, "names")
    BY <1>5 DEF InstallConnections
  <2>5. RestTyped' BY <1>1, <2>3, <2>4 DEF RestTyped, HandTyped, Versions
  <2> QED BY <1>1, <2>1, <2>2, <2>4, <2>5, TypesMove DEF Loop
<1>6. CASE ReadNames(t)
  <2> DEFINE what == [hand[t] EXCEPT !.names = registry.names]
  <2>1. /\ what.jobs = hand[t].jobs /\ what.connections = hand[t].connections
        /\ what.at = hand[t].at
    BY <1>1 DEF HandOk, HandFields
  <2>2. Keep(t, what) /\ Goto(t, "read") BY <1>6 DEF ReadNames
  <2> HIDE DEF what
  <2>3. HandTyped(what, "read") BY <1>1, <2>1 DEF HandTyped
  <2>4. RestTyped' BY <1>3, <1>6 DEF ReadNames
  <2> QED BY <1>1, <2>2, <2>3, <2>4, TypesMove DEF Loop
<1>7. CASE ReadJobs(t)
  <2> DEFINE what == [hand[t] EXCEPT !.jobs = disk["jobs"]]
  <2>1. /\ what.jobs = disk["jobs"] /\ what.connections = hand[t].connections
        /\ what.at = hand[t].at
    BY <1>1 DEF HandOk, HandFields
  <2>2. Keep(t, what) /\ Goto(t, "validate") BY <1>7 DEF ReadJobs
  <2> HIDE DEF what
  <2>3. HandTyped(what, "validate") BY <1>1, <1>2, <2>1 DEF HandTyped, Versions
  <2>4. RestTyped' BY <1>3, <1>7 DEF ReadJobs
  <2> QED BY <1>1, <2>2, <2>3, <2>4, TypesMove DEF Loop
<1>8. CASE Validate(t)
  <2> DEFINE what == [hand[t] EXCEPT !.secrets = disk["secrets"]]
  <2>1. /\ what.jobs = hand[t].jobs /\ what.connections = hand[t].connections
        /\ what.at = hand[t].at
    BY <1>1 DEF HandOk, HandFields
  <2>2. Keep(t, what) /\ Goto(t, "apply") /\ pc[t] = "validate" BY <1>8 DEF Validate
  <2> HIDE DEF what
  <2>3. HandTyped(what, "apply") BY <1>1, <2>1, <2>2 DEF HandTyped
  <2>4. RestTyped' BY <1>3, <1>8 DEF Validate
  <2> QED BY <1>1, <2>2, <2>3, <2>4, TypesMove DEF Loop
<1>9. CASE Apply(t)
  <2> DEFINE new == Accepts(t)
             still == paused \cap DOMAIN new
             what == [hand[t] EXCEPT !.size = Cardinality(still), !.begun = still,
                                     !.visited = {}, !.at = {}]
  <2>1. /\ pc[t] = "apply" /\ LockFree /\ jobs' = new /\ paused' = still
        /\ Keep(t, what) /\ Goto(t, "pausing")
        /\ UNCHANGED <<disk, seen, registry, loaded>>
        /\ mishaps' \subseteq mishaps \cup {"overtaken"}
    BY <1>9 DEF Apply, Note, Late
  <2>2. /\ what.jobs = hand[t].jobs /\ what.connections = hand[t].connections
        /\ what.at = {}
    BY <1>1 DEF HandOk, HandFields
  <2>3. DOMAIN new \subseteq JobIds
    <3>1. hand[t].jobs \in Versions("jobs") BY <1>1, <2>1 DEF HandTyped
    <3> QED BY <3>1, CatalogTyped DEF Accepts
  <2> HIDE DEF what, new
  <2>4. HandTyped(what, "pausing") BY <1>1, <2>2 DEF HandTyped
  <2>5. RestTyped' BY <1>1, <2>1, <2>3 DEF RestTyped, Versions
  <2> QED BY <1>1, <2>1, <2>4, <2>5, TypesMove
<1>10. CASE KeepPrevious(t) \/ EndReload(t)
  <2>1. /\ Record(t)
        /\ UNCHANGED <<disk, seen, registry, jobs, paused>>
        /\ mishaps' \subseteq mishaps \cup {"overtaken", "crossed", "raised"}
        /\ \/ Goto(t, After(t)) /\ Keep(t, Left(t))
           \/ Dies(t)
    BY <1>10 DEF KeepPrevious, EndReload, Ends, Note, Late
  <2>2. loaded'.jobs = hand[t].jobs /\ loaded'.ok \in BOOLEAN
    BY <2>1 DEF Record, Ok
  <2>3. RestTyped' BY <1>1, <2>1, <2>2 DEF RestTyped, HandTyped, Versions
  <2>4. CASE Goto(t, After(t)) /\ Keep(t, Left(t))
    <3>1. HandTyped(Left(t), After(t)) /\ After(t) \notin Loop BY <1>1, LeftTyped
    <3> QED BY <1>1, <2>3, <2>4, <3>1, TypesMove
  <2>5. CASE Dies(t) BY <2>3, <2>5, DeadTyped
  <2> QED BY <2>1, <2>4, <2>5
<1>11. CASE PickPaused(t)
  <2>1. PICK j \in paused \ hand[t].visited :
          Keep(t, [hand[t] EXCEPT !.at = {j}, !.visited = @ \cup {j}])
    BY <1>11 DEF PickPaused
  <2> DEFINE what == [hand[t] EXCEPT !.at = {j}, !.visited = @ \cup {j}]
  <2>2. /\ what.jobs = hand[t].jobs /\ what.connections = hand[t].connections
        /\ what.at = {j}
    BY <1>1 DEF HandOk, HandFields
  <2>3. Keep(t, what) /\ Goto(t, "pausing one") /\ pc[t] = "pausing"
    BY <1>11, <2>1 DEF PickPaused
  <2> HIDE DEF what
  <2>4. HandTyped(what, "pausing one") BY <1>1, <2>2 DEF HandTyped, RestTyped
  <2>5. RestTyped' BY <1>3, <1>11 DEF PickPaused
  <2> QED BY <1>1, <2>3, <2>4, <2>5, TypesMove DEF Loop
<1>12. CASE PauseAgain(t)
  <2>1. Keep(t, hand[t]) BY <1>1, <1>12, KeepsAll DEF PauseAgain
  <2>2. HandTyped(hand[t], "pausing") BY <1>1 DEF HandTyped
  <2>3. pc[t] = "pausing one" /\ Goto(t, "pausing") BY <1>12 DEF PauseAgain
  <2>4. RestStays BY <1>12 DEF PauseAgain, Note, RestStays
  <2> QED BY <1>1, <2>1, <2>2, <2>3, <2>4, RestKept, TypesMove DEF Loop
<1>13. CASE LoopRaises(t)
  <2>1. Dies(t) /\ RestStays BY <1>13 DEF LoopRaises, Note, RestStays
  <2> QED BY <2>1, RestKept, DeadTyped
<1>14. CASE ApplyRaises(t)
  <2> DEFINE new == Accepts(t)
  <2>1. /\ pc[t] = "apply" /\ Dies(t) /\ jobs' = new /\ paused' = paused \cap DOMAIN new
        /\ UNCHANGED <<disk, seen, registry, loaded>>
        /\ mishaps' \subseteq mishaps \cup {"overtaken", "raised"}
    BY <1>14 DEF ApplyRaises, Note, Late
  <2>2. DOMAIN new \subseteq JobIds
    <3>1. hand[t].jobs \in Versions("jobs") BY <1>1, <2>1 DEF HandTyped
    <3> QED BY <3>1, CatalogTyped DEF Accepts
  <2> HIDE DEF new
  <2>3. RestTyped' BY <1>1, <2>1, <2>2 DEF RestTyped, Versions
  <2> QED BY <2>1, <2>3, DeadTyped
<1>15. CASE StartFails(t)
  <2>1. /\ Goto(t, "registry") /\ Keep(t, Starting) /\ disk' = disk /\ seen' = seen
        /\ registry' = [names |-> {}, version |-> 0, ok |-> FALSE]
        /\ jobs' = <<>> /\ paused' = {}
        /\ loaded' = [jobs |-> 0, secrets |-> 0, ok |-> FALSE]
        /\ mishaps' = mishaps \cup {"raised"}
    BY <1>15 DEF StartFails, Note
  <2>2. /\ registry'.version = 0 /\ loaded'.jobs = 0 /\ loaded'.ok = FALSE
        /\ DOMAIN jobs' = {}
    BY <2>1
  <2>3. RestTyped' BY <1>1, <1>2, <2>1, <2>2 DEF RestTyped, Versions
  <2> QED BY <1>1, <2>1, <2>3, StartingTyped, TypesMove DEF Loop
<1> QED BY <1>4, <1>5, <1>6, <1>7, <1>8, <1>9, <1>10, <1>11, <1>12, <1>13, <1>14,
           <1>15 DEF Reload

LEMMA PollTyped == ASSUME CRInv, CRTypes, Poll PROVE CRTypes'
<1>1. "poll" \in Threads /\ HandsOk /\ RestTyped BY DEF Threads, CRInv, CRTypes
<1>2. ASSUME NEW b \in BOOLEAN, NEW label \in {"wait", "registry", "names"}
      PROVE  /\ HandTyped(Nothing, label) /\ label \notin Loop
             /\ HandTyped([Nothing EXCEPT !.restat = b], label)
  BY NothingTyped, FlagTyped DEF Loop
<1>3. \E label \in {"wait", "registry", "names"}, b \in BOOLEAN :
        /\ Goto("poll", label)
        /\ Keep("poll", Nothing) \/ Keep("poll", [Nothing EXCEPT !.restat = b])
  BY DEF Poll, FirstStat, PollConnections, PollSecrets, PollJobs, StatAgain, Noticed
<1>4. /\ UNCHANGED <<disk, registry, jobs, paused, loaded>>
      /\ mishaps' \subseteq mishaps \cup {"hidden"}
  BY DEF Poll, FirstStat, PollConnections, PollSecrets, PollJobs, StatAgain, Noticed, Note
<1>5. \/ seen' = disk
      \/ \E f \in Files : seen' = [seen EXCEPT ![f] = disk[f]]
  BY DEF Poll, FirstStat, PollConnections, PollSecrets, PollJobs, StatAgain, Noticed, Files
<1>6. seen' \in [Files -> Nat] BY <1>1, <1>5 DEF RestTyped
<1>7. RestTyped' BY <1>1, <1>4, <1>6 DEF RestTyped, Versions
<1> QED BY <1>1, <1>2, <1>3, <1>7, TypesMove

LEMMA RequestTyped ==
    ASSUME CRInv, CRTypes, NEW r \in Requests, Request(r) PROVE CRTypes'
<1>1. /\ r \in Threads /\ HandsOk /\ RestTyped /\ HandOk(r, hand[r])
      /\ HandTyped(hand[r], pc[r])
  BY DEF Threads, CRInv, CRTypes, HandsOk
<1>2. RestTyped'
  <2>1. paused' \subseteq paused \cup hand[r].at
    BY DEF Request, PostReload, PostSwitch, AddPaused, DiscardPaused, PauseTrigger,
           ResumeTrigger
  <2>2. /\ UNCHANGED <<disk, seen, registry, jobs, loaded>>
        /\ mishaps' \subseteq mishaps \cup {"crossed"}
    BY DEF Request, PostReload, PostSwitch, AddPaused, DiscardPaused, PauseTrigger,
           ResumeTrigger, Unserved, Note
  <2> QED BY <1>1, <2>1, <2>2 DEF RestTyped, HandTyped, Versions
<1>3. ASSUME NEW label \in {"names", "idle"}, Goto(r, label), Keep(r, Nothing)
      PROVE  CRTypes'
  <2>1. HandTyped(Nothing, label) BY NothingTyped
  <2> QED BY <1>1, <1>2, <1>3, <2>1, TypesMove DEF Loop
<1>4. ASSUME NEW label \in {"pause trigger", "resume trigger"}, Goto(r, label),
             hand' = hand
      PROVE  CRTypes'
  <2>1. Keep(r, hand[r]) /\ HandTyped(hand[r], label)
    BY <1>1, <1>4, KeepsAll DEF HandTyped
  <2> QED BY <1>1, <1>2, <1>4, <2>1, TypesMove DEF Loop
<1>5. ASSUME NEW j \in JobIds, NEW label \in {"pause", "resume"}, PostSwitch(r, j, label)
      PROVE  CRTypes'
  <2> DEFINE what == [Nothing EXCEPT !.at = {j}]
  <2>1. what.jobs = 0 /\ what.connections = 0 /\ what.at = {j} BY DEF Nothing
  <2>2. Keep(r, what) /\ Goto(r, label) BY <1>5 DEF PostSwitch
  <2> HIDE DEF what
  <2>3. HandTyped(what, label) BY <2>1, LastVersions DEF HandTyped, Files
  <2> QED BY <1>1, <1>2, <2>2, <2>3, TypesMove DEF Loop
<1>6. CASE PostReload(r) BY <1>3, <1>6 DEF PostReload
<1>7. CASE AddPaused(r) \/ DiscardPaused(r) BY <1>4, <1>7 DEF AddPaused, DiscardPaused
<1>8. CASE PauseTrigger(r) \/ ResumeTrigger(r)
  BY <1>3, <1>8 DEF PauseTrigger, ResumeTrigger
<1> QED BY <1>5, <1>6, <1>7, <1>8 DEF Request

LEMMA CRTypesNext == CRInv /\ CRTypes /\ [CRNext]_crVars => CRTypes'
<1> SUFFICES ASSUME CRInv, CRTypes, [CRNext]_crVars PROVE CRTypes' OBVIOUS
<1>1. ASSUME RestTyped', UNCHANGED <<pc, hand>> PROVE CRTypes'
  BY <1>1 DEF CRTypes, LockOwned, Loop, HandTyped, Versions
<1>2. ASSUME NEW f \in Files, Edit(f) PROVE CRTypes'
  <2>1. /\ disk \in [Files -> Nat] /\ disk[f] < LastVersion[f] /\ disk[f] \in Nat
        /\ LastVersion[f] \in Nat /\ disk' = [disk EXCEPT ![f] = @ + 1]
    BY <1>2, LastVersions DEF Edit, CRTypes, RestTyped
  <2>2. disk' \in [Files -> Nat] BY <2>1
  <2>3. ASSUME NEW g \in Files PROVE disk'[g] \in Versions(g)
    <3>1. disk'[g] = IF g = f THEN disk[f] + 1 ELSE disk[g] BY <2>1
    <3>2. disk[f] + 1 \in Versions(f) BY <2>1 DEF Versions
    <3>3. disk[g] \in Versions(g) BY DEF CRTypes, RestTyped
    <3> QED BY <3>1, <3>2, <3>3
  <2>4. UNCHANGED <<seen, registry, jobs, paused, loaded, pc, hand, mishaps>>
    BY <1>2 DEF Edit
  <2>5. RestTyped' BY <2>2, <2>3, <2>4 DEF CRTypes, RestTyped, Versions
  <2> QED BY <1>1, <2>4, <2>5
<1>3. CASE UNCHANGED crVars
  <2>1. RestTyped' BY <1>3 DEF crVars, CRTypes, RestTyped, Versions
  <2> QED BY <1>1, <1>3, <2>1 DEF crVars
<1>4. CASE TimePasses
  <2>1. RestTyped' BY <1>4 DEF TimePasses, CRTypes, RestTyped, Versions
  <2> QED BY <1>1, <1>4, <2>1 DEF TimePasses
<1> QED BY <1>2, <1>3, <1>4, ReloadTyped, PollTyped, RequestTyped DEF CRNext

LEMMA CRTypesInit == CRInit => CRTypes
<1> SUFFICES ASSUME CRInit PROVE CRTypes OBVIOUS
<1>1. /\ \A f \in Files : disk[f] = 1 /\ LastVersion[f] \in Nat /\ 1 \in Versions(f)
      /\ disk \in [Files -> Nat] /\ seen \in [Files -> Nat]
      /\ LastVersion["jobs"] \in Nat /\ LastVersion["connections"] \in Nat
  BY LastVersions DEF CRInit, Versions, Files
<1>2. RestTyped BY <1>1 DEF CRInit, RestTyped
<1>3. \A t \in Threads : /\ pc[t] = IF t = "poll" THEN "registry" ELSE "idle"
                         /\ hand[t] = IF t = "poll" THEN Starting ELSE Nothing
  BY DEF CRInit
<1>4. LockOwned BY <1>3 DEF LockOwned, Loop
<1>5. HandTyped(Nothing, "idle") BY NothingTyped
<1>6. \A t \in Threads : HandTyped(hand[t], pc[t]) BY <1>3, <1>5, StartingTyped
<1> QED BY <1>2, <1>4, <1>6 DEF CRTypes

(* The reload's state is well typed, and _config_lock has at most one      *)
(* owner, for any files, edits and requests (service.py:157-184).          *)
THEOREM ReloadTypes == CRSpec => []CRTypeOK
<1> DEFINE Inv == CRInv /\ CRTypes
<1>1. CRInit => Inv BY CRInitInv, CRTypesInit
<1>2. Inv /\ [CRNext]_crVars => Inv' BY CRNextInv, CRTypesNext
<1>3. Inv => CRTypeOK
  <2> SUFFICES ASSUME CRInv, CRTypes PROVE CRTypeOK OBVIOUS
  <2>1. DOMAIN live \subseteq JobIds
    BY DEF CRInv, ScheduleFollowsCatalog, Scheduled, CRTypes, RestTyped
  <2>2. \A t, u \in Threads : {pc[t], pc[u]} \subseteq {"pausing", "pausing one"} => t = u
    BY DEF CRTypes, LockOwned, Loop
  <2> QED BY <2>1, <2>2 DEF CRTypes, RestTyped, HandTyped, CRTypeOK
<1> HIDE DEF Inv
<1> QED BY <1>1, <1>2, <1>3, PTL DEF CRSpec

-----------------------------------------------------------------------------
(* StartupCatchUp.  The next firing of a job that only waits for it is at  *)
(* most two and a half intervals after its last turn: one of them from the *)
(* trigger, the others from the test at the start, which never takes a     *)
(* success for newer than the last turn.                                   *)
SUInv ==
    /\ clock \in 0..LastInstant /\ firing \in Nat
    /\ policy \in {"never", "if_missed", "always"} /\ trigger \in {"cron", "every"}
    /\ lastTurn \in Nat /\ lastTurn <= clock
    /\ success = Never \/ (success \in Nat /\ success <= lastTurn)
    /\ up => firing <= clock + Interval
    /\ up /\ trigger = "cron" => firing \in Instants
    /\ up /\ ~held /\ running = "none" /\ pending = Never /\ policy # "never" =>
         2 * (firing - lastTurn) <= 5 * Interval

(* The first instant from a moment on is less than Interval away.          *)
LEMMA FirstIsNear ==
    ASSUME NEW t \in 0..LastInstant + Interval, NEW n \in FirstFrom(t)
    PROVE  n \in Instants /\ n \in Nat /\ t <= n /\ n < t + Interval
<1>1. PICK i \in Instants : t <= i /\ i < t + Interval BY StartupAssumption
<1>2. n \in Instants /\ t <= n /\ n <= i BY <1>1 DEF FirstFrom
<1>3. i \in Nat /\ n \in Nat /\ t \in Nat /\ Interval \in Nat BY <1>2, StartupAssumption
<1> QED BY <1>1, <1>2, <1>3

LEMMA NextIsNear ==
    ASSUME SUInv, up, NEW t \in clock..clock + 1, NEW n \in FiringFrom(t)
    PROVE  /\ n \in Nat /\ n <= clock + Interval /\ t <= n
           /\ trigger = "cron" => n \in Instants
           /\ firing >= t => n <= firing
<1> USE StartupAssumption
<1>1. t \in Nat /\ t <= clock + 1 /\ clock \in Nat /\ firing \in Nat /\ clock <= LastInstant
  BY DEF SUInv
<1>2. CASE trigger = "cron"
  <2>1. n \in FirstFrom(t) BY <1>2 DEF FiringFrom
  <2>2. t \in 0..LastInstant + Interval BY <1>1
  <2>3. n \in Instants /\ n \in Nat /\ t <= n /\ n < t + Interval BY <2>1, <2>2, FirstIsNear
  <2>4. firing \in Instants BY <1>2 DEF SUInv
  <2>5. firing >= t => n <= firing BY <2>1, <2>4, <1>1 DEF FirstFrom
  <2> QED BY <1>1, <2>3, <2>5
<1>3. CASE trigger # "cron" /\ firing >= t
  <2>1. n = firing BY <1>3 DEF FiringFrom
  <2> QED BY <1>1, <1>3, <2>1 DEF SUInv
<1>4. CASE trigger # "cron" /\ ~(firing >= t)
  <2>1. n \in t..t + Interval - 1 BY <1>4 DEF FiringFrom
  <2> QED BY <1>1, <1>4, <2>1
<1> QED BY <1>2, <1>3, <1>4

(* No interval that the test at the start goes by is longer than Interval. *)
LEMMA NominalIsShort ==
    ASSUME SUInv, NEW nominal \in NominalInterval
    PROVE  nominal \in Nat /\ nominal <= Interval
<1> USE StartupAssumption
<1>1. CASE trigger = "every" BY <1>1 DEF NominalInterval
<1>2. CASE trigger # "every"
  <2>1. PICK first \in FirstFrom(clock) :
          nominal \in {second - first : second \in FirstFrom(first + 1)}
    BY <1>2 DEF NominalInterval
  <2>2. PICK second \in FirstFrom(first + 1) : nominal = second - first BY <2>1
  <2>3. clock \in 0..LastInstant + Interval /\ clock \in Nat /\ clock <= LastInstant
    BY DEF SUInv
  <2>4. first \in Nat /\ clock <= first /\ first < clock + Interval BY <2>3, FirstIsNear
  <2>5. first + 1 \in 0..LastInstant + Interval BY <2>3, <2>4
  <2>6. second \in Nat /\ first + 1 <= second /\ second < first + 1 + Interval
    BY <2>5, FirstIsNear
  <2> QED BY <2>2, <2>4, <2>6
<1> QED BY <1>1, <1>2

LEMMA NotOverdueIsNear ==
    \A now, last, turn, next, nominal, interval \in Nat :
        /\ ~(2 * (now - last) > 3 * nominal) /\ nominal <= interval
        /\ last <= turn /\ next <= now + interval
        => 2 * (next - turn) <= 5 * interval
OBVIOUS

LEMMA JustHadItsTurn ==
    \A now, next, interval \in Nat :
        next <= now + interval => 2 * (next - now) <= 5 * interval
OBVIOUS

LEMMA EarlierIsNear ==
    \A next, earlier, turn, bound \in Nat :
        /\ earlier <= next /\ 2 * (next - turn) <= bound => 2 * (earlier - turn) <= bound
OBVIOUS

\* The job has had its turn now: whatever it waits for is near.
LEMMA TurnKeeps ==
    ASSUME SUInv, lastTurn' = clock, UNCHANGED <<settings, clock, up>>,
           firing' \in Nat, up => firing' <= clock + Interval,
           up /\ trigger = "cron" => firing' \in Instants,
           success' = Never \/ (success' \in Nat /\ success' <= clock)
    PROVE  SUInv'
<1>1. clock \in Nat /\ Interval \in Nat BY StartupAssumption DEF SUInv
<1>3. trigger' = trigger /\ policy' = policy /\ clock' = clock /\ up' = up BY DEF settings
<1>2. up => 2 * (firing' - lastTurn') <= 5 * Interval BY <1>1, JustHadItsTurn
<1>4. lastTurn' \in Nat /\ lastTurn' <= clock' BY <1>1, <1>3
<1>5. clock' \in 0..LastInstant /\ policy' \in {"never", "if_missed", "always"}
      /\ trigger' \in {"cron", "every"}
  BY <1>3 DEF SUInv
<1>6. success' = Never \/ (success' \in Nat /\ success' <= lastTurn') BY <1>1
<1> QED BY <1>2, <1>3, <1>4, <1>5, <1>6 DEF SUInv

\* The job runs, is handed on or paused, or nothing it depends on changes.
LEMMA NoClaim ==
    ASSUME SUInv, UNCHANGED <<settings, clock, lastTurn>>,
           success' \in {success, Never}, firing' \in Nat, up' => firing' <= clock + Interval,
           up' /\ trigger = "cron" => firing' \in Instants,
           ~up' \/ held' \/ running' # "none" \/ pending' # Never
    PROVE  SUInv'
BY DEF SUInv, settings, Never

LEMMA SUNextInv == SUInv /\ [SUNext]_suVars => SUInv'
<1> SUFFICES ASSUME SUInv, [SUNext]_suVars PROVE SUInv' OBVIOUS
<1> USE StartupAssumption
<1>0. clock \in Nat /\ clock \in 0..LastInstant /\ clock <= LastInstant /\ firing \in Nat
      /\ lastTurn \in Nat /\ lastTurn <= clock
  BY DEF SUInv
<1>1. CASE Boot
  <2>1. firing' \in Nat /\ firing' <= clock + Interval
        /\ (trigger = "cron" => firing' \in Instants)
    <3>1. CASE trigger = "cron"
      <4>1. clock \in 0..LastInstant + Interval BY <1>0
      <4>2. firing' \in FirstFrom(clock) BY <1>1, <3>1 DEF Boot
      <4>3. firing' \in Instants /\ firing' \in Nat /\ firing' < clock + Interval
        BY <4>1, <4>2, FirstIsNear
      <4> QED BY <4>3, <1>0
    <3>2. CASE trigger # "cron" BY <1>1, <1>0, <3>2 DEF Boot
    <3> QED BY <3>1, <3>2
  <2>2. PICK nominal \in NominalInterval :
          running' = IF policy = "always" \/ (policy = "if_missed" /\ Overdue(nominal))
                     THEN "else" ELSE "none"
    BY <1>1 DEF Boot
  <2>3. UNCHANGED <<settings, clock, success, lastTurn>> BY <1>1 DEF Boot
  <2>4. CASE running' # "none" BY <2>1, <2>3, <2>4, NoClaim
  <2>5. CASE running' = "none"
    <3>1. policy = "never" \/ ~Overdue(nominal) BY <2>2, <2>5 DEF SUInv
    <3>2. ASSUME ~Overdue(nominal) PROVE 2 * (firing' - lastTurn) <= 5 * Interval
      <4>1. success \in Nat /\ success <= lastTurn BY <3>2 DEF Overdue, SUInv
      <4>2. ~(2 * (clock - success) > 3 * nominal) BY <3>2 DEF Overdue
      <4>3. nominal \in Nat /\ nominal <= Interval BY NominalIsShort
      <4> QED BY <1>0, <2>1, <4>1, <4>2, <4>3, NotOverdueIsNear
    <3> QED BY <2>1, <2>3, <3>1, <3>2 DEF SUInv, settings
  <2> QED BY <2>4, <2>5
<1>2. CASE ComeDue
  <2>1. up /\ firing' \in FiringFrom(clock + 1) BY <1>2 DEF ComeDue
  <2>2. firing' \in Nat /\ firing' <= clock + Interval
        /\ (trigger = "cron" => firing' \in Instants)
    BY <2>1, <1>0, NextIsNear
  <2>3. UNCHANGED <<settings, clock, up, running, held, success, lastTurn>>
    BY <1>2 DEF ComeDue
  <2>4. pending' # Never \/ running' # "none"
    <3>1. CASE pending # Never \/ running = "firing" BY <1>2, <3>1, <2>3 DEF ComeDue
    <3>2. CASE ~(pending # Never \/ running = "firing")
      <4>1. pending' \in LastDue BY <1>2, <3>2 DEF ComeDue
      <4>2. pending' \in Instants \/ pending' \in firing..clock
        <5>1. CASE trigger = "cron" BY <4>1, <5>1 DEF LastDue
        <5>2. CASE trigger # "cron" BY <4>1, <5>2 DEF LastDue
        <5> QED BY <5>1, <5>2
      <4>3. \A n \in firing..clock : n \in Nat BY <1>0
      <4>4. Instants \subseteq Nat OBVIOUS
      <4>5. pending' \in Nat BY <4>2, <4>3, <4>4
      <4> QED BY <4>5 DEF Never
    <3> QED BY <3>1, <3>2
  <2> QED BY <2>2, <2>3, <2>4, NoClaim
<1>3. CASE MissFiring
  BY <1>3, <1>0, TurnKeeps DEF MissFiring, SUInv, settings
<1>4. CASE SkipFiring BY <1>4, <1>0, NoClaim DEF SkipFiring, SUInv, settings
<1>5. CASE FireTrigger BY <1>5, <1>0, NoClaim DEF FireTrigger, SUInv, settings
<1>6. CASE RunByHand BY <1>6, <1>0, NoClaim DEF RunByHand, SUInv, settings
<1>7. CASE EndRun
  <2>1. success' = Never \/ (success' \in Nat /\ success' <= clock)
    BY <1>7, <1>0 DEF EndRun, SUInv
  <2> QED BY <1>7, <1>0, <2>1, TurnKeeps DEF EndRun, SUInv, settings
<1>8. CASE Pause BY <1>8, <1>0, NoClaim DEF Pause, SUInv, settings
<1>9. CASE Resume
  <2>1. up /\ firing' \in FiringFrom(clock) /\ UNCHANGED <<settings, clock, up, pending,
                                                           running, success>>
    BY <1>9 DEF Resume
  <2>2. /\ firing' \in Nat /\ firing' <= clock + Interval
        /\ trigger = "cron" => firing' \in Instants
        /\ firing >= clock => firing' <= firing
    BY <2>1, <1>0, NextIsNear
  <2>3. CASE held \/ firing < clock
    <3>1. success' = Never \/ (success' \in Nat /\ success' <= clock)
      BY <2>1, <1>0 DEF SUInv
    <3>2. lastTurn' = clock BY <1>9, <2>3 DEF Resume
    <3>3. UNCHANGED <<settings, clock, up>> BY <2>1
    <3> QED BY <2>2, <3>1, <3>2, <3>3, TurnKeeps
  <2>4. CASE ~(held \/ firing < clock)
    <3>1. lastTurn' = lastTurn /\ firing' <= firing BY <1>9, <1>0, <2>2, <2>4 DEF Resume
    <3>2. \A bound \in Nat : 2 * (firing - lastTurn) <= bound => 2 * (firing' - lastTurn) <= bound
      BY <3>1, <2>2, <1>0, EarlierIsNear
    <3>3. 5 * Interval \in Nat OBVIOUS
    <3> QED BY <1>0, <2>1, <2>2, <2>4, <3>1, <3>2, <3>3 DEF SUInv, settings
  <2> QED BY <2>3, <2>4
<1>10. CASE ForgetRuns BY <1>10 DEF ForgetRuns, SUInv, settings
<1>11. CASE Halt BY <1>11, <1>0, NoClaim DEF Halt, SUInv, settings
<1>12. CASE ClockTicks BY <1>12, <1>0 DEF ClockTicks, SUInv, settings
<1>13. CASE UNCHANGED suVars BY <1>13 DEF suVars, SUInv, settings
<1> QED BY <1>1, <1>2, <1>3, <1>4, <1>5, <1>6, <1>7, <1>8, <1>9, <1>10, <1>11, <1>12,
           <1>13 DEF SUNext

(* A job that only waits had its last turn no longer ago than two and a    *)
(* half intervals, for any interval, any instants of a cron expression,    *)
(* any grace, any delay of a firing, and any stops and starts              *)
(* (startup.py:60-74, aps.py:55-62, service.py:458-464).                   *)
THEOREM NoStarvation == SUSpec => []RestartsDoNotStarve
<1>1. SUInit => SUInv BY StartupAssumption DEF SUInit, SUInv, Never
<1>2. ASSUME SUInv PROVE RestartsDoNotStarve
  <2>1. clock \in Nat /\ firing \in Nat /\ lastTurn \in Nat BY <1>2 DEF SUInv
  <2> QED BY <1>2, <2>1, StartupAssumption DEF SUInv, RestartsDoNotStarve, Waits
<1> QED BY SUNextInv, <1>1, <1>2, PTL DEF SUSpec

-----------------------------------------------------------------------------
(* OrphanDeletion.  What a request knows of rows and points holds until a  *)
(* run of the job writes: only a run brings any of them back.              *)
CleanType ==
    [step : {"idle", "list", "points", "rows"}, found : BOOLEAN,
     reaches : BOOLEAN, alone : BOOLEAN]

ODInv ==
    /\ clean \in [Cleaners -> CleanType] /\ resolves \in BOOLEAN
    /\ \A c \in Cleaners : clean[c].alone =>
         /\ clean[c].step = "points" /\ ~clean[c].found => recorded = {}
         /\ clean[c].step = "rows" /\ clean[c].reaches => stored = {} \/ recorded = {}

\* Nothing appears, and the request moves to a record of which it is true.
Moves(c, r) ==
    /\ clean' = [clean EXCEPT ![c] = r] /\ resolves' = resolves
    /\ stored' \subseteq stored /\ recorded' \subseteq recorded
    /\ r.alone => /\ r.step = "points" /\ ~r.found => recorded' = {}
                  /\ r.step = "rows" /\ r.reaches => stored' = {} \/ recorded' = {}

LEMMA MovesInv == \A c \in Cleaners, r \in CleanType : ODInv /\ Moves(c, r) => ODInv'
<1> SUFFICES ASSUME NEW c \in Cleaners, NEW r \in CleanType, ODInv, Moves(c, r) PROVE ODInv'
    OBVIOUS
<1>1. clean' \in [Cleaners -> CleanType] BY DEF ODInv, Moves
<1>2. \A d \in Cleaners : clean'[d] = IF d = c THEN r ELSE clean[d]
  BY DEF ODInv, Moves
<1>3. \A d \in Cleaners : d # c /\ clean[d].alone =>
         /\ clean[d].step = "points" /\ ~clean[d].found => recorded' = {}
         /\ clean[d].step = "rows" /\ clean[d].reaches => stored' = {} \/ recorded' = {}
  BY DEF ODInv, Moves
<1> QED BY <1>1, <1>2, <1>3 DEF ODInv, Moves

LEMMA DisturbedInv == ODInv /\ clean' = Disturbed /\ resolves' = resolves => ODInv'
<1> SUFFICES ASSUME ODInv, clean' = Disturbed, resolves' = resolves PROVE ODInv'
    OBVIOUS
<1>1. \A c \in Cleaners : /\ clean'[c] \in CleanType /\ ~clean'[c].alone
  BY DEF ODInv, Disturbed, CleanType
<1>2. clean' \in [Cleaners -> CleanType] BY <1>1 DEF Disturbed
<1> QED BY <1>1, <1>2 DEF ODInv

LEMMA ODNextInv == ODInv /\ [ODNext]_odVars => ODInv'
<1> SUFFICES ASSUME ODInv, [ODNext]_odVars PROVE ODInv' OBVIOUS
<1>1. CASE \E c \in Cleaners : Delete(c)
  <2>1. PICK c \in Cleaners : Delete(c) BY <1>1
  <2>2. clean[c] \in CleanType BY DEF ODInv
  <2>3. CASE CheckCatalog(c)
    <3> DEFINE r == [clean[c] EXCEPT !.step = "list"]
    <3>1. r \in CleanType /\ r.step = "list" BY <2>2 DEF CleanType
    <3>2. clean' = [clean EXCEPT ![c] = r] BY <2>3 DEF CheckCatalog
    <3> HIDE DEF r
    <3>3. Moves(c, r) BY <2>3, <3>1, <3>2 DEF Moves, CheckCatalog
    <3> QED BY <3>1, <3>3, MovesInv
  <2>4. CASE ListCollections(c)
    <3>1. resolves \in BOOLEAN BY DEF ODInv
    <3>2. Found \in CleanType /\ Found.step = "points"
          /\ (~Found.found => recorded = {})
      BY <3>1 DEF Found, CleanType
    <3>3. Moves(c, Found) BY <2>4, <3>2 DEF Moves, ListCollections
    <3> QED BY <3>2, <3>3, MovesInv
  <2>5. CASE DeletePoints(c)
    <3> DEFINE r == [clean[c] EXCEPT !.step = "rows"]
    <3>1. r \in CleanType /\ r.step = "rows" /\ r.found = clean[c].found
          /\ r.reaches = clean[c].reaches /\ r.alone = clean[c].alone
      BY <2>2 DEF CleanType
    <3>2. clean' = [clean EXCEPT ![c] = r] BY <2>5 DEF DeletePoints
    <3> HIDE DEF r
    <3>3. Moves(c, r) BY <2>5, <3>1, <3>2 DEF Moves, DeletePoints, ODInv
    <3> QED BY <3>1, <3>3, MovesInv
  <2>6. CASE DeletePointsFails(c)
    <3>1. Idle \in CleanType /\ Idle.step = "idle" BY DEF Idle, CleanType
    <3>2. stored' \subseteq stored BY <2>6 DEF DeletePointsFails
    <3>3. Moves(c, Idle) BY <2>6, <3>1, <3>2 DEF Moves, DeletePointsFails
    <3> QED BY <3>1, <3>3, MovesInv
  <2>7. CASE DeleteRows(c)
    <3>1. Idle \in CleanType /\ Idle.step = "idle" BY DEF Idle, CleanType
    <3>2. Moves(c, Idle) BY <2>7, <3>1 DEF Moves, DeleteRows
    <3> QED BY <3>1, <3>2, MovesInv
  <2> QED BY <2>1, <2>3, <2>4, <2>5, <2>6, <2>7 DEF Delete
<1>2. CASE \E d \in OrphanDocs : Rewrite(d) BY <1>2, DisturbedInv DEF Rewrite
<1>3. CASE Upsert BY <1>3, DisturbedInv DEF Upsert
<1>4. CASE Commit BY <1>4, DisturbedInv DEF Commit
<1>5. CASE UNCHANGED <<recorded, stored, clean>> /\ resolves' \in {resolves, ~resolves}
  BY <1>5 DEF ODInv
<1> QED BY <1>1, <1>2, <1>3, <1>4, <1>5
        DEF ODNext, ReloadJobs, ReloadConnections, BeginIndexing, EndIndexing, odVars

\* The action of RowsGoLast.
RowsAfterPoints ==
    recorded # {} /\ recorded' = {} =>
        stored = {} \/ \E c \in Cleaners : clean[c].step = "rows"
                          /\ (~clean[c].reaches \/ ~clean[c].alone)

LEMMA RowsStep == ODInv /\ [ODNext]_odVars => [RowsAfterPoints]_odVars
<1> SUFFICES ASSUME ODInv, ODNext, recorded # {}, recorded' = {} PROVE RowsAfterPoints
    BY DEF RowsAfterPoints
<1>1. CASE \E c \in Cleaners : Delete(c)
  <2>1. PICK c \in Cleaners : DeleteRows(c)
    BY <1>1 DEF Delete, CheckCatalog, ListCollections, DeletePoints, DeletePointsFails
  <2> QED BY <2>1 DEF DeleteRows, ODInv, RowsAfterPoints
<1>2. CASE Commit BY <1>2 DEF Commit
<1> QED BY <1>1, <1>2 DEF ODNext, ReloadJobs, ReloadConnections, BeginIndexing,
                          EndIndexing, Rewrite, Upsert

(* The rows of a removed job go only after its points, whatever reloads,   *)
(* runs and other deletions do meanwhile, for any documents and requests   *)
(* (service.py:636-648).                                                   *)
THEOREM RowsStayForRetry == ODSpec => RowsGoLast
<1>1. ODInit => ODInv BY DEF ODInit, ODInv, Idle, CleanType
<1>2. ODInv /\ [ODNext]_odVars => [RowsAfterPoints]_odVars BY RowsStep
<1> QED BY <1>1, ODNextInv, <1>2, PTL DEF ODSpec, RowsGoLast, RowsAfterPoints

-----------------------------------------------------------------------------
(* CatalogRules.  The first claim of a collection exists, as the positions *)
(* of a list are numbers; a job that is accepted agrees with it.           *)
LEMMA FirstExists ==
    ASSUME NEW S \in SUBSET Nat, S # {}
    PROVE  \E k \in S : \A n \in S : k <= n
<1> DEFINE Less2 == {s \in Nat \X Nat : s[1] < s[2]}
<1>1. IsWellFoundedOn(Less2, Nat) BY NatLessThanWellFounded DEF OpToRel
<1>2. PICK k \in S : \A n \in S : ~(<<n, k>> \in Less2)
  <2> HIDE DEF Less2
  <2> QED BY <1>1, WFMin, Zenon
<1>3. \A n \in S : n \in Nat /\ k \in Nat /\ ~(n < k) BY <1>2
<1> QED BY <1>3

LEMMA FirstClaim ==
    ASSUME NEW S \in SUBSET Nat, NEW i \in S
    PROVE  FirstIn(S, i) \in S /\ SameCollection(i, FirstIn(S, i))
<1> DEFINE C == {n \in S : SameCollection(i, n)}
<1>1. i \in C BY DEF SameCollection
<1>2. C \in SUBSET Nat /\ C # {} BY <1>1
<1>3. PICK k \in C : \A n \in C : k <= n BY <1>2, FirstExists
<1>4. k \in S /\ SameCollection(i, k) /\ \A n \in S : SameCollection(i, n) => k <= n
  BY <1>3
<1> HIDE DEF C
<1> QED BY <1>4 DEF FirstIn

LEMMA SameFirst ==
    ASSUME NEW S, NEW i, NEW k, SameCollection(i, k)
    PROVE  FirstIn(S, i) = FirstIn(S, k)
<1>1. \A n : SameCollection(i, n) <=> SameCollection(k, n) BY DEF SameCollection
<1> QED BY <1>1 DEF FirstIn, SameCollection

LEMMA AcceptedAgree ==
    ASSUME NEW i \in AcceptedJobs, NEW k \in AcceptedJobs, i # k, listing \in Seq(JobMenu)
    PROVE  MayRunTogether(i, k)
<1>1. /\ i \in Valid /\ k \in Valid /\ i \in Nat /\ k \in Nat
      /\ listing[i].id \notin Problems /\ listing[k].id \notin Problems
  BY DEF AcceptedJobs, Valid
<1>2. i < k \/ k < i BY <1>1
<1>3. listing[i].id # listing[k].id
  BY <1>1, <1>2 DEF Problems, DuplicateIds
<1>4. ASSUME listing[i].enabled, listing[k].enabled, SameCollection(i, k)
      PROVE  /\ listing[i].label # listing[k].label
             /\ listing[i].model = listing[k].model
             /\ listing[i].connection = listing[k].connection
  <2>1. i \in Enabled /\ k \in Enabled BY <1>1, <1>4 DEF Enabled, Valid
  <2>2. listing[i].label # listing[k].label
    BY <1>1, <1>2, <1>4, <2>1 DEF Problems, DuplicateLabels, SameCollection
  <2> DEFINE modelled == {n \in Enabled : listing[n].model # NoModel}
  <2>3. listing[i].model # NoModel /\ listing[k].model # NoModel
    BY <1>1, <1>4, <2>1 DEF Problems, OwnProblems, Enabled
  <2>4. i \in modelled /\ k \in modelled BY <2>1, <2>3
  <2>5. /\ listing[FirstIn(modelled, i)].model = listing[i].model
        /\ listing[FirstIn(modelled, k)].model = listing[k].model
    BY <1>1, <2>4 DEF Problems, OtherModels
  <2>6. /\ listing[FirstIn(Enabled, i)].connection = listing[i].connection
        /\ listing[FirstIn(Enabled, k)].connection = listing[k].connection
    BY <1>1, <2>1 DEF Problems, OtherConnections
  <2> HIDE DEF modelled
  <2>7. /\ FirstIn(modelled, i) = FirstIn(modelled, k)
        /\ FirstIn(Enabled, i) = FirstIn(Enabled, k)
    BY <1>4, SameFirst
  <2> QED BY <2>2, <2>5, <2>6, <2>7
<1> QED BY <1>3, <1>4 DEF MayRunTogether

LEMMA NothingRefused ==
    ASSUME listing \in Seq(JobMenu)
    PROVE  (/\ OwnProblems = {}
            /\ Valid = DOMAIN listing
            /\ \A i, k \in DOMAIN listing : i # k => MayRunTogether(i, k))
           => AcceptedJobs = DOMAIN listing
<1> SUFFICES ASSUME OwnProblems = {}, Valid = DOMAIN listing,
                    \A i, k \in DOMAIN listing : i # k => MayRunTogether(i, k)
             PROVE  AcceptedJobs = DOMAIN listing
  OBVIOUS
<1>1. DOMAIN listing \in SUBSET Nat /\ Enabled \in SUBSET DOMAIN listing
  BY DEF Enabled
<1>2. DuplicateIds = {} BY <1>1 DEF DuplicateIds, MayRunTogether
<1>3. DuplicateLabels = {}
  BY <1>1 DEF DuplicateLabels, MayRunTogether, SameCollection, Enabled
<1>4. ASSUME NEW S \in SUBSET Enabled, NEW k \in S
      PROVE  /\ listing[FirstIn(S, k)].model = listing[k].model
             /\ listing[FirstIn(S, k)].connection = listing[k].connection
  <2>1. S \in SUBSET Nat BY <1>1
  <2>2. FirstIn(S, k) \in S /\ SameCollection(k, FirstIn(S, k)) BY <2>1, FirstClaim
  <2>3. FirstIn(S, k) # k => MayRunTogether(k, FirstIn(S, k)) BY <1>1, <1>4, <2>2
  <2> QED BY <1>4, <2>2, <2>3 DEF MayRunTogether, Enabled
<1>5. OtherModels = {}
  <2> DEFINE modelled == {n \in Enabled : listing[n].model # NoModel}
  <2>1. modelled \in SUBSET Enabled OBVIOUS
  <2>2. \A k \in modelled : listing[FirstIn(modelled, k)].model = listing[k].model
    <3> HIDE DEF modelled
    <3> QED BY <1>4, <2>1
  <2> QED BY <2>2 DEF OtherModels
<1>6. OtherConnections = {} BY <1>4 DEF OtherConnections
<1> QED BY <1>2, <1>3, <1>5, <1>6 DEF AcceptedJobs, Problems

(* Whatever part of a faulty file a start accepts, its jobs can run beside *)
(* each other, and a file without conflicts is accepted whole, for any     *)
(* jobs and a file of any length (loader.py:165-247, 369-376).             *)
THEOREM AcceptedAgreeAlways == CLSpec => []AcceptedJobsRunTogether
<1>1. CLInit => listing \in Seq(JobMenu) BY DEF CLInit
<1>2. listing \in Seq(JobMenu) /\ [List]_clVars => (listing \in Seq(JobMenu))'
  BY DEF List, clVars
<1>3. listing \in Seq(JobMenu) => AcceptedJobsRunTogether
  BY AcceptedAgree, NothingRefused DEF AcceptedJobsRunTogether
<1> QED BY <1>1, <1>2, <1>3, PTL DEF CLSpec

-----------------------------------------------------------------------------
(* SourceSync.  A path that is in none of the places where a sync leaves   *)
(* it was missing from the source: before the transfer it is to be copied  *)
(* or there already, only what was missing is removed, and the transfer is *)
(* over when there is nothing left to copy.                                *)
OwnDirectories == \A j, k \in Syncers : Label[j] = Label[k] => j = k

SYTypes ==
    /\ remote \in [Syncers -> SUBSET Paths] /\ missed \in [Syncers -> SUBSET Paths]
    /\ DOMAIN dirs = {Label[j] : j \in Syncers}
    /\ \A d \in DOMAIN dirs : DOMAIN dirs[d] \subseteq Paths
    /\ DOMAIN indexed = Syncers
    /\ \A j \in Syncers : DOMAIN indexed[j] \subseteq Paths
    /\ DOMAIN sync = Syncers
    /\ \A j \in Syncers : DOMAIN sync[j] = DOMAIN NoSync

Covered(j) ==
    /\ ~At(j, "idle") => Paths \ remote[j] \subseteq missed[j]
    /\ At(j, "transfer") => /\ sync[j].delete \subseteq missed[j]
                            /\ Paths \subseteq missed[j] \cup sync[j].copy \cup DOMAIN Landing(j)
    /\ At(j, "scan") /\ sync[j].synced => Paths \subseteq missed[j] \cup DOMAIN Landing(j)
    /\ At(j, "vanished") /\ sync[j].synced => Paths \subseteq missed[j] \cup sync[j].seen

SYInv == SYTypes /\ \A j \in Syncers : Covered(j)

\* A step of job j's run: the rest is as it was, what it writes is of its type.
StepOf(j) ==
    /\ remote' = remote /\ missed' \in [Syncers -> SUBSET Paths]
    /\ DOMAIN sync' = Syncers /\ DOMAIN sync'[j] = DOMAIN NoSync
    /\ DOMAIN dirs' = DOMAIN dirs /\ DOMAIN dirs'[Dest(j)] \subseteq Paths
    /\ DOMAIN indexed' = Syncers /\ DOMAIN indexed'[j] \subseteq Paths
    /\ \A k \in Syncers : k # j =>
         sync'[k] = sync[k] /\ missed'[k] = missed[k] /\ indexed'[k] = indexed[k]
    /\ \A d \in DOMAIN dirs : d # Dest(j) => dirs'[d] = dirs[d]

LEMMA StepInv ==
    ASSUME OwnDirectories, SYInv, NEW j \in Syncers, StepOf(j), Covered(j)'
    PROVE  SYInv'
<1>1. SYTypes'
  <2>1. \A d \in DOMAIN dirs' : DOMAIN dirs'[d] \subseteq Paths
    BY DEF StepOf, SYInv, SYTypes
  <2>2. \A k \in Syncers : DOMAIN indexed'[k] \subseteq Paths /\ DOMAIN sync'[k] = DOMAIN NoSync
    BY DEF StepOf, SYInv, SYTypes
  <2> QED BY <2>1, <2>2 DEF StepOf, SYInv, SYTypes
<1>2. ASSUME NEW k \in Syncers, k # j PROVE Covered(k)'
  <2>1. Dest(k) # Dest(j) /\ Dest(k) \in DOMAIN dirs
    BY <1>2 DEF OwnDirectories, Dest, SYInv, SYTypes
  <2>2. /\ sync'[k] = sync[k] /\ missed'[k] = missed[k] /\ remote'[k] = remote[k]
        /\ dirs'[Dest(k)] = dirs[Dest(k)]
    BY <1>2, <2>1 DEF StepOf
  <2> QED BY <2>2 DEF SYInv, Covered, At, Landing, Dest
<1> QED BY <1>1, <1>2 DEF SYInv

LEMMA RunSteps ==
    ASSUME OwnDirectories, SYInv, NEW j \in Syncers,
           \/ StartSync(j) \/ StartWithoutSync(j) \/ ListBoth(j)
           \/ \E p \in Paths : CopyFile(j, p) \/ RemoveFile(j, p)
           \/ SyncOk(j) \/ SyncFails(j) \/ ScanAndIndex(j) \/ DropVanished(j)
    PROVE  SYInv'
<1> DEFINE s == sync[j]
           f == Landing(j)
<1>1. /\ DOMAIN sync = Syncers /\ DOMAIN s = DOMAIN NoSync
      /\ Dest(j) \in DOMAIN dirs /\ DOMAIN f \subseteq Paths
      /\ remote[j] \subseteq Paths /\ missed \in [Syncers -> SUBSET Paths]
      /\ DOMAIN indexed = Syncers /\ DOMAIN indexed[j] \subseteq Paths
      /\ Covered(j)
  BY DEF SYInv, SYTypes, Dest, Landing
<1>2. DOMAIN NoSync = {"at", "limit", "copy", "delete", "synced", "seen"}
      /\ NoSync.at = "idle" /\ NoSync.synced = FALSE
  BY DEF NoSync
<1>3. ASSUME NEW r, Now(j, r), DOMAIN r = DOMAIN NoSync
      PROVE  /\ DOMAIN sync' = Syncers /\ DOMAIN sync'[j] = DOMAIN NoSync /\ sync'[j] = r
             /\ \A k \in Syncers : k # j => sync'[k] = sync[k]
  BY <1>1, <1>3 DEF Now
<1>4. ASSUME missed' = [missed EXCEPT ![j] = Paths \ remote[j]]
      PROVE  /\ missed' \in [Syncers -> SUBSET Paths] /\ missed'[j] = Paths \ remote[j]
             /\ \A k \in Syncers : k # j => missed'[k] = missed[k]
  BY <1>1, <1>4
<1> HIDE DEF s, f
<1>5. ASSUME Covered(j)', UNCHANGED <<remote, indexed>>, DOMAIN dirs' = DOMAIN dirs,
             DOMAIN dirs'[Dest(j)] \subseteq Paths,
             \A d \in DOMAIN dirs : d # Dest(j) => dirs'[d] = dirs[d],
             missed' \in [Syncers -> SUBSET Paths],
             \A k \in Syncers : k # j => missed'[k] = missed[k],
             NEW r, Now(j, r), DOMAIN r = DOMAIN NoSync
      PROVE  SYInv'
  BY <1>1, <1>3, <1>5, StepInv DEF StepOf
<1>6. ASSUME UNCHANGED dirs
      PROVE  /\ DOMAIN dirs' = DOMAIN dirs /\ DOMAIN dirs'[Dest(j)] \subseteq Paths
             /\ \A d \in DOMAIN dirs : d # Dest(j) => dirs'[d] = dirs[d]
  BY <1>1, <1>6 DEF f, Landing
<1>7. CASE StartSync(j)
  <2> DEFINE r == [NoSync EXCEPT !.at = "listing", !.synced = TRUE,
                      !.limit = DeleteLimit(Cardinality(DOMAIN Landing(j)))]
  <2>1. Now(j, r) BY <1>7 DEF StartSync
  <2>2. DOMAIN r = DOMAIN NoSync /\ r.at = "listing" BY <1>2
  <2> HIDE DEF r
  <2>3. Covered(j)' BY <1>3, <1>4, <1>7, <2>1, <2>2 DEF StartSync, Covered, At
  <2> QED BY <1>4, <1>5, <1>6, <1>7, <2>1, <2>2, <2>3 DEF StartSync
<1>8. CASE StartWithoutSync(j)
  <2> DEFINE r == [NoSync EXCEPT !.at = "scan"]
  <2>1. Now(j, r) BY <1>8 DEF StartWithoutSync
  <2>2. DOMAIN r = DOMAIN NoSync /\ r.at = "scan" /\ r.synced = FALSE BY <1>2
  <2> HIDE DEF r
  <2>3. Covered(j)' BY <1>3, <1>4, <1>8, <2>1, <2>2 DEF StartWithoutSync, Covered, At
  <2> QED BY <1>4, <1>5, <1>6, <1>8, <2>1, <2>2, <2>3 DEF StartWithoutSync
<1>9. CASE ListBoth(j)
  <2> DEFINE r == [sync[j] EXCEPT !.at = "transfer",
                      !.copy = {p \in remote[j] : p \notin DOMAIN Landing(j)
                                                  \/ Landing(j)[p] # j},
                      !.delete = DOMAIN Landing(j) \ remote[j]]
  <2>1. Now(j, r) BY <1>9 DEF ListBoth
  <2>2. DOMAIN r = DOMAIN NoSync /\ r.at = "transfer"
        /\ r.delete = DOMAIN Landing(j) \ remote[j]
        /\ r.copy = {p \in remote[j] : p \notin DOMAIN Landing(j) \/ Landing(j)[p] # j}
    BY <1>1, <1>2 DEF s
  <2> HIDE DEF r
  <2>3. Paths \ remote[j] \subseteq missed[j] BY <1>1, <1>9 DEF ListBoth, Covered, At
  <2>4. r.delete \subseteq missed[j]
        /\ Paths \subseteq missed[j] \cup r.copy \cup DOMAIN Landing(j)
    BY <1>1, <2>2, <2>3 DEF f
  <2>5. Covered(j)'
    BY <1>3, <1>9, <2>1, <2>2, <2>3, <2>4 DEF ListBoth, Covered, At, Landing
  <2> QED BY <1>1, <1>5, <1>6, <1>9, <2>1, <2>2, <2>5 DEF ListBoth
<1>10. ASSUME NEW p \in Paths, CopyFile(j, p) PROVE SYInv'
  <2> DEFINE r == [sync[j] EXCEPT !.copy = @ \ {p}]
             g == Placed(dirs[Dest(j)], {p}, j)
  <2>1. Now(j, r) /\ dirs' = [dirs EXCEPT ![Dest(j)] = g] BY <1>10 DEF CopyFile
  <2>2. DOMAIN r = DOMAIN NoSync /\ r.at = sync[j].at
        /\ r.delete = sync[j].delete /\ r.copy = sync[j].copy \ {p}
    BY <1>1, <1>2 DEF s
  <2>3. DOMAIN g = DOMAIN Landing(j) \cup {p} BY DEF Placed, Landing
  <2> HIDE DEF r, g
  <2>4. /\ DOMAIN dirs' = DOMAIN dirs /\ dirs'[Dest(j)] = g /\ DOMAIN g \subseteq Paths
        /\ \A d \in DOMAIN dirs : d # Dest(j) => dirs'[d] = dirs[d]
    BY <1>1, <2>1, <2>3 DEF f
  <2>5. Covered(j)'
    BY <1>1, <1>3, <1>10, <2>1, <2>2, <2>3, <2>4 DEF CopyFile, Covered, At, Landing, Dest
  <2> QED BY <1>1, <1>5, <1>10, <2>1, <2>2, <2>4, <2>5 DEF CopyFile
<1>11. ASSUME NEW p \in Paths, RemoveFile(j, p) PROVE SYInv'
  <2> DEFINE r == [sync[j] EXCEPT !.delete = @ \ {p}, !.limit = @ - 1]
             g == Less(dirs[Dest(j)], {p})
  <2>1. Now(j, r) /\ dirs' = [dirs EXCEPT ![Dest(j)] = g] BY <1>11 DEF RemoveFile
  <2>2. DOMAIN r = DOMAIN NoSync /\ r.at = sync[j].at
        /\ r.delete = sync[j].delete \ {p} /\ r.copy = sync[j].copy
    BY <1>1, <1>2 DEF s
  <2>3. DOMAIN g = DOMAIN Landing(j) \ {p} BY DEF Less, Landing
  <2> HIDE DEF r, g
  <2>4. /\ DOMAIN dirs' = DOMAIN dirs /\ dirs'[Dest(j)] = g /\ DOMAIN g \subseteq Paths
        /\ \A d \in DOMAIN dirs : d # Dest(j) => dirs'[d] = dirs[d]
    BY <1>1, <2>1, <2>3 DEF f
  <2>5. p \in missed[j] BY <1>1, <1>11 DEF RemoveFile, Covered, At
  <2>6. Covered(j)'
    BY <1>1, <1>3, <1>11, <2>1, <2>2, <2>3, <2>4, <2>5
       DEF RemoveFile, Covered, At, Landing, Dest
  <2> QED BY <1>1, <1>5, <1>11, <2>1, <2>2, <2>4, <2>6 DEF RemoveFile
<1>12. CASE SyncOk(j)
  <2> DEFINE r == [sync[j] EXCEPT !.at = "scan"]
  <2>1. Now(j, r) BY <1>12 DEF SyncOk
  <2>2. DOMAIN r = DOMAIN NoSync /\ r.at = "scan" BY <1>1, <1>2 DEF s
  <2> HIDE DEF r
  <2>3. Covered(j)'
    BY <1>1, <1>3, <1>12, <2>1, <2>2 DEF SyncOk, Covered, At, Landing
  <2> QED BY <1>1, <1>5, <1>6, <1>12, <2>1, <2>2, <2>3 DEF SyncOk
<1>13. CASE SyncFails(j)
  <2>1. Covered(j)' BY <1>2, <1>3, <1>13 DEF SyncFails, Covered, At
  <2> QED BY <1>1, <1>5, <1>6, <1>13, <2>1 DEF SyncFails
<1>14. CASE ScanAndIndex(j)
  <2> DEFINE r == [sync[j] EXCEPT !.at = "vanished", !.seen = DOMAIN Landing(j)]
             g == [p \in DOMAIN indexed[j] \cup DOMAIN Landing(j) |->
                     IF p \in DOMAIN Landing(j) THEN Landing(j)[p] ELSE indexed[j][p]]
  <2>1. Now(j, r) /\ indexed' = [indexed EXCEPT ![j] = g] BY <1>14 DEF ScanAndIndex
  <2>2. DOMAIN r = DOMAIN NoSync /\ r.at = "vanished" /\ r.synced = sync[j].synced
        /\ r.seen = DOMAIN Landing(j)
    BY <1>1, <1>2 DEF s
  <2>3. DOMAIN g \subseteq Paths BY <1>1 DEF f
  <2> HIDE DEF r, g
  <2>4. Covered(j)'
    BY <1>1, <1>3, <1>14, <2>1, <2>2 DEF ScanAndIndex, Covered, At, Landing
  <2> QED BY <1>1, <1>3, <1>6, <1>14, <2>1, <2>2, <2>3, <2>4, StepInv DEF ScanAndIndex, StepOf
<1>15. CASE DropVanished(j)
  <2> DEFINE vanished == DOMAIN indexed[j] \ sync[j].seen
             g == Less(indexed[j], vanished)
  <2>1. indexed' = indexed \/ indexed' = [indexed EXCEPT ![j] = g]
    BY <1>15 DEF DropVanished
  <2>2. DOMAIN g \subseteq Paths BY <1>1 DEF Less
  <2> HIDE DEF g
  <2>3. /\ DOMAIN indexed' = Syncers /\ DOMAIN indexed'[j] \subseteq Paths
        /\ \A k \in Syncers : k # j => indexed'[k] = indexed[k]
    BY <1>1, <2>1, <2>2
  <2>4. Now(j, NoSync) BY <1>15 DEF DropVanished
  <2>5. Covered(j)' BY <1>2, <1>3, <2>4 DEF Covered, At
  <2> QED BY <1>1, <1>3, <1>6, <1>15, <2>3, <2>4, <2>5, StepInv DEF DropVanished, StepOf
<1> QED BY <1>7, <1>8, <1>9, <1>10, <1>11, <1>12, <1>13, <1>14, <1>15

LEMMA SYNextInv == OwnDirectories /\ SYInv /\ [SYNext]_syVars => SYInv'
<1> SUFFICES ASSUME OwnDirectories, SYInv, [SYNext]_syVars PROVE SYInv' OBVIOUS
<1>1. CASE LoseCache
  <2>1. NoSync.at = "idle" BY DEF NoSync
  <2>2. \A j \in Syncers : sync'[j] = NoSync BY <1>1 DEF LoseCache
  <2>3. \A j \in Syncers : Covered(j)' BY <2>1, <2>2 DEF Covered, At
  <2>4. \A d \in DOMAIN dirs' : DOMAIN dirs'[d] = {} BY <1>1 DEF LoseCache
  <2>5. DOMAIN dirs' = DOMAIN dirs /\ DOMAIN sync' = Syncers BY <1>1 DEF LoseCache
  <2> QED BY <1>1, <2>2, <2>3, <2>4, <2>5 DEF LoseCache, SYInv, SYTypes
<1>2. ASSUME NEW j \in Syncers, ChangeSource(j) PROVE SYInv'
  <2>1. PICK files \in SUBSET Paths :
          /\ remote' = [remote EXCEPT ![j] = files]
          /\ missed' = [missed EXCEPT ![j] = @ \cup (Paths \ files)]
    BY <1>2 DEF ChangeSource
  <2>2. /\ remote \in [Syncers -> SUBSET Paths] /\ missed \in [Syncers -> SUBSET Paths]
        /\ UNCHANGED <<dirs, indexed, sync>>
    BY <1>2 DEF ChangeSource, SYInv, SYTypes
  <2>3. /\ remote' \in [Syncers -> SUBSET Paths] /\ missed' \in [Syncers -> SUBSET Paths]
        /\ \A k \in Syncers : /\ missed[k] \subseteq missed'[k]
                               /\ (remote'[k] = remote[k] \/ Paths \ remote'[k] \subseteq missed'[k])
    BY <2>1, <2>2
  <2>4. ASSUME NEW k \in Syncers PROVE Covered(k)'
    <3>1. Covered(k) /\ missed[k] \subseteq missed'[k] BY <2>3 DEF SYInv
    <3> QED BY <2>2, <2>3, <3>1 DEF Covered, At, Landing
  <2> QED BY <2>2, <2>3, <2>4 DEF SYInv, SYTypes
<1>3. CASE UNCHANGED syVars
  BY <1>3 DEF syVars, SYInv, SYTypes, Covered, At, Landing
<1> QED BY <1>1, <1>2, <1>3, RunSteps DEF SYNext

\* The action of DroppedOnlyIfGone.
DropsAreGone ==
    \A j \in Syncers : \A p \in DOMAIN indexed[j] :
        p \notin DOMAIN indexed'[j] /\ sync[j].synced => p \in missed[j]

LEMMA DropsStep == SYInv /\ [SYNext]_syVars => [DropsAreGone]_syVars
<1> SUFFICES ASSUME SYInv, SYNext PROVE DropsAreGone OBVIOUS
<1>1. CASE UNCHANGED indexed BY <1>1 DEF DropsAreGone
<1>2. ASSUME NEW j \in Syncers, ScanAndIndex(j) PROVE DropsAreGone
  BY <1>2 DEF ScanAndIndex, DropsAreGone, SYInv, SYTypes
<1>3. ASSUME NEW j \in Syncers, DropVanished(j) PROVE DropsAreGone
  <2>1. ASSUME NEW k \in Syncers, NEW p \in DOMAIN indexed[k], p \notin DOMAIN indexed'[k]
        PROVE  k = j /\ p \notin sync[j].seen /\ p \in Paths
    BY <1>3, <2>1 DEF DropVanished, Less, SYInv, SYTypes
  <2>2. At(j, "vanished") /\ Covered(j) BY <1>3 DEF DropVanished, SYInv
  <2> QED BY <2>1, <2>2 DEF DropsAreGone, Covered
<1> QED BY <1>1, <1>2, <1>3 DEF SYNext, LoseCache, StartSync, StartWithoutSync, ListBoth,
                               CopyFile, RemoveFile, SyncOk, SyncFails, ChangeSource

(* A run that has synchronised gives up a document only when its file was  *)
(* missing from the source at some moment of that run, for any number of   *)
(* jobs with directories of their own (rclone.py:205-248,                  *)
(* runner.py:644-662).                                                     *)
THEOREM SyncedDropsAreGone == OwnDirectories => (SYSpec => DroppedOnlyIfGone)
<1>1. SYInit => SYInv
  <2> SUFFICES ASSUME SYInit PROVE SYInv OBVIOUS
  <2>1. \A j \in Syncers : sync[j] = NoSync /\ NoSync.at = "idle" BY DEF SYInit, NoSync
  <2>2. \A j \in Syncers : Covered(j) BY <2>1 DEF Covered, At
  <2>3. \A d \in DOMAIN dirs : DOMAIN dirs[d] = {} BY DEF SYInit
  <2>4. \A j \in Syncers : DOMAIN indexed[j] = {} BY DEF SYInit
  <2>5. DOMAIN dirs = {Label[j] : j \in Syncers} BY DEF SYInit
  <2> QED BY <2>1, <2>2, <2>3, <2>4, <2>5 DEF SYInit, SYInv, SYTypes
<1>2. OwnDirectories /\ SYInv /\ [SYNext]_syVars => SYInv' BY SYNextInv
<1>3. SYInv /\ [SYNext]_syVars => [DropsAreGone]_syVars BY DropsStep
<1> SUFFICES ASSUME OwnDirectories PROVE SYSpec => DroppedOnlyIfGone OBVIOUS
<1>4. SYInv /\ [SYNext]_syVars => SYInv' BY <1>2
<1> QED BY <1>1, <1>3, <1>4, PTL DEF SYSpec, DroppedOnlyIfGone, DropsAreGone

-----------------------------------------------------------------------------
(* Every part is well typed, and each of its locks has the one owner its   *)
(* threads' program counters say, for any values of the constants          *)
(* (service.py:157-184, limiter.py:35-60, oidc.py:166-180).                *)
THEOREM PartsTyped == CRSpec /\ ELSpec /\ RHSpec /\ OKSpec => []PartsTypeOK
<1>1. RHInv => RHTypeOK BY DEF RHInv
<1>2. CRTypeOK /\ ELTypeOK /\ RHTypeOK /\ OKTypeOK => PartsTypeOK BY DEF PartsTypeOK
<1> QED BY ReloadTypes, LimiterTypes, RHAlways, KeyCacheTypes, <1>1, <1>2, PTL

-----------------------------------------------------------------------------
(* Filters.  MatchedFrom is a recursive function over the positions of a   *)
(* pattern: that it is what its equation says is proved by induction from  *)
(* the end, then that the rest of a pattern matches alone as it does after *)
(* "**/", then each pattern, and at last the order of the rules.           *)

\* Induction, of a set.
LEMMA Induction ==
    ASSUME NEW S, 0 \in S, \A n \in Nat : n \in S => n + 1 \in S
    PROVE  \A n \in Nat : n \in S
<1> DEFINE T == Nat \ S
<1> SUFFICES ASSUME T # {} PROVE FALSE OBVIOUS
<1>1. PICK k \in T : \A n \in T : k <= n BY FirstExists
<1>2. k \in Nat /\ k # 0 BY <1>1
<1>3. k - 1 \in Nat /\ k - 1 \notin T BY <1>1, <1>2
<1>4. (k - 1) + 1 \in S BY <1>3
<1>5. k \in S BY <1>2, <1>4
<1> QED BY <1>1, <1>5

\* The positions the rest of a pattern matches from, and those of a function
\* that has them for the last n positions of the pattern.
MatchingAt(g, cross, s, f, i) ==
    IF i > Len(g) THEN {Len(s) + 1}
    ELSE LET rest == f[i + Width(g, cross, i)]
         IN {k \in 1..Len(s) + 1 : \E m \in rest : Takes(g, cross, i, s, k, m)}
MatchingLast(g, cross, s, n, f) ==
    f = [i \in Len(g) + 1 - n..Len(g) + 1 |-> MatchingAt(g, cross, s, f, i)]

\* The marks of "**/" are where there is room for it.
Fits(g, cross) == \A i \in cross : i + 2 <= Len(g)

LEMMA TokensEnd ==
    ASSUME NEW g \in Seq(Characters), NEW cross, Fits(g, cross), NEW i \in 1..Len(g)
    PROVE  Width(g, cross, i) \in 1..3 /\ i + Width(g, cross, i) \in i + 1..Len(g) + 1
<1>1. Len(g) \in Nat OBVIOUS
<1>2. CASE i \in cross BY <1>1, <1>2 DEF Fits, Width
<1>3. CASE i \notin cross /\ Doubled(g, i) BY <1>1, <1>3 DEF Width, Doubled
<1>4. CASE i \notin cross /\ ~Doubled(g, i) BY <1>1, <1>4 DEF Width
<1> QED BY <1>2, <1>3, <1>4

\* Of the rest alone the position depends.
LEMMA RestDecides ==
    ASSUME NEW g \in Seq(Characters), NEW cross, Fits(g, cross), NEW s, NEW i \in 1..Len(g) + 1,
           NEW f, NEW h, \A k \in i + 1..Len(g) + 1 : f[k] = h[k]
    PROVE  MatchingAt(g, cross, s, f, i) = MatchingAt(g, cross, s, h, i)
<1>1. Len(g) \in Nat OBVIOUS
<1>2. CASE i > Len(g) BY <1>2 DEF MatchingAt
<1>3. CASE ~(i > Len(g))
  <2>1. i \in 1..Len(g) BY <1>1, <1>3
  <2>2. i + Width(g, cross, i) \in i + 1..Len(g) + 1 BY <2>1, TokensEnd
  <2>3. f[i + Width(g, cross, i)] = h[i + Width(g, cross, i)] BY <2>2
  <2> QED BY <1>3, <2>3 DEF MatchingAt
<1> QED BY <1>2, <1>3

LEMMA MatchingExists ==
    ASSUME NEW g \in Seq(Characters), NEW cross, Fits(g, cross), NEW s
    PROVE  \A n \in Nat : n <= Len(g) => \E f : MatchingLast(g, cross, s, n, f)
<1> DEFINE S == {n \in Nat : n <= Len(g) => \E f : MatchingLast(g, cross, s, n, f)}
<1>0. Len(g) \in Nat OBVIOUS
<1>1. 0 \in S
  <2> DEFINE e == [i \in Len(g) + 1 - 0..Len(g) + 1 |-> {Len(s) + 1}]
  <2>1. \A i \in Len(g) + 1 - 0..Len(g) + 1 : i > Len(g) BY <1>0
  <2>2. \A i \in Len(g) + 1 - 0..Len(g) + 1 : {Len(s) + 1} = MatchingAt(g, cross, s, e, i)
    BY <2>1 DEF MatchingAt
  <2>3. MatchingLast(g, cross, s, 0, e) BY <2>2 DEF MatchingLast
  <2> QED BY <2>3
<1>2. ASSUME NEW n \in Nat, n \in S PROVE n + 1 \in S
  <2> SUFFICES ASSUME n + 1 <= Len(g) PROVE \E h : MatchingLast(g, cross, s, n + 1, h) OBVIOUS
  <2>1. n <= Len(g) BY <1>0
  <2>2. PICK f : MatchingLast(g, cross, s, n, f) BY <1>2, <2>1
  <2> DEFINE first == Len(g) + 1 - (n + 1)
             all == first..Len(g) + 1
             h == [i \in all |-> IF i = first THEN MatchingAt(g, cross, s, f, first) ELSE f[i]]
  <2>3. first \in 1..Len(g) /\ Len(g) + 1 - n = first + 1 BY <1>0
  <2>4. \A i \in first + 1..Len(g) + 1 : f[i] = MatchingAt(g, cross, s, f, i)
    BY <2>2, <2>3 DEF MatchingLast
  <2>5. \A i \in first + 1..Len(g) + 1 : h[i] = f[i] BY <1>0, <2>3
  <2>6. ASSUME NEW i \in all PROVE h[i] = MatchingAt(g, cross, s, h, i)
    <3>1. i \in 1..Len(g) + 1 BY <1>0, <2>3
    <3>2. \A k \in i + 1..Len(g) + 1 : k \in first + 1..Len(g) + 1 BY <1>0, <2>3
    <3>3. \A k \in i + 1..Len(g) + 1 : h[k] = f[k] BY <3>2, <2>5
    <3> HIDE DEF h
    <3>4. MatchingAt(g, cross, s, h, i) = MatchingAt(g, cross, s, f, i)
      BY <3>1, <3>3, RestDecides
    <3>5. CASE i = first BY <3>4, <3>5 DEF h
    <3>6. CASE i # first
      <4>1. i \in first + 1..Len(g) + 1 BY <1>0, <2>3, <3>6
      <4> QED BY <3>4, <4>1, <2>4, <2>5
    <3> QED BY <3>5, <3>6
  <2>7. h = [i \in all |-> h[i]] OBVIOUS
  <2> HIDE DEF h, all
  <2>8. h = [i \in all |-> MatchingAt(g, cross, s, h, i)] BY <2>6, <2>7
  <2>9. MatchingLast(g, cross, s, n + 1, h) BY <2>8 DEF MatchingLast, all
  <2> QED BY <2>9
<1> HIDE DEF S
<1>3. \A n \in Nat : n \in S BY <1>1, <1>2, Induction
<1> QED BY <1>3 DEF S

\* MatchedFrom is the function its equation describes.
LEMMA MatchedFromDefined ==
    ASSUME NEW g \in Seq(Characters), NEW cross, Fits(g, cross), NEW s
    PROVE  \A i \in 1..Len(g) + 1 :
             MatchedFrom(g, cross, s)[i] = MatchingAt(g, cross, s, MatchedFrom(g, cross, s), i)
<1> DEFINE All(f) == f = [i \in 1..Len(g) + 1 |-> MatchingAt(g, cross, s, f, i)]
<1>1. Len(g) \in Nat /\ Len(g) <= Len(g) /\ Len(g) + 1 - Len(g) = 1 OBVIOUS
<1>2. PICK f : MatchingLast(g, cross, s, Len(g), f) BY <1>1, MatchingExists
<1>3. All(f) BY <1>1, <1>2 DEF MatchingLast
<1>4. MatchedFrom(g, cross, s) = CHOOSE h : All(h) BY DEF MatchedFrom, MatchingAt
<1> HIDE DEF All
<1>5. All(MatchedFrom(g, cross, s)) BY <1>3, <1>4, Zenon
<1> DEFINE F == MatchedFrom(g, cross, s)
<1>6. F = [i \in 1..Len(g) + 1 |-> MatchingAt(g, cross, s, F, i)] BY <1>5 DEF All
<1> HIDE DEF F
<1>7. \A i \in 1..Len(g) + 1 : F[i] = MatchingAt(g, cross, s, F, i) BY <1>6
<1> QED BY <1>7 DEF F

\* Position by position, where there is a token and after the last.
LEMMA MatchedByToken ==
    ASSUME NEW g \in Seq(Characters), NEW cross, Fits(g, cross), NEW s
    PROVE  /\ MatchedFrom(g, cross, s)[Len(g) + 1] = {Len(s) + 1}
           /\ \A i \in 1..Len(g) : MatchedFrom(g, cross, s)[i] =
                {k \in 1..Len(s) + 1 : \E m \in MatchedFrom(g, cross, s)[i + Width(g, cross, i)] :
                                         Takes(g, cross, i, s, k, m)}
<1> DEFINE F == MatchedFrom(g, cross, s)
<1>1. \A i \in 1..Len(g) + 1 : F[i] = MatchingAt(g, cross, s, F, i) BY MatchedFromDefined
<1> HIDE DEF F
<1>2. Len(g) \in Nat OBVIOUS
<1>3. Len(g) + 1 \in 1..Len(g) + 1 /\ Len(g) + 1 > Len(g) BY <1>2
<1>4. F[Len(g) + 1] = {Len(s) + 1} BY <1>1, <1>3 DEF MatchingAt
<1>5. \A i \in 1..Len(g) : i \in 1..Len(g) + 1 /\ ~(i > Len(g)) BY <1>2
<1>6. \A i \in 1..Len(g) : F[i] =
        {k \in 1..Len(s) + 1 : \E m \in F[i + Width(g, cross, i)] : Takes(g, cross, i, s, k, m)}
  BY <1>1, <1>5 DEF MatchingAt
<1> QED BY <1>4, <1>6 DEF F

LEMMA MatchedInPath ==
    ASSUME NEW g \in Seq(Characters), NEW cross, Fits(g, cross), NEW s \in Seq(Characters),
           NEW i \in 1..Len(g) + 1
    PROVE  MatchedFrom(g, cross, s)[i] \subseteq 1..Len(s) + 1
<1>1. Len(s) \in Nat OBVIOUS
<1>2. MatchedFrom(g, cross, s)[i] = MatchingAt(g, cross, s, MatchedFrom(g, cross, s), i)
  BY MatchedFromDefined
<1> QED BY <1>1, <1>2 DEF MatchingAt

-----------------------------------------------------------------------------
\* A pattern and its rest after the prefix "**/", which is not crossed again.
AfterPrefix(g, h) == /\ g \in Seq(Characters) /\ h \in Seq(Characters) /\ Len(g) = Len(h) + 3
                     /\ \A i \in 1..Len(h) : h[i] = g[i + 3]

LEMMA SameTokens ==
    ASSUME NEW g, NEW h, AfterPrefix(g, h), NEW i \in 1..Len(h), NEW s
    PROVE  /\ Width(h, {}, i) = Width(g, {1}, i + 3)
           /\ \A k, m : Takes(h, {}, i, s, k, m) <=> Takes(g, {1}, i + 3, s, k, m)
<1>1. Len(h) \in Nat /\ Len(g) = Len(h) + 3 BY DEF AfterPrefix
<1>2. h[i] = g[i + 3] BY DEF AfterPrefix
<1>3. i < Len(h) <=> i + 3 < Len(g) BY <1>1
<1>4. i < Len(h) => i + 1 \in 1..Len(h) /\ (i + 1) + 3 = (i + 3) + 1 BY <1>1
<1>5. i < Len(h) => h[i + 1] = g[(i + 3) + 1] BY <1>4 DEF AfterPrefix
<1>6. Doubled(h, i) <=> Doubled(g, i + 3) BY <1>2, <1>3, <1>5 DEF Doubled
<1>7. i \notin {} /\ i + 3 \notin {1} OBVIOUS
<1> QED BY <1>2, <1>6, <1>7 DEF Width, Takes

LEMMA RestMatchesAlone ==
    ASSUME NEW g, NEW h, AfterPrefix(g, h), NEW s
    PROVE  \A i \in 1..Len(h) + 1 : MatchedFrom(h, {}, s)[i] = MatchedFrom(g, {1}, s)[i + 3]
<1> DEFINE H == MatchedFrom(h, {}, s)
           G == MatchedFrom(g, {1}, s)
           S == {n \in Nat : n <= Len(h) => \A i \in Len(h) + 1 - n..Len(h) + 1 : H[i] = G[i + 3]}
<1>1. g \in Seq(Characters) /\ h \in Seq(Characters) /\ Len(h) \in Nat /\ Len(g) = Len(h) + 3
  BY DEF AfterPrefix
<1>2. Fits(h, {}) /\ Fits(g, {1}) BY <1>1 DEF Fits
<1>3. /\ H[Len(h) + 1] = {Len(s) + 1}
      /\ \A i \in 1..Len(h) : H[i] =
           {k \in 1..Len(s) + 1 : \E m \in H[i + Width(h, {}, i)] : Takes(h, {}, i, s, k, m)}
  BY <1>1, <1>2, MatchedByToken
<1>4. /\ G[Len(g) + 1] = {Len(s) + 1}
      /\ \A i \in 1..Len(g) : G[i] =
           {k \in 1..Len(s) + 1 : \E m \in G[i + Width(g, {1}, i)] : Takes(g, {1}, i, s, k, m)}
  BY <1>1, <1>2, MatchedByToken
<1>5. \A i \in 1..Len(h) : Width(h, {}, i) \in 1..3 /\ i + Width(h, {}, i) \in i + 1..Len(h) + 1
  BY <1>1, <1>2, TokensEnd
<1> HIDE DEF G, H
<1>6. 0 \in S
  <2>1. \A i \in Len(h) + 1 - 0..Len(h) + 1 : i = Len(h) + 1 /\ i + 3 = Len(g) + 1 BY <1>1
  <2> QED BY <2>1, <1>3, <1>4
<1>7. ASSUME NEW n \in Nat, n \in S PROVE n + 1 \in S
  <2> SUFFICES ASSUME n + 1 <= Len(h), NEW i \in Len(h) + 1 - (n + 1)..Len(h) + 1
               PROVE  H[i] = G[i + 3]
    OBVIOUS
  <2>1. \A k \in Len(h) + 1 - n..Len(h) + 1 : H[k] = G[k + 3] BY <1>1, <1>7
  <2>2. CASE i \in Len(h) + 1 - n..Len(h) + 1 BY <2>1, <2>2
  <2>3. CASE i \notin Len(h) + 1 - n..Len(h) + 1
    <3>1. i = Len(h) + 1 - (n + 1) /\ i \in 1..Len(h) /\ i + 3 \in 1..Len(g) BY <1>1, <2>3
    <3> DEFINE w == Width(h, {}, i)
    <3>2. w \in 1..3 /\ i + w \in i + 1..Len(h) + 1 BY <1>5, <3>1
    <3>3. w = Width(g, {1}, i + 3)
          /\ \A k, m : Takes(h, {}, i, s, k, m) <=> Takes(g, {1}, i + 3, s, k, m)
      BY <3>1, SameTokens
    <3> HIDE DEF w
    <3>4. i + w \in Len(h) + 1 - n..Len(h) + 1 /\ (i + w) + 3 = (i + 3) + w
      BY <1>1, <3>1, <3>2
    <3>5. H[i + w] = G[(i + 3) + w] BY <2>1, <3>4
    <3>6. H[i] = {k \in 1..Len(s) + 1 : \E m \in H[i + w] : Takes(h, {}, i, s, k, m)}
      BY <1>3, <3>1 DEF w
    <3>7. G[i + 3] = {k \in 1..Len(s) + 1 : \E m \in G[(i + 3) + w] : Takes(g, {1}, i + 3, s, k, m)}
      BY <1>4, <3>1, <3>3
    <3> QED BY <3>3, <3>5, <3>6, <3>7
  <2> QED BY <2>2, <2>3
<1> HIDE DEF S
<1>8. \A n \in Nat : n \in S BY <1>6, <1>7, Induction
<1>9. Len(h) \in S BY <1>1, <1>8
<1>10. \A i \in 1..Len(h) + 1 : i \in Len(h) + 1 - Len(h)..Len(h) + 1 BY <1>1
<1> QED BY <1>1, <1>9, <1>10 DEF S, G, H

-----------------------------------------------------------------------------
\* What lstrip leaves begins at the first character that is no "/".
LEMMA StrippedAt ==
    ASSUME NEW g \in Seq(Characters), NEW first \in 1..Len(g) + 1,
           \A k \in 1..first - 1 : g[k] = "/", first <= Len(g) => g[first] # "/"
    PROVE  Stripped(g) = SubSeq(g, first, Len(g))
<1> DEFINE Begins(i) == /\ \A k \in 1..i - 1 : g[k] = "/"
                        /\ i <= Len(g) => g[i] # "/"
<1>1. Len(g) \in Nat OBVIOUS
<1>2. ASSUME NEW i \in 1..Len(g) + 1, Begins(i) PROVE i = first
  <2>1. CASE i < first
    <3>1. i \in 1..first - 1 /\ i <= Len(g) BY <1>1, <2>1
    <3> QED BY <1>2, <3>1
  <2>2. CASE first < i
    <3>1. first \in 1..i - 1 /\ first <= Len(g) BY <1>1, <2>2
    <3> QED BY <1>2, <3>1
  <2> QED BY <1>1, <2>1, <2>2
<1>3. first \in 1..Len(g) + 1 /\ Begins(first) OBVIOUS
<1> HIDE DEF Begins
<1>4. (CHOOSE i \in 1..Len(g) + 1 : Begins(i)) = first BY <1>2, <1>3
<1> QED BY <1>4 DEF Stripped, Begins

LEMMA UnrootedStays ==
    ASSUME NEW g \in Seq(Characters), ~Rooted(g)
    PROVE  Stripped(g) = g
<1>1. Len(g) \in Nat /\ (Len(g) = 0 <=> g = <<>>) OBVIOUS
<1>2. 1 \in 1..Len(g) + 1 /\ 1 <= Len(g) => g[1] # "/" BY <1>1 DEF Rooted
<1>3. Stripped(g) = SubSeq(g, 1, Len(g)) BY <1>1, <1>2, StrippedAt
<1> QED BY <1>3, SubSeqFull

\* Where rclone lets "**/" stand for nothing: at the prefix it is not told of.
Opening(g) == IF Crossing(g, 1) THEN {1} ELSE {}

\* What is left of a rooted pattern; and no crossing is at its "/".
LEMMA RootedRest ==
    ASSUME NEW g \in Seq(Characters), Segmented(g), Rooted(g)
    PROVE  Stripped(g) = Tail(g) /\ ToRclone(g) = g /\ ~Crossing(g, 1)
<1>1. Len(g) \in Nat \ {0} /\ g[1] = "/" /\ g # <<>> BY DEF Rooted
<1>2. 2 <= Len(g) => g[2] # "/"
  <2>1. 2 <= Len(g) => 2 \in 2..Len(g) /\ 2 - 1 = 1 BY <1>1
  <2> QED BY <1>1, <2>1 DEF Segmented
<1>3. 2 \in 1..Len(g) + 1 /\ \A k \in 1..2 - 1 : g[k] = "/" BY <1>1
<1>4. Stripped(g) = SubSeq(g, 2, Len(g)) BY <1>2, <1>3, StrippedAt
<1>5. Stripped(g) = Tail(g) BY <1>1, <1>4, TailIsSubSeq
<1>6. ~Crossing(g, 1) BY <1>1 DEF Crossing, Doubled
<1> QED BY <1>5, <1>6 DEF ToRclone

\* A pattern without the prefix is read from the root, as the scan reads it.
LEMMA AnchoredReads ==
    ASSUME NEW g \in Seq(Characters), Segmented(g), ~Crossing(g, 1), NEW s \in Seq(Characters)
    PROVE  RcloneMatches(ToRclone(g), s) <=> 1 \in MatchedFrom(Stripped(g), {}, s)[1]
<1>1. CASE Rooted(g) BY <1>1, RootedRest DEF RcloneMatches
<1>2. CASE ~Rooted(g)
  <2> DEFINE r == <<"/">> \o g
  <2>1. ToRclone(g) = r BY <1>2 DEF ToRclone
  <2>2. <<"/">> \in Seq(Characters) /\ Len(<<"/">>) = 1 /\ <<"/">>[1] = "/"
    <3>1. "/" \in Characters BY FiltersAssumption
    <3> QED BY <3>1
  <2>3. r \in Seq(Characters) /\ Len(r) = 1 + Len(g) /\ r[1] = "/"
        /\ \A i \in 1..Len(g) : r[i + 1] = g[i]
    BY <2>2, ConcatProperties
  <2> HIDE DEF r
  <2>4. r # <<>> BY <2>3
  <2>5. Rooted(r) BY <2>3, <2>4 DEF Rooted
  <2>6. Tail(r) = g
    <3>1. /\ Tail(r) \in Seq(Characters) /\ Len(Tail(r)) = Len(r) - 1
          /\ \A i \in 1..Len(Tail(r)) : Tail(r)[i] = r[i + 1]
      BY <2>3, <2>4, HeadTailProperties
    <3> DEFINE t == Tail(r)
    <3> HIDE DEF t
    <3>2. t \in Seq(Characters) /\ Len(t) = Len(g) /\ \A i \in 1..Len(t) : t[i] = g[i]
      BY <2>3, <3>1 DEF t
    <3>3. t = g BY <3>2, SeqEqual
    <3> QED BY <3>3 DEF t
  <2>7. Stripped(g) = g BY <1>2, UnrootedStays
  <2> QED BY <2>1, <2>5, <2>6, <2>7 DEF RcloneMatches
<1> QED BY <1>1, <1>2

\* A pattern that may begin at any segment is one after a "**/" that may stand
\* for nothing.
LEMMA FloatingReads ==
    ASSUME NEW g \in Seq(Characters), Segmented(g), Crossing(g, 1), NEW s \in Seq(Characters)
    PROVE  RcloneMatches(ToRclone(g), s) <=> 1 \in MatchedFrom(g, {1}, s)[1]
<1> DEFINE h == SubSeq(g, 4, Len(g))
<1>0. Len(g) \in Nat /\ 3 <= Len(g) BY DEF Crossing, Doubled
<1>1. g[3] = "/" BY <1>0 DEF Crossing, Doubled
<1>2. AfterPrefix(g, h)
  <2>1. \A i \in 4..Len(g) : g[i] \in Characters BY <1>0
  <2>2. /\ h \in Seq(Characters)
        /\ Len(h) = IF 4 <= Len(g) THEN Len(g) - 4 + 1 ELSE 0
        /\ \A i \in 1..Len(g) - 4 + 1 : h[i] = g[4 + i - 1]
    BY <1>0, <2>1, SubSeqProperties
  <2> HIDE DEF h
  <2>3. Len(h) = Len(g) - 3
    <3>1. CASE 4 <= Len(g) BY <1>0, <2>2, <3>1
    <3>2. CASE ~(4 <= Len(g))
      <4>1. \A n \in Nat : 3 <= n /\ ~(4 <= n) => n = 3 OBVIOUS
      <4>2. Len(g) = 3 BY <1>0, <3>2, <4>1
      <4>3. Len(h) = 0 BY <2>2, <3>2
      <4> QED BY <4>2, <4>3
    <3> QED BY <3>1, <3>2
  <2>4. \A i \in 1..Len(h) : i \in 1..Len(g) - 4 + 1 /\ 4 + i - 1 = i + 3 BY <1>0, <2>3
  <2> QED BY <1>0, <2>2, <2>3, <2>4 DEF AfterPrefix
<1>3. ToRclone(g) = h BY DEF ToRclone
<1> HIDE DEF h
<1>6. ~Rooted(h)
  <2> SUFFICES ASSUME h # <<>>, h[1] = "/" PROVE FALSE BY DEF Rooted
  <2>1. h \in Seq(Characters) /\ Len(g) = Len(h) + 3 BY <1>2 DEF AfterPrefix
  <2>2. 1 \in 1..Len(h) /\ 4 \in 2..Len(g) /\ 1 + 3 = 4 /\ 4 - 1 = 3 BY <2>1
  <2>3. g[4] = "/" BY <1>2, <2>2 DEF AfterPrefix
  <2> QED BY <1>1, <2>2, <2>3 DEF Segmented
<1> DEFINE F == MatchedFrom(g, {1}, s)
<1>7. MatchedFrom(h, {}, s)[1] = F[4]
  <2>1. 1 \in 1..Len(h) + 1 /\ 1 + 3 = 4 BY <1>2 DEF AfterPrefix
  <2> QED BY <1>2, <2>1, RestMatchesAlone
<1>8. Len(s) \in Nat /\ 1 \in 1..Len(s) + 1 OBVIOUS
<1>9. Fits(g, {1}) /\ 1 \in 1..Len(g) /\ Width(g, {1}, 1) = 3 /\ 1 + 3 = 4 BY <1>0 DEF Fits, Width
<1>10. F[1] = {k \in 1..Len(s) + 1 : \E m \in F[4] : Takes(g, {1}, 1, s, k, m)}
  BY <1>9, MatchedByToken
<1>11. F[4] \subseteq 1..Len(s) + 1
  <2>1. 4 \in 1..Len(g) + 1 BY <1>0
  <2> QED BY <1>9, <2>1, MatchedInPath
<1> HIDE DEF F
<1>12. \A m \in F[4] : Takes(g, {1}, 1, s, 1, m) <=> m = 1 \/ s[m - 1] = "/"
  <2>1. \A m \in F[4] : 1 <= m BY <1>8, <1>11
  <2> QED BY <2>1 DEF Takes
<1>13. 1 \in F[1] <=> \E m \in F[4] : m = 1 \/ s[m - 1] = "/" BY <1>8, <1>10, <1>12
<1>14. RcloneMatches(h, s) <=> \E m \in F[4] : m = 1 \/ s[m - 1] = "/"
  BY <1>6, <1>7 DEF RcloneMatches
<1> QED BY <1>3, <1>13, <1>14 DEF F

\* What rclone lets stand for nothing, the scan does.
LEMMA OpeningCrosses ==
    ASSUME NEW g \in Seq(Characters), Segmented(g)
    PROVE  /\ Stripped(g) \in Seq(Characters)
           /\ Opening(g) \subseteq Crossings(Stripped(g))
           /\ Plain(g) => Opening(g) = Crossings(Stripped(g))
<1>1. CASE Rooted(g)
  <2>1. Stripped(g) = Tail(g) /\ Opening(g) = {} BY <1>1, RootedRest DEF Opening
  <2> DEFINE h == Tail(g)
  <2>2. Len(g) \in Nat /\ g # <<>> BY <1>1 DEF Rooted
  <2>3. /\ h \in Seq(Characters) /\ Len(h) = Len(g) - 1
        /\ \A i \in 1..Len(h) : h[i] = g[i + 1]
    BY <2>2, HeadTailProperties
  <2> HIDE DEF h
  <2>4. ASSUME Plain(g), NEW i \in 1..Len(h), Crossing(h, i) PROVE FALSE
    <3>1. i + 1 \in 1..Len(h) /\ i + 2 \in 1..Len(h) /\ i + 1 \in 1..Len(g)
          /\ i + 1 < Len(g) /\ (i + 1) + 1 < Len(g) /\ i + 1 # 1
      BY <2>2, <2>3, <2>4 DEF Crossing, Doubled
    <3>2. g[i + 1] = h[i] /\ g[(i + 1) + 1] = h[i + 1] /\ g[(i + 1) + 2] = h[i + 2]
      BY <2>3, <3>1
    <3>3. Crossing(g, i + 1) BY <2>4, <3>1, <3>2 DEF Crossing, Doubled
    <3> QED BY <2>4, <3>1, <3>3 DEF Plain, Crossings
  <2>5. Plain(g) => Crossings(h) = {} BY <2>4 DEF Crossings
  <2> QED BY <2>1, <2>3, <2>5 DEF h
<1>2. CASE ~Rooted(g)
  <2>1. Stripped(g) = g BY <1>2, UnrootedStays
  <2>2. Crossing(g, 1) => 1 \in 1..Len(g) BY DEF Crossing, Doubled
  <2> QED BY <2>1, <2>2 DEF Opening, Plain, Crossings
<1> QED BY <1>1, <1>2

\* So the two readings differ only in where "**/" may stand for nothing.
LEMMA TwoReadings ==
    ASSUME NEW g \in Seq(Characters), Segmented(g), NEW s \in Seq(Characters), ~Rooted(s)
    PROVE  /\ RcloneMatches(ToRclone(g), s) <=> 1 \in MatchedFrom(Stripped(g), Opening(g), s)[1]
           /\ MatchesGlob(g, s)
                <=> 1 \in MatchedFrom(Stripped(g), Crossings(Stripped(g)), s)[1]
<1>1. Stripped(s) = s BY UnrootedStays
<1>2. CASE Crossing(g, 1)
  <2>1. ~Rooted(g) BY <1>2, RootedRest
  <2>2. Stripped(g) = g BY <2>1, UnrootedStays
  <2> QED BY <1>1, <1>2, <2>2, FloatingReads DEF MatchesGlob, Matches, Opening
<1>3. CASE ~Crossing(g, 1) BY <1>1, <1>3, AnchoredReads DEF MatchesGlob, Matches, Opening
<1> QED BY <1>2, <1>3

LEMMA PlainAgrees ==
    ASSUME NEW g \in Seq(Characters), Plain(g), NEW s \in Seq(Characters), ~Rooted(s)
    PROVE  MatchesGlob(g, s) <=> RcloneMatches(ToRclone(g), s)
<1>1. Segmented(g) BY DEF Plain, Simple
<1> QED BY <1>1, TwoReadings, OpeningCrosses

-----------------------------------------------------------------------------
\* Where "**/" need not stand for nothing it is a "**" before a "/".
LEMMA LongWayRound ==
    ASSUME NEW g \in Seq(Characters), NEW c \in SUBSET Crossings(g), Fits(g, c),
           NEW i \in Crossings(g), i \notin c, NEW s \in Seq(Characters),
           NEW k \in MatchedFrom(g, c, s)[i]
    PROVE  /\ i + 3 \in 1..Len(g) + 1
           /\ \E m \in MatchedFrom(g, c, s)[i + 3] : k <= m /\ s[m - 1] = "/"
<1> DEFINE C == MatchedFrom(g, c, s)
<1>1. Len(g) \in Nat /\ Len(s) \in Nat OBVIOUS
<1>2. /\ i \in 1..Len(g) /\ i + 2 \in 1..Len(g) /\ i + 3 \in 1..Len(g) + 1
      /\ Doubled(g, i) /\ g[i + 2] = "/" /\ i + 2 + 1 = i + 3
  BY <1>1 DEF Crossings, Crossing, Doubled
<1>3. i + 2 \notin c /\ ~Doubled(g, i + 2) BY <1>2 DEF Crossings, Crossing, Doubled
<1>4. Width(g, c, i) = 2 /\ Width(g, c, i + 2) = 1 BY <1>2, <1>3 DEF Width
<1>5. \A n \in 1..Len(g) : C[n] =
        {q \in 1..Len(s) + 1 : \E m \in C[n + Width(g, c, n)] : Takes(g, c, n, s, q, m)}
  BY MatchedByToken
<1>6. C[i + 2] \subseteq 1..Len(s) + 1 /\ C[i + 3] \subseteq 1..Len(s) + 1
  <2>1. i + 2 \in 1..Len(g) + 1 BY <1>1, <1>2
  <2> QED BY <1>2, <2>1, MatchedInPath
<1> HIDE DEF C
<1>7. k \in C[i] BY DEF C
<1>8. k \in 1..Len(s) + 1 /\ \E n \in C[i + 2] : Takes(g, c, i, s, k, n)
  BY <1>2, <1>4, <1>5, <1>7
<1>9. PICK n \in C[i + 2] : k <= n BY <1>8 DEF Takes
<1>10. \E m \in C[i + 3] : Takes(g, c, i + 2, s, n, m)
  <2>1. C[i + 2] = {q \in 1..Len(s) + 1 : \E m \in C[i + 2 + 1] : Takes(g, c, i + 2, s, q, m)}
    BY <1>2, <1>4, <1>5
  <2> QED BY <1>2, <1>9, <2>1
<1>11. PICK m \in C[i + 3] : m = n + 1 /\ s[n] = "/"
  <2>1. g[i + 2] # "*" /\ g[i + 2] # "?" BY <1>2
  <2> QED BY <1>2, <1>3, <1>10, <2>1 DEF Takes
<1>12. k <= m /\ s[m - 1] = "/" BY <1>6, <1>8, <1>9, <1>11
<1> QED BY <1>2, <1>12 DEF C

\* The more may stand for nothing, the more is matched.
LEMMA MoreCrossedMoreMatched ==
    ASSUME NEW g \in Seq(Characters), NEW c \in SUBSET Crossings(g), NEW s \in Seq(Characters)
    PROVE  \A i \in 1..Len(g) + 1 :
             MatchedFrom(g, c, s)[i] \subseteq MatchedFrom(g, Crossings(g), s)[i]
<1> DEFINE d == Crossings(g)
           C == MatchedFrom(g, c, s)
           D == MatchedFrom(g, d, s)
           S == {n \in Nat : n <= Len(g) => \A i \in Len(g) + 1 - n..Len(g) + 1 : C[i] \subseteq D[i]}
<1>1. Len(g) \in Nat OBVIOUS
<1>2. Fits(g, d) /\ Fits(g, c) BY <1>1 DEF Fits, Crossings, Crossing, Doubled
<1>3. /\ C[Len(g) + 1] = {Len(s) + 1}
      /\ \A i \in 1..Len(g) : C[i] =
           {k \in 1..Len(s) + 1 : \E m \in C[i + Width(g, c, i)] : Takes(g, c, i, s, k, m)}
  BY <1>2, MatchedByToken
<1>4. /\ D[Len(g) + 1] = {Len(s) + 1}
      /\ \A i \in 1..Len(g) : D[i] =
           {k \in 1..Len(s) + 1 : \E m \in D[i + Width(g, d, i)] : Takes(g, d, i, s, k, m)}
  BY <1>2, MatchedByToken
<1>5. \A i \in 1..Len(g) : Width(g, c, i) \in 1..3 /\ i + Width(g, c, i) \in i + 1..Len(g) + 1
  BY <1>2, TokensEnd
<1>6. \A i \in d : i \notin c => \A k \in C[i] :
        i + 3 \in 1..Len(g) + 1 /\ \E m \in C[i + 3] : k <= m /\ s[m - 1] = "/"
  BY <1>2, LongWayRound
<1> HIDE DEF C, D
<1>7. 0 \in S
  <2>1. \A i \in Len(g) + 1 - 0..Len(g) + 1 : i = Len(g) + 1 BY <1>1
  <2> QED BY <2>1, <1>3, <1>4
<1>8. ASSUME NEW n \in Nat, n \in S PROVE n + 1 \in S
  <2> SUFFICES ASSUME n + 1 <= Len(g), NEW i \in Len(g) + 1 - (n + 1)..Len(g) + 1,
                      NEW k \in C[i]
               PROVE  k \in D[i]
    OBVIOUS
  <2>1. \A j \in Len(g) + 1 - n..Len(g) + 1 : C[j] \subseteq D[j] BY <1>1, <1>8
  <2>2. CASE i \in Len(g) + 1 - n..Len(g) + 1 BY <2>1, <2>2
  <2>3. CASE i \notin Len(g) + 1 - n..Len(g) + 1
    <3>1. i = Len(g) + 1 - (n + 1) /\ i \in 1..Len(g) BY <1>1, <2>3
    <3>2. \A j \in i + 1..Len(g) + 1 : C[j] \subseteq D[j] BY <1>1, <2>1, <3>1
    <3>3. k \in 1..Len(s) + 1 /\ \E m \in C[i + Width(g, c, i)] : Takes(g, c, i, s, k, m)
      BY <1>3, <3>1
    <3>4. CASE i \in c <=> i \in d
      <4>1. Width(g, c, i) = Width(g, d, i) BY <3>4 DEF Width
      <4>2. \A m : Takes(g, c, i, s, k, m) => Takes(g, d, i, s, k, m) BY <3>4 DEF Takes
      <4>3. C[i + Width(g, d, i)] \subseteq D[i + Width(g, d, i)] BY <1>5, <3>1, <3>2, <4>1
      <4> HIDE DEF d
      <4> QED BY <1>4, <3>1, <3>3, <4>1, <4>2, <4>3
    <3>5. CASE i \in d /\ i \notin c
      <4>1. PICK m \in C[i + 3] : k <= m /\ s[m - 1] = "/" BY <1>6, <3>5
      <4>2. i + 3 \in i + 1..Len(g) + 1 BY <1>1, <1>6, <3>1, <3>5
      <4>3. m \in D[i + 3] BY <3>2, <4>1, <4>2
      <4>4. Width(g, d, i) = 3 BY <3>5 DEF Width
      <4>5. Takes(g, d, i, s, k, m) BY <3>5, <4>1 DEF Takes
      <4> HIDE DEF d
      <4> QED BY <1>4, <3>1, <3>3, <4>3, <4>4, <4>5
    <3> QED BY <3>4, <3>5
  <2> QED BY <2>2, <2>3
<1> HIDE DEF S
<1>9. \A n \in Nat : n \in S BY <1>7, <1>8, Induction
<1>10. Len(g) \in S BY <1>1, <1>9
<1>11. \A i \in 1..Len(g) + 1 : i \in Len(g) + 1 - Len(g)..Len(g) + 1 BY <1>1
<1> QED BY <1>1, <1>10, <1>11 DEF S, C, D

\* So what rclone applies to a path, the scan matches with it.
LEMMA RcloneIsNarrower ==
    ASSUME NEW g \in Seq(Characters), Segmented(g), NEW s \in Seq(Characters), ~Rooted(s)
    PROVE  RcloneMatches(ToRclone(g), s) => MatchesGlob(g, s)
<1> DEFINE h == Stripped(g)
<1>1. h \in Seq(Characters) /\ Opening(g) \subseteq Crossings(h) BY OpeningCrosses
<1>2. /\ RcloneMatches(ToRclone(g), s) <=> 1 \in MatchedFrom(h, Opening(g), s)[1]
      /\ MatchesGlob(g, s) <=> 1 \in MatchedFrom(h, Crossings(h), s)[1]
  BY TwoReadings
<1> HIDE DEF h
<1>3. 1 \in 1..Len(h) + 1 BY <1>1
<1> QED BY <1>1, <1>2, <1>3, MoreCrossedMoreMatched

-----------------------------------------------------------------------------
\* "**" applies to every path, and so does the last rule, "- **".
LEMMA DoubledApplies ==
    ASSUME NEW a \in Seq(Characters), Doubled(a, 1), a[1] # "/", NEW s \in Seq(Characters),
           MatchedFrom(a, {}, s)[1 + 2] = {Len(s) + 1}
    PROVE  RcloneMatches(a, s)
<1>1. ~Rooted(a) BY DEF Rooted
<1>2. Fits(a, {}) BY DEF Fits
<1>3. Width(a, {}, 1) = 2 /\ 1 \in 1..Len(a) BY DEF Width, Doubled
<1> DEFINE F == MatchedFrom(a, {}, s)
<1>4. F[1] = {k \in 1..Len(s) + 1 : \E m \in F[1 + 2] : Takes(a, {}, 1, s, k, m)}
  BY <1>2, <1>3, MatchedByToken
<1> HIDE DEF F
<1>5. Len(s) \in Nat /\ 1 \in 1..Len(s) + 1 /\ 1 <= Len(s) + 1 OBVIOUS
<1>6. Takes(a, {}, 1, s, 1, Len(s) + 1) BY <1>5 DEF Takes
<1>7. F[1 + 2] = {Len(s) + 1} BY DEF F
<1>8. 1 \in F[1] BY <1>4, <1>5, <1>6, <1>7
<1> QED BY <1>1, <1>8 DEF RcloneMatches, F

LEMMA CatchAllApplies == \A s \in Seq(Characters) : RcloneMatches(<<"*", "*">>, s)
<1> SUFFICES ASSUME NEW s \in Seq(Characters) PROVE RcloneMatches(<<"*", "*">>, s) OBVIOUS
<1> DEFINE a == <<"*", "*">>
<1>1. "*" \in Characters BY FiltersAssumption
<1>2. a \in Seq(Characters) /\ Len(a) + 1 = 1 + 2 /\ a[1] = "*" BY <1>1
<1>3. Doubled(a, 1) BY DEF Doubled
<1>4. Fits(a, {}) BY DEF Fits
<1> HIDE DEF a
<1>5. MatchedFrom(a, {}, s)[Len(a) + 1] = {Len(s) + 1} BY <1>2, <1>4, MatchedByToken
<1>6. RcloneMatches(a, s) BY <1>2, <1>3, <1>5, DoubledApplies
<1> QED BY <1>6 DEF a

LEMMA CatchAllIsSimple ==
    /\ ~Grouped(<<"*", "*">>) /\ ~TooManyStars(<<"*", "*">>) /\ ~Directory(<<"*", "*">>)
<1> DEFINE a == <<"*", "*">>
<1>1. Len(a) = 2 /\ DOMAIN a = 1..2 /\ \A i \in 1..2 : a[i] = "*" OBVIOUS
<1> HIDE DEF a
<1>2. ~Grouped(a) BY <1>1 DEF Grouped, GroupSigns
<1>3. ~TooManyStars(a) BY <1>1 DEF TooManyStars
<1>4. ~Directory(a) BY <1>1 DEF Directory
<1> QED BY <1>2, <1>3, <1>4 DEF a

-----------------------------------------------------------------------------
\* What a rule is, and the list of them: the excludes, the includes, the last.
Rule == [keep : BOOLEAN, pattern : Seq(Characters)]

LEMMA ToRcloneTyped == \A g \in Seq(Characters) : ToRclone(g) \in Seq(Characters)
<1> SUFFICES ASSUME NEW g \in Seq(Characters) PROVE ToRclone(g) \in Seq(Characters) OBVIOUS
<1>1. <<"/">> \in Seq(Characters)
  <2>1. "/" \in Characters BY FiltersAssumption
  <2> QED BY <2>1
<1>2. <<"/">> \o g \in Seq(Characters) BY <1>1, ConcatProperties
<1>3. SubSeq(g, 4, Len(g)) \in Seq(Characters)
  <2>1. Len(g) \in Nat OBVIOUS
  <2>2. \A i \in 4..Len(g) : g[i] \in Characters BY <2>1
  <2> QED BY <2>1, <2>2, SubSeqProperties
<1> QED BY <1>2, <1>3 DEF ToRclone

RulesAre(r, e, n, last) ==
    /\ r \in Seq(Rule)
    /\ Len(r) = Len(e) + Len(n) + Len(last)
    /\ \A i \in 1..Len(e) : r[i] = [keep |-> FALSE, pattern |-> ToRclone(e[i])]
    /\ \A i \in 1..Len(n) : r[Len(e) + i] = [keep |-> TRUE, pattern |-> ToRclone(n[i])]
    /\ \A i \in 1..Len(last) : r[Len(e) + Len(n) + i] = last[i]

LEMMA MappedTyped ==
    ASSUME NEW e \in Seq(Seq(Characters)), NEW b \in BOOLEAN
    PROVE  LET m == [i \in DOMAIN e |-> [keep |-> b, pattern |-> ToRclone(e[i])]]
           IN m \in Seq(Rule) /\ Len(m) = Len(e)
<1>1. Len(e) \in Nat /\ DOMAIN e = 1..Len(e) /\ \A i \in 1..Len(e) : e[i] \in Seq(Characters)
  OBVIOUS
<1>2. \A i \in 1..Len(e) : [keep |-> b, pattern |-> ToRclone(e[i])] \in Rule
  BY <1>1, ToRcloneTyped DEF Rule
<1> DEFINE m == [i \in 1..Len(e) |-> [keep |-> b, pattern |-> ToRclone(e[i])]]
<1>3. m \in [1..Len(e) -> Rule] /\ DOMAIN m = 1..Len(e) BY <1>2
<1> HIDE DEF m
<1>4. m \in Seq(Rule) BY <1>1, <1>3, SeqDef
<1>5. Len(m) = Len(e) BY <1>1, <1>3, <1>4
<1> QED BY <1>1, <1>4, <1>5 DEF m


LEMMA ThreeLists ==
    ASSUME NEW S, NEW a \in Seq(S), NEW b \in Seq(S), NEW c \in Seq(S)
    PROVE  /\ a \o b \o c \in Seq(S) /\ Len(a \o b \o c) = Len(a) + Len(b) + Len(c)
           /\ \A i \in 1..Len(a) : (a \o b \o c)[i] = a[i]
           /\ \A i \in 1..Len(b) : (a \o b \o c)[Len(a) + i] = b[i]
           /\ \A i \in 1..Len(c) : (a \o b \o c)[Len(a) + Len(b) + i] = c[i]
<1> DEFINE ab == a \o b
           r == ab \o c
<1>1. Len(a) \in Nat /\ Len(b) \in Nat /\ Len(c) \in Nat OBVIOUS
<1>2. /\ ab \in Seq(S) /\ Len(ab) = Len(a) + Len(b)
      /\ \A i \in 1..Len(a) + Len(b) : ab[i] = IF i <= Len(a) THEN a[i] ELSE b[i - Len(a)]
  BY ConcatProperties
<1>7. ab \in Seq(S) BY <1>2
<1> HIDE DEF ab
<1>3. /\ r \in Seq(S) /\ Len(r) = Len(ab) + Len(c)
      /\ \A i \in 1..Len(ab) + Len(c) : r[i] = IF i <= Len(ab) THEN ab[i] ELSE c[i - Len(ab)]
  BY <1>7, ConcatProperties
<1> HIDE DEF r
<1>4. ASSUME NEW i \in 1..Len(a) PROVE r[i] = a[i]
  <2>1. i \in 1..Len(ab) + Len(c) /\ i \in 1..Len(a) + Len(b) /\ i <= Len(ab) /\ i <= Len(a)
    BY <1>1, <1>2
  <2> QED BY <1>2, <1>3, <2>1
<1>5. ASSUME NEW i \in 1..Len(b) PROVE r[Len(a) + i] = b[i]
  <2>1. Len(a) + i \in 1..Len(ab) + Len(c) /\ Len(a) + i \in 1..Len(a) + Len(b)
        /\ Len(a) + i <= Len(ab) /\ ~(Len(a) + i <= Len(a)) /\ (Len(a) + i) - Len(a) = i
    BY <1>1, <1>2
  <2> QED BY <1>2, <1>3, <2>1
<1>6. ASSUME NEW i \in 1..Len(c) PROVE r[Len(a) + Len(b) + i] = c[i]
  <2>1. Len(a) + Len(b) + i \in 1..Len(ab) + Len(c) /\ ~(Len(a) + Len(b) + i <= Len(ab))
        /\ (Len(a) + Len(b) + i) - Len(ab) = i
    BY <1>1, <1>2
  <2> QED BY <1>3, <2>1
<1> QED BY <1>2, <1>3, <1>4, <1>5, <1>6 DEF r, ab

\* The last rule, when there are includes.
LastRule(f) == IF f.include = <<>> THEN <<>>
               ELSE <<[keep |-> FALSE, pattern |-> <<"*", "*">>]>>

LEMMA RulesInOrder ==
    ASSUME NEW f, f.exclude \in Seq(Seq(Characters)), f.include \in Seq(Seq(Characters))
    PROVE  RulesAre(Rules(f), f.exclude, f.include, LastRule(f))
<1> DEFINE e == f.exclude
           n == f.include
           a == [i \in DOMAIN e |-> [keep |-> FALSE, pattern |-> ToRclone(e[i])]]
           b == [i \in DOMAIN n |-> [keep |-> TRUE, pattern |-> ToRclone(n[i])]]
           c == LastRule(f)
<1>1. a \in Seq(Rule) /\ Len(a) = Len(e) BY MappedTyped
<1>2. b \in Seq(Rule) /\ Len(b) = Len(n) BY MappedTyped
<1>3. c \in Seq(Rule)
  <2>1. "*" \in Characters BY FiltersAssumption
  <2>2. <<"*", "*">> \in Seq(Characters) BY <2>1
  <2>3. [keep |-> FALSE, pattern |-> <<"*", "*">>] \in Rule BY <2>2 DEF Rule
  <2> QED BY <2>3 DEF LastRule
<1>4. Rules(f) = a \o b \o c BY DEF Rules, LastRule
<1>5. DOMAIN e = 1..Len(e) /\ DOMAIN n = 1..Len(n) OBVIOUS
<1>6. /\ \A i \in 1..Len(e) : a[i] = [keep |-> FALSE, pattern |-> ToRclone(e[i])]
      /\ \A i \in 1..Len(n) : b[i] = [keep |-> TRUE, pattern |-> ToRclone(n[i])]
  BY <1>5
<1>9. a \in Seq(Rule) /\ b \in Seq(Rule) BY <1>1, <1>2
<1> HIDE DEF a, b, c
<1> DEFINE r == a \o b \o c
<1>7. /\ r \in Seq(Rule) /\ Len(r) = Len(a) + Len(b) + Len(c)
      /\ \A i \in 1..Len(a) : r[i] = a[i]
      /\ \A i \in 1..Len(b) : r[Len(a) + i] = b[i]
      /\ \A i \in 1..Len(c) : r[Len(a) + Len(b) + i] = c[i]
  BY <1>3, <1>9, ThreeLists
<1> HIDE DEF r
<1>8. RulesAre(r, e, n, c) BY <1>1, <1>2, <1>6, <1>7 DEF RulesAre
<1> QED BY <1>4, <1>8 DEF r, c

\* A pattern without the signs of rclone's dialect alone is read as it stands.
LEMMA ReadAsItStands ==
    ASSUME NEW g, ~Grouped(g), ~TooManyStars(g), ~Directory(g), NEW rule, rule.pattern = g
    PROVE  ~RcloneRefuses(rule) /\ \A s : RcloneApplies(rule, s) <=> RcloneMatches(g, s)
<1>1. Completed(rule.pattern) = g BY DEF Completed
<1>2. Readings(g) = {g} BY DEF Readings
<1>3. ~RcloneRefuses(rule) BY <1>1, <1>2 DEF RcloneRefuses
<1>4. ASSUME NEW s PROVE RcloneApplies(rule, s) <=> RcloneMatches(g, s)
  BY <1>1, <1>2 DEF RcloneApplies
<1> QED BY <1>3, <1>4

\* So is what to_rclone_pattern makes of a simple one.
LEMMA SimpleStaysSimple ==
    ASSUME NEW g \in Seq(Characters), Simple(g)
    PROVE  /\ ToRclone(g) # <<>> /\ ~Grouped(ToRclone(g))
           /\ ~TooManyStars(ToRclone(g)) /\ ~Directory(ToRclone(g))
<1>0. /\ Len(g) \in Nat \ {0} /\ DOMAIN g = 1..Len(g) /\ g[Len(g)] # "/"
      /\ \A i \in 1..Len(g) : g[i] \notin GroupSigns
      /\ \A i \in 1..Len(g) - 2 : ~(g[i] = "*" /\ g[i + 1] = "*" /\ g[i + 2] = "*")
  <2>1. Len(g) \in Nat \ {0} /\ DOMAIN g = 1..Len(g) BY DEF Simple
  <2>2. g[Len(g)] # "/" BY DEF Simple, Directory
  <2>3. \A i \in 1..Len(g) : g[i] \notin GroupSigns BY <2>1 DEF Simple, Grouped
  <2>4. ASSUME NEW i \in 1..Len(g) - 2, g[i] = "*", g[i + 1] = "*", g[i + 2] = "*" PROVE FALSE
    <3>1. i < Len(g) /\ i + 1 < Len(g) /\ (i + 1) + 1 = i + 2 BY <2>1
    <3>2. Doubled(g, i) /\ Doubled(g, i + 1) BY <2>4, <3>1 DEF Doubled
    <3> QED BY <3>2 DEF Simple, TooManyStars
  <2> QED BY <2>1, <2>2, <2>3, <2>4
\* Enough: every sign of it but a "/" before is one of g, in the same order.
<1>1. ASSUME NEW h \in Seq(Characters), NEW d \in Int, h # <<>>,
             Len(h) + d = Len(g), 0 < Len(h) + d,
             \A i \in 1..Len(h) : i + d \in 1..Len(g) => h[i] = g[i + d],
             \A i \in 1..Len(h) : i + d \notin 1..Len(g) => h[i] = "/"
      PROVE  h # <<>> /\ ~Grouped(h) /\ ~TooManyStars(h) /\ ~Directory(h)
  <2>1. Len(h) \in Nat \ {0} /\ DOMAIN h = 1..Len(h) BY <1>1
  <2>2. \A i \in 1..Len(h) : h[i] \notin GroupSigns BY <1>0, <1>1 DEF GroupSigns
  <2>3. ~Grouped(h) BY <2>1, <2>2 DEF Grouped
  <2>4. ~Directory(h)
    <3>1. Len(h) \in 1..Len(h) /\ Len(h) + d \in 1..Len(g) BY <1>0, <1>1, <2>1
    <3>2. h[Len(h)] = g[Len(g)] BY <1>1, <3>1
    <3> QED BY <1>0, <3>2 DEF Directory
  <2>5. ASSUME NEW i \in 1..Len(h) - 2, Doubled(h, i), Doubled(h, i + 1) PROVE FALSE
    <3>1. i \in 1..Len(h) /\ i + 1 \in 1..Len(h) /\ i + 2 \in 1..Len(h) /\ (i + 1) + 1 = i + 2
      BY <2>1
    <3>2. h[i] = "*" /\ h[i + 1] = "*" /\ h[i + 2] = "*" BY <2>5, <3>1 DEF Doubled
    <3>3. i + d \in 1..Len(g) /\ i + 1 + d \in 1..Len(g) /\ i + 2 + d \in 1..Len(g)
      BY <1>1, <3>1, <3>2
    <3>4. i + d \in 1..Len(g) - 2 /\ i + 1 + d = i + d + 1 /\ i + 2 + d = i + d + 2
      BY <1>0, <2>1, <3>3
    <3>5. g[i + d] = "*" /\ g[i + d + 1] = "*" /\ g[i + d + 2] = "*"
      BY <1>1, <3>1, <3>2, <3>3, <3>4
    <3> QED BY <1>0, <3>4, <3>5
  <2> QED BY <1>1, <2>3, <2>4, <2>5 DEF TooManyStars
<1>2. CASE Crossing(g, 1)
  <2> DEFINE h == SubSeq(g, 4, Len(g))
  <2>1. 3 <= Len(g) /\ g[3] = "/" BY <1>0, <1>2 DEF Crossing, Doubled
  <2>2. 4 <= Len(g)
    <3>1. Len(g) # 3 BY <1>0, <2>1
    <3> QED BY <1>0, <2>1, <3>1
  <2>3. \A i \in 4..Len(g) : g[i] \in Characters BY <1>0
  <2>4. /\ h \in Seq(Characters) /\ Len(h) = Len(g) - 4 + 1
        /\ \A i \in 1..Len(g) - 4 + 1 : h[i] = g[4 + i - 1]
    BY <1>0, <2>2, <2>3, SubSeqProperties
  <2>5. ToRclone(g) = h BY <1>2 DEF ToRclone
  <2> HIDE DEF h
  <2>6. Len(h) + 3 = Len(g) /\ 0 < Len(h) + 3 /\ Len(h) \in Nat /\ Len(h) # 0
        /\ \A i \in 1..Len(h) : i \in 1..Len(g) - 4 + 1 /\ 4 + i - 1 = i + 3 /\ i + 3 \in 1..Len(g)
    BY <1>0, <2>2, <2>4
  <2>7. h # <<>> /\ 3 \in Int /\ (\A i \in 1..Len(h) : h[i] = g[i + 3])
        /\ (\A i \in 1..Len(h) : i + 3 \in 1..Len(g))
    BY <2>4, <2>6
  <2> QED BY <1>1, <2>4, <2>5, <2>6, <2>7
<1>3. CASE ~Crossing(g, 1) /\ Rooted(g)
  <2>1. ToRclone(g) = g BY <1>3 DEF ToRclone
  <2> QED BY <2>1 DEF Simple
<1>4. CASE ~Crossing(g, 1) /\ ~Rooted(g)
  <2> DEFINE r == <<"/">> \o g
  <2>1. ToRclone(g) = r BY <1>4 DEF ToRclone
  <2>2. <<"/">> \in Seq(Characters) /\ Len(<<"/">>) = 1 /\ <<"/">>[1] = "/"
    <3>1. "/" \in Characters BY FiltersAssumption
    <3> QED BY <3>1
  <2>3. /\ r \in Seq(Characters) /\ Len(r) = 1 + Len(g)
        /\ \A i \in 1..1 + Len(g) : r[i] = IF i <= 1 THEN "/" ELSE g[i - 1]
    BY <2>2, ConcatProperties
  <2> HIDE DEF r
  <2>4. Len(r) + (-1) = Len(g) /\ 0 < Len(r) + (-1) /\ r # <<>> /\ -1 \in Int BY <1>0, <2>3
  <2>5. ASSUME NEW i \in 1..Len(r)
        PROVE  /\ i + (-1) \in 1..Len(g) => r[i] = g[i + (-1)]
               /\ i + (-1) \notin 1..Len(g) => r[i] = "/"
    <3>1. i \in 1..1 + Len(g) /\ i - 1 = i + (-1) BY <1>0, <2>3
    <3>2. CASE i <= 1
      <4>1. i + (-1) \notin 1..Len(g) BY <1>0, <3>1, <3>2
      <4> QED BY <2>3, <3>1, <3>2, <4>1
    <3>3. CASE ~(i <= 1)
      <4>1. i + (-1) \in 1..Len(g) BY <1>0, <3>1, <3>3
      <4> QED BY <2>3, <3>1, <3>3, <4>1
    <3> QED BY <3>2, <3>3
  <2> QED BY <1>1, <2>1, <2>3, <2>4, <2>5
<1> QED BY <1>2, <1>3, <1>4

\* The lists of one job are simple.
SimpleFilters(f) == /\ \A i \in DOMAIN f.include : Simple(f.include[i])
                    /\ \A i \in DOMAIN f.exclude : Simple(f.exclude[i])

\* Which rules apply: as the pattern of each does, and the last one always.
LEMMA RulesApply ==
    ASSUME NEW f, f.exclude \in Seq(Seq(Characters)), f.include \in Seq(Seq(Characters))
    PROVE  /\ DOMAIN Rules(f) = 1..Len(f.exclude) + Len(f.include) + Len(LastRule(f))
           /\ \A i \in 1..Len(f.exclude) :
                /\ ~Rules(f)[i].keep
                /\ Rules(f)[i].pattern = ToRclone(f.exclude[i])
           /\ \A i \in 1..Len(f.include) :
                /\ Rules(f)[Len(f.exclude) + i].keep
                /\ Rules(f)[Len(f.exclude) + i].pattern = ToRclone(f.include[i])
           /\ \A i \in 1..Len(LastRule(f)) :
                /\ ~Rules(f)[Len(f.exclude) + Len(f.include) + i].keep
                /\ Rules(f)[Len(f.exclude) + Len(f.include) + i].pattern = <<"*", "*">>
<1> DEFINE r == Rules(f)
<1>1. RulesAre(r, f.exclude, f.include, LastRule(f)) BY RulesInOrder
<1> HIDE DEF r
<1>2. DOMAIN r = 1..Len(r) BY <1>1 DEF RulesAre
<1>3. DOMAIN r = 1..Len(f.exclude) + Len(f.include) + Len(LastRule(f)) BY <1>1, <1>2 DEF RulesAre
<1>4. ASSUME NEW i \in 1..Len(f.exclude)
      PROVE  ~r[i].keep /\ r[i].pattern = ToRclone(f.exclude[i])
  <2>1. r[i] = [keep |-> FALSE, pattern |-> ToRclone(f.exclude[i])] BY <1>1 DEF RulesAre
  <2> QED BY <2>1
<1>5. ASSUME NEW i \in 1..Len(f.include)
      PROVE  /\ r[Len(f.exclude) + i].keep
             /\ r[Len(f.exclude) + i].pattern = ToRclone(f.include[i])
  <2>1. r[Len(f.exclude) + i] = [keep |-> TRUE, pattern |-> ToRclone(f.include[i])]
    BY <1>1 DEF RulesAre
  <2> QED BY <2>1
<1>6. ASSUME NEW i \in 1..Len(LastRule(f))
      PROVE  /\ ~r[Len(f.exclude) + Len(f.include) + i].keep
             /\ r[Len(f.exclude) + Len(f.include) + i].pattern = <<"*", "*">>
  <2>1. LastRule(f)[i] = [keep |-> FALSE, pattern |-> <<"*", "*">>]
    <3> DEFINE last == [keep |-> FALSE, pattern |-> <<"*", "*">>]
    <3>1. LastRule(f) = <<>> \/ LastRule(f) = <<last>> BY DEF LastRule
    <3> HIDE DEF last
    <3>2. LastRule(f) # <<>> OBVIOUS
    <3>3. LastRule(f) = <<last>> BY <3>1, <3>2
    <3>4. \A x : Len(<<x>>) = 1 /\ <<x>>[1] = x OBVIOUS
    <3>5. i \in 1..1 BY <3>3, <3>4
    <3>6. i = 1 BY <3>5
    <3>7. LastRule(f)[i] = last BY <3>3, <3>4, <3>6
    <3> QED BY <3>7 DEF last
  <2>2. r[Len(f.exclude) + Len(f.include) + i] = [keep |-> FALSE, pattern |-> <<"*", "*">>]
    BY <1>1, <2>1 DEF RulesAre
  <2>3. /\ ~r[Len(f.exclude) + Len(f.include) + i].keep
        /\ r[Len(f.exclude) + Len(f.include) + i].pattern = <<"*", "*">>
    BY <2>2
  <2> QED BY <2>3
<1> QED BY <1>3, <1>4, <1>5, <1>6 DEF r

\* The first rule that applies decides as path_matches would, did it read each
\* pattern as rclone does.
LEMMA FirstRuleDecides ==
    ASSUME NEW f, f.exclude \in Seq(Seq(Characters)), f.include \in Seq(Seq(Characters)),
           SimpleFilters(f), NEW s \in Seq(Characters)
    PROVE  Fetched(f, s) <=>
             /\ \A i \in DOMAIN f.exclude : ~RcloneMatches(ToRclone(f.exclude[i]), s)
             /\ \/ f.include = <<>>
                \/ \E i \in DOMAIN f.include : RcloneMatches(ToRclone(f.include[i]), s)
<1> DEFINE E == Len(f.exclude)
           I == Len(f.include)
           L == Len(LastRule(f))
           R == Rules(f)
           Out(i) == RcloneMatches(ToRclone(f.exclude[i]), s)
           In(i) == RcloneMatches(ToRclone(f.include[i]), s)
           applying == {i \in DOMAIN R : RcloneApplies(R[i], s)}
<1>1. /\ E \in Nat /\ I \in Nat /\ DOMAIN f.exclude = 1..E /\ DOMAIN f.include = 1..I
      /\ f.include = <<>> <=> I = 0
  OBVIOUS
<1>2. L \in {0, 1} /\ (L = 0 <=> I = 0) BY <1>1 DEF LastRule
<1>3. /\ DOMAIN R = 1..E + I + L
      /\ \A i \in 1..E : ~R[i].keep /\ R[i].pattern = ToRclone(f.exclude[i])
      /\ \A i \in 1..I : R[E + i].keep /\ R[E + i].pattern = ToRclone(f.include[i])
      /\ \A i \in 1..L : ~R[E + I + i].keep /\ R[E + I + i].pattern = <<"*", "*">>
  BY RulesApply
<1>4. Fetched(f, s) <=> /\ \A i \in DOMAIN R : ~RcloneRefuses(R[i])
                        /\ \A i \in applying : (\A k \in applying : i <= k) => R[i].keep
  BY DEF Fetched
<1>5. \A i \in 1..E : ~RcloneRefuses(R[i]) /\ (RcloneApplies(R[i], s) <=> Out(i))
  <2> SUFFICES ASSUME NEW i \in 1..E
               PROVE  ~RcloneRefuses(R[i]) /\ (RcloneApplies(R[i], s) <=> Out(i))
    OBVIOUS
  <2>0. i \in DOMAIN f.exclude BY <1>1
  <2>1. f.exclude[i] \in Seq(Characters) /\ Simple(f.exclude[i])
    <3>1. f.exclude[i] \in Seq(Characters) BY <2>0
    <3>2. Simple(f.exclude[i]) BY <2>0 DEF SimpleFilters
    <3> QED BY <3>1, <3>2
  <2>2. R[i].pattern = ToRclone(f.exclude[i]) BY <1>3
  <2> HIDE DEF R
  <2> QED BY <2>1, <2>2, SimpleStaysSimple, ReadAsItStands
<1>6. \A i \in 1..I : ~RcloneRefuses(R[E + i]) /\ (RcloneApplies(R[E + i], s) <=> In(i))
  <2> SUFFICES ASSUME NEW i \in 1..I
               PROVE  ~RcloneRefuses(R[E + i]) /\ (RcloneApplies(R[E + i], s) <=> In(i))
    OBVIOUS
  <2>0. i \in DOMAIN f.include BY <1>1
  <2>1. f.include[i] \in Seq(Characters) /\ Simple(f.include[i])
    <3>1. f.include[i] \in Seq(Characters) BY <2>0
    <3>2. Simple(f.include[i]) BY <2>0 DEF SimpleFilters
    <3> QED BY <3>1, <3>2
  <2>2. R[E + i].pattern = ToRclone(f.include[i]) BY <1>3
  <2> HIDE DEF R
  <2> QED BY <2>1, <2>2, SimpleStaysSimple, ReadAsItStands
<1>7. \A i \in 1..L : ~RcloneRefuses(R[E + I + i]) /\ RcloneApplies(R[E + I + i], s)
  <2> SUFFICES ASSUME NEW i \in 1..L
               PROVE  ~RcloneRefuses(R[E + I + i]) /\ RcloneApplies(R[E + I + i], s)
    OBVIOUS
  <2>1. R[E + I + i].pattern = <<"*", "*">> BY <1>3
  <2> HIDE DEF R
  <2> QED BY <2>1, CatchAllIsSimple, CatchAllApplies, ReadAsItStands
<1> HIDE DEF E, I, L, R
<1>8. /\ \A i \in 1..E : i \in applying <=> Out(i)
      /\ \A i \in 1..I : E + i \in applying <=> In(i)
      /\ \A i \in 1..L : E + I + i \in applying
  <2>1. \A i \in 1..E : i \in DOMAIN R BY <1>1, <1>2, <1>3
  <2>2. \A i \in 1..I : E + i \in DOMAIN R BY <1>1, <1>2, <1>3
  <2>3. \A i \in 1..L : E + I + i \in DOMAIN R BY <1>1, <1>2, <1>3
  <2>4. \A i \in 1..E : i \in applying <=> Out(i) BY <1>5, <2>1
  <2>5. \A i \in 1..I : E + i \in applying <=> In(i) BY <1>6, <2>2
  <2>6. \A i \in 1..L : E + I + i \in applying BY <1>7, <2>3
  <2> QED BY <2>4, <2>5, <2>6
<1>9. applying \in SUBSET Nat /\ applying \subseteq 1..E + I + L BY <1>1, <1>2, <1>3
<1>10. \A i \in 1..E + I + L : \/ i \in 1..E
                               \/ i - E \in 1..I /\ E + (i - E) = i
                               \/ L = 1 /\ i = E + I + 1
  BY <1>1, <1>2
<1>11. /\ \A i \in 1..E : ~R[i].keep
       /\ \A i \in 1..I : R[E + i].keep
       /\ L = 1 => ~R[E + I + 1].keep
  BY <1>3
<1> HIDE DEF applying, Out, In
<1>12. ASSUME NEW i \in DOMAIN R PROVE ~RcloneRefuses(R[i])
  <2>1. i \in 1..E + I + L BY <1>3
  <2>2. CASE i \in 1..E BY <1>5, <2>2
  <2>3. CASE i - E \in 1..I /\ E + (i - E) = i
    <3>1. ~RcloneRefuses(R[E + (i - E)]) BY <1>6, <2>3
    <3> QED BY <2>3, <3>1
  <2>4. CASE L = 1 /\ i = E + I + 1
    <3>1. 1 \in 1..L BY <2>4
    <3> QED BY <1>7, <2>4, <3>1
  <2> QED BY <1>10, <2>1, <2>2, <2>3, <2>4
<1>13. ASSUME \A i \in 1..E : ~Out(i), I = 0 \/ \E i \in 1..I : In(i) PROVE Fetched(f, s)
  <2> SUFFICES ASSUME NEW i \in applying, \A k \in applying : i <= k PROVE R[i].keep
    BY <1>4, <1>12
  <2>1. i \notin 1..E BY <1>8, <1>13
  <2>2. CASE i - E \in 1..I /\ E + (i - E) = i
    <3>1. R[E + (i - E)].keep BY <1>11, <2>2
    <3> QED BY <2>2, <3>1
  <2>3. CASE L = 1 /\ i = E + I + 1
    <3>1. PICK k \in 1..I : In(k) BY <1>2, <1>13, <2>3
    <3>2. E + k \in applying BY <1>8, <3>1
    <3>3. E + k < i BY <1>1, <2>3
    <3> QED BY <1>1, <1>9, <3>2, <3>3
  <2> QED BY <1>9, <1>10, <2>1, <2>2, <2>3
<1>14. ASSUME Fetched(f, s), NEW i \in 1..E PROVE ~Out(i)
  <2> SUFFICES ASSUME Out(i) PROVE FALSE OBVIOUS
  <2>1. i \in applying BY <1>8
  <2>2. PICK k \in applying : \A n \in applying : k <= n BY <1>9, <2>1, FirstExists
  <2>3. k <= i /\ k \in 1..E + I + L BY <1>9, <2>1, <2>2
  <2>4. k \in 1..E BY <1>1, <1>2, <2>3
  <2> QED BY <1>4, <1>11, <1>14, <2>2, <2>4
<1>15. ASSUME Fetched(f, s), I # 0 PROVE \E i \in 1..I : In(i)
  <2>1. L = 1 /\ E + I + 1 \in applying BY <1>2, <1>8, <1>15
  <2>2. PICK k \in applying : \A n \in applying : k <= n BY <1>9, <2>1, FirstExists
  <2>3. R[k].keep BY <1>4, <1>15, <2>2
  <2>4. k \notin 1..E /\ ~(L = 1 /\ k = E + I + 1) BY <1>11, <2>3
  <2>5. k - E \in 1..I /\ E + (k - E) = k BY <1>9, <1>10, <2>4
  <2>6. In(k - E) BY <1>8, <2>5
  <2> QED BY <2>5, <2>6
<1> QED BY <1>1, <1>13, <1>14, <1>15 DEF Out, In

\* The state the property is about.
LEMMA FiltersTyped ==
    FIInit => /\ filters.exclude \in Seq(Seq(Characters)) /\ filters.include \in Seq(Seq(Characters))
              /\ path \in Seq(Characters) /\ ~Rooted(path)
BY FiltersAssumption DEF FIInit

\* Some patterns of a list apply to a path.
LEMMA ListsAgree ==
    ASSUME NEW e \in Seq(Seq(Characters)), NEW s \in Seq(Characters), ~Rooted(s)
    PROVE  /\ (\A i \in DOMAIN e : Plain(e[i])) =>
                \A i \in DOMAIN e : MatchesGlob(e[i], s) <=> RcloneMatches(ToRclone(e[i]), s)
           /\ (\A i \in DOMAIN e : Simple(e[i])) =>
                \A i \in DOMAIN e : RcloneMatches(ToRclone(e[i]), s) => MatchesGlob(e[i], s)
<1>1. \A i \in DOMAIN e : e[i] \in Seq(Characters) OBVIOUS
<1> QED BY <1>1, PlainAgrees, RcloneIsNarrower DEF Simple

(* Of patterns in which "**/" is at most the beginning, and that are not   *)
(* of rclone's dialect alone (no group, no "/" at the end, no "***") nor   *)
(* have an empty segment, the scan and rclone make the same file set: for  *)
(* any lists of such patterns, of any length, and any path                 *)
(* (filters.py:46-93).                                                     *)
THEOREM PatternsAgree == FISpec => []PlainPatternsAgree
<1>1. FIInit => PlainPatternsAgree
  <2> SUFFICES ASSUME FIInit, PlainFilters(filters)
               PROVE  Scanned(filters, path) <=> Fetched(filters, path)
    BY DEF PlainPatternsAgree
  <2>1. /\ filters.exclude \in Seq(Seq(Characters)) /\ filters.include \in Seq(Seq(Characters))
        /\ path \in Seq(Characters) /\ ~Rooted(path)
    BY FiltersTyped
  <2>2. \A i \in DOMAIN filters.exclude : MatchesGlob(filters.exclude[i], path)
                                            <=> RcloneMatches(ToRclone(filters.exclude[i]), path)
    BY <2>1, ListsAgree DEF PlainFilters
  <2>3. \A i \in DOMAIN filters.include : MatchesGlob(filters.include[i], path)
                                            <=> RcloneMatches(ToRclone(filters.include[i]), path)
    BY <2>1, ListsAgree DEF PlainFilters
  <2>4. SimpleFilters(filters) BY DEF SimpleFilters, PlainFilters, Plain
  <2> QED BY <2>1, <2>2, <2>3, <2>4, FirstRuleDecides DEF Scanned
<1>2. PlainPatternsAgree /\ [UNCHANGED fiVars]_fiVars => PlainPatternsAgree'
  BY DEF fiVars, PlainPatternsAgree
<1> QED BY <1>1, <1>2, PTL DEF FISpec

(* Of such patterns with a "**/" inside as well, the two sets differ in    *)
(* one direction only: an inner "**/" of an include keeps a file from      *)
(* being fetched and one of an exclude lets it be, never the other way     *)
(* round, as rclone asks for a directory more (filters.py:28-30, 72-73).   *)
NarrowerFetch ==
    /\ filters.exclude = <<>> /\ (\A i \in DOMAIN filters.include : Simple(filters.include[i]))
         => (Fetched(filters, path) => Scanned(filters, path))
    /\ filters.include = <<>> /\ (\A i \in DOMAIN filters.exclude : Simple(filters.exclude[i]))
         => (Scanned(filters, path) => Fetched(filters, path))
THEOREM InnerPatternsOneWay == FISpec => []NarrowerFetch
<1>1. FIInit => NarrowerFetch
  <2> SUFFICES ASSUME FIInit PROVE NarrowerFetch OBVIOUS
  <2>1. /\ filters.exclude \in Seq(Seq(Characters)) /\ filters.include \in Seq(Seq(Characters))
        /\ path \in Seq(Characters) /\ ~Rooted(path)
    BY FiltersTyped
  <2>2. (\A i \in DOMAIN filters.exclude : Simple(filters.exclude[i])) =>
          \A i \in DOMAIN filters.exclude :
            RcloneMatches(ToRclone(filters.exclude[i]), path) => MatchesGlob(filters.exclude[i], path)
    BY <2>1, ListsAgree
  <2>3. (\A i \in DOMAIN filters.include : Simple(filters.include[i])) =>
          \A i \in DOMAIN filters.include :
            RcloneMatches(ToRclone(filters.include[i]), path) => MatchesGlob(filters.include[i], path)
    BY <2>1, ListsAgree
  <2>4. SimpleFilters(filters) => (Fetched(filters, path) <=>
          /\ \A i \in DOMAIN filters.exclude : ~RcloneMatches(ToRclone(filters.exclude[i]), path)
          /\ \/ filters.include = <<>>
             \/ \E i \in DOMAIN filters.include : RcloneMatches(ToRclone(filters.include[i]), path))
    BY <2>1, FirstRuleDecides
  <2>5. DOMAIN <<>> = {} OBVIOUS
  <2> QED BY <2>2, <2>3, <2>4, <2>5 DEF NarrowerFetch, Scanned, SimpleFilters
<1>2. NarrowerFetch /\ [UNCHANGED fiVars]_fiVars => NarrowerFetch'
  BY DEF fiVars, NarrowerFetch
<1> QED BY <1>1, <1>2, PTL DEF FISpec
=============================================================================
