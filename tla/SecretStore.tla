----------------------------- MODULE SecretStore -----------------------------
(***************************************************************************)
(* Looking up a secret while secrets.yaml is being replaced                *)
(* (src/src/catalog/secret_store.py): every lookup takes the stat of the   *)
(* file before it waits for the lock, and under the lock either answers    *)
(* from what is cached for that stat or reads the file and caches that.    *)
(*                                                                         *)
(* A version of the file is its stat: a writer renames a new file over the *)
(* old one, and the inode is part of the signature.                        *)
(***************************************************************************)
EXTENDS Integers

CONSTANTS Lookups,       \* the threads that look a secret up
          SecretNames,   \* the names they ask for
          LastSecrets,   \* the last version of the file
          Stored,        \* Stored[v]: the values by name, or one of the next
          Absent,        \* there is no file
          Malformed,     \* no YAML, or not a secrets document
          Undecryptable, \* a value the key does not open, or without a key
          Environ        \* the process environment: "value", "empty", "unset"

ASSUME SecretStoreAssumption ==
    /\ LastSecrets \in Nat \ {0} /\ DOMAIN Stored = 1..LastSecrets
    /\ Environ \in [SecretNames -> {"value", "empty", "unset"}]

VARIABLES file,    \* the version of secrets.yaml
          cached,  \* _cached, _signature and _loaded
          owner,   \* the lookup that holds _lock, or nobody
          lookup   \* lookup[l]: where it is, what it saw, what it answers

ssVars == <<file, cached, owner, lookup>>

NoOne == "nobody"
\* The signature of a file that is not there is None.
Signature(v) == IF Stored[v] = Absent THEN 0 ELSE v

\* _read: without a value for anything when the file is gone or malformed.
Values(v) == IF Stored[v] \in {Absent, Malformed} THEN <<>> ELSE Stored[v]

\* resolve_secret, given what the store holds.
Missing == "missing"
Resolved(n, values) ==
    IF n \in DOMAIN values /\ values[n] # Undecryptable THEN values[n] ELSE Missing

NoLookup == [at |-> "idle", name |-> Missing, since |-> 0, signature |-> 0,
             values |-> <<>>]

SSInit ==
    /\ file = 1
    /\ cached = [loaded |-> FALSE, signature |-> 0, values |-> <<>>]
    /\ owner = NoOne
    /\ lookup = [l \in Lookups |-> NoLookup]

Replace ==
    /\ file < LastSecrets
    /\ file' = file + 1
    /\ UNCHANGED <<cached, owner, lookup>>

(* LayeredEnviron asks the store for a name the environment does not hold, *)
(* or holds empty; _state begins with the stat.                            *)
TakeStat(l) ==
    /\ lookup[l].at = "idle"
    /\ \E n \in {m \in SecretNames : Environ[m] # "value"} :
         lookup' = [lookup EXCEPT ![l] =
                      [NoLookup EXCEPT !.at = "waiting", !.name = n, !.since = file,
                                       !.signature = Signature(file)]]
    /\ UNCHANGED <<file, cached, owner>>

TakeLock(l) ==
    /\ lookup[l].at = "waiting" /\ owner = NoOne
    /\ owner' = l
    /\ lookup' = [lookup EXCEPT ![l].at = "locked"]
    /\ UNCHANGED <<file, cached>>

Known(l) == cached.loaded /\ cached.signature = lookup[l].signature

Hit(l) ==
    /\ lookup[l].at = "locked" /\ Known(l)
    /\ lookup' = [lookup EXCEPT ![l].at = "answered", ![l].values = cached.values]
    /\ owner' = NoOne
    /\ UNCHANGED <<file, cached>>

ReadFile(l) ==
    /\ lookup[l].at = "locked" /\ ~Known(l)
    /\ lookup' = [lookup EXCEPT ![l].at = "read", ![l].values =
                    IF lookup[l].signature = 0 THEN <<>> ELSE Values(file)]
    /\ UNCHANGED <<file, cached, owner>>

\* Slip: what was read is filed under a stat taken after the read.
RememberAsOfNow(l) ==
    /\ lookup[l].at = "read"
    /\ cached' = [loaded |-> TRUE, signature |-> Signature(file),
                  values |-> lookup[l].values]
    /\ lookup' = [lookup EXCEPT ![l].at = "answered"]
    /\ owner' = NoOne
    /\ UNCHANGED file

Remember(l) ==
    /\ lookup[l].at = "read"
    /\ cached' = [loaded |-> TRUE, signature |-> lookup[l].signature,
                  values |-> lookup[l].values]
    /\ lookup' = [lookup EXCEPT ![l].at = "answered"]
    /\ owner' = NoOne
    /\ UNCHANGED file

Answered(l) ==
    /\ lookup[l].at = "answered"
    /\ lookup' = [lookup EXCEPT ![l] = NoLookup]
    /\ UNCHANGED <<file, cached, owner>>

SSNext ==
    \/ Replace
    \/ \E l \in Lookups : \/ TakeStat(l) \/ TakeLock(l) \/ Hit(l)
                          \/ ReadFile(l) \/ Remember(l) \/ Answered(l)
SSSpec == SSInit /\ [][SSNext]_ssVars

-----------------------------------------------------------------------------
(* A lookup answers with a value the file had at some moment between its   *)
(* call and its answer, although stat, read and caching are three steps    *)
(* and others replace the file and fill the cache meanwhile: a secret that *)
(* was rotated before the call is not answered with its old value, and one *)
(* that was stored is found without a restart (secret_store.py:186-192,    *)
(* "a secret added to the store is visible to the next lookup").           *)
LookupsAreFresh ==
    \A l \in Lookups : lookup[l].at = "answered" =>
        \E v \in lookup[l].since..file :
            Resolved(lookup[l].name, lookup[l].values)
                = Resolved(lookup[l].name, Values(v))
=============================================================================
