------------------------------ MODULE MCParts ------------------------------
(***************************************************************************)
(* The parts of the system that meet only through values, side by side: in *)
(* each behaviour one of them moves, within the bounds given here, and the *)
(* others stay as they begin.                                              *)
(***************************************************************************)
EXTENDS PartsTypes, CatalogRules, SecretStore, SourceSync, Filters, Chunking,
        StartupCatchUp, OrphanDeletion, TLC

CONSTANTS Parts,  \* the parts that move in some behaviour of the run
          ja, jb, s1, s2, nowhere, c1, c2

VARIABLE part  \* the part that moves
partsVars == <<part, crVars, clVars, ssVars, elVars, rhVars, okVars, syVars, fiVars,
              chVars, suVars, odVars>>

-----------------------------------------------------------------------------
\* CatalogReload: two jobs, of which the one in a time zone nobody knows is left
\* out until its secret is stored; then it is dropped, and the other one is
\* rescheduled on a connection that may not be there yet.
Def(s, c) == [schedule |-> s, connection |-> c, secret |-> FALSE, faulty |-> FALSE]
Edits == <<(ja :> [Def(nowhere, c1) EXCEPT !.secret = TRUE]) @@ (jb :> Def(s1, c1)),
           jb :> Def(s2, c2)>>
\* One connection beside one in error; then another one in its place.
Moves == <<[names |-> {c1}, ok |-> FALSE], [names |-> {c2}, ok |-> TRUE]>>
SecretsOfJobs == <<{}, {ja}>>
TwoVersions == [f \in Files |-> 2]

\* CatalogRules: variations of one job, enough to break every rule twice.
Plain1 == [id |-> "a", schema |-> TRUE, broken |-> FALSE, enabled |-> TRUE,
           collection |-> "c", label |-> "l1", model |-> "m1", connection |-> "q1"]
Second == [Plain1 EXCEPT !.id = "b", !.label = "l2"]
Third == [Plain1 EXCEPT !.id = "d", !.label = "l3"]
Menu ==
    {Plain1, [Plain1 EXCEPT !.enabled = FALSE], [Plain1 EXCEPT !.id = "b"],
     Second, [Second EXCEPT !.model = "m2"], [Second EXCEPT !.model = "none"],
     [Second EXCEPT !.connection = "q2"], [Second EXCEPT !.collection = "e", !.model = "m2"],
     Third, [Third EXCEPT !.model = "m2"], [Third EXCEPT !.connection = "q2"],
     [Third EXCEPT !.broken = TRUE], [Third EXCEPT !.schema = FALSE]}

\* SecretStore: no file, one secret, a new value beside a second secret that
\* cannot be decrypted, a file that is no YAML, and another key.
SecretFiles == <<Absent, "user" :> "old", ("user" :> "new") @@ ("key" :> Undecryptable),
                 Malformed, "key" :> "readable">>
Outside == ("user" :> "unset") @@ ("key" :> "empty") @@ ("token" :> "value")

\* OidcKeys: a key is replaced by another one.
Rotation == <<{"k1"}, {"k2"}>>

\* SourceSync: one job has its directory to itself.
OwnLabel == [j \in Syncers |-> j]

\* Filters: all patterns of one and two characters, and longer ones of every
\* kind the documentation uses.
IsPath(s) == \A i \in DOMAIN s : s[i] = "/" => i > 1 /\ i < Len(s) /\ s[i - 1] # "/"
SomePatterns ==
    ([1..1 -> {"x", "d", "*", "?"}] \cup [1..2 -> {"x", "d", "*", "?"}])
    \cup {<<"*", "*", "/", "x">>, <<"*", "*", "/", "*", "x">>, <<"*", "*", "/", "*">>,
          <<"d", "/", "*", "*">>, <<"*", "*", "/", "d", "/", "*", "*">>,
          <<"/", "x">>, <<"/", "*", "/", "x">>, <<"d", "/", "x">>, <<"*", "/", "*">>,
          <<"d", "*", "*">>, <<"*", "*", "x">>, <<"*", "*", "/", "d", "/", "x">>}
\* Groups, one of them not closed, directories, too many stars, and nothing.
OtherDialect ==
    {<<"{", "d", ",", "x", "}">>, <<"d", "/", "[", "d", "x", "]">>, <<"{", "x">>,
     <<"d", "/">>, <<"*", "*", "*">>, <<>>}
\* None, one, or two of which the first that applies decides.
SomeLists == {<<>>} \cup {<<g>> : g \in SomePatterns \cup OtherDialect}
             \cup {<<<<"*", "*", "/", "x">>, <<"d", "/", "*", "*">>>>,
                   <<<<"/", "x">>, <<"*", "*", "/", "*">>>>}
Tree == {s \in UNION {[1..n -> {"d", "x", "/"}] : n \in 1..4} : IsPath(s)}
         \cup {<<"d", "/", "d", "/", "x">>}

\* Chunking: headings and bodies around the budget, on both sides.
SomeBlocks == [head : 0..2, body : 0..3]

-----------------------------------------------------------------------------
PartsInit ==
    /\ part \in Parts
    /\ CRInit /\ CLInit /\ SSInit /\ ELInit /\ RHInit /\ OKInit
    /\ IF part = "startup" THEN SUInit
       ELSE SUInit /\ trigger = "cron" /\ policy = "never"
    /\ IF part = "orphans" THEN ODInit ELSE ODInit /\ listed
    /\ IF part = "chunks" THEN CHInit
       ELSE CHInit /\ strategy = "slide" /\ words = 1 /\ text = <<[head |-> 0, body |-> 1]>>
    /\ IF part = "sync" THEN SYInit
       ELSE SYInit /\ remote = [j \in Syncers |-> {}]
    /\ IF part = "filters" THEN FIInit
       ELSE filters = [include |-> <<>>, exclude |-> <<>>] /\ path = <<"x">>

PartsNext ==
    /\ UNCHANGED <<part, fiVars>>
    /\ IF part = "reload" THEN CRNext ELSE UNCHANGED crVars
    /\ IF part = "rules" THEN List ELSE UNCHANGED clVars
    /\ IF part = "secrets" THEN SSNext ELSE UNCHANGED ssVars
    /\ IF part = "limiter" THEN ELNext ELSE UNCHANGED elVars
    /\ IF part = "history" THEN RHNext ELSE UNCHANGED rhVars
    /\ IF part = "oidc" THEN OKNext ELSE UNCHANGED okVars
    /\ IF part = "sync" THEN SYNext ELSE UNCHANGED syVars
    /\ IF part = "chunks" THEN CHNext ELSE UNCHANGED chVars
    /\ IF part = "startup" THEN SUNext ELSE UNCHANGED suVars
    /\ IF part = "orphans" THEN ODNext ELSE UNCHANGED odVars

\* The fairness of CRFairSpec and ELFairSpec, for the part that moves.
PartsFairness ==
    /\ WF_crVars(part = "reload" /\ Poll)
    /\ SF_crVars(part = "reload" /\ Reload("poll"))
    /\ \A r \in Requests : WF_crVars(part = "reload" /\ Reload(r))
    /\ WF_elVars(part = "limiter" /\ Tick)
    /\ \A e \in Embedders : SF_elVars(part = "limiter" /\ Embed(e))

PartsSpec == PartsInit /\ [][PartsNext]_partsVars /\ PartsFairness

-----------------------------------------------------------------------------
(* EditsAreRead, of the behaviours in which files are edited: an edit of a *)
(* configuration file is read in the end (README.md:223).                  *)
ReloadsCatchUp == part = "reload" => EditsAreRead

(* EveryBatchIsDone, of the behaviours in which runs embed: no path through *)
(* a slot of the limiter keeps it (limiter.py:35-60).                      *)
BatchesCatchUp == part = "limiter" => EveryBatchIsDone
=============================================================================
