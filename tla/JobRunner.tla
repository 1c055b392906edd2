----------------------------- MODULE JobRunner -----------------------------
(***************************************************************************)
(* One ingestion run, end to end (src/src/engine/runner.py), as the        *)
(* sequence of its calls to the file tree, to Tika, to the embeddings      *)
(* endpoint, to Qdrant and to the state database, any of which may be the  *)
(* last one before an exception or a crash; and what later runs of the     *)
(* same job make of what it left.  The locks of RunLocks keep other runs   *)
(* away from the job's rows and points, so there is one run at a time.     *)
(*                                                                         *)
(* A file is at a version: 1..Last, in the order they come about.  The     *)
(* version is the file's (size, mtime), and Content gives its bytes (Gone  *)
(* when there is no file).  Two versions may have the same bytes, and two  *)
(* contents the same text, but no two versions share a stat: that is the   *)
(* bet stage 1 of the change detection makes.                              *)
(***************************************************************************)
EXTENDS Integers, Sequences, FiniteSets

CONSTANTS Files,          \* the paths the scan may find
          Names,          \* the names of attachments inside a file
          Last,           \* the last version a file may reach
          Content,        \* Content[v]: the bytes of version v, or Gone
          Gone,           \* there is no file
          TooLarge,       \* the versions above max_file_bytes
          Yield,          \* Yield[b]: the text of bytes b, or why it has none
          Attached,       \* Attached[b]: the texts of the attachments in b
          Chunks,         \* Chunks[t]: the number of chunks of text t
          NoText,         \* text_sha of a row that has none
          NoContent,      \* content_sha "-" of a file that was too large
          NoRow,          \* the source has no state row
          LastParams,     \* the job's parameters are 1..LastParams, in order
          Modes,          \* the modes runs are triggered in
          Scopes,         \* the full_scopes of full runs
          AppendProbe,    \* append_probe of the job
          FacetLimit,     \* most sources one facet request returns
          MaxDeletePct,   \* safety.max_delete_ratio, in percent
          EmptyGuard,     \* safety.empty_source_guard
          StateLosses     \* bound on the losses of the state volume

Versions == 1..Last
Failures == {"failed_extract", "skipped_unsupported", "skipped_no_text"}
Texts == DOMAIN Chunks
Contents == DOMAIN Yield
Params == 1..LastParams

Row == [stat : Versions, content : Contents \cup {NoContent},
        text : Texts \cup {NoText}, params : Params,
        status : Failures \cup {"indexed", "failed_embed", "skipped_too_large"}]

ASSUME JobRunnerAssumption ==
    /\ Last \in Nat \ {0} /\ LastParams \in Nat \ {0}
    /\ Content \in [Versions -> Contents \cup {Gone}] /\ Gone \notin Contents
    /\ TooLarge \subseteq {v \in Versions : Content[v] # Gone}
    /\ Yield \in [Contents -> Texts \cup Failures]
    /\ Texts \cap Failures = {} /\ NoText \notin Texts
    /\ NoContent \notin Contents /\ NoRow \notin Row
    /\ DOMAIN Attached = Contents
    /\ \A b \in Contents : /\ DOMAIN Attached[b] \subseteq Names
                           /\ \A n \in DOMAIN Attached[b] : Attached[b][n] \in Texts
    /\ Chunks \in [Texts -> Nat]
    /\ \A b \in Contents : Yield[b] \in Texts => Chunks[Yield[b]] > 0
    /\ Modes \subseteq {"full", "append", "upsert"}
    /\ Scopes \subseteq {"job", "collection"}
    /\ AppendProbe \in {"state", "qdrant", "auto"}
    /\ FacetLimit \in Nat /\ MaxDeletePct \in 0..100
    /\ EmptyGuard \in BOOLEAN /\ StateLosses \in Nat

VARIABLES tree,     \* tree[f]: the version file f is at
          params,   \* the job's chunking and embedding parameters
          rows,     \* rows[s]: the state row of source s
          points,   \* points[s]: the points of source s in the collection
          pc,       \* the call the run makes next, or "idle"
          run,      \* what the run has read and done so far
          doc,      \* the file it is at, and the document made of it
          quiet,    \* nothing outside the run changed since it began
          losses    \* how often the state volume has been lost

jrVars == <<tree, params, rows, points, pc, run, doc, quiet, losses>>

\* A source is a file <<f>>, or the attachment n of a file, <<f, n>>.
Sources == {<<f>> : f \in Files} \cup (Files \X Names)
Attachments(f) == {<<f, n>> : n \in Names}
Recorded == {s \in Sources : rows[s] # NoRow}

\* A point: chunk number, what it was made from, and its generation: "this"
\* is the current run's id, "past" that of any earlier run.
PointsOf(t, p, gen) ==
    {[at |-> i, text |-> t, params |-> p, gen |-> gen] : i \in 1..Chunks[t]}
Aged == [s \in Sources |-> {[q EXCEPT !.gen = "past"] : q \in points[s]}]

NoRun == [mode |-> "none", scope |-> "job", force |-> FALSE, dry |-> FALSE,
          delete |-> FALSE, params |-> 1, scanned |-> <<>>, todo |-> {},
          known |-> {}, seen |-> {}]
NoDoc == [source |-> <<>>, content |-> NoContent, body |-> NoContent,
          text |-> NoText, left |-> {}]

File == doc.source[1]
Stat(f) == run.scanned[f]
Bytes(f) == Content[tree[f]]
Scanned == {f \in DOMAIN run.scanned : Content[run.scanned[f]] # Gone}

Save(s, row) == rows' = [rows EXCEPT ![s] = row]
\* Slip: dry_run is not looked at.
SaveAlways(s, row) == Save(s, row)

SaveUnlessDry(s, row) == IF run.dry THEN UNCHANGED rows ELSE Save(s, row)
NewRow(f, b, t, status) ==
    [stat |-> Stat(f), content |-> b, text |-> t, params |-> run.params,
     status |-> status]

\* The embedded documents a file accounts for according to the state.
EmbeddedInState(f) == Attachments(f) \cap Recorded

-----------------------------------------------------------------------------
JRInit ==
    /\ tree \in [Files -> Versions]
    /\ params = 1
    /\ rows = [s \in Sources |-> NoRow]
    /\ points = [s \in Sources |-> {}]
    /\ pc = "idle" /\ run = NoRun /\ doc = NoDoc
    /\ quiet = FALSE
    /\ losses = 0

(* run_job: the options of a run; dry_run, force and delete_vanished are   *)
(* the trigger's, the parameters those of the job at this moment.          *)
Start ==
    /\ pc = "idle"
    /\ \E mode \in Modes, scope \in Scopes, force, dry, delete \in BOOLEAN :
         /\ mode # "full" => scope = "job"
         /\ ~delete => mode = "upsert"
         /\ run' = [NoRun EXCEPT !.mode = mode, !.scope = scope,
                                 !.force = force, !.dry = dry,
                                 !.delete = delete, !.params = params]
         /\ pc' = IF mode = "full" /\ ~dry THEN "prepare" ELSE "scan"
    /\ quiet' = TRUE
    /\ UNCHANGED <<tree, params, rows, points, doc, losses>>

\* The run ends; its id becomes one of the past.
Stop ==
    /\ pc' = "idle" /\ run' = NoRun /\ doc' = NoDoc /\ quiet' = FALSE
    /\ points' = Aged

(* Sync failure, embeddings endpoint down, a file that disappears under    *)
(* the run, a database or Qdrant error, an abort between two documents, a  *)
(* crash: the run ends where it is, rows and points stay as they are.      *)
Abandon ==
    /\ pc # "idle"
    /\ Stop
    /\ UNCHANGED <<tree, params, rows, losses>>

(* full_scope collection: the collection is dropped first, *)
Recreate ==
    /\ pc = "prepare" /\ run.scope = "collection"
    /\ points' = [s \in Sources |-> {}]
    /\ pc' = "forget"
    /\ UNCHANGED <<tree, params, rows, run, doc, quiet, losses>>

(* and the rows of the collection go next; with scope job they go at once. *)
ForgetRows ==
    /\ pc = "forget" \/ (pc = "prepare" /\ run.scope = "job")
    /\ rows' = [s \in Sources |-> NoRow]
    /\ pc' = "scan"
    /\ UNCHANGED <<tree, params, points, run, doc, quiet, losses>>

\* The sets of sources a facet request may answer with.
Facets ==
    LET held == {s \in Sources : points[s] # {}} IN
    {F \in SUBSET held :
        IF Cardinality(held) <= FacetLimit THEN F = held
                                           ELSE Cardinality(F) = FacetLimit}

(* _append_known_sources: the rows, or the collection itself.              *)
KnownSources ==
    IF run.mode # "append" THEN {{}}
    ELSE IF \/ AppendProbe = "qdrant"
            \/ AppendProbe = "auto" /\ Recorded = {}
         THEN Facets
         ELSE {Recorded}

\* Slip: paths that are no files (any more) are scanned too.
ScanEverything ==
    /\ pc = "scan"
    /\ \E known \in KnownSources :
         run' = [run EXCEPT !.scanned = tree, !.known = known, !.todo = Files]
    /\ pc' = "next"
    /\ UNCHANGED <<tree, params, rows, points, doc, quiet, losses>>

(* scan_tree and the probe of append; the tree may change right after.     *)
Scan ==
    /\ pc = "scan"
    /\ \E known \in KnownSources :
         run' = [run EXCEPT !.scanned = tree, !.known = known,
                            !.todo = {f \in Files : Bytes(f) # Gone}]
    /\ pc' = "next"
    /\ UNCHANGED <<tree, params, rows, points, doc, quiet, losses>>

\* The run is through with file f, which accounts for the sources S.
Done(f, S) ==
    /\ run' = [run EXCEPT !.todo = @ \ {f}, !.seen = @ \cup {<<f>>} \cup S]
    /\ pc' = "next" /\ doc' = NoDoc

(* append leaves a known source alone, changed or not.                     *)
SkipKnown(f) ==
    /\ pc = "next" /\ f \in run.todo
    /\ <<f>> \in run.known
    /\ Done(f, {})
    /\ UNCHANGED <<tree, params, rows, points, quiet, losses>>

SkipTooLarge(f) ==
    /\ pc = "next" /\ f \in run.todo /\ <<f>> \notin run.known
    /\ Stat(f) \in TooLarge
    /\ SaveUnlessDry(<<f>>, NewRow(f, NoContent, NoText, "skipped_too_large"))
    /\ Done(f, {})
    /\ UNCHANGED <<tree, params, points, quiet, losses>>

\* Slip: the parameters are not compared.
HasAnyRow(f) == rows[<<f>>] # NoRow

HasRow(f) == rows[<<f>>] # NoRow /\ rows[<<f>>].params = run.params
SameStat(f) == HasRow(f) /\ rows[<<f>>].stat = Stat(f)
SameContent(f, b) == HasRow(f) /\ rows[<<f>>].content = b
SameText(f, t) == HasRow(f) /\ rows[<<f>>].text = t
                            /\ rows[<<f>>].status = "indexed"

(* Stage 1: the stat is the row's.                                         *)
SkipSameStat(f) ==
    /\ pc = "next" /\ f \in run.todo /\ <<f>> \notin run.known
    /\ Stat(f) \notin TooLarge
    /\ SameStat(f)
    /\ Done(f, EmbeddedInState(f))
    /\ UNCHANGED <<tree, params, rows, points, quiet, losses>>

(* Stage 2: the file is read now; same bytes, the row's stat advances.     *)
SkipSameContent(f) ==
    /\ pc = "next" /\ f \in run.todo /\ <<f>> \notin run.known
    /\ Stat(f) \notin TooLarge /\ ~SameStat(f)
    /\ Bytes(f) # Gone /\ SameContent(f, Bytes(f))
    /\ SaveUnlessDry(<<f>>, [rows[<<f>>] EXCEPT !.stat = Stat(f)])
    /\ Done(f, EmbeddedInState(f))
    /\ UNCHANGED <<tree, params, points, quiet, losses>>

(* sha256_file of a changed file.                                          *)
Hash(f) ==
    /\ pc = "next" /\ f \in run.todo /\ <<f>> \notin run.known
    /\ Stat(f) \notin TooLarge /\ ~SameStat(f)
    /\ Bytes(f) # Gone /\ ~SameContent(f, Bytes(f))
    /\ doc' = [NoDoc EXCEPT !.source = <<f>>, !.content = Bytes(f)]
    /\ pc' = "extract"
    /\ UNCHANGED <<tree, params, rows, points, run, quiet, losses>>

(* process_file opens the file a second time.  Tika may fail on any file.  *)
ExtractNothing ==
    /\ pc = "extract" /\ Bytes(File) # Gone
    /\ \E y \in {Yield[Bytes(File)], "failed_extract"} \cap Failures :
         SaveUnlessDry(<<File>>, NewRow(File, doc.content, NoText, y))
    /\ Done(File, {})
    /\ UNCHANGED <<tree, params, points, quiet, losses>>

(* Stage 3: other bytes, same text: stat and content_sha advance.          *)
SkipSameText ==
    /\ pc = "extract" /\ Bytes(File) # Gone
    /\ SameText(File, Yield[Bytes(File)])
    /\ SaveUnlessDry(<<File>>, [rows[<<File>>] EXCEPT !.stat = Stat(File),
                                                      !.content = doc.content])
    /\ Done(File, EmbeddedInState(File))
    /\ UNCHANGED <<tree, params, points, quiet, losses>>

ExtractDry ==
    /\ pc = "extract" /\ Bytes(File) # Gone
    /\ Yield[Bytes(File)] \in Texts /\ ~SameText(File, Yield[Bytes(File)])
    /\ run.dry
    /\ Done(File, {})
    /\ UNCHANGED <<tree, params, rows, points, quiet, losses>>

Extract ==
    /\ pc = "extract" /\ Bytes(File) # Gone
    /\ Yield[Bytes(File)] \in Texts /\ ~SameText(File, Yield[Bytes(File)])
    /\ ~run.dry
    /\ doc' = [doc EXCEPT !.body = Bytes(File), !.text = Yield[Bytes(File)],
                          !.left = DOMAIN Attached[Bytes(File)]]
    /\ pc' = "embed"
    /\ UNCHANGED <<tree, params, rows, points, run, quiet, losses>>

-----------------------------------------------------------------------------
(* _index_document, for the file itself and for each attachment.           *)

Embed ==
    /\ pc = "embed"
    /\ pc' = "delete"
    /\ UNCHANGED <<tree, params, rows, points, run, doc, quiet, losses>>

(* The endpoint answers with another number of vectors than of chunks.     *)
EmbedMismatch ==
    /\ pc = "embed"
    /\ Save(doc.source, NewRow(File, doc.content, doc.text, "failed_embed"))
    /\ IF Len(doc.source) = 1
       THEN Done(File, {})
       ELSE pc' = "attach" /\ UNCHANGED <<run, doc>>
    /\ UNCHANGED <<tree, params, points, quiet, losses>>

\* Slip: the old points are left to be overwritten.
KeepBySource ==
    /\ pc = "delete"
    /\ pc' = "upsert"
    /\ UNCHANGED <<tree, params, rows, points, run, doc, quiet, losses>>

\* Slip: the row is committed before the points are written.
DeleteAndSave ==
    /\ pc = "delete"
    /\ points' = [points EXCEPT ![doc.source] = {}]
    /\ Save(doc.source, NewRow(File, doc.content, doc.text, "indexed"))
    /\ pc' = "upsert"
    /\ UNCHANGED <<tree, params, run, doc, quiet, losses>>

DeleteBySource ==
    /\ pc = "delete"
    /\ points' = [points EXCEPT ![doc.source] = {}]
    /\ pc' = "upsert"
    /\ UNCHANGED <<tree, params, rows, run, doc, quiet, losses>>

\* upsert_points: a point replaces the one with the same number.
Overwritten(s, new) ==
    new \cup {q \in points[s] : \A n \in new : n.at # q.at}

UpsertPoints ==
    /\ pc = "upsert"
    /\ points' = [points EXCEPT ![doc.source] =
                    Overwritten(doc.source, PointsOf(doc.text, run.params, "this"))]
    /\ pc' = "save"
    /\ UNCHANGED <<tree, params, rows, run, doc, quiet, losses>>

SaveRow ==
    /\ pc = "save"
    /\ Save(doc.source, NewRow(File, doc.content, doc.text, "indexed"))
    /\ IF Len(doc.source) = 1 /\ doc.left = {}
       THEN Done(File, {})
       ELSE /\ run' = [run EXCEPT !.seen = @ \cup {doc.source}]
            /\ pc' = "attach"
            /\ UNCHANGED doc
    /\ UNCHANGED <<tree, params, points, quiet, losses>>

\* Slip: the attachment is indexed with the text of its file.
AttachFile(n) ==
    /\ pc = "attach" /\ n \in doc.left
    /\ pc' = IF Chunks[Attached[doc.body][n]] > 0 THEN "embed" ELSE "attach"
    /\ doc' = [doc EXCEPT !.source = <<File, n>>, !.left = @ \ {n},
                          !.text = Yield[doc.body]]
    /\ UNCHANGED <<tree, params, rows, points, run, quiet, losses>>

(* _index_embedded: the next attachment; one without a chunk is passed     *)
(* over, which leaves what was indexed for it.                             *)
Attach(n) ==
    /\ pc = "attach" /\ n \in doc.left
    /\ LET t == Attached[doc.body][n] IN
       /\ pc' = IF Chunks[t] > 0 THEN "embed" ELSE "attach"
       /\ doc' = [doc EXCEPT !.source = <<File, n>>, !.text = t,
                             !.left = @ \ {n}]
    /\ UNCHANGED <<tree, params, rows, points, run, quiet, losses>>

Stale == EmbeddedInState(File) \ {<<File, n>> : n \in DOMAIN Attached[doc.body]}

(* Attachments the state knows and the container no longer has: points     *)
(* first, then the row.                                                    *)
DeleteStalePoints(s) ==
    /\ pc = "attach" /\ doc.left = {} /\ s \in Stale
    /\ points' = [points EXCEPT ![s] = {}]
    /\ doc' = [doc EXCEPT !.source = s]
    /\ pc' = "stale"
    /\ UNCHANGED <<tree, params, rows, run, quiet, losses>>

DeleteStaleRow ==
    /\ pc = "stale"
    /\ Save(doc.source, NoRow)
    /\ pc' = "attach"
    /\ UNCHANGED <<tree, params, points, run, doc, quiet, losses>>

AttachmentsDone ==
    /\ pc = "attach" /\ doc.left = {} /\ Stale = {}
    /\ Done(File, {})
    /\ UNCHANGED <<tree, params, rows, points, quiet, losses>>

-----------------------------------------------------------------------------
(* The destructive phases, after a clean scan.                             *)

Unseen == Recorded \ run.seen
\* Embedded documents vanish with their parent, never on their own.
Vanished == {s \in Unseen : <<s[1]>> \notin run.seen}

\* Slip: force overrides both guards.
AllowedByForce ==
    \/ run.force
    \/ /\ ~(EmptyGuard /\ run.seen = {})
       /\ 100 * Cardinality(Unseen) <= MaxDeletePct * Cardinality(Recorded)

\* check_vanished_deletion
Allowed ==
    /\ ~(EmptyGuard /\ run.seen = {})
    /\ \/ run.force
       \/ 100 * Cardinality(Unseen) <= MaxDeletePct * Cardinality(Recorded)

EndScan ==
    /\ pc = "next" /\ run.todo = {}
    /\ pc' = IF run.dry THEN "finish"
             ELSE IF run.mode = "full" THEN "sweep"
             ELSE IF run.mode = "upsert" /\ run.delete /\ Vanished # {}
                  THEN "vanish" ELSE "finish"
    /\ pc' = "vanish" => Allowed
    /\ UNCHANGED <<tree, params, rows, points, run, doc, quiet, losses>>

(* aborted_guard *)
GuardRefuses ==
    /\ pc = "next" /\ run.todo = {}
    /\ run.mode = "upsert" /\ ~run.dry /\ run.delete /\ Vanished # {}
    /\ ~Allowed
    /\ Stop
    /\ UNCHANGED <<tree, params, rows, losses>>

DeleteVanishedPoints(s) ==
    /\ pc = "vanish" /\ s \in Vanished
    /\ points' = [points EXCEPT ![s] = {}]
    /\ doc' = [doc EXCEPT !.source = s]
    /\ pc' = "vanishrow"
    /\ UNCHANGED <<tree, params, rows, run, quiet, losses>>

DeleteVanishedRow ==
    /\ pc = "vanishrow"
    /\ Save(doc.source, NoRow)
    /\ doc' = NoDoc
    /\ pc' = IF Vanished = {doc.source} THEN "finish" ELSE "vanish"
    /\ UNCHANGED <<tree, params, points, run, quiet, losses>>

(* sweep_stale: everything of the job that this run did not write.         *)
Sweep ==
    /\ pc = "sweep"
    /\ points' = [s \in Sources |-> {q \in points[s] : q.gen = "this"}]
    /\ pc' = "finish"
    /\ UNCHANGED <<tree, params, rows, run, doc, quiet, losses>>

Finish ==
    /\ pc = "finish"
    /\ Stop
    /\ UNCHANGED <<tree, params, rows, losses>>

-----------------------------------------------------------------------------
(* What happens around the run.                                            *)

ChangeFile(f) ==
    /\ \E v \in Versions : v > tree[f] /\ tree' = [tree EXCEPT ![f] = v]
    /\ quiet' = FALSE
    /\ UNCHANGED <<params, rows, points, pc, run, doc, losses>>

ChangeParams ==
    /\ params < LastParams
    /\ params' = params + 1
    /\ quiet' = FALSE
    /\ UNCHANGED <<tree, rows, points, pc, run, doc, losses>>

(* The state volume is lost; the process comes up with an empty one.       *)
LoseState ==
    /\ pc = "idle" /\ losses < StateLosses
    /\ losses' = losses + 1
    /\ rows' = [s \in Sources |-> NoRow]
    /\ UNCHANGED <<tree, params, points, pc, run, doc, quiet>>

RunStep ==
    \/ Start \/ Abandon \/ Recreate \/ ForgetRows \/ Scan
    \/ \E f \in Files : \/ SkipKnown(f) \/ SkipTooLarge(f) \/ SkipSameStat(f)
                        \/ SkipSameContent(f) \/ Hash(f)
    \/ ExtractNothing \/ SkipSameText \/ ExtractDry \/ Extract
    \/ Embed \/ EmbedMismatch \/ DeleteBySource \/ UpsertPoints \/ SaveRow
    \/ \E n \in Names : Attach(n)
    \/ \E s \in Sources : DeleteStalePoints(s)
    \/ DeleteStaleRow \/ AttachmentsDone
    \/ EndScan \/ GuardRefuses
    \/ \E s \in Sources : DeleteVanishedPoints(s)
    \/ DeleteVanishedRow \/ Sweep \/ Finish

JRNext ==
    \/ RunStep
    \/ \E f \in Files : ChangeFile(f)
    \/ ChangeParams \/ LoseState

JRSpec == JRInit /\ [][JRNext]_jrVars

-----------------------------------------------------------------------------
Point == [at : Nat, text : Texts, params : Params, gen : {"this", "past"}]

RunRecord ==
    [mode : Modes \cup {"none"}, scope : Scopes \cup {"job"}, force : BOOLEAN,
     dry : BOOLEAN, delete : BOOLEAN, params : Params,
     scanned : [Files -> Versions] \cup {<<>>}, todo : SUBSET Files,
     known : SUBSET Sources, seen : SUBSET Sources]

DocRecord ==
    [source : Sources \cup {<<>>}, content : Contents \cup {NoContent},
     body : Contents \cup {NoContent}, text : Texts \cup {NoText},
     left : SUBSET Names]

PCs == {"idle", "prepare", "forget", "scan", "next", "extract", "embed",
        "delete", "upsert", "save", "attach", "stale", "vanish", "vanishrow",
        "sweep", "finish"}

JRTypeOK ==
    /\ tree \in [Files -> Versions] /\ params \in Params
    /\ rows \in [Sources -> Row \cup {NoRow}]
    /\ points \in [Sources -> SUBSET Point]
    /\ pc \in PCs /\ run \in RunRecord /\ doc \in DocRecord
    /\ pc \notin {"idle", "prepare", "forget", "scan"} =>
         run.scanned \in [Files -> Versions] /\ run.todo \subseteq Scanned
    /\ quiet \in BOOLEAN /\ losses \in 0..StateLosses

\* The points of s are those of text t, chunked under the parameters p.
Holds(s, t, p) ==
    \E gen \in {"this", "past"} : points[s] = PointsOf(t, p, gen)

(* The points of a source are all of one document: never the head of a new *)
(* text with the tail of an older, longer one, never two generations       *)
(* (runner.py:511-513, "stale higher-index chunks go away here").          *)
SourceIsWhole ==
    \A s \in Sources : points[s] # {} => \E t \in Texts, p \in Params : Holds(s, t, p)

\* The change detection would pass over f as indexed, at stage 1, 2 or 3.
PassedOver(f) ==
    /\ rows[<<f>>] # NoRow /\ Bytes(f) # Gone /\ tree[f] \notin TooLarge
    /\ rows[<<f>>].status = "indexed" /\ rows[<<f>>].params = params
    /\ \/ rows[<<f>>].stat = tree[f]
       \/ rows[<<f>>].content = Bytes(f)
       \/ rows[<<f>>].text = Yield[Bytes(f)]

(* A file that the next run would not touch is in the collection, with the *)
(* text and the parameters of its row: the row is committed only after all *)
(* chunks are upserted, whatever call was the last one of a run            *)
(* (runner.py:5-7, docs/modes.md:154-156).                                 *)
IndexedRowsTruthful ==
    \A f \in Files :
        PassedOver(f) => Holds(<<f>>, rows[<<f>>].text, rows[<<f>>].params)

(* When an upsert that deletes, or a full run, ends well and nothing moved *)
(* meanwhile, state and collection agree with the tree: every file has its *)
(* row, at its stat and under the job's parameters, an indexed one has     *)
(* exactly the points of its text, and a file that is gone has no row and, *)
(* after a full run, no point (docs/modes.md:51-56 and 84-97).             *)
CaughtUp ==
    /\ pc = "finish" /\ quiet /\ ~run.dry
    /\ run.mode = "full" \/ (run.mode = "upsert" /\ run.delete)
    =>
        \A f \in Files :
            IF Bytes(f) = Gone
            THEN /\ rows[<<f>>] = NoRow
                 /\ run.mode = "full" => points[<<f>>] = {}
            ELSE /\ rows[<<f>>] # NoRow
                 /\ rows[<<f>>].stat = tree[f] /\ rows[<<f>>].params = params
                 /\ rows[<<f>>].status = "indexed"
                    => Holds(<<f>>, Yield[Bytes(f)], params)

(* When a file has been re-indexed together with its attachments, the rows *)
(* of its attachments are those it has now, and an indexed one holds the   *)
(* points of its text, whatever earlier runs left (runner.py:567-623).     *)
AttachmentsFollowFile ==
    pc = "attach" /\ doc.left = {} /\ Stale = {} =>
        \A n \in Names :
            IF n \in DOMAIN Attached[doc.body]
            THEN Chunks[Attached[doc.body][n]] > 0 =>
                 /\ rows[<<File, n>>] # NoRow
                 /\ rows[<<File, n>>].status = "indexed"
                    => Holds(<<File, n>>, Attached[doc.body][n], run.params)
            ELSE rows[<<File, n>>] = NoRow

(* A dry run changes no row, and no point but for its age.                 *)
DryRunTouchesNothing ==
    [][run.dry => rows' = rows /\ points' \in {points, Aged}]_jrVars

(* An upsert run drops the row of a source only when its points are gone   *)
(* already, and only when its file was missing from a scan that found      *)
(* something, or when it is an attachment the re-indexed file no longer    *)
(* has (runner.py:284-311, 612-623; guards.py; docs/modes.md:92-103).      *)
UpsertDropsOnlyVanished ==
    [][run.mode = "upsert" =>
        \A s \in Sources : rows[s] # NoRow /\ rows'[s] = NoRow =>
            /\ points[s] = {}
            /\ \/ /\ s[1] \notin Scanned /\ (EmptyGuard => Scanned # {})
                  /\ run.delete /\ ~run.dry
               \/ Len(s) = 2 /\ s[1] \in Scanned
                  /\ s \notin {<<s[1], n>> : n \in DOMAIN Attached[doc.body]}]_jrVars

-----------------------------------------------------------------------------
(* What the documentation says beyond that.                                *)

(* docs/modes.md:45: of a full run that crashes, "nothing is lost; at      *)
(* worst stale points survive".  With scope collection the crash may fall  *)
(* between recreate_collection and delete_documents_for_collection: every  *)
(* file is passed over from then on, and none has a point.                 *)
CrashedFullRunLosesNothing ==
    pc = "idle" => \A f \in Files : PassedOver(f) => points[<<f>>] # {}

(* docs/operations.md:118, the endpoint dies mid-run: "the next run        *)
(* resumes at the first uncommitted document".  When it dies between a     *)
(* file and its attachments the row of the file is committed, and the next *)
(* run passes over the attachments, documents without a row, as well.      *)
AttachmentsCatchUp ==
    pc = "finish" /\ quiet /\ run.mode = "upsert" /\ ~run.dry =>
        \A f \in Scanned : \A n \in DOMAIN Attached[Bytes(f)] :
            /\ rows[<<f>>].status = "indexed"
            /\ Chunks[Attached[Bytes(f)][n]] > 0
            => rows[<<f, n>>] # NoRow
=============================================================================
