-------------------------- MODULE JobRunner_proofs --------------------------
(***************************************************************************)
(* For every set of files and attachments, every history of versions, any  *)
(* chunking and all options: points of two texts never mix in one source,  *)
(* a dry run changes nothing, and an upsert run drops only what is gone;   *)
(* the attachments of a re-indexed file are the ones it has.  And where    *)
(* nothing returns to what was replaced, no file is passed over that is    *)
(* not in the collection, and an undisturbed run leaves tree, rows and     *)
(* points equal.                                                           *)
(***************************************************************************)
EXTENDS JobRunner, TLAPS

BeforeScan == {"idle", "prepare", "forget", "scan"}
\* A document of the file is being indexed.
InFile == {"embed", "delete", "upsert", "save", "attach", "stale"}

\* What the mode and options say about where the run can be.
RunInv ==
    /\ pc = "idle" => run = NoRun
    /\ pc \in {"prepare", "forget"} => run.mode = "full"
    /\ run.dry => pc \in {"scan", "next", "extract", "finish"}
    /\ pc \in {"vanish", "vanishrow"} =>
         /\ run.mode = "upsert" /\ run.delete /\ run.todo = {}
         /\ EmptyGuard => run.seen # {}

\* The document at hand belongs to a file the run is not through with.
DocInv ==
    /\ pc \in InFile \cup {"extract"} => doc.source \in Sources /\ File \in run.todo
    /\ pc = "extract" => doc.source = <<File>> /\ doc.content \in Contents
    /\ pc \in InFile =>
         /\ doc.content \in Contents /\ doc.text \in Texts /\ doc.body \in Contents
         /\ doc.left \subseteq DOMAIN Attached[doc.body]
    /\ pc = "stale" =>
         \E n \in Names : n \notin DOMAIN Attached[doc.body] /\ doc.source = <<File, n>>
    /\ pc = "vanishrow" => doc.source \in Vanished

\* The seen sources are those of the scanned files the run is through with.
SeenInv ==
    /\ pc \in BeforeScan => run.seen = {}
    /\ pc \notin BeforeScan =>
        /\ \A s \in run.seen : s[1] \in Scanned
        /\ \A f \in Scanned \ run.todo : <<f>> \in run.seen

\* The points of a source are gone before its new ones, or its row, go.
GoneFirst ==
    pc \in {"upsert", "stale", "vanishrow"} => points[doc.source] = {}

JRInv == JRTypeOK /\ RunInv /\ DocInv /\ SeenInv /\ GoneFirst /\ SourceIsWhole

(* Files and attachments as sources.                                       *)
LEMMA SourceShape ==
    /\ \A s \in Sources : s[1] \in Files
    /\ \A f \in Files : <<f>> \in Sources /\ <<f>>[1] = f
    /\ \A f \in Files, n \in Names : <<f, n>> \in Sources /\ <<f, n>>[1] = f
<1>1. \A f \in Files : <<f>> \in Sources /\ <<f>>[1] = f
  BY DEF Sources
<1>2. \A f \in Files, n \in Names : <<f, n>> \in Sources /\ <<f, n>>[1] = f
  BY DEF Sources
<1>3. ASSUME NEW s \in Sources PROVE s[1] \in Files
  BY DEF Sources
<1> QED BY <1>1, <1>2, <1>3

(* What a file that is there holds.                                        *)
LEMMA BytesType ==
    ASSUME tree \in [Files -> Versions], NEW f \in Files, Bytes(f) # Gone
    PROVE  Bytes(f) \in Contents
<1>1. tree[f] \in Versions OBVIOUS
<1>2. Content[tree[f]] \in Contents \cup {Gone} BY <1>1, JobRunnerAssumption
<1> QED BY <1>2 DEF Bytes

(* The points of a text are points.                                        *)
LEMMA PointsOfType ==
    ASSUME NEW t \in Texts, NEW p \in Params, NEW gen \in {"this", "past"}
    PROVE  PointsOf(t, p, gen) \in SUBSET Point
<1>1. Chunks[t] \in Nat BY JobRunnerAssumption
<1> QED BY <1>1 DEF PointsOf, Point

(* When a run ends its points stay, as points of the past.                 *)
LEMMA AgedType ==
    ASSUME points \in [Sources -> SUBSET Point]
    PROVE  Aged \in [Sources -> SUBSET Point]
<1>1. ASSUME NEW s \in Sources, NEW q \in points[s]
      PROVE  [q EXCEPT !.gen = "past"] \in Point
  BY DEF Point
<1> QED BY <1>1 DEF Aged

(* A row written for a file of the scan is a row.                          *)
LEMMA NewRowType ==
    ASSUME JRTypeOK, pc \notin BeforeScan, NEW f \in Files,
           NEW b \in Contents \cup {NoContent}, NEW t \in Texts \cup {NoText},
           NEW status \in Failures \cup {"indexed", "failed_embed", "skipped_too_large"}
    PROVE  NewRow(f, b, t, status) \in Row
<1>1. run.scanned \in [Files -> Versions] /\ run.params \in Params
  BY DEF JRTypeOK, BeforeScan, RunRecord
<1> QED BY <1>1 DEF NewRow, Stat, Row

(* Writing a row keeps the type of the table.                              *)
LEMMA SaveType ==
    ASSUME rows \in [Sources -> Row \cup {NoRow}], NEW s \in Sources,
           NEW r \in Row \cup {NoRow}, Save(s, r) \/ SaveUnlessDry(s, r)
    PROVE  rows' \in [Sources -> Row \cup {NoRow}]
BY DEF Save, SaveUnlessDry

(* What Done leaves.                                                       *)
LEMMA DoneType ==
    ASSUME JRTypeOK, pc \notin BeforeScan, NEW f \in Files,
           NEW S \in SUBSET Sources, Done(f, S)
    PROVE  /\ pc' = "next" /\ doc' = NoDoc
           /\ run' \in RunRecord /\ doc' \in DocRecord
           /\ run' = [run EXCEPT !.todo = run'.todo, !.seen = run'.seen]
           /\ run'.todo = run.todo \ {f}
           /\ run'.seen = run.seen \cup {<<f>>} \cup S
           /\ run'.scanned = run.scanned
           /\ run'.scanned \in [Files -> Versions]
           /\ Scanned' = Scanned
           /\ run'.todo \subseteq Scanned'
<1>1. run \in RunRecord /\ run.scanned \in [Files -> Versions] /\ run.todo \subseteq Scanned
  BY DEF JRTypeOK, BeforeScan
<1>2. <<f>> \in Sources BY SourceShape
<1>3. /\ run' = [run EXCEPT !.todo = run.todo \ {f},
                            !.seen = run.seen \cup {<<f>>} \cup S]
      /\ pc' = "next" /\ doc' = NoDoc
  BY DEF Done
<1>4. run' \in RunRecord
  BY <1>1, <1>2, <1>3 DEF RunRecord
<1>5. run'.todo = run.todo \ {f} /\ run'.scanned = run.scanned
      /\ run'.seen = run.seen \cup {<<f>>} \cup S
  BY <1>1, <1>3 DEF RunRecord
<1>6. Scanned' = Scanned BY <1>5 DEF Scanned
<1>7. doc' \in DocRecord BY <1>3 DEF NoDoc, DocRecord
<1>8. run' = [run EXCEPT !.todo = run'.todo, !.seen = run'.seen]
  BY <1>1, <1>3, <1>5
<1> QED BY <1>1, <1>3, <1>4, <1>5, <1>6, <1>7, <1>8

(* Where the run stands once it has scanned.                               *)
LEMMA Scanning ==
    ASSUME JRTypeOK, pc \notin BeforeScan
    PROVE  /\ run \in RunRecord /\ run.scanned \in [Files -> Versions]
           /\ run.todo \subseteq Scanned /\ Scanned \subseteq Files
<1>1. run \in RunRecord /\ run.scanned \in [Files -> Versions] /\ run.todo \subseteq Scanned
  BY DEF JRTypeOK, BeforeScan
<1> QED BY <1>1 DEF Scanned

(* What is known of the document at hand.                                  *)
LEMMA AtHand ==
    ASSUME JRTypeOK, DocInv, pc \in InFile \cup {"extract"}
    PROVE  /\ doc \in DocRecord /\ doc.source \in Sources
           /\ File \in run.todo /\ File \in Files /\ File \in Scanned
           /\ <<File>> \in Sources
<1>1. pc \notin BeforeScan BY DEF InFile, BeforeScan
<1>2. doc \in DocRecord BY DEF JRTypeOK
<1>3. doc.source \in Sources /\ File \in run.todo BY DEF DocInv
<1> QED BY <1>1, <1>2, <1>3, Scanning, SourceShape

(* Without a scan in a step the scanned files stay the same.               *)
LEMMA ScannedStays == run'.scanned = run.scanned => Scanned' = Scanned
BY DEF Scanned

(* Every step keeps the types: before the scan, *)
LEMMA TypeStepOutside ==
    ASSUME JRInv, \/ Start \/ Abandon \/ Recreate \/ ForgetRows \/ Scan \/ Finish
                  \/ GuardRefuses \/ EndScan \/ Sweep \/ DeleteVanishedRow
                  \/ (\E s \in Sources : DeleteVanishedPoints(s))
                  \/ (\E f \in Files : ChangeFile(f)) \/ ChangeParams \/ LoseState
    PROVE  JRTypeOK'
<1>0. JRTypeOK BY DEF JRInv
<1>a. NoRun \in RunRecord BY JobRunnerAssumption DEF RunRecord, NoRun, Params
<1>1. CASE Start
  <2>1. run' \in RunRecord
    <3>1. params \in Params BY <1>0 DEF JRTypeOK
    <3>2. PICK mode \in Modes, scope \in Scopes, force, dry, delete \in BOOLEAN :
            /\ mode # "full" => scope = "job"
            /\ ~delete => mode = "upsert"
            /\ run' = [NoRun EXCEPT !.mode = mode, !.scope = scope, !.force = force,
                                    !.dry = dry, !.delete = delete, !.params = params]
            /\ pc' = IF mode = "full" /\ ~dry THEN "prepare" ELSE "scan"
      BY <1>1, Zenon DEF Start
    <3>3. run' = [NoRun EXCEPT !.mode = mode, !.scope = scope, !.force = force,
                               !.dry = dry, !.delete = delete, !.params = params]
      BY <3>2
    <3> QED BY <1>a, <3>1, <3>3 DEF RunRecord
  <2>2. pc' \in {"prepare", "scan"} BY <1>1 DEF Start
  <2> QED BY <1>0, <1>1, <2>1, <2>2 DEF Start, JRTypeOK, PCs
<1>2. ASSUME Stop, UNCHANGED <<tree, params, rows, losses>> PROVE JRTypeOK'
  <2>1. points' \in [Sources -> SUBSET Point]
    BY <1>0, <1>2, AgedType DEF Stop, JRTypeOK
  <2>2. run' \in RunRecord BY <1>a, <1>2 DEF Stop
  <2>3. doc' \in DocRecord BY <1>2 DEF Stop, DocRecord, NoDoc
  <2> QED BY <1>0, <1>2, <2>1, <2>2, <2>3 DEF Stop, JRTypeOK, PCs
<1>3. CASE Abandon \/ Finish \/ GuardRefuses
  BY <1>2, <1>3 DEF Abandon, Finish, GuardRefuses
<1>4. CASE Recreate
  BY <1>0, <1>4 DEF Recreate, JRTypeOK, PCs
<1>5. CASE ForgetRows
  BY <1>0, <1>5 DEF ForgetRows, JRTypeOK, PCs
<1>6. CASE Scan
  <2>1. PICK known \in KnownSources :
          run' = [run EXCEPT !.scanned = tree, !.known = known,
                             !.todo = {f \in Files : Bytes(f) # Gone}]
    BY <1>6 DEF Scan
  <2>2. known \in SUBSET Sources
    BY DEF KnownSources, Facets, Recorded
  <2>3. run \in RunRecord /\ tree \in [Files -> Versions] BY <1>0 DEF JRTypeOK
  <2>4. run' \in RunRecord BY <2>1, <2>2, <2>3 DEF RunRecord
  <2>5. run'.scanned = tree /\ run'.todo = {f \in Files : Bytes(f) # Gone}
    BY <2>1, <2>3 DEF RunRecord
  <2>6. run'.todo \subseteq Scanned' BY <2>3, <2>5 DEF Scanned, Bytes
  <2>7. pc' = "next" /\ UNCHANGED <<tree, params, rows, points, doc, quiet, losses>>
    BY <1>6 DEF Scan
  <2> QED BY <1>0, <2>3, <2>4, <2>5, <2>6, <2>7 DEF JRTypeOK, PCs
<1>7. CASE EndScan
  <2>1. pc' \in {"finish", "sweep", "vanish"} /\ pc = "next"
        /\ UNCHANGED <<tree, params, rows, points, run, doc, quiet, losses>>
    BY <1>7 DEF EndScan
  <2>2. Scanned' = Scanned BY <2>1, ScannedStays
  <2> QED BY <1>0, <2>1, <2>2 DEF JRTypeOK, PCs
<1>8. CASE Sweep
  <2>1. points' \in [Sources -> SUBSET Point]
    BY <1>0, <1>8 DEF Sweep, JRTypeOK
  <2>2. Scanned' = Scanned BY <1>8, ScannedStays DEF Sweep
  <2> QED BY <1>0, <1>8, <2>1, <2>2 DEF Sweep, JRTypeOK, PCs
<1>9. CASE DeleteVanishedRow
  <2>1. doc.source \in Sources BY <1>0, <1>9 DEF DeleteVanishedRow, JRInv, DocInv, Vanished, Unseen, Recorded
  <2>2. rows' \in [Sources -> Row \cup {NoRow}]
    BY <1>0, <1>9, <2>1 DEF DeleteVanishedRow, Save, JRTypeOK
  <2>3. doc' \in DocRecord BY <1>9 DEF DeleteVanishedRow, DocRecord, NoDoc
  <2>4. Scanned' = Scanned BY <1>9, ScannedStays DEF DeleteVanishedRow
  <2>5. pc' \in {"finish", "vanish"} /\ pc = "vanishrow"
        /\ UNCHANGED <<tree, params, points, run, quiet, losses>>
    BY <1>9 DEF DeleteVanishedRow
  <2> QED BY <1>0, <2>2, <2>3, <2>4, <2>5 DEF JRTypeOK, PCs
<1>10. ASSUME NEW s \in Sources, DeleteVanishedPoints(s) PROVE JRTypeOK'
  <2>1. doc' \in DocRecord BY <1>0, <1>10 DEF DeleteVanishedPoints, JRTypeOK, DocRecord
  <2>2. Scanned' = Scanned BY <1>10, ScannedStays DEF DeleteVanishedPoints
  <2> QED BY <1>0, <1>10, <2>1, <2>2 DEF DeleteVanishedPoints, JRTypeOK, PCs
<1>11. ASSUME NEW f \in Files, ChangeFile(f) PROVE JRTypeOK'
  <2>1. Scanned' = Scanned BY <1>11, ScannedStays DEF ChangeFile
  <2> QED BY <1>0, <1>11, <2>1 DEF ChangeFile, JRTypeOK
<1>12. CASE ChangeParams
  <2>1. Scanned' = Scanned BY <1>12, ScannedStays DEF ChangeParams
  <2>2. params' \in Params
    BY <1>0, <1>12, JobRunnerAssumption DEF ChangeParams, JRTypeOK, Params
  <2> QED BY <1>0, <1>12, <2>1, <2>2 DEF ChangeParams, JRTypeOK
<1>13. CASE LoseState
  BY <1>0, <1>13, JobRunnerAssumption DEF LoseState, JRTypeOK
<1> QED BY <1>1, <1>3, <1>4, <1>5, <1>6, <1>7, <1>8, <1>9, <1>10, <1>11, <1>12, <1>13

\* The run is through with file f and has at most changed rows.
Passed(f) ==
    /\ pc \notin BeforeScan /\ f \in run.todo
    /\ \E S \in SUBSET Sources : (\A s \in S : s[1] = f) /\ Done(f, S)
    /\ rows' \in [Sources -> Row \cup {NoRow}]
    /\ UNCHANGED <<tree, params, points, quiet, losses>>

(* It keeps the types.                                                     *)
LEMMA PassedType ==
    ASSUME JRTypeOK, NEW f \in Files, Passed(f)
    PROVE  JRTypeOK'
<1>1. PICK S \in SUBSET Sources : Done(f, S) BY DEF Passed
<1>2. pc \notin BeforeScan BY DEF Passed
<1>3. /\ pc' = "next" /\ run' \in RunRecord /\ doc' \in DocRecord
      /\ run'.scanned \in [Files -> Versions] /\ run'.todo \subseteq Scanned'
  BY <1>1, <1>2, DoneType
<1> QED BY <1>3 DEF Passed, JRTypeOK, PCs

(* A file is passed over or skipped by its scan, *)
LEMMA SkipPasses ==
    ASSUME JRInv, NEW f \in Files,
           SkipKnown(f) \/ SkipTooLarge(f) \/ SkipSameStat(f) \/ SkipSameContent(f)
    PROVE  Passed(f)
<1>0. JRTypeOK /\ pc = "next" /\ pc \notin BeforeScan
  BY DEF JRInv, SkipKnown, SkipTooLarge, SkipSameStat, SkipSameContent, BeforeScan
<1>1. rows \in [Sources -> Row \cup {NoRow}] /\ run.scanned \in [Files -> Versions]
  BY <1>0, Scanning DEF JRTypeOK
<1>2. <<f>> \in Sources BY SourceShape
<1>3. /\ EmbeddedInState(f) \in SUBSET Sources
      /\ \A s \in EmbeddedInState(f) : s[1] = f
  BY DEF EmbeddedInState, Recorded, Attachments
<1>4. CASE SkipKnown(f)
  BY <1>0, <1>1, <1>4 DEF SkipKnown, Passed
<1>5. CASE SkipTooLarge(f)
  <2>1. NewRow(f, NoContent, NoText, "skipped_too_large") \in Row
    BY <1>0, NewRowType
  <2>2. rows' \in [Sources -> Row \cup {NoRow}]
    BY <1>1, <1>2, <1>5, <2>1, SaveType DEF SkipTooLarge
  <2> QED BY <1>0, <1>5, <2>2 DEF SkipTooLarge, Passed
<1>6. CASE SkipSameStat(f)
  BY <1>0, <1>1, <1>3, <1>6 DEF SkipSameStat, Passed
<1>7. CASE SkipSameContent(f)
  <2>1. rows[<<f>>] \in Row
    BY <1>1, <1>2, <1>7 DEF SkipSameContent, SameContent, HasRow
  <2>2. [rows[<<f>>] EXCEPT !.stat = Stat(f)] \in Row
    BY <1>1, <2>1 DEF Stat, Row
  <2>3. rows' \in [Sources -> Row \cup {NoRow}]
    BY <1>1, <1>2, <1>7, <2>2, SaveType DEF SkipSameContent
  <2> QED BY <1>0, <1>3, <1>7, <2>3 DEF SkipSameContent, Passed
<1> QED BY <1>4, <1>5, <1>6, <1>7

(* by what was read of it, *)
LEMMA ExtractPasses ==
    ASSUME JRInv, ExtractNothing \/ SkipSameText \/ ExtractDry
    PROVE  Passed(File)
<1>0. JRTypeOK /\ DocInv /\ pc = "extract" /\ pc \notin BeforeScan
      /\ pc \in InFile \cup {"extract"}
  BY DEF JRInv, ExtractNothing, SkipSameText, ExtractDry, BeforeScan
<1>1. rows \in [Sources -> Row \cup {NoRow}] /\ run.scanned \in [Files -> Versions]
  BY <1>0, Scanning DEF JRTypeOK
<1>2. File \in Files /\ <<File>> \in Sources /\ File \in run.todo BY <1>0, AtHand
<1>3. /\ EmbeddedInState(File) \in SUBSET Sources
      /\ \A s \in EmbeddedInState(File) : s[1] = File
  BY DEF EmbeddedInState, Recorded, Attachments
<1>4. doc.content \in Contents BY <1>0 DEF DocInv
<1>5. CASE ExtractNothing
  <2>1. PICK y \in Failures : SaveUnlessDry(<<File>>, NewRow(File, doc.content, NoText, y))
    BY <1>5 DEF ExtractNothing
  <2>2. NewRow(File, doc.content, NoText, y) \in Row
    BY <1>0, <1>2, <1>4, NewRowType
  <2>3. rows' \in [Sources -> Row \cup {NoRow}]
    BY <1>1, <1>2, <2>1, <2>2, SaveType
  <2> QED BY <1>0, <1>2, <1>5, <2>3 DEF ExtractNothing, Passed
<1>6. CASE SkipSameText
  <2>1. rows[<<File>>] \in Row
    BY <1>1, <1>2, <1>6 DEF SkipSameText, SameText, HasRow
  <2>2. [rows[<<File>>] EXCEPT !.stat = Stat(File), !.content = doc.content] \in Row
    BY <1>1, <1>2, <1>4, <2>1 DEF Stat, Row
  <2>3. rows' \in [Sources -> Row \cup {NoRow}]
    BY <1>1, <1>2, <1>6, <2>2, SaveType DEF SkipSameText
  <2> QED BY <1>0, <1>2, <1>3, <1>6, <2>3 DEF SkipSameText, Passed
<1>7. CASE ExtractDry
  BY <1>0, <1>1, <1>2, <1>7 DEF ExtractDry, Passed
<1> QED BY <1>5, <1>6, <1>7

\* A call on the document at hand, without reading or passing over a file.
Working ==
    /\ pc' \in InFile /\ UNCHANGED <<tree, params, run, quiet, losses>>

(* It keeps the types if it writes rows, points and document well.         *)
LEMMA WorkingType ==
    ASSUME JRTypeOK, pc \notin BeforeScan, Working, doc' \in DocRecord,
           rows' \in [Sources -> Row \cup {NoRow}],
           points' \in [Sources -> SUBSET Point]
    PROVE  JRTypeOK'
<1>1. run.scanned \in [Files -> Versions] /\ run.todo \subseteq Scanned
  BY Scanning
<1>2. run' = run /\ Scanned' = Scanned BY ScannedStays DEF Working
<1>3. pc' \in PCs BY DEF Working, InFile, PCs
<1> QED BY <1>1, <1>2, <1>3 DEF Working, JRTypeOK

(* Every step keeps the types: in the loop over the files.                 *)
LEMMA TypeStepInside ==
    ASSUME JRInv,
           \/ \E f \in Files : \/ SkipKnown(f) \/ SkipTooLarge(f) \/ SkipSameStat(f)
                               \/ SkipSameContent(f) \/ Hash(f)
           \/ ExtractNothing \/ SkipSameText \/ ExtractDry \/ Extract
           \/ Embed \/ EmbedMismatch \/ DeleteBySource \/ UpsertPoints \/ SaveRow
           \/ (\E n \in Names : Attach(n))
           \/ (\E s \in Sources : DeleteStalePoints(s))
           \/ DeleteStaleRow \/ AttachmentsDone
    PROVE  JRTypeOK'
<1>0. JRTypeOK /\ DocInv BY DEF JRInv
<1>a. /\ rows \in [Sources -> Row \cup {NoRow}] /\ doc \in DocRecord
      /\ points \in [Sources -> SUBSET Point] /\ tree \in [Files -> Versions]
  BY <1>0 DEF JRTypeOK
<1>b. pc \in InFile \cup {"extract"} =>
        /\ pc \notin BeforeScan /\ File \in Files /\ doc.source \in Sources
        /\ run \in RunRecord /\ File \in run.todo
  BY <1>0, AtHand DEF InFile, BeforeScan, JRTypeOK
<1>c. pc \in InFile =>
        /\ doc.content \in Contents /\ doc.text \in Texts /\ doc.body \in Contents
        /\ doc.left \subseteq DOMAIN Attached[doc.body]
  BY <1>0 DEF DocInv
<1>1. ASSUME NEW f \in Files, \/ SkipKnown(f) \/ SkipTooLarge(f)
                              \/ SkipSameStat(f) \/ SkipSameContent(f)
      PROVE JRTypeOK'
  BY <1>0, <1>1, SkipPasses, PassedType
<1>2. ASSUME NEW f \in Files, Hash(f) PROVE JRTypeOK'
  <2>1. Bytes(f) \in Contents /\ <<f>> \in Sources
    <3>1. Bytes(f) # Gone BY <1>2 DEF Hash
    <3> QED BY <1>a, <3>1, BytesType, SourceShape
  <2>2. doc' \in DocRecord BY <1>2, <2>1 DEF Hash, DocRecord, NoDoc
  <2>3. Scanned' = Scanned BY <1>2, ScannedStays DEF Hash
  <2> QED BY <1>0, <1>2, <2>2, <2>3 DEF Hash, JRTypeOK, PCs
<1>3. CASE ExtractNothing \/ SkipSameText \/ ExtractDry
  <2>1. File \in Files
    BY <1>3, <1>b DEF ExtractNothing, SkipSameText, ExtractDry
  <2> QED BY <1>0, <1>3, <2>1, ExtractPasses, PassedType
<1>4. CASE Extract
  <2>1. Bytes(File) \in Contents
    <3>1. Bytes(File) # Gone /\ File \in Files BY <1>b, <1>4 DEF Extract
    <3> QED BY <1>a, <3>1, BytesType
  <2>2. DOMAIN Attached[Bytes(File)] \subseteq Names /\ Yield[Bytes(File)] \in Texts
    BY <1>4, <2>1, JobRunnerAssumption DEF Extract
  <2>3. doc' \in DocRecord BY <1>a, <1>4, <2>1, <2>2 DEF Extract, DocRecord
  <2>4. Working BY <1>4 DEF Extract, Working, InFile
  <2> QED BY <1>0, <1>a, <1>b, <1>4, <2>3, <2>4, WorkingType DEF Extract
<1>5. CASE Embed
  BY <1>0, <1>a, <1>b, <1>5, WorkingType DEF Embed, Working, InFile
<1>6. CASE EmbedMismatch
  <2>1. pc \in InFile BY <1>6 DEF EmbedMismatch, InFile
  <2>2. NewRow(File, doc.content, doc.text, "failed_embed") \in Row
    BY <1>0, <1>b, <1>c, <2>1, NewRowType
  <2>3. rows' \in [Sources -> Row \cup {NoRow}]
    BY <1>a, <1>b, <1>6, <2>1, <2>2, SaveType DEF EmbedMismatch
  <2>4. CASE Len(doc.source) = 1
    <3>1. Passed(File)
      BY <1>b, <1>6, <2>1, <2>3, <2>4 DEF EmbedMismatch, Passed
    <3> QED BY <1>0, <1>b, <2>1, <3>1, PassedType
  <2>5. CASE Len(doc.source) # 1
    <3>1. Working /\ doc' = doc /\ points' = points
      BY <1>6, <2>5 DEF EmbedMismatch, Working, InFile
    <3> QED BY <1>0, <1>a, <1>b, <2>1, <2>3, <3>1, WorkingType
  <2> QED BY <2>4, <2>5
<1>7. CASE DeleteBySource
  <2>1. points' \in [Sources -> SUBSET Point] BY <1>a, <1>7 DEF DeleteBySource
  <2> QED BY <1>0, <1>a, <1>b, <1>7, <2>1, WorkingType DEF DeleteBySource, Working, InFile
<1>8. CASE UpsertPoints
  <2>1. pc \in InFile BY <1>8 DEF UpsertPoints, InFile
  <2>2. run.params \in Params BY <1>b, <2>1 DEF RunRecord
  <2>3. PointsOf(doc.text, run.params, "this") \in SUBSET Point
    BY <1>c, <2>1, <2>2, PointsOfType
  <2>4. points[doc.source] \in SUBSET Point BY <1>a, <1>b, <2>1
  <2>5. Overwritten(doc.source, PointsOf(doc.text, run.params, "this")) \in SUBSET Point
    BY <2>3, <2>4 DEF Overwritten
  <2>6. points' \in [Sources -> SUBSET Point] BY <1>a, <1>8, <2>5 DEF UpsertPoints
  <2> QED BY <1>0, <1>a, <1>b, <1>8, <2>1, <2>6, WorkingType DEF UpsertPoints, Working, InFile
<1>9. CASE SaveRow
  <2>1. pc \in InFile BY <1>9 DEF SaveRow, InFile
  <2>2. NewRow(File, doc.content, doc.text, "indexed") \in Row
    BY <1>0, <1>b, <1>c, <2>1, NewRowType
  <2>3. rows' \in [Sources -> Row \cup {NoRow}]
    BY <1>a, <1>b, <1>9, <2>1, <2>2, SaveType DEF SaveRow
  <2>4. CASE Len(doc.source) = 1 /\ doc.left = {}
    <3>1. Passed(File)
      BY <1>b, <1>9, <2>1, <2>3, <2>4 DEF SaveRow, Passed
    <3> QED BY <1>0, <1>b, <2>1, <3>1, PassedType
  <2>5. CASE ~(Len(doc.source) = 1 /\ doc.left = {})
    <3>1. /\ run' = [run EXCEPT !.seen = run.seen \cup {doc.source}]
          /\ pc' = "attach" /\ doc' = doc
          /\ UNCHANGED <<tree, params, points, quiet, losses>>
      BY <1>9, <2>5 DEF SaveRow
    <3>2. run' \in RunRecord BY <1>b, <2>1, <3>1 DEF RunRecord
    <3>3. run'.scanned = run.scanned /\ run'.todo = run.todo
      BY <1>b, <2>1, <3>1 DEF RunRecord
    <3>4. Scanned' = Scanned BY <3>3, ScannedStays
    <3>5. run.scanned \in [Files -> Versions] /\ run.todo \subseteq Scanned
      BY <1>0, <1>b, <2>1, Scanning
    <3> QED BY <1>0, <2>3, <3>1, <3>2, <3>3, <3>4, <3>5 DEF JRTypeOK, PCs
  <2> QED BY <2>4, <2>5
<1>10. ASSUME NEW n \in Names, Attach(n) PROVE JRTypeOK'
  <2>1. pc \in InFile BY <1>10 DEF Attach, InFile
  <2>2. n \in DOMAIN Attached[doc.body] BY <1>10, <1>c, <2>1 DEF Attach
  <2>3. Attached[doc.body][n] \in Texts BY <1>c, <2>1, <2>2, JobRunnerAssumption
  <2>4. <<File, n>> \in Sources BY <1>b, <2>1, SourceShape
  <2>5. doc' \in DocRecord BY <1>a, <1>10, <2>3, <2>4 DEF Attach, DocRecord
  <2>6. Working BY <1>10 DEF Attach, Working, InFile
  <2>7. UNCHANGED <<rows, points>> BY <1>10 DEF Attach
  <2> QED BY <1>0, <1>a, <1>b, <2>1, <2>5, <2>6, <2>7, WorkingType
<1>11. ASSUME NEW s \in Sources, DeleteStalePoints(s) PROVE JRTypeOK'
  <2>1. doc' \in DocRecord BY <1>a, <1>11 DEF DeleteStalePoints, DocRecord
  <2>2. points' \in [Sources -> SUBSET Point] BY <1>a, <1>11 DEF DeleteStalePoints
  <2> QED BY <1>0, <1>a, <1>b, <1>11, <2>1, <2>2, WorkingType DEF DeleteStalePoints, Working, InFile
<1>12. CASE DeleteStaleRow
  <2>1. rows' \in [Sources -> Row \cup {NoRow}]
    BY <1>a, <1>12 DEF DeleteStaleRow, Save
  <2> QED BY <1>0, <1>a, <1>b, <1>12, <2>1, WorkingType DEF DeleteStaleRow, Working, InFile
<1>13. CASE AttachmentsDone
  <2>1. Passed(File)
    BY <1>a, <1>b, <1>13 DEF AttachmentsDone, Passed, InFile
  <2> QED BY <1>0, <1>b, <1>13, <2>1, PassedType DEF AttachmentsDone, InFile
<1> QED BY <1>1, <1>2, <1>3, <1>4, <1>5, <1>6, <1>7, <1>8, <1>9, <1>10, <1>11,
           <1>12, <1>13

(* and so every step keeps the types.                                      *)
LEMMA TypeStep == JRInv /\ [JRNext]_jrVars => JRTypeOK'
<1> SUFFICES ASSUME JRInv, [JRNext]_jrVars PROVE JRTypeOK' OBVIOUS
<1>1. CASE UNCHANGED jrVars
  <2>1. JRTypeOK BY DEF JRInv
  <2>2. Scanned' = Scanned BY <1>1 DEF jrVars, Scanned
  <2> QED BY <1>1, <2>1, <2>2 DEF jrVars, JRTypeOK
<1> QED BY <1>1, TypeStepOutside, TypeStepInside DEF JRNext, RunStep

-----------------------------------------------------------------------------
(* Every step keeps what mode and options say of the place of the run.     *)
LEMMA RunInvStep == JRInv /\ [JRNext]_jrVars => RunInv'
<1> SUFFICES ASSUME JRInv, [JRNext]_jrVars PROVE RunInv' OBVIOUS
<1>0. JRTypeOK /\ RunInv /\ DocInv /\ run \in RunRecord BY DEF JRInv, JRTypeOK
<1>1. ASSUME pc' \in {"next", "extract", "scan", "finish"} PROVE RunInv'
  BY <1>1 DEF RunInv
<1>2. CASE Start
  <2>1. PICK mode \in Modes, scope \in Scopes, force, dry, delete \in BOOLEAN :
          /\ mode # "full" => scope = "job"
          /\ ~delete => mode = "upsert"
          /\ run' = [NoRun EXCEPT !.mode = mode, !.scope = scope, !.force = force,
                                  !.dry = dry, !.delete = delete, !.params = params]
          /\ pc' = IF mode = "full" /\ ~dry THEN "prepare" ELSE "scan"
    BY <1>2, Zenon DEF Start
  <2>2. run'.mode = mode /\ run'.dry = dry BY <2>1 DEF NoRun
  <2>3. CASE mode = "full" /\ ~dry BY <2>1, <2>2, <2>3 DEF RunInv
  <2>4. CASE ~(mode = "full" /\ ~dry) BY <1>1, <2>1, <2>4
  <2> QED BY <2>3, <2>4
<1>3. CASE Abandon \/ Finish \/ GuardRefuses
  BY <1>3 DEF Abandon, Finish, GuardRefuses, Stop, RunInv, NoRun
<1>4. CASE Recreate
  BY <1>0, <1>4 DEF Recreate, RunInv
<1>5. CASE ForgetRows \/ Scan \/ Sweep \/ (\E f \in Files : Hash(f))
  BY <1>1, <1>5 DEF ForgetRows, Scan, Sweep, Hash
<1>6. CASE EndScan
  <2>1. run' = run /\ (EmptyGuard /\ run.seen = {} => pc' # "vanish")
    BY <1>6 DEF EndScan, Allowed
  <2> QED BY <1>0, <1>6, <2>1 DEF EndScan, RunInv
<1>7. CASE DeleteVanishedRow \/ \E s \in Sources : DeleteVanishedPoints(s)
  BY <1>0, <1>7 DEF DeleteVanishedRow, DeleteVanishedPoints, RunInv
<1>8. ASSUME NEW f \in Files, Passed(f) PROVE RunInv'
  BY <1>1, <1>8 DEF Passed, Done
<1>9. ASSUME pc' \in InFile, run'.dry = FALSE PROVE RunInv'
  BY <1>9 DEF InFile, RunInv
<1>10. pc \in InFile => run.dry = FALSE
  BY <1>0 DEF RunInv, InFile, RunRecord
<1>11. CASE \/ Extract \/ Embed \/ DeleteBySource \/ UpsertPoints
            \/ (\E n \in Names : Attach(n)) \/ DeleteStaleRow
            \/ \E s \in Sources : DeleteStalePoints(s)
  <2>1. pc' \in InFile /\ run' = run
    BY <1>11 DEF Extract, Embed, DeleteBySource, UpsertPoints, Attach,
       DeleteStaleRow, DeleteStalePoints, InFile
  <2>2. pc \in InFile \/ ~run.dry
    BY <1>11 DEF Extract, Embed, DeleteBySource, UpsertPoints, Attach,
       DeleteStaleRow, DeleteStalePoints, InFile
  <2> QED BY <1>0, <1>9, <1>10, <2>1, <2>2 DEF RunRecord
<1>12. CASE EmbedMismatch
  BY <1>1, <1>9, <1>10, <1>12 DEF EmbedMismatch, Done, InFile
<1>13. CASE SaveRow
  <2>1. CASE Len(doc.source) = 1 /\ doc.left = {}
    BY <1>1, <1>13, <2>1 DEF SaveRow, Done
  <2>2. CASE ~(Len(doc.source) = 1 /\ doc.left = {})
    <3>1. run' = [run EXCEPT !.seen = run.seen \cup {doc.source}] /\ pc' = "attach"
      BY <1>13, <2>2 DEF SaveRow
    <3>2. run'.dry = run.dry BY <1>0, <3>1 DEF RunRecord
    <3>3. pc \in InFile BY <1>13 DEF SaveRow, InFile
    <3> QED BY <1>9, <1>10, <3>1, <3>2, <3>3 DEF InFile
  <2> QED BY <2>1, <2>2
<1>14. CASE AttachmentsDone
  BY <1>1, <1>14 DEF AttachmentsDone, Done
<1>15. CASE \/ UNCHANGED jrVars \/ (\E f \in Files : ChangeFile(f))
            \/ ChangeParams \/ LoseState
  <2>1. pc' = pc /\ run' = run
    BY <1>15 DEF jrVars, ChangeFile, ChangeParams, LoseState
  <2> QED BY <1>0, <2>1 DEF RunInv
<1>16. CASE \E f \in Files : \/ SkipKnown(f) \/ SkipTooLarge(f)
                             \/ SkipSameStat(f) \/ SkipSameContent(f)
  BY <1>8, <1>16, SkipPasses
<1>17. CASE ExtractNothing \/ SkipSameText \/ ExtractDry
  BY <1>1, <1>17 DEF ExtractNothing, SkipSameText, ExtractDry, Done
<1> QED BY <1>2, <1>3, <1>4, <1>5, <1>6, <1>7, <1>11, <1>12, <1>13, <1>14, <1>15,
           <1>16, <1>17 DEF JRNext, RunStep

(* Passing over a file leaves no document at hand, and the file seen.      *)
LEMMA PassedSeen ==
    ASSUME JRTypeOK, SeenInv, pc \notin BeforeScan, NEW f \in run.todo,
           NEW S \in SUBSET Sources, \A s \in S : s[1] = f, Done(f, S)
    PROVE  DocInv' /\ SeenInv'
<1>1. f \in Files /\ f \in Scanned BY Scanning
<1>2. /\ pc' = "next" /\ run'.todo = run.todo \ {f}
      /\ run'.seen = run.seen \cup {<<f>>} \cup S /\ Scanned' = Scanned
  BY <1>1, DoneType
<1>3. DocInv' BY <1>2 DEF DocInv, InFile
<1>4. ASSUME NEW s \in run'.seen PROVE s[1] \in Scanned
  BY <1>1, <1>2 DEF SeenInv
<1>5. ASSUME NEW g \in Scanned \ run'.todo PROVE <<g>> \in run'.seen
  BY <1>2 DEF SeenInv
<1>6. SeenInv' BY <1>2, <1>4, <1>5 DEF SeenInv, BeforeScan
<1> QED BY <1>3, <1>6

(* Without progress through the files the seen sources stay what they are. *)
LEMMA SeenStays ==
    ASSUME SeenInv, run' = run, pc \in BeforeScan <=> pc' \in BeforeScan
    PROVE  SeenInv'
BY ScannedStays DEF SeenInv

(* Every step keeps what is known of the document at hand and of the seen  *)
(* sources.                                                                *)
LEMMA DocStep == JRInv /\ [JRNext]_jrVars => DocInv' /\ SeenInv'
<1> SUFFICES ASSUME JRInv, [JRNext]_jrVars PROVE DocInv' /\ SeenInv' OBVIOUS
<1>0. JRTypeOK /\ RunInv /\ DocInv /\ SeenInv BY DEF JRInv
<1>a. pc \in InFile \cup {"extract"} =>
        /\ pc \notin BeforeScan /\ File \in run.todo /\ File \in Scanned
        /\ File \in Files /\ doc \in DocRecord /\ doc.source \in Sources
  BY <1>0, AtHand DEF InFile, BeforeScan
<1>1. ASSUME pc' \in {"idle", "prepare", "forget", "scan", "next", "vanish",
                      "sweep", "finish"}
      PROVE  DocInv'
  BY <1>1 DEF DocInv, InFile
<1>2. CASE Start
  <2>1. run = NoRun BY <1>0, <1>2 DEF Start, RunInv
  <2>2. run'.seen = {} /\ pc' \in {"prepare", "scan"} BY <1>2 DEF Start, NoRun
  <2> QED BY <1>1, <2>2 DEF SeenInv, BeforeScan
<1>3. CASE Abandon \/ Finish \/ GuardRefuses
  <2>1. run' = NoRun /\ pc' = "idle"
    BY <1>3 DEF Abandon, Finish, GuardRefuses, Stop
  <2> QED BY <1>1, <2>1 DEF SeenInv, BeforeScan, NoRun
<1>4. CASE Recreate \/ ForgetRows
  <2>1. run' = run /\ pc \in BeforeScan /\ pc' \in {"forget", "scan"}
    BY <1>4 DEF Recreate, ForgetRows, BeforeScan
  <2> QED BY <1>0, <1>1, <2>1, SeenStays DEF BeforeScan
<1>5. CASE Scan
  <2>1. PICK known \in KnownSources :
          run' = [run EXCEPT !.scanned = tree, !.known = known,
                             !.todo = {f \in Files : Bytes(f) # Gone}]
    BY <1>5 DEF Scan
  <2>2. run \in RunRecord /\ tree \in [Files -> Versions] BY <1>0 DEF JRTypeOK
  <2>3. /\ run'.scanned = tree /\ run'.seen = run.seen
        /\ run'.todo = {f \in Files : Bytes(f) # Gone}
    BY <2>1, <2>2 DEF RunRecord
  <2>4. run'.seen = {} BY <1>0, <1>5, <2>3 DEF SeenInv, BeforeScan, Scan
  <2>5. Scanned' = run'.todo BY <2>2, <2>3 DEF Scanned, Bytes
  <2>6. pc' = "next" BY <1>5 DEF Scan
  <2> QED BY <1>1, <2>4, <2>5, <2>6 DEF SeenInv, BeforeScan
<1>6. CASE EndScan \/ Sweep \/ DeleteVanishedRow
  <2>1. run' = run /\ pc \notin BeforeScan /\ pc' \in {"finish", "sweep", "vanish"}
    BY <1>6 DEF EndScan, Sweep, DeleteVanishedRow, BeforeScan
  <2> QED BY <1>0, <1>1, <2>1, SeenStays DEF BeforeScan
<1>7. ASSUME NEW s \in Sources, DeleteVanishedPoints(s) PROVE DocInv' /\ SeenInv'
  <2>1. /\ run' = run /\ rows' = rows /\ pc = "vanish" /\ pc' = "vanishrow"
        /\ s \in Vanished /\ doc' = [doc EXCEPT !.source = s]
    BY <1>7 DEF DeleteVanishedPoints
  <2>2. doc'.source = s BY <1>0, <2>1 DEF JRTypeOK, DocRecord
  <2>3. Vanished' = Vanished BY <2>1 DEF Vanished, Unseen, Recorded
  <2>4. DocInv' BY <2>1, <2>2, <2>3 DEF DocInv, InFile
  <2> QED BY <1>0, <2>1, <2>4, SeenStays DEF BeforeScan
<1>8. CASE UNCHANGED jrVars \/ (\E f \in Files : ChangeFile(f)) \/ ChangeParams
  <2>1. pc' = pc /\ run' = run /\ doc' = doc /\ rows' = rows
    BY <1>8 DEF jrVars, ChangeFile, ChangeParams
  <2>2. Vanished' = Vanished BY <2>1 DEF Vanished, Unseen, Recorded
  <2>3. File' = File BY <2>1 DEF File
  <2>4. DocInv' BY <1>0, <2>1, <2>2, <2>3 DEF DocInv
  <2> QED BY <1>0, <2>1, <2>4, SeenStays
<1>9. CASE LoseState
  <2>1. pc' = pc /\ pc = "idle" /\ run' = run BY <1>9 DEF LoseState
  <2> QED BY <1>0, <1>1, <2>1, SeenStays
<1>10. ASSUME NEW f \in Files, \/ SkipKnown(f) \/ SkipTooLarge(f)
                               \/ SkipSameStat(f) \/ SkipSameContent(f)
       PROVE DocInv' /\ SeenInv'
  BY <1>0, <1>10, SkipPasses, PassedSeen DEF Passed
<1>11. ASSUME NEW f \in Files, Hash(f) PROVE DocInv' /\ SeenInv'
  <2>1. /\ run' = run /\ pc = "next" /\ pc' = "extract" /\ f \in run.todo
        /\ doc' = [NoDoc EXCEPT !.source = <<f>>, !.content = Bytes(f)]
    BY <1>11 DEF Hash
  <2>2. doc'.source = <<f>> /\ doc'.content = Bytes(f) BY <2>1 DEF NoDoc
  <2>3. Bytes(f) \in Contents /\ <<f>> \in Sources
    <3>1. Bytes(f) # Gone /\ tree \in [Files -> Versions]
      BY <1>0, <1>11 DEF Hash, JRTypeOK
    <3> QED BY <3>1, BytesType, SourceShape
  <2>4. File' = f BY <2>2 DEF File
  <2>5. DocInv' BY <2>1, <2>2, <2>3, <2>4 DEF DocInv, InFile
  <2> QED BY <1>0, <2>1, <2>5, SeenStays DEF BeforeScan
<1>12. CASE ExtractNothing \/ SkipSameText \/ ExtractDry
  BY <1>0, <1>12, ExtractPasses, PassedSeen DEF Passed
<1>13. CASE Extract
  <2>1. /\ pc = "extract" /\ pc' = "embed" /\ run' = run
        /\ Bytes(File) # Gone /\ Yield[Bytes(File)] \in Texts
        /\ doc' = [doc EXCEPT !.body = Bytes(File), !.text = Yield[Bytes(File)],
                              !.left = DOMAIN Attached[Bytes(File)]]
    BY <1>13 DEF Extract
  <2>2. /\ doc'.source = doc.source /\ doc'.content = doc.content
        /\ doc'.body = Bytes(File) /\ doc'.text = Yield[Bytes(File)]
        /\ doc'.left = DOMAIN Attached[Bytes(File)]
    BY <1>a, <2>1 DEF DocRecord
  <2>3. Bytes(File) \in Contents
    <3>1. tree \in [Files -> Versions] BY <1>0 DEF JRTypeOK
    <3> QED BY <1>a, <2>1, <3>1, BytesType
  <2>4. File' = File BY <2>2 DEF File
  <2>5. DocInv' BY <1>0, <1>a, <2>1, <2>2, <2>3, <2>4 DEF DocInv, InFile
  <2> QED BY <1>0, <2>1, <2>5, SeenStays DEF BeforeScan
<1>14. ASSUME pc \in InFile, run' = run, doc' = doc,
              pc' \in {"delete", "upsert", "save", "attach"}
       PROVE  DocInv' /\ SeenInv'
  <2>1. File' = File BY <1>14 DEF File
  <2>2. DocInv' BY <1>0, <1>14, <2>1 DEF DocInv, InFile
  <2> QED BY <1>0, <1>a, <1>14, <2>2, SeenStays DEF BeforeScan
<1>15. CASE Embed \/ DeleteBySource \/ UpsertPoints \/ DeleteStaleRow
  BY <1>14, <1>15 DEF Embed, DeleteBySource, UpsertPoints, DeleteStaleRow, InFile
<1>16. ASSUME pc \in InFile, Done(File, {}) PROVE DocInv' /\ SeenInv'
  BY <1>0, <1>a, <1>16, PassedSeen
<1>17. CASE EmbedMismatch
  <2>1. pc \in InFile BY <1>17 DEF EmbedMismatch, InFile
  <2>2. CASE Len(doc.source) = 1
    BY <1>16, <1>17, <2>1, <2>2 DEF EmbedMismatch
  <2>3. CASE Len(doc.source) # 1
    BY <1>14, <1>17, <2>1, <2>3 DEF EmbedMismatch
  <2> QED BY <2>2, <2>3
<1>18. CASE SaveRow
  <2>1. pc \in InFile BY <1>18 DEF SaveRow, InFile
  <2>2. CASE Len(doc.source) = 1 /\ doc.left = {}
    BY <1>16, <1>18, <2>1, <2>2 DEF SaveRow
  <2>3. CASE ~(Len(doc.source) = 1 /\ doc.left = {})
    <3>1. /\ run' = [run EXCEPT !.seen = run.seen \cup {doc.source}]
          /\ pc' = "attach" /\ doc' = doc
      BY <1>18, <2>3 DEF SaveRow
    <3>2. /\ run'.seen = run.seen \cup {doc.source} /\ run'.todo = run.todo
          /\ run'.scanned = run.scanned
      BY <1>0, <3>1 DEF JRTypeOK, RunRecord
    <3>3. File' = File /\ Scanned' = Scanned BY <3>1, <3>2, ScannedStays DEF File
    <3>4. DocInv' BY <1>0, <2>1, <3>1, <3>2, <3>3 DEF DocInv, InFile
    <3>5. doc.source[1] \in Scanned BY <1>a, <2>1 DEF File
    <3>6. SeenInv' BY <1>0, <1>a, <2>1, <3>1, <3>2, <3>3, <3>5 DEF SeenInv, BeforeScan
    <3> QED BY <3>4, <3>6
  <2> QED BY <2>2, <2>3
<1>19. ASSUME NEW n \in Names, Attach(n) PROVE DocInv' /\ SeenInv'
  <2>1. /\ pc = "attach" /\ n \in doc.left /\ run' = run
        /\ pc' \in {"embed", "attach"}
        /\ doc' = [doc EXCEPT !.source = <<File, n>>,
                              !.text = Attached[doc.body][n],
                              !.left = doc.left \ {n}]
    BY <1>19 DEF Attach
  <2>2. pc \in InFile BY <2>1 DEF InFile
  <2>3. /\ doc'.source = <<File, n>> /\ doc'.content = doc.content
        /\ doc'.body = doc.body /\ doc'.text = Attached[doc.body][n]
        /\ doc'.left = doc.left \ {n}
    BY <1>a, <2>1, <2>2 DEF DocRecord
  <2>4. doc.body \in Contents /\ n \in DOMAIN Attached[doc.body]
    BY <1>0, <2>1, <2>2 DEF DocInv
  <2>5. Attached[doc.body][n] \in Texts BY <2>4, JobRunnerAssumption
  <2>6. <<File, n>> \in Sources /\ <<File, n>>[1] = File
    BY <1>a, <2>2, SourceShape
  <2>7. File' = File BY <2>3, <2>6 DEF File
  <2>8. DocInv' BY <1>0, <1>a, <2>1, <2>2, <2>3, <2>5, <2>6, <2>7 DEF DocInv, InFile
  <2> QED BY <1>0, <2>1, <2>8, SeenStays DEF BeforeScan
<1>20. ASSUME NEW s \in Sources, DeleteStalePoints(s) PROVE DocInv' /\ SeenInv'
  <2>1. /\ pc = "attach" /\ s \in Stale /\ run' = run /\ pc' = "stale"
        /\ doc' = [doc EXCEPT !.source = s]
    BY <1>20 DEF DeleteStalePoints
  <2>2. pc \in InFile BY <2>1 DEF InFile
  <2>3. /\ doc'.source = s /\ doc'.content = doc.content /\ doc'.body = doc.body
        /\ doc'.text = doc.text /\ doc'.left = doc.left
    BY <1>a, <2>1, <2>2 DEF DocRecord
  <2>4. PICK n \in Names : s = <<File, n>> /\ n \notin DOMAIN Attached[doc.body]
    BY <2>1 DEF Stale, EmbeddedInState, Attachments
  <2>5. File' = File BY <2>3, <2>4 DEF File
  <2>6. DocInv' BY <1>0, <1>a, <2>1, <2>2, <2>3, <2>4, <2>5 DEF DocInv, InFile
  <2> QED BY <1>0, <2>1, <2>6, SeenStays DEF BeforeScan
<1>21. CASE AttachmentsDone
  BY <1>16, <1>21 DEF AttachmentsDone, InFile
<1> QED BY <1>2, <1>3, <1>4, <1>5, <1>6, <1>7, <1>8, <1>9, <1>10, <1>11, <1>12,
           <1>13, <1>15, <1>17, <1>18, <1>19, <1>20, <1>21 DEF JRNext, RunStep

-----------------------------------------------------------------------------
(* Old points stay whole as points of the past.                            *)
LEMMA AgedHolds ==
    ASSUME NEW s \in Sources, NEW t \in Texts, NEW p \in Params, Holds(s, t, p)
    PROVE  Aged[s] = PointsOf(t, p, "past")
<1>1. PICK gen \in {"this", "past"} : points[s] = PointsOf(t, p, gen)
  BY DEF Holds
<1>2. \A i \in 1..Chunks[t] :
        [[at |-> i, text |-> t, params |-> p, gen |-> gen] EXCEPT !.gen = "past"]
          = [at |-> i, text |-> t, params |-> p, gen |-> "past"]
  OBVIOUS
<1>3. Aged[s] = {[q EXCEPT !.gen = "past"] : q \in PointsOf(t, p, gen)}
  BY <1>1 DEF Aged
<1>4. ASSUME NEW x \in Aged[s] PROVE x \in PointsOf(t, p, "past")
  <2>1. PICK q \in PointsOf(t, p, gen) : x = [q EXCEPT !.gen = "past"] BY <1>3
  <2>2. PICK i \in 1..Chunks[t] :
          q = [at |-> i, text |-> t, params |-> p, gen |-> gen]
    BY <2>1 DEF PointsOf
  <2>3. x = [at |-> i, text |-> t, params |-> p, gen |-> "past"]
    BY <1>2, <2>1, <2>2
  <2> QED BY <2>3 DEF PointsOf
<1>5. ASSUME NEW x \in PointsOf(t, p, "past") PROVE x \in Aged[s]
  <2>1. PICK i \in 1..Chunks[t] :
          x = [at |-> i, text |-> t, params |-> p, gen |-> "past"]
    BY DEF PointsOf
  <2> DEFINE q == [at |-> i, text |-> t, params |-> p, gen |-> gen]
  <2>2. q \in PointsOf(t, p, gen) BY DEF PointsOf
  <2>3. x = [q EXCEPT !.gen = "past"] BY <1>2, <2>1
  <2> HIDE DEF q
  <2> QED BY <1>3, <2>2, <2>3
<1>6. Aged[s] \subseteq PointsOf(t, p, "past") BY <1>4
<1>7. PointsOf(t, p, "past") \subseteq Aged[s] BY <1>5
<1> QED BY <1>6, <1>7

(* A source keeps its points, loses them all, or ages them.                *)
LEMMA WholeStays ==
    ASSUME SourceIsWhole, NEW s \in Sources,
           points'[s] \in {points[s], {}, Aged[s]}
    PROVE  points'[s] # {} => \E t \in Texts, p \in Params : Holds(s, t, p)'
<1> SUFFICES ASSUME points'[s] # {}
             PROVE  \E t \in Texts, p \in Params : Holds(s, t, p)'
  OBVIOUS
<1>1. points[s] # {} BY DEF Aged
<1>2. PICK t \in Texts, p \in Params : Holds(s, t, p) BY <1>1 DEF SourceIsWhole
<1>3. points'[s] = points[s] \/ points'[s] = PointsOf(t, p, "past")
  BY <1>2, AgedHolds
<1> QED BY <1>2, <1>3 DEF Holds

(* The points of all sources but one stay; that one has none any more.     *)
LEMMA DropKeeps ==
    ASSUME SourceIsWhole, points \in [Sources -> SUBSET Point],
           NEW s \in Sources, points' = [points EXCEPT ![s] = {}]
    PROVE  SourceIsWhole' /\ points'[s] = {}
<1>1. \A u \in Sources : points'[u] \in {points[u], {}} BY DEF Aged
<1> QED BY <1>1, WholeStays DEF SourceIsWhole

(* Every step keeps sources whole, and points go first.                    *)
LEMMA PointStep == JRInv /\ [JRNext]_jrVars => GoneFirst' /\ SourceIsWhole'
<1> SUFFICES ASSUME JRInv, [JRNext]_jrVars PROVE GoneFirst' /\ SourceIsWhole'
  OBVIOUS
<1>0. /\ JRTypeOK /\ DocInv /\ GoneFirst /\ SourceIsWhole
      /\ points \in [Sources -> SUBSET Point] /\ doc \in DocRecord
  BY DEF JRInv, JRTypeOK
<1>1. ASSUME points' = points PROVE SourceIsWhole'
  BY <1>0, <1>1, WholeStays DEF SourceIsWhole
<1>2. ASSUME pc' \notin {"upsert", "stale", "vanishrow"} PROVE GoneFirst'
  BY <1>2 DEF GoneFirst
<1>3. CASE Abandon \/ Finish \/ GuardRefuses
  <2>1. points' = Aged /\ pc' = "idle"
    BY <1>3 DEF Abandon, Finish, GuardRefuses, Stop
  <2>2. SourceIsWhole' BY <1>0, <2>1, WholeStays DEF SourceIsWhole
  <2> QED BY <1>2, <2>1, <2>2
<1>4. CASE Recreate
  <2>1. pc' = "forget" /\ \A s \in Sources : points'[s] = {}
    BY <1>4 DEF Recreate
  <2>2. SourceIsWhole' BY <2>1 DEF SourceIsWhole
  <2> QED BY <1>2, <2>1, <2>2
<1>5. CASE Sweep
  <2>1. pc' = "finish" BY <1>5 DEF Sweep
  <2>2. ASSUME NEW s \in Sources PROVE points'[s] \in {points[s], {}}
    <3>1. points'[s] = {q \in points[s] : q.gen = "this"} BY <1>5 DEF Sweep
    <3>2. CASE points[s] = {} BY <3>1, <3>2
    <3>3. CASE points[s] # {}
      <4>1. PICK t \in Texts, p \in Params : Holds(s, t, p)
        BY <1>0, <3>3 DEF SourceIsWhole
      <4>2. PICK gen \in {"this", "past"} : points[s] = PointsOf(t, p, gen)
        BY <4>1 DEF Holds
      <4>3. \A q \in points[s] : q.gen = gen BY <4>2 DEF PointsOf
      <4>4. CASE gen = "this"
        <5>1. points'[s] = points[s] BY <3>1, <4>3, <4>4
        <5> QED BY <5>1
      <4>5. CASE gen = "past"
        <5>1. points'[s] = {} BY <3>1, <4>3, <4>5
        <5> QED BY <5>1
      <4> QED BY <4>4, <4>5
    <3> QED BY <3>2, <3>3
  <2>3. SourceIsWhole' BY <1>0, <2>2, WholeStays DEF SourceIsWhole
  <2> QED BY <1>2, <2>1, <2>3
<1>6. CASE DeleteBySource
  <2>1. doc.source \in Sources BY <1>0, <1>6 DEF DeleteBySource, DocInv, InFile
  <2>2. doc' = doc /\ points' = [points EXCEPT ![doc.source] = {}]
    BY <1>6 DEF DeleteBySource
  <2>3. SourceIsWhole' /\ points'[doc.source] = {} BY <1>0, <2>1, <2>2, DropKeeps
  <2> QED BY <2>2, <2>3 DEF GoneFirst
<1>7. ASSUME NEW s \in Sources, DeleteStalePoints(s) \/ DeleteVanishedPoints(s)
      PROVE GoneFirst' /\ SourceIsWhole'
  <2>1. doc' = [doc EXCEPT !.source = s] /\ points' = [points EXCEPT ![s] = {}]
    BY <1>7 DEF DeleteStalePoints, DeleteVanishedPoints
  <2>2. doc'.source = s BY <1>0, <2>1 DEF DocRecord
  <2>3. SourceIsWhole' /\ points'[s] = {} BY <1>0, <2>1, DropKeeps
  <2> QED BY <2>2, <2>3 DEF GoneFirst
<1>8. CASE UpsertPoints
  <2>1. /\ doc.source \in Sources /\ doc.text \in Texts /\ points[doc.source] = {}
    BY <1>0, <1>8 DEF UpsertPoints, DocInv, GoneFirst, InFile
  <2>2. run.params \in Params BY <1>0 DEF JRTypeOK, RunRecord
  <2>3. Overwritten(doc.source, PointsOf(doc.text, run.params, "this"))
          = PointsOf(doc.text, run.params, "this")
    BY <2>1 DEF Overwritten
  <2>4. points' = [points EXCEPT ![doc.source] = PointsOf(doc.text, run.params, "this")]
    BY <1>8, <2>3 DEF UpsertPoints
  <2>5. Holds(doc.source, doc.text, run.params)'
    <3>1. points'[doc.source] = PointsOf(doc.text, run.params, "this")
      BY <1>0, <2>1, <2>4
    <3>2. doc' = doc /\ run' = run BY <1>8 DEF UpsertPoints
    <3> QED BY <3>1, <3>2 DEF Holds
  <2>6. \A s \in Sources \ {doc.source} : points'[s] = points[s]
    BY <1>0, <2>4
  <2>7. SourceIsWhole'
    <3> SUFFICES ASSUME NEW s \in Sources, points'[s] # {}
                 PROVE  \E t \in Texts, p \in Params : Holds(s, t, p)'
      BY DEF SourceIsWhole
    <3>1. CASE s = doc.source
      <4>1. doc' = doc /\ run' = run BY <1>8 DEF UpsertPoints
      <4> QED BY <2>1, <2>2, <2>5, <3>1, <4>1 DEF Holds
    <3>2. CASE s # doc.source BY <1>0, <2>6, <3>2, WholeStays
    <3> QED BY <3>1, <3>2
  <2>8. pc' = "save" BY <1>8 DEF UpsertPoints
  <2> QED BY <1>2, <2>7, <2>8
<1>9. CASE \/ Start \/ ForgetRows \/ Scan \/ EndScan \/ DeleteVanishedRow
           \/ (\E f \in Files : \/ SkipKnown(f) \/ SkipTooLarge(f) \/ SkipSameStat(f)
                                \/ SkipSameContent(f) \/ Hash(f))
           \/ ExtractNothing \/ SkipSameText \/ ExtractDry \/ Extract
           \/ Embed \/ EmbedMismatch \/ SaveRow
           \/ (\E n \in Names : Attach(n)) \/ DeleteStaleRow \/ AttachmentsDone
  <2>1. points' = points /\ pc' \notin {"upsert", "stale", "vanishrow"}
    BY <1>9 DEF Start, ForgetRows, Scan, EndScan, DeleteVanishedRow, SkipKnown,
       SkipTooLarge, SkipSameStat, SkipSameContent, Hash, ExtractNothing,
       SkipSameText, ExtractDry, Extract, Embed, EmbedMismatch, SaveRow, Attach,
       DeleteStaleRow, AttachmentsDone, Done
  <2> QED BY <1>1, <1>2, <2>1
<1>10. CASE \/ UNCHANGED jrVars \/ (\E f \in Files : ChangeFile(f))
            \/ ChangeParams \/ LoseState
  <2>1. points' = points /\ pc' = pc /\ doc' = doc
    BY <1>10 DEF jrVars, ChangeFile, ChangeParams, LoseState
  <2> QED BY <1>0, <1>1, <2>1 DEF GoneFirst
<1> QED BY <1>3, <1>4, <1>5, <1>6, <1>7, <1>8, <1>9, <1>10 DEF JRNext, RunStep
-----------------------------------------------------------------------------
(* The program starts with nothing written and no run.                     *)
LEMMA JRInitInv == JRInit => JRInv
<1> SUFFICES ASSUME JRInit PROVE JRInv OBVIOUS
<1>1. NoRun \in RunRecord BY JobRunnerAssumption DEF RunRecord, NoRun, Params
<1>2. NoDoc \in DocRecord BY DEF DocRecord, NoDoc
<1>3. 1 \in Params /\ 0 \in 0..StateLosses BY JobRunnerAssumption DEF Params
<1>4. JRTypeOK BY <1>1, <1>2, <1>3 DEF JRInit, JRTypeOK, PCs
<1>5. RunInv BY DEF JRInit, RunInv, NoRun
<1>6. DocInv BY DEF JRInit, DocInv, InFile
<1>7. SeenInv BY DEF JRInit, SeenInv, BeforeScan, NoRun
<1>8. GoneFirst /\ SourceIsWhole BY DEF JRInit, GoneFirst, SourceIsWhole
<1> QED BY <1>4, <1>5, <1>6, <1>7, <1>8 DEF JRInv

(* JRInv holds in every reachable state of a job's runs, whatever the run  *)
(* was doing when it was cut short.                                        *)
THEOREM JobRunnerInvariant == JRSpec => []JRInv
<1>1. JRInv /\ [JRNext]_jrVars => JRInv'
  BY TypeStep, RunInvStep, DocStep, PointStep DEF JRInv
<1> QED BY <1>1, JRInitInv, PTL DEF JRSpec

(* The types of the state hold for all files, versions and options.        *)
THEOREM JobRunnerTypes == JRSpec => []JRTypeOK
<1>1. JRInv => JRTypeOK BY DEF JRInv
<1> QED BY <1>1, JobRunnerInvariant, PTL

(* The points of a source are all of one text under one set of parameters  *)
(* and of one generation, whatever call was the last one of a run: deleting *)
(* by source before the upsert is what makes shrinking documents safe      *)
(* (runner.py:511-513).                                                    *)
THEOREM SourcesStayWhole == JRSpec => []SourceIsWhole
<1>1. JRInv => SourceIsWhole BY DEF JRInv
<1> QED BY <1>1, JobRunnerInvariant, PTL

(* A dry run writes no row and no point, for every sequence of files and   *)
(* decisions it goes through (runner.py:354-361).                          *)
THEOREM DryRunsTouchNothing == JRSpec => DryRunTouchesNothing
<1>1. ASSUME JRInv, [JRNext]_jrVars
      PROVE  [run.dry => rows' = rows /\ points' \in {points, Aged}]_jrVars
  <2> SUFFICES ASSUME JRNext, run.dry
               PROVE  rows' = rows /\ points' \in {points, Aged}
    BY <1>1
  <2>1. pc \in {"scan", "next", "extract", "finish"} \/ pc = "idle"
    BY <1>1 DEF JRInv, RunInv
  <2>2. pc # "idle" BY <1>1 DEF JRInv, RunInv, NoRun
  <2>3. CASE Start \/ Scan \/ ExtractDry \/ Extract \/ EndScan \/ ChangeParams
             \/ \E f \in Files : SkipKnown(f) \/ SkipSameStat(f) \/ Hash(f)
                                 \/ ChangeFile(f)
    BY <2>3 DEF Start, Scan, ExtractDry, Extract, EndScan, ChangeParams,
       SkipKnown, SkipSameStat, Hash, ChangeFile
  <2>4. CASE Abandon \/ GuardRefuses \/ Finish
    BY <2>4 DEF Abandon, GuardRefuses, Finish, Stop
  <2>5. CASE ExtractNothing \/ SkipSameText
             \/ \E f \in Files : SkipTooLarge(f) \/ SkipSameContent(f)
    BY <2>5 DEF ExtractNothing, SkipSameText, SkipTooLarge, SkipSameContent,
       SaveUnlessDry
  <2>6. CASE \/ Recreate \/ ForgetRows \/ Embed \/ EmbedMismatch \/ DeleteBySource
             \/ UpsertPoints \/ SaveRow \/ (\E n \in Names : Attach(n))
             \/ (\E s \in Sources : DeleteStalePoints(s) \/ DeleteVanishedPoints(s))
             \/ DeleteStaleRow \/ AttachmentsDone \/ DeleteVanishedRow \/ Sweep
             \/ LoseState
    BY <2>1, <2>2, <2>6 DEF Recreate, ForgetRows, Embed, EmbedMismatch,
       DeleteBySource, UpsertPoints, SaveRow, Attach, DeleteStalePoints,
       DeleteVanishedPoints, DeleteStaleRow, AttachmentsDone, DeleteVanishedRow,
       Sweep, LoseState
  <2> QED BY <2>3, <2>4, <2>5, <2>6 DEF JRNext, RunStep
<1> QED BY <1>1, JobRunnerInvariant, PTL DEF JRSpec, DryRunTouchesNothing
(* Writing a row drops none.                                               *)
LEMMA SaveKeeps ==
    ASSUME rows \in [Sources -> Row \cup {NoRow}], NEW s \in Sources, NEW r \in Row,
           Save(s, r) \/ SaveUnlessDry(s, r), NEW u \in Sources, rows[u] # NoRow
    PROVE  rows'[u] # NoRow
<1>1. r # NoRow BY JobRunnerAssumption
<1> QED BY <1>1 DEF Save, SaveUnlessDry

(* The steps that write the row of a file or an attachment drop no row.    *)
LEMMA WritersKeep ==
    ASSUME JRInv, NEW u \in Sources, rows[u] # NoRow,
           \/ \E f \in Files : SkipTooLarge(f) \/ SkipSameContent(f)
           \/ ExtractNothing \/ SkipSameText \/ EmbedMismatch \/ SaveRow
    PROVE  rows'[u] # NoRow
<1>0. JRTypeOK /\ DocInv /\ rows \in [Sources -> Row \cup {NoRow}]
  BY DEF JRInv, JRTypeOK
<1>1. ASSUME NEW f \in Files, SkipTooLarge(f) PROVE rows'[u] # NoRow
  <2>1. pc \notin BeforeScan BY <1>1 DEF SkipTooLarge, BeforeScan
  <2>2. NewRow(f, NoContent, NoText, "skipped_too_large") \in Row
    BY <1>0, <2>1, NewRowType
  <2> QED BY <1>0, <1>1, <2>2, SaveKeeps, SourceShape DEF SkipTooLarge
<1>2. ASSUME NEW f \in Files, SkipSameContent(f) PROVE rows'[u] # NoRow
  <2>1. pc \notin BeforeScan BY <1>2 DEF SkipSameContent, BeforeScan
  <2>2. run.scanned \in [Files -> Versions] BY <1>0, <2>1, Scanning
  <2>3. rows[<<f>>] \in Row
    BY <1>0, <1>2, SourceShape DEF SkipSameContent, SameContent, HasRow
  <2>4. [rows[<<f>>] EXCEPT !.stat = Stat(f)] \in Row
    BY <2>2, <2>3 DEF Stat, Row
  <2> QED BY <1>0, <1>2, <2>4, SaveKeeps, SourceShape DEF SkipSameContent
<1>3. pc \in InFile \cup {"extract"} => pc \notin BeforeScan
  BY DEF InFile, BeforeScan
<1>4. CASE ExtractNothing
  <2>1. pc = "extract" /\ doc.content \in Contents BY <1>0, <1>4 DEF ExtractNothing, DocInv
  <2>2. File \in Files /\ <<File>> \in Sources BY <1>0, <2>1, AtHand
  <2>3. PICK y \in Failures : SaveUnlessDry(<<File>>, NewRow(File, doc.content, NoText, y))
    BY <1>4 DEF ExtractNothing
  <2>4. NewRow(File, doc.content, NoText, y) \in Row
    BY <1>0, <1>3, <2>1, <2>2, NewRowType
  <2> QED BY <1>0, <2>2, <2>3, <2>4, SaveKeeps
<1>5. CASE SkipSameText
  <2>1. pc = "extract" /\ doc.content \in Contents BY <1>0, <1>5 DEF SkipSameText, DocInv
  <2>2. File \in Files /\ <<File>> \in Sources BY <1>0, <2>1, AtHand
  <2>3. run.scanned \in [Files -> Versions] BY <1>0, <1>3, <2>1, Scanning
  <2>4. rows[<<File>>] \in Row
    BY <1>0, <1>5, <2>2 DEF SkipSameText, SameText, HasRow
  <2>5. [rows[<<File>>] EXCEPT !.stat = Stat(File), !.content = doc.content] \in Row
    BY <2>1, <2>2, <2>3, <2>4 DEF Stat, Row
  <2> QED BY <1>0, <1>5, <2>2, <2>5, SaveKeeps DEF SkipSameText
<1>6. CASE EmbedMismatch \/ SaveRow
  <2>1. pc \in InFile BY <1>6 DEF EmbedMismatch, SaveRow, InFile
  <2>2. File \in Files /\ doc.source \in Sources /\ doc.content \in Contents
        /\ doc.text \in Texts
    BY <1>0, <2>1, AtHand DEF DocInv
  <2>3. \A status \in {"indexed", "failed_embed"} :
          NewRow(File, doc.content, doc.text, status) \in Row
    BY <1>0, <1>3, <2>1, <2>2, NewRowType
  <2> QED BY <1>0, <1>6, <2>2, <2>3, SaveKeeps DEF EmbedMismatch, SaveRow
<1> QED BY <1>1, <1>2, <1>4, <1>5, <1>6

(* The row of a stale attachment, and of a vanished source, may go.        *)
LEMMA DropIsDue ==
    ASSUME JRInv, DeleteStaleRow \/ DeleteVanishedRow, NEW s \in Sources,
           rows[s] # NoRow, rows'[s] = NoRow
    PROVE  /\ points[s] = {}
           /\ \/ /\ s[1] \notin Scanned /\ (EmptyGuard => Scanned # {})
                 /\ run.delete /\ ~run.dry
              \/ Len(s) = 2 /\ s[1] \in Scanned
                 /\ s \notin {<<s[1], n>> : n \in DOMAIN Attached[doc.body]}
<1>0. /\ JRTypeOK /\ RunInv /\ DocInv /\ SeenInv /\ GoneFirst
      /\ rows \in [Sources -> Row \cup {NoRow}]
  BY DEF JRInv, JRTypeOK
<1>1. rows' = [rows EXCEPT ![doc.source] = NoRow]
  BY DEF DeleteStaleRow, DeleteVanishedRow, Save
<1>2. s = doc.source BY <1>0, <1>1
<1>3. points[s] = {} BY <1>0, <1>2 DEF GoneFirst, DeleteStaleRow, DeleteVanishedRow
<1>4. CASE DeleteStaleRow
  <2>1. pc = "stale" /\ pc \in InFile BY <1>4 DEF DeleteStaleRow, InFile
  <2>2. File \in Scanned BY <1>0, <2>1, AtHand
  <2>3. PICK n \in Names : n \notin DOMAIN Attached[doc.body] /\ s = <<File, n>>
    BY <1>0, <1>2, <2>1 DEF DocInv
  <2>4. s[1] = File /\ Len(s) = 2 BY <2>3
  <2>5. \A m : <<File, m>> = <<File, n>> => m = n OBVIOUS
  <2>6. s \notin {<<s[1], m>> : m \in DOMAIN Attached[doc.body]}
    BY <2>3, <2>4, <2>5
  <2> QED BY <1>3, <2>2, <2>4, <2>6
<1>5. CASE DeleteVanishedRow
  <2>1. pc = "vanishrow" BY <1>5 DEF DeleteVanishedRow
  <2>2. /\ run.delete /\ ~run.dry /\ run.todo = {}
        /\ EmptyGuard => run.seen # {}
    BY <1>0, <2>1 DEF RunInv
  <2>3. /\ \A u \in run.seen : u[1] \in Scanned
        /\ \A f \in Scanned \ run.todo : <<f>> \in run.seen
    BY <1>0, <2>1 DEF SeenInv, BeforeScan
  <2>4. <<s[1]>> \notin run.seen BY <1>0, <1>2, <2>1 DEF DocInv, Vanished
  <2>5. s[1] \notin Scanned BY <2>2, <2>3, <2>4
  <2>6. EmptyGuard => Scanned # {} BY <2>2, <2>3
  <2> QED BY <1>3, <2>2, <2>5, <2>6
<1> QED BY <1>4, <1>5

(* An upsert run drops a row only for a source whose points are gone: of a *)
(* file missing from a scan that was not empty, in a run that may delete,  *)
(* or an attachment its re-indexed file no longer has (runner.py:284-311,  *)
(* 612-623; guards.py).                                                    *)
THEOREM UpsertsDropOnlyVanished == JRSpec => UpsertDropsOnlyVanished
<1> DEFINE Due(s) ==
      /\ points[s] = {}
      /\ \/ /\ s[1] \notin Scanned /\ (EmptyGuard => Scanned # {})
            /\ run.delete /\ ~run.dry
         \/ Len(s) = 2 /\ s[1] \in Scanned
            /\ s \notin {<<s[1], n>> : n \in DOMAIN Attached[doc.body]}
<1>1. ASSUME JRInv, JRNext, run.mode = "upsert", NEW s \in Sources,
             rows[s] # NoRow, rows'[s] = NoRow
      PROVE  Due(s)
  <2>1. CASE DeleteStaleRow \/ DeleteVanishedRow BY <1>1, <2>1, DropIsDue
  <2>2. ASSUME rows' = rows PROVE Due(s) BY <1>1, <2>2
  <2>3. CASE \/ Start \/ Abandon \/ Recreate \/ Scan \/ EndScan \/ GuardRefuses
             \/ (\E f \in Files : SkipKnown(f) \/ SkipSameStat(f) \/ Hash(f)
                                  \/ ChangeFile(f))
             \/ ExtractDry \/ Extract \/ Embed \/ DeleteBySource \/ UpsertPoints
             \/ (\E n \in Names : Attach(n))
             \/ (\E u \in Sources : DeleteStalePoints(u) \/ DeleteVanishedPoints(u))
             \/ AttachmentsDone \/ Sweep \/ Finish \/ ChangeParams
    <3>1. rows' = rows
      BY <2>3 DEF Start, Abandon, Recreate, Scan, EndScan, GuardRefuses, SkipKnown,
         SkipSameStat, Hash, ChangeFile, ExtractDry, Extract, Embed, DeleteBySource,
         UpsertPoints, Attach, DeleteStalePoints, DeleteVanishedPoints,
         AttachmentsDone, Sweep, Finish, ChangeParams
    <3> QED BY <2>2, <3>1
  <2>4. CASE \/ \E f \in Files : SkipTooLarge(f) \/ SkipSameContent(f)
             \/ ExtractNothing \/ SkipSameText \/ EmbedMismatch \/ SaveRow
    BY <1>1, <2>4, WritersKeep
  <2>5. CASE ForgetRows \/ LoseState
    <3>1. run.mode # "upsert"
      BY <1>1, <2>5 DEF ForgetRows, LoseState, JRInv, RunInv, NoRun
    <3> QED BY <1>1, <3>1
  <2> QED BY <1>1, <2>1, <2>3, <2>4, <2>5 DEF JRNext, RunStep
<1>2. JRInv /\ [JRNext]_jrVars =>
        [run.mode = "upsert" =>
           \A s \in Sources : rows[s] # NoRow /\ rows'[s] = NoRow => Due(s)]_jrVars
  BY <1>1
<1> QED BY <1>2, JobRunnerInvariant, PTL DEF JRSpec, UpsertDropsOnlyVanished

-----------------------------------------------------------------------------
(* What the rows say of the files, over the whole history of a job: the    *)
(* versions a row was made of are in order, and none is later than what a  *)
(* run has scanned.  The three stages of the change detection compare with *)
(* the row alone (runner.py:358-408), which is enough as long as           *)

\* what was replaced does not come back: of two versions with the same bytes,
\* or the same text, those between them have them too.
NothingReturns ==
    \A u, v, w \in Versions :
        /\ u < v /\ v < w /\ w \notin TooLarge
        /\ Content[u] # Gone /\ Content[w] # Gone
        => /\ Content[u] = Content[w] => Content[v] = Content[w]
           /\ Yield[Content[u]] = Yield[Content[w]] /\ Yield[Content[w]] \in Texts
              => Content[v] # Gone /\ Yield[Content[v]] = Yield[Content[w]]

\* The document at hand is the file itself, up to its row.
Main ==
    pc = "extract" \/ (pc \in {"embed", "delete", "upsert", "save"} /\ doc.source = <<File>>)
\* The run has read f for the last time, and written its row if it does.
Decided(f) ==
    /\ pc \notin BeforeScan /\ f \in Scanned
    /\ f \notin run.todo \/ (pc \in InFile /\ File = f /\ ~Main)
\* The versions and parameters that can be in the row of f.
VersionBound(f) == IF pc \in BeforeScan \/ Decided(f) THEN tree[f] ELSE Stat(f)
ParamBound(f) == IF pc = "idle" \/ Decided(f) THEN params ELSE run.params

\* What the run goes by is what was there when it began and when it scanned.
RunOptions ==
    /\ pc # "idle" => run.params <= params /\ (quiet => run.params = params)
    /\ pc \notin BeforeScan =>
         /\ \A f \in Files : Stat(f) <= tree[f] /\ (quiet => Stat(f) = tree[f])
         /\ run.mode # "append" => run.known = {}

\* What has been done where the run is now.
RunPlace ==
    /\ pc \in {"sweep", "finish"} => run.todo = {}
    /\ pc = "sweep" => run.mode = "full"
    /\ Main => Stat(File) \notin TooLarge
    /\ pc = "save" => points[doc.source] = PointsOf(doc.text, run.params, "this")
    /\ pc = "finish" /\ run.mode = "upsert" /\ run.delete /\ ~run.dry => Vanished = {}

PlaceInv == RunOptions /\ RunPlace

\* A file the run has decided about has its row, unless append left it alone.
UpToDate ==
    \A f \in Files : Decided(f) /\ ~run.dry /\ run.mode # "append" =>
        /\ rows[<<f>>] # NoRow
        /\ rows[<<f>>].stat = Stat(f) /\ rows[<<f>>].params = run.params

\* Points of this run are only those of files it has found.
OldPoints ==
    \A f \in Files : pc \in BeforeScan \/ f \notin Scanned =>
        \A q \in points[<<f>>] : q.gen = "past"

\* A full run finds no row, and what it indexes outlives its sweep.
FullWrites ==
    run.mode = "full" /\ ~run.dry =>
      \A f \in Files :
        /\ pc \notin {"idle", "prepare", "forget"} /\ ~Decided(f) => rows[<<f>>] = NoRow
        /\ Decided(f) /\ rows[<<f>>].status = "indexed" =>
             \A q \in points[<<f>>] : q.gen = "this"
        /\ pc = "finish" => \A q \in points[<<f>>] : q.gen = "this"

WrittenInv == UpToDate /\ OldPoints /\ FullWrites

\* Some stage of the change detection may pass over f on its row, now or at
\* a later version.
Alive(r, v) ==
    \E w \in Versions :
        /\ v <= w /\ Content[w] # Gone /\ w \notin TooLarge
        /\ \/ r.stat = w
           \/ r.content = Content[w]
           \/ r.text = Yield[Content[w]]

\* What the row of f was made of, in the order it was read.
ReadInOrder(r, first, last) ==
    \E v, w \in first..last :
        /\ v <= w /\ Content[v] # Gone /\ Content[w] # Gone
        /\ r.content = Content[v] /\ r.text = Yield[Content[w]] /\ r.text \in Texts

RowTruthful(f) ==
    LET r == rows[<<f>>] IN
    r # NoRow =>
      /\ r.stat <= VersionBound(f) /\ r.params <= ParamBound(f)
      /\ r.status = "indexed" =>
           /\ r.stat \notin TooLarge
           /\ ReadInOrder(r, 1, VersionBound(f))
           /\ r.stat = tree[f] /\ Bytes(f) # Gone => r.text = Yield[Bytes(f)]
           /\ r.params = params /\ Alive(r, tree[f]) => Holds(<<f>>, r.text, r.params)

\* The row of the file at hand is not one that lets it be passed over.
Dead(f) ==
    LET r == rows[<<f>>] IN
    r # NoRow /\ r.status = "indexed" /\ r.params = params => ~Alive(r, tree[f])

ReadingInv ==
    /\ pc = "extract" =>
         /\ \E v \in Stat(File)..tree[File] : doc.content = Content[v]
         /\ HasRow(File) => /\ rows[<<File>>].stat # Stat(File)
                            /\ rows[<<File>>].content # doc.content
    /\ Main /\ pc # "extract" =>
         /\ ReadInOrder(doc, Stat(File), tree[File])
         /\ Dead(File)

HistInv == (\A f \in Files : RowTruthful(f)) /\ ReadingInv

\* What has become of the attachments that are done.
Kept(n) ==
    Chunks[Attached[doc.body][n]] > 0 =>
        /\ rows[<<File, n>>] # NoRow
        /\ rows[<<File, n>>].status = "indexed"
           => Holds(<<File, n>>, Attached[doc.body][n], run.params)
AttachInv ==
    pc \in InFile =>
        /\ \A n \in DOMAIN Attached[doc.body] :
             doc.source = <<File, n>> /\ pc # "attach" =>
               doc.text = Attached[doc.body][n] /\ n \notin doc.left
        /\ \A n \in DOMAIN Attached[doc.body] \ doc.left :
             doc.source # <<File, n>> \/ pc = "attach" => Kept(n)

(* Versions are numbers, from 1.                                           *)
LEMMA VersionNumbers ==
    /\ 1 \in Versions
    /\ \A v \in Versions : v \in Nat /\ 1 <= v
BY JobRunnerAssumption DEF Versions

(* So are those between two of them.                                       *)
LEMMA VersionsBetween ==
    ASSUME NEW a \in Versions, NEW b \in Versions, NEW v \in a..b
    PROVE  v \in Versions /\ v \in Nat /\ a <= v /\ v <= b
BY JobRunnerAssumption DEF Versions

(* Fewer versions are left to pass over a row as a file goes on.           *)
LEMMA AliveShrinks ==
    ASSUME NEW r, NEW v \in Versions, NEW w \in Versions, v <= w, Alive(r, w)
    PROVE  Alive(r, v)
<1>1. v \in Nat /\ w \in Nat BY VersionNumbers
<1>2. PICK x \in Versions :
        /\ w <= x /\ Content[x] # Gone /\ x \notin TooLarge
        /\ r.stat = x \/ r.content = Content[x] \/ r.text = Yield[Content[x]]
  BY DEF Alive
<1>3. x \in Nat BY VersionNumbers
<1>4. v <= x BY <1>1, <1>2, <1>3
<1> QED BY <1>2, <1>4 DEF Alive

(* What was read between two versions was read in any longer stretch.      *)
LEMMA ReadWider ==
    ASSUME NEW r, NEW a \in Versions, NEW b \in Versions, NEW c \in Versions,
           NEW d \in Versions, c <= a, b <= d, ReadInOrder(r, a, b)
    PROVE  ReadInOrder(r, c, d)
<1>1. a \in Nat /\ b \in Nat /\ c \in Nat /\ d \in Nat BY VersionNumbers
<1>2. \A v \in a..b : v \in c..d BY <1>1
<1> QED BY <1>2 DEF ReadInOrder

(* Three versions that NothingReturns speaks of, and what it says of them. *)
Between(u, v, w) == /\ u < v /\ v < w /\ w \notin TooLarge
                    /\ Content[u] # Gone /\ Content[w] # Gone
BytesStay(u, v, w) == Content[u] = Content[w] => Content[v] = Content[w]
TextStays(u, v, w) == Yield[Content[u]] = Yield[Content[w]] /\ Yield[Content[w]] \in Texts
                     => Content[v] # Gone /\ Yield[Content[v]] = Yield[Content[w]]

LEMMA NothingBetween ==
    NothingReturns => \A u, v, w \in Versions :
        Between(u, v, w) => BytesStay(u, v, w) /\ TextStays(u, v, w)
BY Zenon DEF NothingReturns, Between, BytesStay, TextStays

(* Two files with the same bytes have none with others in between,         *)
LEMMA BytesDoNotReturn ==
    ASSUME NothingReturns,
           NEW u \in Versions, NEW v \in Versions, NEW w \in Versions,
           u < v, v < w, w \notin TooLarge, Content[u] # Gone, Content[w] # Gone,
           Content[u] = Content[w]
    PROVE  Content[v] = Content[w]
<1>1. Between(u, v, w) BY DEF Between
<1>2. BytesStay(u, v, w) BY <1>1, NothingBetween, Zenon
<1> QED BY <1>2 DEF BytesStay

(* and two with the same text none with another.                           *)
LEMMA TextsDoNotReturn ==
    ASSUME NothingReturns,
           NEW u \in Versions, NEW v \in Versions, NEW w \in Versions,
           u < v, v < w, w \notin TooLarge, Content[u] # Gone, Content[w] # Gone,
           Yield[Content[u]] = Yield[Content[w]], Yield[Content[w]] \in Texts
    PROVE  Content[v] # Gone /\ Yield[Content[v]] = Yield[Content[w]]
<1>1. Between(u, v, w) BY DEF Between
<1>2. TextStays(u, v, w) BY <1>1, NothingBetween, Zenon
<1> QED BY <1>2 DEF TextStays

(* A row made before the file was found gone is never passed over again,   *)
LEMMA GoneKills ==
    ASSUME NothingReturns, NEW r \in Row, NEW b \in Versions, NEW v \in Versions,
           b <= v, Content[b] = Gone, r.stat <= b, ReadInOrder(r, 1, b)
    PROVE  ~Alive(r, v)
<1> SUFFICES ASSUME Alive(r, v) PROVE FALSE OBVIOUS
<1>1. PICK w \in Versions :
        /\ v <= w /\ Content[w] # Gone /\ w \notin TooLarge
        /\ r.stat = w \/ r.content = Content[w] \/ r.text = Yield[Content[w]]
  BY DEF Alive
<1>2. b \in Nat /\ v \in Nat /\ w \in Nat BY VersionNumbers
<1>3. b < w BY <1>1, <1>2
<1>4. PICK x, y \in 1..b : /\ Content[x] # Gone /\ Content[y] # Gone
                           /\ r.content = Content[x] /\ r.text = Yield[Content[y]]
                           /\ r.text \in Texts
  BY DEF ReadInOrder
<1>5. x \in Versions /\ y \in Versions /\ x <= b /\ y <= b /\ x \in Nat /\ y \in Nat
  BY VersionNumbers, VersionsBetween
<1>6. x # b /\ y # b BY <1>4
<1>7. x < b /\ y < b BY <1>2, <1>5, <1>6
<1>8. r.stat # w
  <2>1. r.stat \in Versions BY DEF Row
  <2>2. r.stat \in Nat BY <2>1, VersionNumbers
  <2> QED BY <1>2, <1>3, <2>2
<1>9. ASSUME r.content = Content[w] PROVE FALSE
  <2>1. Content[x] = Content[w] BY <1>4, <1>9
  <2>2. Content[b] = Content[w]
    BY <1>1, <1>3, <1>4, <1>5, <1>7, <2>1, BytesDoNotReturn, Zenon
  <2> QED BY <1>1, <2>2
<1>10. ASSUME r.text = Yield[Content[w]] PROVE FALSE
  <2>1. Yield[Content[y]] = Yield[Content[w]] /\ Yield[Content[w]] \in Texts
    BY <1>4, <1>10
  <2>2. Content[b] # Gone
    BY <1>1, <1>3, <1>4, <1>5, <1>7, <2>1, TextsDoNotReturn, Zenon
  <2> QED BY <2>2
<1> QED BY <1>1, <1>8, <1>9, <1>10

(* nor is one that another text has been read after.                       *)
LEMMA ReadingKills ==
    ASSUME NothingReturns, NEW r \in Row, NEW s \in Versions, NEW v \in Versions,
           NEW t \in Versions, s <= v, v <= t, r.stat < s, ReadInOrder(r, 1, s),
           Content[v] # Gone, r.content # Content[v],
           Content[t] # Gone, r.text # Yield[Content[t]]
    PROVE  ~Alive(r, t)
<1> SUFFICES ASSUME Alive(r, t) PROVE FALSE OBVIOUS
<1>1. PICK w \in Versions :
        /\ t <= w /\ Content[w] # Gone /\ w \notin TooLarge
        /\ r.stat = w \/ r.content = Content[w] \/ r.text = Yield[Content[w]]
  BY DEF Alive
<1>2. PICK x, y \in 1..s : /\ Content[x] # Gone /\ Content[y] # Gone
                           /\ r.content = Content[x] /\ r.text = Yield[Content[y]]
                           /\ r.text \in Texts
  BY DEF ReadInOrder
<1>3. s \in Nat /\ v \in Nat /\ t \in Nat /\ w \in Nat BY VersionNumbers
<1>4. x \in Versions /\ y \in Versions /\ x <= s /\ y <= s /\ x \in Nat /\ y \in Nat
  BY VersionNumbers, VersionsBetween
<1>5. r.stat # w
  <2>1. r.stat \in Versions BY DEF Row
  <2>2. r.stat \in Nat BY <2>1, VersionNumbers
  <2> QED BY <1>1, <1>3, <2>2
<1>6. r.content # Content[w]
  <2>1. x # v /\ (v = w => r.content # Content[w]) BY <1>2
  <2>2. x < v /\ (v # w => v < w) BY <1>1, <1>3, <1>4, <2>1
  <2>3. ASSUME r.content = Content[w] PROVE FALSE
    <3>1. v # w /\ Content[x] = Content[w] BY <1>2, <2>1, <2>3
    <3>2. x < v /\ v < w BY <2>2, <3>1
    <3>3. Content[x] # Gone /\ x \in Versions BY <1>2, <1>4
    <3>4. Content[v] = Content[w]
      <4>1. Between(x, v, w) BY <1>1, <3>2, <3>3 DEF Between
      <4>2. BytesStay(x, v, w) BY <3>3, <4>1, NothingBetween, Zenon
      <4> QED BY <3>1, <4>2 DEF BytesStay
    <3> QED BY <2>3, <3>4
  <2> QED BY <2>3
<1>7. r.text # Yield[Content[w]]
  <2>1. y # t /\ (t = w => r.text # Yield[Content[w]]) BY <1>2
  <2>2. y < t /\ (t # w => t < w) BY <1>1, <1>3, <1>4, <2>1
  <2>3. ASSUME r.text = Yield[Content[w]] PROVE FALSE
    <3>1. /\ t # w /\ Yield[Content[y]] = Yield[Content[w]]
          /\ Yield[Content[w]] \in Texts
      BY <1>2, <2>1, <2>3
    <3>2. y < t /\ t < w BY <2>2, <3>1
    <3>3. Content[y] # Gone /\ y \in Versions BY <1>2, <1>4
    <3>4. Yield[Content[t]] = Yield[Content[w]]
      <4>1. Between(y, t, w) BY <1>1, <3>2, <3>3 DEF Between
      <4>2. TextStays(y, t, w) BY <3>3, <4>1, NothingBetween, Zenon
      <4> QED BY <3>1, <4>2 DEF TextStays
    <3> QED BY <2>3, <3>4
  <2> QED BY <2>3
<1> QED BY <1>1, <1>5, <1>6, <1>7

(* Types of what the bounds are made of.                                   *)
Bounded ==
    \A f \in Files :
        /\ tree[f] \in Versions /\ VersionBound(f) \in Versions
        /\ tree[f] \in Nat /\ VersionBound(f) \in Nat
        /\ VersionBound(f) <= tree[f]
        /\ params \in Nat /\ ParamBound(f) \in Nat /\ ParamBound(f) <= params

(* The bounds are versions and parameters, none later than the present.    *)
LEMMA Bounds == JRTypeOK /\ PlaceInv => Bounded
<1> SUFFICES ASSUME JRTypeOK, PlaceInv, NEW f \in Files
             PROVE  /\ tree[f] \in Versions /\ VersionBound(f) \in Versions
                    /\ tree[f] \in Nat /\ VersionBound(f) \in Nat
                    /\ VersionBound(f) <= tree[f]
                    /\ params \in Nat /\ ParamBound(f) \in Nat
                    /\ ParamBound(f) <= params
  BY DEF Bounded
<1>1. tree[f] \in Versions BY DEF JRTypeOK
<1>2. tree[f] \in Nat BY <1>1, VersionNumbers
<1>3. params \in Nat /\ run.params \in Nat BY DEF JRTypeOK, RunRecord, Params
<1>4. VersionBound(f) \in Versions /\ VersionBound(f) <= tree[f]
  <2>1. CASE pc \in BeforeScan \/ Decided(f)
    BY <1>1, <1>2, <2>1 DEF VersionBound
  <2>2. CASE ~(pc \in BeforeScan \/ Decided(f))
    <3>1. VersionBound(f) = Stat(f) BY <2>2 DEF VersionBound
    <3>2. run.scanned \in [Files -> Versions] BY <2>2, Scanning
    <3>3. Stat(f) \in Versions BY <3>2 DEF Stat
    <3>4. Stat(f) <= tree[f] BY <2>2 DEF PlaceInv, RunOptions
    <3> QED BY <3>1, <3>3, <3>4
  <2> QED BY <2>1, <2>2
<1>5. ParamBound(f) \in Nat /\ ParamBound(f) <= params
  <2>1. pc # "idle" => run.params <= params BY DEF PlaceInv, RunOptions
  <2> QED BY <1>3, <2>1 DEF ParamBound
<1>6. VersionBound(f) \in Nat BY <1>4, VersionNumbers
<1> QED BY <1>1, <1>2, <1>3, <1>4, <1>5, <1>6

(* The row of a file and its points stay truthful when nothing moves but   *)
(* what the bounds allow for; a row that is dead may lose its points.      *)
LEMMA RowStays ==
    ASSUME JRTypeOK, JRTypeOK', PlaceInv, PlaceInv', NEW f \in Files, RowTruthful(f),
           rows'[<<f>>] = rows[<<f>>], tree[f] <= tree'[f], params <= params',
           VersionBound(f) <= VersionBound(f)', ParamBound(f) <= ParamBound(f)',
           \/ \A t \in Texts, p \in Params : Holds(<<f>>, t, p) => Holds(<<f>>, t, p)'
           \/ Dead(f)
    PROVE  RowTruthful(f)'
<1> DEFINE r == rows[<<f>>]
<1>0. Bounded /\ Bounded' BY Bounds, PTL
<1>1. CASE r = NoRow BY <1>1 DEF RowTruthful
<1>2. CASE r # NoRow
  <2>1. r \in Row /\ r' = r BY <1>2, SourceShape DEF JRTypeOK
  <2>2. r.stat \in Nat /\ r.params \in Nat /\ r.params \in Params
    <3>1. r.stat \in Versions /\ r.params \in Params BY <2>1 DEF Row
    <3> QED BY <3>1, VersionNumbers DEF Params
  <2>3. /\ tree[f] \in Versions /\ VersionBound(f) \in Versions
        /\ tree[f] \in Nat /\ VersionBound(f) \in Nat
        /\ VersionBound(f) <= tree[f]
        /\ params \in Nat /\ ParamBound(f) \in Nat /\ ParamBound(f) <= params
    BY <1>0 DEF Bounded
  <2>4. /\ tree'[f] \in Versions /\ VersionBound(f)' \in Versions
        /\ tree'[f] \in Nat /\ VersionBound(f)' \in Nat
        /\ VersionBound(f)' <= tree'[f]
        /\ params' \in Nat /\ ParamBound(f)' \in Nat /\ ParamBound(f)' <= params'
    BY <1>0 DEF Bounded
  <2>5. r.stat <= VersionBound(f)' /\ r.params <= ParamBound(f)'
    <3>1. r.stat <= VersionBound(f) /\ r.params <= ParamBound(f)
      BY <1>2 DEF RowTruthful
    <3> QED BY <2>2, <2>3, <2>4, <3>1
  <2>6. ASSUME r.status = "indexed"
        PROVE  /\ r.stat \notin TooLarge
               /\ ReadInOrder(r, 1, VersionBound(f)')
               /\ r.stat = tree'[f] /\ Bytes(f)' # Gone => r.text = Yield[Bytes(f)']
               /\ r.params = params' /\ Alive(r, tree'[f]) => Holds(<<f>>, r.text, r.params)'
    <3>1. /\ r.stat \notin TooLarge
          /\ r.stat <= VersionBound(f) /\ r.params <= ParamBound(f)
          /\ ReadInOrder(r, 1, VersionBound(f))
          /\ r.stat = tree[f] /\ Bytes(f) # Gone => r.text = Yield[Bytes(f)]
          /\ r.params = params /\ Alive(r, tree[f]) => Holds(<<f>>, r.text, r.params)
      BY <1>2, <2>6 DEF RowTruthful
    <3>2. ReadInOrder(r, 1, VersionBound(f)')
      <4>1. 1 \in Versions BY VersionNumbers
      <4> QED BY <2>3, <2>4, <3>1, <4>1, ReadWider
    <3>3. r.stat = tree'[f] => tree'[f] = tree[f]
      BY <2>2, <2>3, <2>4, <3>1
    <3>4. r.params = params' => params' = params BY <2>2, <2>3, <2>4, <3>1
    <3>5. Alive(r, tree'[f]) => Alive(r, tree[f])
      BY <2>3, <2>4, AliveShrinks
    <3>6. r.text \in Texts BY <3>1 DEF ReadInOrder
    <3>7. Dead(f) => (r.params = params => ~Alive(r, tree[f]))
      BY <1>2, <2>6 DEF Dead
    <3> QED BY <2>2, <3>1, <3>2, <3>3, <3>4, <3>5, <3>6, <3>7 DEF Bytes
  <2> HIDE DEF r
  <2> QED BY <2>1, <2>5, <2>6 DEF RowTruthful, r
<1> QED BY <1>1, <1>2

-----------------------------------------------------------------------------
\* The steps of a run after its scan that decide about no file,
Proceeds ==
    \/ (\E f \in Files : Hash(f)) \/ Extract \/ Embed \/ DeleteBySource \/ UpsertPoints
    \/ (\E n \in Names : Attach(n)) \/ (\E s \in Sources : DeleteStalePoints(s))
    \/ DeleteStaleRow \/ EndScan \/ (\E s \in Sources : DeleteVanishedPoints(s))
    \/ DeleteVanishedRow \/ Sweep
\* and those that decide about f.
Decides(f) ==
    \/ SkipKnown(f) \/ SkipTooLarge(f) \/ SkipSameStat(f) \/ SkipSameContent(f)
    \/ /\ f = File
       /\ \/ ExtractNothing \/ SkipSameText \/ ExtractDry
          \/ EmbedMismatch \/ SaveRow \/ AttachmentsDone
InRun == Proceeds \/ \E f \in Files : Decides(f)

(* They leave the tree, the parameters and the options of the run.         *)
LEMMA InRunStays ==
    ASSUME JRInv, InRun
    PROVE  /\ pc \notin BeforeScan /\ pc' \notin BeforeScan
           /\ UNCHANGED <<tree, params, quiet, losses>>
           /\ run'.scanned = run.scanned /\ run'.params = run.params
           /\ run'.mode = run.mode /\ run'.dry = run.dry
           /\ run'.delete = run.delete /\ run'.known = run.known
           /\ run'.todo \subseteq run.todo
           /\ Scanned' = Scanned
<1>0. JRTypeOK /\ DocInv /\ run \in RunRecord BY DEF JRInv, JRTypeOK
<1>1. ASSUME NEW f \in Files, NEW S, Done(f, S), pc \notin BeforeScan,
             UNCHANGED <<tree, params, quiet, losses>>
      PROVE  /\ pc \notin BeforeScan /\ pc' \notin BeforeScan
             /\ UNCHANGED <<tree, params, quiet, losses>>
             /\ run'.scanned = run.scanned /\ run'.params = run.params
             /\ run'.mode = run.mode /\ run'.dry = run.dry
             /\ run'.delete = run.delete /\ run'.known = run.known
             /\ run'.todo \subseteq run.todo
  <2>1. run' = [run EXCEPT !.todo = run.todo \ {f},
                           !.seen = run.seen \cup {<<f>>} \cup S] /\ pc' = "next"
    BY <1>1 DEF Done
  <2> QED BY <1>0, <1>1, <2>1 DEF RunRecord, BeforeScan
<1>2. ASSUME Proceeds
      PROVE  /\ pc \notin BeforeScan /\ pc' \notin BeforeScan
             /\ run' = run /\ UNCHANGED <<tree, params, quiet, losses>>
  BY <1>2 DEF Proceeds, BeforeScan, Hash, Extract, Embed, DeleteBySource, UpsertPoints,
     Attach, DeleteStalePoints, DeleteStaleRow, EndScan, DeleteVanishedPoints,
     DeleteVanishedRow, Sweep
<1>3. ASSUME NEW f \in Files, Decides(f)
      PROVE  /\ pc \notin BeforeScan /\ pc' \notin BeforeScan
             /\ UNCHANGED <<tree, params, quiet, losses>>
             /\ run'.scanned = run.scanned /\ run'.params = run.params
             /\ run'.mode = run.mode /\ run'.dry = run.dry
             /\ run'.delete = run.delete /\ run'.known = run.known
             /\ run'.todo \subseteq run.todo
  <2>1. CASE SkipKnown(f) \/ SkipTooLarge(f) \/ SkipSameStat(f) \/ SkipSameContent(f)
    BY <1>1, <2>1 DEF SkipKnown, SkipTooLarge, SkipSameStat, SkipSameContent, BeforeScan
  <2>2. CASE f = File /\ (ExtractNothing \/ SkipSameText \/ ExtractDry \/ AttachmentsDone)
    BY <1>1, <2>2 DEF ExtractNothing, SkipSameText, ExtractDry, AttachmentsDone, BeforeScan
  <2>3. CASE f = File /\ EmbedMismatch
    <3>1. pc \notin BeforeScan /\ UNCHANGED <<tree, params, quiet, losses>>
      BY <2>3 DEF EmbedMismatch, BeforeScan
    <3>2. CASE Len(doc.source) = 1 BY <1>1, <2>3, <3>1, <3>2 DEF EmbedMismatch
    <3>3. CASE Len(doc.source) # 1
      BY <2>3, <3>1, <3>3 DEF EmbedMismatch, BeforeScan
    <3> QED BY <3>2, <3>3
  <2>4. CASE f = File /\ SaveRow
    <3>1. pc \notin BeforeScan /\ UNCHANGED <<tree, params, quiet, losses>>
      BY <2>4 DEF SaveRow, BeforeScan
    <3>2. CASE Len(doc.source) = 1 /\ doc.left = {}
      BY <1>1, <2>4, <3>1, <3>2 DEF SaveRow
    <3>3. CASE ~(Len(doc.source) = 1 /\ doc.left = {})
      <4>1. run' = [run EXCEPT !.seen = run.seen \cup {doc.source}] /\ pc' = "attach"
        BY <2>4, <3>3 DEF SaveRow
      <4> QED BY <1>0, <3>1, <4>1 DEF RunRecord, BeforeScan
    <3> QED BY <3>2, <3>3
  <2> QED BY <1>3, <2>1, <2>2, <2>3, <2>4 DEF Decides
<1>4. run'.scanned = run.scanned BY <1>2, <1>3 DEF InRun
<1> QED BY <1>2, <1>3, <1>4, ScannedStays DEF InRun

(* A document other than the file itself is one of its attachments.        *)
LEMMA OneOrTwo ==
    ASSUME NEW s \in Sources
    PROVE  /\ Len(s) = 1 <=> s = <<s[1]>>
           /\ Len(s) = 1 \/ \E n \in Names : s = <<s[1], n>>
BY DEF Sources

(* What is decided about.                                                  *)
LEMMA Deciding ==
    ASSUME JRInv, NEW g \in Files, Decides(g)
    PROVE  \A f \in Files : Decided(f)' <=> f = g \/ Decided(f)
<1>0. JRTypeOK /\ DocInv /\ run \in RunRecord BY DEF JRInv, JRTypeOK
<1>1. /\ pc \notin BeforeScan /\ pc' \notin BeforeScan /\ Scanned' = Scanned
  BY InRunStays DEF InRun
<1>2. ASSUME NEW S, Done(g, S), g \in Scanned, NEW f \in Files,
             pc \in InFile => File = g
      PROVE  Decided(f)' <=> f = g \/ Decided(f)
  <2>1. run'.todo = run.todo \ {g} /\ pc' = "next"
    BY <1>0, <1>2 DEF Done, RunRecord
  <2>2. Decided(f)' <=> f \in Scanned /\ f \notin run.todo \ {g}
    BY <1>1, <2>1 DEF Decided, InFile
  <2>3. Decided(f) /\ f \in run.todo => f = g BY <1>2 DEF Decided
  <2> QED BY <1>1, <1>2, <2>2, <2>3 DEF Decided
<1>3. CASE SkipKnown(g) \/ SkipTooLarge(g) \/ SkipSameStat(g) \/ SkipSameContent(g)
  <2>1. PICK S : Done(g, S) /\ g \in run.todo /\ pc \notin InFile
    BY <1>3 DEF SkipKnown, SkipTooLarge, SkipSameStat, SkipSameContent, InFile
  <2>2. g \in Scanned BY <1>0, <1>1, <2>1, Scanning
  <2> QED BY <1>2, <2>1, <2>2
<1>4. CASE g = File /\ (ExtractNothing \/ SkipSameText \/ ExtractDry \/ AttachmentsDone)
  <2>1. PICK S : Done(g, S) /\ pc \in InFile \cup {"extract"}
    BY <1>4 DEF ExtractNothing, SkipSameText, ExtractDry, AttachmentsDone, InFile
  <2>2. g \in Scanned BY <1>0, <1>4, <2>1, AtHand
  <2> QED BY <1>2, <1>4, <2>1, <2>2
<1>5. ASSUME pc \in InFile, g = File, pc' = "attach", doc' = doc, run'.todo = run.todo,
             NEW f \in Files
      PROVE  Decided(f)' <=> f = g \/ Decided(f)
  <2>1. g \in Scanned BY <1>0, <1>5, AtHand
  <2>2. File' = File /\ ~Main' /\ pc' \in InFile BY <1>5 DEF File, Main, InFile
  <2>3. Decided(f)' <=> f \in Scanned /\ (f \notin run.todo \/ f = g)
    BY <1>1, <1>5, <2>2 DEF Decided
  <2>4. Decided(f) => f \in Scanned /\ (f \notin run.todo \/ f = g) BY <1>5 DEF Decided
  <2>5. f \in Scanned /\ f \notin run.todo => Decided(f) BY <1>1 DEF Decided
  <2> QED BY <2>1, <2>3, <2>4, <2>5
<1>6. CASE g = File /\ EmbedMismatch
  <2>1. pc \in InFile BY <1>6 DEF EmbedMismatch, InFile
  <2>2. g \in Scanned BY <1>0, <1>6, <2>1, AtHand
  <2>3. CASE Len(doc.source) = 1 BY <1>2, <1>6, <2>2, <2>3 DEF EmbedMismatch
  <2>4. CASE Len(doc.source) # 1 BY <1>5, <1>6, <2>1, <2>4 DEF EmbedMismatch
  <2> QED BY <2>3, <2>4
<1>7. CASE g = File /\ SaveRow
  <2>1. pc \in InFile BY <1>7 DEF SaveRow, InFile
  <2>2. g \in Scanned BY <1>0, <1>7, <2>1, AtHand
  <2>3. CASE Len(doc.source) = 1 /\ doc.left = {} BY <1>2, <1>7, <2>2, <2>3 DEF SaveRow
  <2>4. CASE ~(Len(doc.source) = 1 /\ doc.left = {})
    <3>1. run' = [run EXCEPT !.seen = run.seen \cup {doc.source}] /\ pc' = "attach"
          /\ doc' = doc
      BY <1>7, <2>4 DEF SaveRow
    <3>2. run'.todo = run.todo BY <1>0, <3>1 DEF RunRecord
    <3> QED BY <1>5, <1>7, <2>1, <3>1, <3>2
  <2> QED BY <2>3, <2>4
<1> QED BY <1>3, <1>4, <1>6, <1>7 DEF Decides

(* The other calls of a run decide about nothing.                          *)
LEMMA Proceeding ==
    ASSUME JRInv, Proceeds
    PROVE  \A f \in Files : Decided(f)' <=> Decided(f)
<1>0. JRTypeOK /\ DocInv BY DEF JRInv
<1>1. /\ pc \notin BeforeScan /\ pc' \notin BeforeScan /\ Scanned' = Scanned
  BY InRunStays DEF InRun
<1>2. run' = run
  BY DEF Proceeds, Hash, Extract, Embed, DeleteBySource, UpsertPoints, Attach,
     DeleteStalePoints, DeleteStaleRow, EndScan, DeleteVanishedPoints, DeleteVanishedRow,
     Sweep
<1>3. ASSUME pc \in InFile /\ ~Main <=> pc' \in InFile /\ ~Main',
             pc \in InFile /\ ~Main => File' = File
      PROVE  \A f \in Files : Decided(f)' <=> Decided(f)
  BY <1>1, <1>2, <1>3 DEF Decided
<1>4. ASSUME pc \notin InFile \/ Main, pc' \notin InFile \/ Main'
      PROVE  \A f \in Files : Decided(f)' <=> Decided(f)
  BY <1>1, <1>2, <1>4 DEF Decided
<1>5. CASE (\E f \in Files : Hash(f)) \/ EndScan \/ Sweep \/ DeleteVanishedRow
           \/ \E s \in Sources : DeleteVanishedPoints(s)
  <2>1. pc \notin InFile /\ pc' \notin InFile
    BY <1>5 DEF Hash, EndScan, Sweep, DeleteVanishedRow, DeleteVanishedPoints, InFile
  <2> QED BY <1>4, <2>1
<1>6. CASE Extract
  <2>1. pc = "extract" /\ pc' = "embed" BY <1>6 DEF Extract
  <2>2. doc \in DocRecord /\ doc.source = <<File>> BY <1>0, <2>1 DEF DocInv, JRTypeOK
  <2>3. doc'.source = doc.source BY <1>6, <2>2 DEF Extract, DocRecord
  <2>4. Main /\ Main' BY <2>1, <2>2, <2>3 DEF Main, File
  <2> QED BY <1>4, <2>4
<1>7. CASE Embed \/ DeleteBySource \/ UpsertPoints
  <2>1. /\ pc \in {"embed", "delete", "upsert"} /\ pc' \in {"delete", "upsert", "save"}
        /\ doc' = doc
    BY <1>7 DEF Embed, DeleteBySource, UpsertPoints
  <2>2. File' = File /\ (Main' <=> Main) BY <2>1 DEF File, Main
  <2> QED BY <1>3, <2>1, <2>2 DEF InFile
<1>8. ASSUME pc \in {"attach", "stale"}, pc' \in {"embed", "attach", "stale"}, NEW n \in Names,
             doc'.source = <<File, n>>
      PROVE  \A f \in Files : Decided(f)' <=> Decided(f)
  <2>1. pc \in InFile /\ pc' \in InFile /\ ~Main BY <1>8 DEF InFile, Main
  <2>2. File' = File BY <1>8 DEF File
  <2>3. doc'.source # <<File'>> BY <1>8
  <2>4. ~Main' BY <1>8, <2>3 DEF Main
  <2> QED BY <1>3, <2>1, <2>2, <2>4
<1>9. ASSUME NEW n \in Names, Attach(n)
      PROVE  \A f \in Files : Decided(f)' <=> Decided(f)
  <2>1. doc \in DocRecord BY <1>0 DEF JRTypeOK
  <2>2. doc'.source = <<File, n>> BY <1>9, <2>1 DEF Attach, DocRecord
  <2>3. pc = "attach" /\ pc' \in {"embed", "attach"} BY <1>9 DEF Attach
  <2> QED BY <1>8, <2>2, <2>3
<1>10. ASSUME NEW s \in Sources, DeleteStalePoints(s)
       PROVE  \A f \in Files : Decided(f)' <=> Decided(f)
  <2>1. doc \in DocRecord BY <1>0 DEF JRTypeOK
  <2>2. doc'.source = s BY <1>10, <2>1 DEF DeleteStalePoints, DocRecord
  <2>3. PICK n \in Names : s = <<File, n>>
    BY <1>10 DEF DeleteStalePoints, Stale, EmbeddedInState, Attachments
  <2>4. pc = "attach" /\ pc' = "stale" BY <1>10 DEF DeleteStalePoints
  <2> QED BY <1>8, <2>2, <2>3, <2>4
<1>11. CASE DeleteStaleRow
  <2>1. pc = "stale" /\ pc' = "attach" /\ doc' = doc BY <1>11 DEF DeleteStaleRow
  <2>2. PICK n \in Names : doc.source = <<File, n>> BY <1>0, <2>1 DEF DocInv
  <2> QED BY <1>8, <2>1, <2>2
<1> QED BY <1>5, <1>6, <1>7, <1>9, <1>10, <1>11 DEF Proceeds

-----------------------------------------------------------------------------
\* What moves around a run.
Around == (\E f \in Files : ChangeFile(f)) \/ ChangeParams \/ LoseState \/ UNCHANGED jrVars

(* It leaves the run as it is, and files and parameters only go on.        *)
LEMMA AroundStays ==
    ASSUME JRTypeOK, Around
    PROVE  /\ pc' = pc /\ run' = run /\ doc' = doc /\ points' = points
           /\ Scanned' = Scanned /\ File' = File
           /\ rows' = rows \/ (pc = "idle" /\ rows' = [s \in Sources |-> NoRow])
           /\ \A f \in Files : tree[f] <= tree'[f] /\ (Decided(f)' <=> Decided(f))
           /\ params <= params'
           /\ quiet' => quiet /\ tree' = tree /\ params' = params
<1>1. /\ tree \in [Files -> Versions] /\ params \in Nat
      /\ \A f \in Files : tree[f] \in Nat
  BY VersionNumbers DEF JRTypeOK, Params
<1>2. /\ pc' = pc /\ run' = run /\ doc' = doc /\ points' = points
      /\ rows' = rows \/ (pc = "idle" /\ rows' = [s \in Sources |-> NoRow])
  BY DEF Around, ChangeFile, ChangeParams, LoseState, jrVars
<1>3. Scanned' = Scanned /\ File' = File BY <1>2, ScannedStays DEF File
<1>4. (Main' <=> Main) BY <1>2, <1>3 DEF Main
<1>5. \A f \in Files : Decided(f)' <=> Decided(f) BY <1>2, <1>3, <1>4 DEF Decided
<1>6. CASE \E f \in Files : ChangeFile(f)
  <2>1. PICK f \in Files : ChangeFile(f) BY <1>6
  <2>2. PICK v \in Versions : v > tree[f] /\ tree' = [tree EXCEPT ![f] = v]
    BY <2>1 DEF ChangeFile
  <2>3. v \in Nat BY VersionNumbers
  <2>4. \A g \in Files : tree[g] <= tree'[g] BY <1>1, <2>2, <2>3
  <2>5. quiet' = FALSE /\ params' = params BY <2>1 DEF ChangeFile
  <2> QED BY <1>1, <1>2, <1>3, <1>5, <2>4, <2>5
<1>7. CASE ChangeParams
  <2>1. params' = params + 1 /\ quiet' = FALSE /\ tree' = tree BY <1>7 DEF ChangeParams
  <2> QED BY <1>1, <1>2, <1>3, <1>5, <2>1
<1>8. CASE LoseState \/ UNCHANGED jrVars
  <2>1. params' = params /\ quiet' = quiet /\ tree' = tree BY <1>8 DEF LoseState, jrVars
  <2> QED BY <1>1, <1>2, <1>3, <1>5, <2>1
<1> QED BY <1>6, <1>7, <1>8 DEF Around

\* The steps before a run's scan, and at its end.
Opening == Start \/ Recreate \/ ForgetRows
Ending == Abandon \/ GuardRefuses \/ Finish

(* All the steps there are.                                                *)
LEMMA AllSteps ==
    ASSUME JRInv, [JRNext]_jrVars
    PROVE  Around \/ Opening \/ Scan \/ InRun \/ Ending
<1>1. CASE \E f \in Files : \/ SkipKnown(f) \/ SkipTooLarge(f) \/ SkipSameStat(f)
                            \/ SkipSameContent(f)
  BY <1>1 DEF InRun, Decides
<1>2. CASE ExtractNothing \/ SkipSameText \/ ExtractDry \/ EmbedMismatch \/ SaveRow
           \/ AttachmentsDone
  <2>1. pc \in InFile \cup {"extract"}
    BY <1>2 DEF ExtractNothing, SkipSameText, ExtractDry, EmbedMismatch, SaveRow,
       AttachmentsDone, InFile
  <2>2. File \in Files BY <2>1, AtHand DEF JRInv
  <2> QED BY <1>2, <2>2 DEF InRun, Decides
<1>3. CASE \/ (\E f \in Files : Hash(f)) \/ Extract \/ Embed \/ DeleteBySource
           \/ UpsertPoints \/ (\E n \in Names : Attach(n))
           \/ (\E s \in Sources : DeleteStalePoints(s)) \/ DeleteStaleRow \/ EndScan
           \/ (\E s \in Sources : DeleteVanishedPoints(s)) \/ DeleteVanishedRow \/ Sweep
  BY <1>3 DEF InRun, Proceeds
<1> QED BY <1>1, <1>2, <1>3 DEF JRNext, RunStep, Around, Opening, Ending

(* Every step keeps what the run goes by,                                  *)
LEMMA OptionsStep == JRInv /\ RunOptions /\ [JRNext]_jrVars => RunOptions'
<1> SUFFICES ASSUME JRInv, RunOptions, [JRNext]_jrVars PROVE RunOptions' OBVIOUS
<1>0. JRTypeOK /\ run \in RunRecord /\ params \in Nat /\ run.params \in Nat
      /\ tree \in [Files -> Versions] /\ \A f \in Files : tree[f] \in Nat
  BY VersionNumbers DEF JRInv, JRTypeOK, RunRecord, Params
<1>1. CASE Around
  <2>1. /\ pc' = pc /\ run' = run /\ params' \in Nat /\ params <= params'
        /\ \A f \in Files : tree[f] <= tree'[f] /\ tree'[f] \in Nat
        /\ quiet' => quiet /\ tree' = tree /\ params' = params
    <3>1. JRTypeOK' BY TypeStep
    <3> QED BY <1>0, <1>1, <3>1, AroundStays, VersionNumbers DEF JRTypeOK, Params
  <2>2. pc \notin BeforeScan => \A f \in Files : Stat(f) \in Nat /\ Stat(f)' = Stat(f)
    <3>1. pc \notin BeforeScan => run.scanned \in [Files -> Versions] BY <1>0, Scanning
    <3> QED BY <2>1, <3>1, VersionNumbers DEF Stat
  <2> QED BY <1>0, <2>1, <2>2 DEF RunOptions
<1>2. CASE Opening
  <2>1. CASE Start
    <3>1. run'.params = params BY <1>0, <2>1 DEF Start, NoRun
    <3>2. pc' \in BeforeScan /\ params' = params BY <2>1 DEF Start, BeforeScan
    <3> QED BY <1>0, <3>1, <3>2 DEF RunOptions
  <2>2. CASE Recreate \/ ForgetRows
    BY <2>2 DEF Recreate, ForgetRows, RunOptions, BeforeScan
  <2> QED BY <1>2, <2>1, <2>2 DEF Opening
<1>3. CASE Scan
  <2>1. PICK known \in KnownSources :
          run' = [run EXCEPT !.scanned = tree, !.known = known,
                             !.todo = {f \in Files : Bytes(f) # Gone}]
    BY <1>3 DEF Scan
  <2>2. /\ run'.scanned = tree /\ run'.known = known /\ run'.params = run.params
        /\ run'.mode = run.mode
    BY <1>0, <2>1 DEF RunRecord
  <2>3. run.mode # "append" => known = {} BY DEF KnownSources
  <2>4. pc # "idle" /\ pc' = "next" /\ UNCHANGED <<tree, params, quiet>>
    BY <1>3 DEF Scan
  <2>5. \A f \in Files : Stat(f)' = tree'[f] BY <2>2, <2>4 DEF Stat
  <2> QED BY <1>0, <2>2, <2>3, <2>4, <2>5 DEF RunOptions
<1>4. CASE InRun
  <2>1. /\ pc \notin BeforeScan /\ pc' \notin BeforeScan /\ UNCHANGED <<tree, params, quiet>>
        /\ run'.scanned = run.scanned /\ run'.params = run.params
        /\ run'.mode = run.mode /\ run'.known = run.known
    BY <1>4, InRunStays
  <2>2. pc # "idle" BY <2>1 DEF BeforeScan
  <2>3. \A f \in Files : Stat(f)' = Stat(f) BY <2>1 DEF Stat
  <2> QED BY <2>1, <2>2, <2>3 DEF RunOptions
<1>5. CASE Ending
  <2>1. pc' = "idle" BY <1>5 DEF Ending, Abandon, GuardRefuses, Finish, Stop
  <2> QED BY <2>1 DEF RunOptions, BeforeScan
<1> QED BY <1>1, <1>2, <1>3, <1>4, <1>5, AllSteps

(* and what has been done where it is.                                     *)
LEMMA PlaceStep == JRInv /\ RunPlace /\ [JRNext]_jrVars => RunPlace'
<1> SUFFICES ASSUME JRInv, RunPlace, [JRNext]_jrVars PROVE RunPlace' OBVIOUS
<1>0. /\ JRTypeOK /\ RunInv /\ DocInv /\ run \in RunRecord /\ doc \in DocRecord
      /\ points \in [Sources -> SUBSET Point] /\ rows \in [Sources -> Row \cup {NoRow}]
  BY DEF JRInv, JRTypeOK
<1>1. ASSUME pc' \notin {"sweep", "finish", "save"}, Main' => Stat(File)' \notin TooLarge
      PROVE  RunPlace'
  BY <1>1 DEF RunPlace
<1>2. ASSUME pc' \in {"idle", "prepare", "forget", "scan", "next", "attach", "stale",
                      "vanish", "vanishrow"}
      PROVE  RunPlace'
  BY <1>1, <1>2 DEF Main
<1>3. CASE Around
  <2>1. /\ pc' = pc /\ run' = run /\ doc' = doc /\ points' = points /\ File' = File
        /\ rows' = rows \/ pc = "idle"
    BY <1>0, <1>3, AroundStays
  <2>2. CASE rows' = rows
    <3>1. Vanished' = Vanished BY <2>1, <2>2 DEF Vanished, Unseen, Recorded
    <3>2. Main' <=> Main BY <2>1 DEF Main
    <3>3. Stat(File)' = Stat(File) BY <2>1 DEF Stat
    <3> QED BY <2>1, <3>1, <3>2, <3>3 DEF RunPlace
  <2>3. CASE pc = "idle" BY <1>2, <2>1, <2>3
  <2> QED BY <2>1, <2>2, <2>3
<1>4. CASE Opening \/ Scan \/ Ending
  BY <1>2, <1>4 DEF Opening, Start, Recreate, ForgetRows, Scan, Ending, Abandon,
     GuardRefuses, Finish, Stop
<1>5. ASSUME NEW f \in Files, Hash(f) PROVE RunPlace'
  <2>1. /\ pc' = "extract" /\ run' = run /\ Stat(f) \notin TooLarge
        /\ doc' = [NoDoc EXCEPT !.source = <<f>>, !.content = Bytes(f)]
    BY <1>5 DEF Hash
  <2>2. File' = f BY <2>1 DEF File, NoDoc
  <2>3. Stat(File)' = Stat(f) BY <2>1, <2>2 DEF Stat
  <2> QED BY <1>1, <2>1, <2>3
<1>6. ASSUME pc \in {"embed", "delete", "upsert", "extract"}, run' = run,
             doc'.source = doc.source, pc = "extract" => doc.source = <<File>>,
             pc' \in {"embed", "delete", "upsert", "save"}
      PROVE  Main' => Stat(File)' \notin TooLarge
  <2>1. File' = File /\ Stat(File)' = Stat(File) BY <1>6 DEF File, Stat
  <2>2. Main' => Main BY <1>6, <2>1 DEF Main
  <2> QED BY <2>1, <2>2 DEF RunPlace
<1>7. CASE Extract
  <2>1. pc = "extract" /\ pc' = "embed" /\ run' = run BY <1>7 DEF Extract
  <2>2. doc'.source = doc.source /\ doc.source = <<File>>
    BY <1>0, <1>7, <2>1 DEF Extract, DocRecord, DocInv
  <2> QED BY <1>1, <1>6, <2>1, <2>2
<1>8. CASE Embed \/ DeleteBySource
  <2>1. pc \in {"embed", "delete"} /\ pc' \in {"delete", "upsert"} /\ run' = run /\ doc' = doc
    BY <1>8 DEF Embed, DeleteBySource
  <2> QED BY <1>1, <1>6, <2>1
<1>9. CASE UpsertPoints
  <2>1. pc = "upsert" /\ pc' = "save" /\ run' = run /\ doc' = doc BY <1>9 DEF UpsertPoints
  <2>2. doc.source \in Sources /\ points[doc.source] = {}
    BY <1>0, <2>1 DEF DocInv, InFile, JRInv, GoneFirst
  <2>3. Overwritten(doc.source, PointsOf(doc.text, run.params, "this"))
          = PointsOf(doc.text, run.params, "this")
    BY <2>2 DEF Overwritten
  <2>4. points'[doc.source] = PointsOf(doc.text, run.params, "this")
    BY <1>0, <1>9, <2>2, <2>3 DEF UpsertPoints
  <2>5. Main' => Stat(File)' \notin TooLarge BY <1>6, <2>1
  <2> QED BY <2>1, <2>4, <2>5 DEF RunPlace
<1>10. ASSUME NEW n \in Names, Attach(n) PROVE RunPlace'
  <2>1. pc' \in {"embed", "attach"} BY <1>10 DEF Attach
  <2>2. doc'.source = <<File, n>> BY <1>0, <1>10 DEF Attach, DocRecord
  <2>3. doc'.source # <<File'>> BY <2>2
  <2>4. ~Main' BY <2>1, <2>3 DEF Main
  <2> QED BY <1>1, <2>1, <2>4
<1>11. CASE EndScan
  <2>1. /\ run.todo = {} /\ run' = run /\ rows' = rows /\ doc' = doc
        /\ pc' = IF run.dry THEN "finish"
                 ELSE IF run.mode = "full" THEN "sweep"
                 ELSE IF run.mode = "upsert" /\ run.delete /\ Vanished # {}
                      THEN "vanish" ELSE "finish"
    BY <1>11 DEF EndScan
  <2>2. Vanished' = Vanished BY <2>1 DEF Vanished, Unseen, Recorded
  <2> QED BY <2>1, <2>2 DEF RunPlace, Main
<1>12. CASE DeleteVanishedRow
  <2>1. /\ run' = run /\ pc = "vanishrow" /\ pc' \in {"vanish", "finish"}
        /\ rows' = [rows EXCEPT ![doc.source] = NoRow]
        /\ pc' = "finish" => Vanished = {doc.source}
    BY <1>12 DEF DeleteVanishedRow, Save
  <2>2. run.todo = {} BY <1>0, <2>1 DEF RunInv
  <2>3. ASSUME Vanished = {doc.source} PROVE Vanished' = {}
    <3>1. doc.source \in Sources BY <2>3 DEF Vanished, Unseen, Recorded
    <3>2. Recorded' = Recorded \ {doc.source} BY <1>0, <2>1, <3>1 DEF Recorded
    <3>3. Vanished' = Vanished \ {doc.source} BY <2>1, <3>2 DEF Vanished, Unseen
    <3> QED BY <2>3, <3>3
  <2> QED BY <2>1, <2>2, <2>3 DEF RunPlace, Main
<1>13. CASE Sweep
  <2>1. pc = "sweep" /\ pc' = "finish" /\ run' = run BY <1>13 DEF Sweep
  <2> QED BY <2>1 DEF RunPlace, Main
<1>14. CASE \/ DeleteStaleRow
            \/ \E s \in Sources : DeleteStalePoints(s) \/ DeleteVanishedPoints(s)
  BY <1>2, <1>14 DEF DeleteStaleRow, DeleteStalePoints, DeleteVanishedPoints
<1>15. ASSUME NEW f \in Files, Decides(f) PROVE RunPlace'
  <2>1. pc' \in {"next", "attach"}
    BY <1>15 DEF Decides, SkipKnown, SkipTooLarge, SkipSameStat, SkipSameContent,
       ExtractNothing, SkipSameText, ExtractDry, EmbedMismatch, SaveRow,
       AttachmentsDone, Done
  <2> QED BY <1>2, <2>1
<1> QED BY <1>3, <1>4, <1>5, <1>7, <1>8, <1>9, <1>10, <1>11, <1>12, <1>13, <1>14,
           <1>15, AllSteps DEF InRun, Proceeds

-----------------------------------------------------------------------------
(* The row of a file is written when the run decides about it,             *)
LEMMA DecidingRows ==
    ASSUME JRInv, NEW g \in Files, Decides(g)
    PROVE  /\ points' = points
           /\ \A f \in Files : f # g \/ Decided(f) => rows'[<<f>>] = rows[<<f>>]
<1>0. /\ JRTypeOK /\ DocInv /\ rows \in [Sources -> Row \cup {NoRow}]
      /\ run.todo \subseteq Files
  BY DEF JRInv, JRTypeOK, RunRecord
<1>1. points' = points
  BY DEF Decides, SkipKnown, SkipTooLarge, SkipSameStat, SkipSameContent, ExtractNothing,
     SkipSameText, ExtractDry, EmbedMismatch, SaveRow, AttachmentsDone
<1>2. ASSUME NEW u \in Sources, NEW r, Save(u, r) \/ SaveUnlessDry(u, r) \/ rows' = rows,
             NEW f \in Files, u # <<f>>
      PROVE  rows'[<<f>>] = rows[<<f>>]
  <2>1. <<f>> \in Sources BY SourceShape
  <2> QED BY <1>0, <1>2, <2>1 DEF Save, SaveUnlessDry
<1>3. ASSUME pc = "next", g \in run.todo PROVE ~Decided(g)
  BY <1>3 DEF Decided, InFile
<1>4. pc \in InFile \cup {"extract"} => File \in run.todo /\ doc.source \in Sources
  BY <1>0, AtHand
<1>5. \A f \in Files : f # g => <<f>> # <<g>> OBVIOUS
<1>6. <<g>> \in Sources BY SourceShape
<1>7. CASE SkipKnown(g) \/ SkipTooLarge(g) \/ SkipSameStat(g) \/ SkipSameContent(g)
  <2>1. pc = "next" /\ g \in run.todo
    BY <1>7 DEF SkipKnown, SkipTooLarge, SkipSameStat, SkipSameContent
  <2>2. rows' = rows \/ \E r : SaveUnlessDry(<<g>>, r)
    BY <1>7 DEF SkipKnown, SkipTooLarge, SkipSameStat, SkipSameContent
  <2> QED BY <1>1, <1>2, <1>3, <1>5, <1>6, <2>1, <2>2
<1>8. CASE g = File /\ (ExtractNothing \/ SkipSameText \/ ExtractDry)
  <2>1. pc = "extract" BY <1>8 DEF ExtractNothing, SkipSameText, ExtractDry
  <2>2. ~Decided(g) BY <1>4, <1>8, <2>1 DEF Decided, Main, InFile
  <2>3. rows' = rows \/ \E r : SaveUnlessDry(<<g>>, r)
    BY <1>8 DEF ExtractNothing, SkipSameText, ExtractDry
  <2> QED BY <1>1, <1>2, <1>5, <1>6, <2>2, <2>3
<1>9. CASE g = File /\ (EmbedMismatch \/ SaveRow)
  <2>1. pc \in {"embed", "save"} /\ \E r : Save(doc.source, r)
    BY <1>9 DEF EmbedMismatch, SaveRow
  <2>2. pc \in InFile BY <2>1 DEF InFile
  <2>3. doc.source = <<g>> => ~Decided(g)
    BY <1>4, <1>9, <2>1, <2>2 DEF Decided, Main
  <2>4. doc.source = <<g>> \/ \E n \in Names : doc.source = <<g, n>>
    BY <1>4, <1>9, <2>2, OneOrTwo DEF File
  <2>5. \A f \in Files : f # g \/ Decided(f) => doc.source # <<f>>
    BY <1>5, <2>3, <2>4
  <2> QED BY <1>1, <1>2, <1>4, <2>1, <2>2, <2>5
<1>10. CASE g = File /\ AttachmentsDone
  BY <1>1, <1>10 DEF AttachmentsDone
<1> QED BY <1>7, <1>8, <1>9, <1>10 DEF Decides

(* and dropped when the file is gone.                                      *)
LEMMA ProceedingRows ==
    ASSUME JRInv, Proceeds, NEW f \in Files
    PROVE  rows'[<<f>>] = rows[<<f>>] \/ (f \notin Scanned /\ rows'[<<f>>] = NoRow)
<1>0. /\ JRTypeOK /\ DocInv /\ SeenInv /\ RunInv /\ rows \in [Sources -> Row \cup {NoRow}]
  BY DEF JRInv, JRTypeOK
<1>1. CASE \/ (\E g \in Files : Hash(g)) \/ Extract \/ Embed \/ DeleteBySource
           \/ UpsertPoints \/ (\E n \in Names : Attach(n)) \/ EndScan \/ Sweep
           \/ (\E s \in Sources : DeleteStalePoints(s) \/ DeleteVanishedPoints(s))
  BY <1>1 DEF Hash, Extract, Embed, DeleteBySource, UpsertPoints, Attach,
     DeleteStalePoints, EndScan, DeleteVanishedPoints, Sweep
<1>2. CASE DeleteStaleRow
  <2>1. pc = "stale" /\ rows' = [rows EXCEPT ![doc.source] = NoRow]
    BY <1>2 DEF DeleteStaleRow, Save
  <2>2. doc.source # <<f>> BY <1>0, <2>1 DEF DocInv
  <2> QED BY <1>0, <2>1, <2>2, SourceShape
<1>3. CASE DeleteVanishedRow
  <2>1. pc = "vanishrow" /\ rows' = [rows EXCEPT ![doc.source] = NoRow]
    BY <1>3 DEF DeleteVanishedRow, Save
  <2>2. run.todo = {} /\ doc.source \in Vanished BY <1>0, <2>1 DEF DocInv, RunInv
  <2>3. doc.source = <<f>> => <<f>> \notin run.seen BY <2>2 DEF Vanished
  <2>4. <<f>> \notin run.seen => f \notin Scanned
    BY <1>0, <2>1, <2>2 DEF SeenInv, BeforeScan
  <2> QED BY <1>0, <2>1, <2>3, <2>4, SourceShape
<1> QED BY <1>1, <1>2, <1>3 DEF Proceeds

(* The points of a file change while it is the document at hand, when it   *)
(* is gone, and at the sweep.                                              *)
LEMMA ProceedingPoints ==
    ASSUME JRInv, Proceeds, NEW f \in Files
    PROVE  \/ points'[<<f>>] = points[<<f>>]
           \/ f \notin Scanned /\ points'[<<f>>] = {}
           \/ Sweep /\ points'[<<f>>] = {q \in points[<<f>>] : q.gen = "this"}
           \/ /\ DeleteBySource \/ UpsertPoints
              /\ doc.source = <<f>> /\ Main /\ f = File /\ f \in Scanned /\ ~Decided(f)
<1>0. /\ JRTypeOK /\ DocInv /\ SeenInv /\ RunInv /\ points \in [Sources -> SUBSET Point]
      /\ <<f>> \in Sources
  BY SourceShape DEF JRInv, JRTypeOK
<1>1. CASE \/ (\E g \in Files : Hash(g)) \/ Extract \/ Embed
           \/ (\E n \in Names : Attach(n)) \/ EndScan \/ DeleteStaleRow \/ DeleteVanishedRow
  BY <1>1 DEF Hash, Extract, Embed, Attach, EndScan, DeleteStaleRow, DeleteVanishedRow
<1>2. CASE DeleteBySource \/ UpsertPoints
  <2>1. /\ pc \in {"delete", "upsert"} /\ pc \in InFile
        /\ \E P : points' = [points EXCEPT ![doc.source] = P]
    BY <1>2 DEF DeleteBySource, UpsertPoints, InFile
  <2>2. CASE doc.source # <<f>> BY <1>0, <2>1, <2>2
  <2>3. CASE doc.source = <<f>>
    <3>1. f = File BY <2>3 DEF File
    <3>2. Main BY <2>1, <2>3, <3>1 DEF Main
    <3>3. f \in Scanned /\ f \in run.todo BY <1>0, <2>1, <3>1, AtHand
    <3>4. ~Decided(f) BY <3>2, <3>3 DEF Decided
    <3> QED BY <1>2, <2>3, <3>1, <3>2, <3>3, <3>4
  <2> QED BY <2>2, <2>3
<1>3. CASE \E s \in Sources : DeleteStalePoints(s)
  <2>1. PICK s \in Sources : s \in Stale /\ points' = [points EXCEPT ![s] = {}]
    BY <1>3 DEF DeleteStalePoints
  <2>2. s # <<f>> BY <2>1 DEF Stale, EmbeddedInState, Attachments
  <2> QED BY <1>0, <2>1, <2>2
<1>4. CASE \E s \in Sources : DeleteVanishedPoints(s)
  <2>1. PICK s \in Sources : /\ s \in Vanished /\ pc = "vanish"
                             /\ points' = [points EXCEPT ![s] = {}]
    BY <1>4 DEF DeleteVanishedPoints
  <2>2. run.todo = {} BY <1>0, <2>1 DEF RunInv
  <2>3. s = <<f>> => <<f>> \notin run.seen BY <2>1 DEF Vanished
  <2>4. <<f>> \notin run.seen => f \notin Scanned
    BY <1>0, <2>1, <2>2 DEF SeenInv, BeforeScan
  <2> QED BY <1>0, <2>1, <2>3, <2>4
<1>5. CASE Sweep
  BY <1>0, <1>5 DEF Sweep
<1> QED BY <1>1, <1>2, <1>3, <1>4, <1>5 DEF Proceeds

(* What a run that may write leaves of a file it decides about.            *)
LEMMA DecidedRow ==
    ASSUME JRInv, RunOptions, RunPlace, NEW g \in Files, Decides(g), ~Decided(g),
           ~run.dry, run.mode # "append"
    PROVE  /\ rows'[<<g>>] # NoRow
           /\ rows'[<<g>>].stat = Stat(g) /\ rows'[<<g>>].params = run.params
           /\ \/ rows[<<g>>] # NoRow
              \/ rows'[<<g>>].status # "indexed"
              \/ points[<<g>>] = PointsOf(doc.text, run.params, "this")
<1>0. /\ JRTypeOK /\ DocInv /\ rows \in [Sources -> Row \cup {NoRow}]
      /\ <<g>> \in Sources /\ pc \notin BeforeScan
  BY InRunStays, SourceShape DEF JRInv, JRTypeOK, InRun
<1>a. run.scanned \in [Files -> Versions] BY <1>0, Scanning
<1>b. NoRow \notin Row BY JobRunnerAssumption
<1>1. ASSUME NEW r \in Row, SaveUnlessDry(<<g>>, r) \/ Save(<<g>>, r)
      PROVE  rows'[<<g>>] = r /\ rows'[<<g>>] # NoRow
  BY <1>0, <1>1, <1>b DEF SaveUnlessDry, Save
<1>2. ASSUME NEW b \in Contents \cup {NoContent}, NEW t \in Texts \cup {NoText},
             NEW y \in Failures \cup {"indexed", "failed_embed", "skipped_too_large"},
             \/ SaveUnlessDry(<<g>>, NewRow(g, b, t, y))
             \/ Save(<<g>>, NewRow(g, b, t, y))
      PROVE  /\ rows'[<<g>>] # NoRow /\ rows'[<<g>>].status = y
             /\ rows'[<<g>>].stat = Stat(g) /\ rows'[<<g>>].params = run.params
  <2>1. NewRow(g, b, t, y) \in Row BY <1>0, NewRowType
  <2>2. rows'[<<g>>] = NewRow(g, b, t, y) /\ rows'[<<g>>] # NoRow BY <1>1, <1>2, <2>1
  <2> QED BY <2>2 DEF NewRow
<1>3. HasRow(g) => /\ rows[<<g>>] \in Row /\ rows[<<g>>] # NoRow
                   /\ rows[<<g>>].params = run.params
  BY <1>0 DEF HasRow
<1>4. CASE SkipKnown(g)
  BY <1>0, <1>4 DEF SkipKnown, RunOptions
<1>5. CASE SkipTooLarge(g)
  BY <1>2, <1>5 DEF SkipTooLarge
<1>6. CASE SkipSameStat(g)
  BY <1>3, <1>6 DEF SkipSameStat, SameStat
<1>7. CASE SkipSameContent(g)
  <2>1. HasRow(g) /\ SaveUnlessDry(<<g>>, [rows[<<g>>] EXCEPT !.stat = Stat(g)])
    BY <1>7 DEF SkipSameContent, SameContent
  <2>2. [rows[<<g>>] EXCEPT !.stat = Stat(g)] \in Row BY <1>3, <1>a, <2>1 DEF Row, Stat
  <2>3. rows'[<<g>>] = [rows[<<g>>] EXCEPT !.stat = Stat(g)] /\ rows'[<<g>>] # NoRow
    BY <1>1, <2>1, <2>2
  <2> QED BY <1>3, <2>1, <2>3 DEF Row
<1>8. CASE g = File /\ SkipSameText
  <2>1. HasRow(g) /\ SaveUnlessDry(<<g>>, [rows[<<g>>] EXCEPT !.stat = Stat(g),
                                                            !.content = doc.content])
    BY <1>8 DEF SkipSameText, SameText
  <2>2. doc.content \in Contents BY <1>0, <1>8 DEF SkipSameText, DocInv
  <2>3. [rows[<<g>>] EXCEPT !.stat = Stat(g), !.content = doc.content] \in Row
    BY <1>3, <1>a, <2>1, <2>2 DEF Row, Stat
  <2>4. /\ rows'[<<g>>] = [rows[<<g>>] EXCEPT !.stat = Stat(g), !.content = doc.content]
        /\ rows'[<<g>>] # NoRow
    BY <1>1, <2>1, <2>3
  <2> QED BY <1>3, <2>1, <2>4 DEF Row
<1>9. CASE g = File /\ ExtractNothing
  <2>1. PICK y \in Failures : SaveUnlessDry(<<g>>, NewRow(g, doc.content, NoText, y))
    BY <1>9 DEF ExtractNothing
  <2>2. doc.content \in Contents BY <1>0, <1>9 DEF ExtractNothing, DocInv
  <2>3. y # "indexed" BY DEF Failures
  <2> QED BY <1>2, <2>1, <2>2, <2>3
<1>10. CASE g = File /\ ExtractDry
  BY <1>10 DEF ExtractDry
<1>11. CASE g = File /\ (EmbedMismatch \/ SaveRow)
  <2>1. pc \in {"embed", "save"} /\ pc \in InFile
    BY <1>11 DEF EmbedMismatch, SaveRow, InFile
  <2>2. g \in Scanned /\ doc.content \in Contents /\ doc.text \in Texts
    BY <1>0, <1>11, <2>1, AtHand DEF DocInv
  <2>3. Main /\ doc.source = <<g>> BY <1>0, <1>11, <2>1, <2>2 DEF Decided, Main
  <2>4. CASE EmbedMismatch
    BY <1>2, <1>11, <2>2, <2>3, <2>4 DEF EmbedMismatch
  <2>5. CASE SaveRow
    <3>1. points[<<g>>] = PointsOf(doc.text, run.params, "this")
      BY <2>3, <2>5 DEF SaveRow, RunPlace
    <3> QED BY <1>2, <1>11, <2>2, <2>3, <2>5, <3>1 DEF SaveRow
  <2> QED BY <1>11, <2>4, <2>5
<1>12. CASE g = File /\ AttachmentsDone
  <2>1. pc = "attach" /\ pc \in InFile BY <1>12 DEF AttachmentsDone, InFile
  <2>2. g \in Scanned /\ ~Main BY <1>0, <1>12, <2>1, AtHand DEF Main
  <2> QED BY <1>0, <1>12, <2>1, <2>2 DEF Decided
<1> QED BY <1>4, <1>5, <1>6, <1>7, <1>8, <1>9, <1>10, <1>11, <1>12 DEF Decides

-----------------------------------------------------------------------------
(* Before the scan, and right after it, nothing is decided.                *)
LEMMA NothingDecided ==
    /\ pc \in BeforeScan => \A f \in Files : ~Decided(f)
    /\ JRTypeOK /\ Scan => \A f \in Files : ~Decided(f)'
<1>1. pc \in BeforeScan => \A f \in Files : ~Decided(f) BY DEF Decided
<1>2. ASSUME JRTypeOK, Scan PROVE \A f \in Files : ~Decided(f)'
  <2>1. PICK known \in KnownSources :
          run' = [run EXCEPT !.scanned = tree, !.known = known,
                             !.todo = {f \in Files : Bytes(f) # Gone}]
    BY <1>2 DEF Scan
  <2>2. run'.scanned = tree /\ run'.todo = {f \in Files : Bytes(f) # Gone}
        /\ DOMAIN tree = Files /\ pc' = "next"
    BY <1>2, <2>1 DEF JRTypeOK, RunRecord, Scan
  <2>3. Scanned' = run'.todo BY <2>2 DEF Scanned, Bytes
  <2> QED BY <2>2, <2>3 DEF Decided, InFile
<1> QED BY <1>1, <1>2

(* Ends and steps before the scan,                                         *)
LEMMA WrittenOutside ==
    ASSUME JRInv, WrittenInv, Around \/ Opening \/ Scan \/ Ending
    PROVE  WrittenInv'
<1>0. JRTypeOK /\ points \in [Sources -> SUBSET Point] /\ \A f \in Files : <<f>> \in Sources
  BY SourceShape DEF JRInv, JRTypeOK
<1>1. CASE Around
  <2>1. /\ pc' = pc /\ run' = run /\ points' = points /\ Scanned' = Scanned
        /\ rows' = rows \/ pc = "idle"
        /\ \A f \in Files : Decided(f)' <=> Decided(f)
    BY <1>0, <1>1, AroundStays
  <2>2. \A f \in Files : Stat(f)' = Stat(f) BY <2>1 DEF Stat
  <2>3. pc = "idle" => \A f \in Files : ~Decided(f)
    BY NothingDecided DEF BeforeScan
  <2>4. UpToDate' BY <2>1, <2>2, <2>3 DEF WrittenInv, UpToDate
  <2>5. OldPoints' BY <2>1 DEF WrittenInv, OldPoints
  <2>6. FullWrites' BY <2>1, <2>3 DEF WrittenInv, FullWrites
  <2> QED BY <2>4, <2>5, <2>6 DEF WrittenInv
<1>2. CASE Opening
  <2>1. /\ pc \in BeforeScan /\ pc' \in BeforeScan /\ pc' \notin {"idle", "finish"}
        /\ points' = points \/ points' = [s \in Sources |-> {}]
    BY <1>2 DEF Opening, Start, Recreate, ForgetRows, BeforeScan
  <2>2. \A f \in Files : ~Decided(f)' BY <2>1 DEF Decided
  <2>3. UpToDate' BY <2>2 DEF UpToDate
  <2>4. OldPoints' BY <1>0, <2>1 DEF WrittenInv, OldPoints
  <2>5. CASE Start
    <3>1. run'.mode = "full" /\ ~run'.dry => pc' = "prepare"
      BY <2>5 DEF Start, NoRun
    <3> QED BY <2>1, <2>2, <2>3, <2>4, <3>1 DEF WrittenInv, FullWrites
  <2>6. CASE Recreate
    <3>1. pc' = "forget" BY <2>6 DEF Recreate
    <3> QED BY <2>2, <2>3, <2>4, <3>1 DEF WrittenInv, FullWrites
  <2>7. CASE ForgetRows
    <3>1. pc' = "scan" /\ \A s \in Sources : rows'[s] = NoRow BY <2>7 DEF ForgetRows
    <3>2. FullWrites' BY <1>0, <2>2, <3>1 DEF FullWrites
    <3> QED BY <2>3, <2>4, <3>2 DEF WrittenInv
  <2> QED BY <1>2, <2>5, <2>6, <2>7 DEF Opening
<1>3. CASE Scan
  <2>1. /\ pc = "scan" /\ pc' = "next" /\ UNCHANGED <<rows, points>>
        /\ run'.mode = run.mode /\ run'.dry = run.dry
    BY <1>0, <1>3 DEF Scan, JRTypeOK, RunRecord
  <2>2. \A f \in Files : ~Decided(f) /\ ~Decided(f)'
    BY <1>0, <1>3, <2>1, NothingDecided DEF BeforeScan
  <2>3. UpToDate' BY <2>2 DEF UpToDate
  <2>4. OldPoints' BY <2>1 DEF WrittenInv, OldPoints, BeforeScan
  <2>5. FullWrites' BY <2>1, <2>2 DEF WrittenInv, FullWrites
  <2> QED BY <2>3, <2>4, <2>5 DEF WrittenInv
<1>4. CASE Ending
  <2>1. pc' = "idle" /\ run' = NoRun /\ points' = Aged
    BY <1>4 DEF Ending, Abandon, GuardRefuses, Finish, Stop
  <2>2. \A f \in Files : ~Decided(f)' BY <2>1 DEF Decided, BeforeScan
  <2>3. ASSUME NEW f \in Files, NEW q \in points'[<<f>>] PROVE q.gen = "past"
    <3>1. PICK p \in points[<<f>>] : q = [p EXCEPT !.gen = "past"]
      BY <1>0, <2>1, <2>3 DEF Aged
    <3>2. p \in Point BY <1>0
    <3> QED BY <3>1, <3>2 DEF Point
  <2>4. UpToDate' BY <2>2 DEF UpToDate
  <2>5. OldPoints' BY <2>3 DEF OldPoints
  <2>6. FullWrites' BY <2>1 DEF FullWrites, NoRun
  <2> QED BY <2>4, <2>5, <2>6 DEF WrittenInv
<1> QED BY <1>1, <1>2, <1>3, <1>4

(* and every other one keep that files decided about have their row.       *)
LEMMA WrittenStep == JRInv /\ PlaceInv /\ WrittenInv /\ [JRNext]_jrVars => WrittenInv'
<1> SUFFICES ASSUME JRInv, PlaceInv, WrittenInv, [JRNext]_jrVars PROVE WrittenInv'
  OBVIOUS
<1>0. /\ JRTypeOK /\ RunInv /\ points \in [Sources -> SUBSET Point]
      /\ \A f \in Files : <<f>> \in Sources
  BY SourceShape DEF JRInv, JRTypeOK
<1>1. CASE InRun
  <2>1. /\ pc \notin BeforeScan /\ pc' \notin BeforeScan /\ Scanned' = Scanned
        /\ run'.mode = run.mode /\ run'.dry = run.dry /\ run'.params = run.params
        /\ \A f \in Files : Stat(f)' = Stat(f)
    BY <1>1, InRunStays DEF Stat
  <2>2. pc \notin {"idle", "prepare", "forget"} BY <2>1 DEF BeforeScan
  <2>3. CASE Proceeds
    <3>1. \A f \in Files : /\ Decided(f)' <=> Decided(f)
                           /\ Decided(f) => f \in Scanned
      BY <2>3, Proceeding DEF Decided
    <3>2. \A f \in Files :
            \/ rows'[<<f>>] = rows[<<f>>]
            \/ f \notin Scanned /\ rows'[<<f>>] = NoRow
      BY <2>3, ProceedingRows
    <3>3. ASSUME NEW f \in Files, f \notin Scanned \/ Decided(f)
          PROVE  points'[<<f>>] \subseteq points[<<f>>]
      BY <2>3, <3>3, ProceedingPoints
    <3>4. pc' = "finish" /\ run.mode = "full" /\ ~run.dry
          => \A f \in Files : \A q \in points'[<<f>>] : q.gen = "this"
      <4>1. CASE Sweep BY <1>0, <4>1 DEF Sweep
      <4>2. CASE EndScan BY <4>2 DEF EndScan
      <4>3. CASE DeleteVanishedRow BY <1>0, <4>3 DEF DeleteVanishedRow, RunInv
      <4>4. CASE \/ (\E f \in Files : Hash(f)) \/ Extract \/ Embed \/ DeleteBySource
                 \/ UpsertPoints \/ (\E n \in Names : Attach(n)) \/ DeleteStaleRow
                 \/ (\E s \in Sources : DeleteStalePoints(s) \/ DeleteVanishedPoints(s))
        <5>1. pc' # "finish"
          BY <4>4 DEF Hash, Extract, Embed, DeleteBySource, UpsertPoints, Attach,
             DeleteStaleRow, DeleteStalePoints, DeleteVanishedPoints
        <5> QED BY <5>1
      <4> QED BY <2>3, <4>1, <4>2, <4>3, <4>4 DEF Proceeds
    <3>5. UpToDate' BY <2>1, <3>1, <3>2 DEF WrittenInv, UpToDate
    <3>6. OldPoints' BY <2>1, <3>3 DEF WrittenInv, OldPoints
    <3>7. FullWrites' BY <2>1, <2>2, <3>1, <3>2, <3>3, <3>4 DEF WrittenInv, FullWrites
    <3> QED BY <3>5, <3>6, <3>7 DEF WrittenInv
  <2>4. ASSUME NEW g \in Files, Decides(g) PROVE WrittenInv'
    <3>1. \A f \in Files : Decided(f)' <=> f = g \/ Decided(f) BY <2>4, Deciding
    <3>2. /\ points' = points
          /\ \A f \in Files : f # g \/ Decided(f) => rows'[<<f>>] = rows[<<f>>]
      BY <2>4, DecidingRows
    <3>3. pc' # "finish"
      BY <2>4 DEF Decides, SkipKnown, SkipTooLarge, SkipSameStat, SkipSameContent,
         ExtractNothing, SkipSameText, ExtractDry, EmbedMismatch, SaveRow,
         AttachmentsDone, Done
    <3>4. ~Decided(g) /\ ~run.dry /\ run.mode # "append" =>
            /\ rows'[<<g>>] # NoRow
            /\ rows'[<<g>>].stat = Stat(g) /\ rows'[<<g>>].params = run.params
            /\ \/ rows[<<g>>] # NoRow
               \/ rows'[<<g>>].status # "indexed"
               \/ points[<<g>>] = PointsOf(doc.text, run.params, "this")
      BY <2>4, DecidedRow DEF PlaceInv
    <3>5. UpToDate' BY <2>1, <3>1, <3>2, <3>4 DEF WrittenInv, UpToDate
    <3>6. OldPoints' BY <2>1, <3>2 DEF WrittenInv, OldPoints
    <3>7. ASSUME run.mode = "full", ~run.dry, ~Decided(g), rows'[<<g>>].status = "indexed",
                 NEW q \in points[<<g>>]
          PROVE  q.gen = "this"
      <4>1. rows[<<g>>] = NoRow BY <2>2, <3>7 DEF WrittenInv, FullWrites
      <4>2. points[<<g>>] = PointsOf(doc.text, run.params, "this")
        BY <3>4, <3>7, <4>1
      <4> QED BY <4>2 DEF PointsOf
    <3>8. FullWrites'
      BY <2>1, <2>2, <3>1, <3>2, <3>3, <3>7 DEF WrittenInv, FullWrites
    <3> QED BY <3>5, <3>6, <3>8 DEF WrittenInv
  <2> QED BY <1>1, <2>3, <2>4 DEF InRun
<1> QED BY <1>1, WrittenOutside, AllSteps

-----------------------------------------------------------------------------
(* An attachment is done as long as its row and its points stay.           *)
LEMMA KeptStays ==
    ASSUME NEW n, Kept(n), rows'[<<File, n>>] = rows[<<File, n>>],
           points'[<<File, n>>] = points[<<File, n>>],
           doc'.body = doc.body, run'.params = run.params, File' = File
    PROVE  Kept(n)'
BY DEF Kept, Holds

(* Names tell attachments apart.                                           *)
LEMMA OtherNames ==
    /\ \A f, n, m : <<f, n>> = <<f, m>> => n = m
    /\ \A f, n : <<f>> # <<f, n>>
OBVIOUS

(* Every step keeps what is known of the attachments that are done.        *)
LEMMA AttachStep == JRInv /\ RunPlace /\ AttachInv /\ [JRNext]_jrVars => AttachInv'
<1> SUFFICES ASSUME JRInv, RunPlace, AttachInv, [JRNext]_jrVars PROVE AttachInv'
  OBVIOUS
<1>0. /\ JRTypeOK /\ DocInv /\ doc \in DocRecord /\ run \in RunRecord
      /\ rows \in [Sources -> Row \cup {NoRow}] /\ points \in [Sources -> SUBSET Point]
  BY DEF JRInv, JRTypeOK
<1>a. pc \in InFile =>
        /\ doc.source \in Sources /\ File \in Files /\ doc.body \in Contents
        /\ DOMAIN Attached[doc.body] \subseteq Names
        /\ \A n \in Names : <<File, n>> \in Sources
        /\ doc.content \in Contents /\ doc.text \in Texts /\ pc \notin BeforeScan
  <2>1. \A b \in Contents : DOMAIN Attached[b] \subseteq Names BY JobRunnerAssumption
  <2> QED BY <1>0, <2>1, AtHand, SourceShape DEF DocInv, InFile, BeforeScan
<1>1. ASSUME pc' \notin InFile PROVE AttachInv'
  BY <1>1 DEF AttachInv
<1>2. CASE Around
  <2>1. /\ pc' = pc /\ run' = run /\ doc' = doc /\ points' = points /\ File' = File
        /\ rows' = rows \/ pc = "idle"
    BY <1>0, <1>2, AroundStays
  <2>2. CASE pc \in InFile
    <3>1. rows' = rows BY <2>1, <2>2 DEF InFile
    <3> QED BY <2>1, <3>1 DEF AttachInv, Kept, Holds
  <2>3. CASE pc \notin InFile BY <1>1, <2>1, <2>3
  <2> QED BY <2>2, <2>3
<1>3. CASE \/ Opening \/ Scan \/ Ending \/ (\E f \in Files : Hash(f)) \/ EndScan
           \/ (\E s \in Sources : DeleteVanishedPoints(s)) \/ DeleteVanishedRow \/ Sweep
  BY <1>1, <1>3 DEF Opening, Start, Recreate, ForgetRows, Scan, Ending, Abandon,
     GuardRefuses, Finish, Stop, Hash, EndScan, DeleteVanishedPoints,
     DeleteVanishedRow, Sweep, InFile
<1>4. CASE Extract
  <2>1. /\ pc' = "embed" /\ doc'.left = DOMAIN Attached[doc'.body]
        /\ doc'.source = doc.source /\ doc.source = <<File>>
    BY <1>0, <1>4 DEF Extract, DocRecord, DocInv
  <2>2. File' = File BY <2>1 DEF File
  <2>3. \A n : doc'.source # <<File', n>> BY <2>1, <2>2, OtherNames
  <2> QED BY <2>1, <2>3 DEF AttachInv
<1>5. CASE Embed \/ DeleteBySource \/ UpsertPoints
  <2>1. /\ pc \in {"embed", "delete", "upsert"} /\ pc' \in {"delete", "upsert", "save"}
        /\ run' = run /\ doc' = doc /\ rows' = rows
        /\ points' = points \/ \E P : points' = [points EXCEPT ![doc.source] = P]
    BY <1>5 DEF Embed, DeleteBySource, UpsertPoints
  <2>2. pc \in InFile /\ File' = File BY <2>1 DEF InFile, File
  <2>3. ASSUME NEW n \in DOMAIN Attached[doc.body] \ doc.left, doc.source # <<File, n>>
        PROVE  Kept(n)'
    <3>1. Kept(n) BY <2>2, <2>3 DEF AttachInv
    <3>2. <<File, n>> \in Sources BY <1>a, <2>2
    <3>3. points'[<<File, n>>] = points[<<File, n>>] BY <1>0, <2>1, <2>3, <3>2
    <3> QED BY <2>1, <2>2, <3>1, <3>3, KeptStays
  <2> QED BY <2>1, <2>2, <2>3 DEF AttachInv
<1>6. ASSUME NEW n \in Names, Attach(n) PROVE AttachInv'
  <2>1. /\ pc = "attach" /\ n \in doc.left /\ pc \in InFile
        /\ pc' = IF Chunks[Attached[doc.body][n]] > 0 THEN "embed" ELSE "attach"
        /\ doc' = [doc EXCEPT !.source = <<File, n>>, !.text = Attached[doc.body][n],
                              !.left = doc.left \ {n}]
        /\ UNCHANGED <<rows, points, run>>
    BY <1>6 DEF Attach, InFile
  <2>2. /\ doc'.source = <<File, n>> /\ doc'.body = doc.body
        /\ doc'.text = Attached[doc.body][n] /\ doc'.left = doc.left \ {n}
    BY <1>0, <2>1 DEF DocRecord
  <2>3. File' = File BY <2>2 DEF File
  <2>4. ASSUME NEW m \in DOMAIN Attached[doc.body] \ doc.left PROVE Kept(m)'
    <3>1. Kept(m) BY <2>1, <2>4 DEF AttachInv
    <3> QED BY <2>1, <2>2, <2>3, <3>1, KeptStays
  <2>5. pc' = "attach" => Kept(n)' BY <2>1, <2>2 DEF Kept
  <2>6. \A m : doc'.source = <<File', m>> => m = n BY <2>2, <2>3, OtherNames
  <2>7. ASSUME NEW m \in DOMAIN Attached[doc'.body],
               doc'.source = <<File', m>>, pc' # "attach"
        PROVE  doc'.text = Attached[doc'.body][m] /\ m \notin doc'.left
    BY <2>2, <2>6, <2>7
  <2>8. ASSUME NEW m \in DOMAIN Attached[doc'.body] \ doc'.left,
               doc'.source # <<File', m>> \/ pc' = "attach"
        PROVE  Kept(m)'
    <3>1. CASE m = n BY <2>2, <2>3, <2>5, <2>8, <3>1
    <3>2. CASE m # n BY <2>2, <2>4, <3>2
    <3> QED BY <3>1, <3>2
  <2> QED BY <2>7, <2>8 DEF AttachInv
<1>7. ASSUME NEW s \in Sources, DeleteStalePoints(s) PROVE AttachInv'
  <2>1. /\ pc = "attach" /\ pc \in InFile /\ pc' = "stale" /\ s \in Stale
        /\ doc' = [doc EXCEPT !.source = s] /\ points' = [points EXCEPT ![s] = {}]
        /\ UNCHANGED <<rows, run>>
    BY <1>7 DEF DeleteStalePoints, InFile
  <2>2. doc'.source = s /\ doc'.body = doc.body /\ doc'.left = doc.left
    BY <1>0, <2>1 DEF DocRecord
  <2>3. /\ \E k \in Names : s = <<File, k>>
        /\ \A n \in DOMAIN Attached[doc.body] : s # <<File, n>>
    BY <2>1 DEF Stale, EmbeddedInState, Attachments
  <2>4. File' = File BY <2>2, <2>3 DEF File
  <2>5. ASSUME NEW n \in DOMAIN Attached[doc.body] \ doc.left PROVE Kept(n)'
    <3>1. Kept(n) BY <2>1, <2>5 DEF AttachInv
    <3>2. <<File, n>> \in Sources BY <1>a, <2>1
    <3>3. points'[<<File, n>>] = points[<<File, n>>] BY <1>0, <2>1, <2>3, <3>2
    <3> QED BY <2>1, <2>2, <2>4, <3>1, <3>3, KeptStays
  <2> QED BY <2>2, <2>3, <2>4, <2>5 DEF AttachInv
<1>8. CASE DeleteStaleRow
  <2>1. /\ pc = "stale" /\ pc \in InFile /\ pc' = "attach"
        /\ rows' = [rows EXCEPT ![doc.source] = NoRow] /\ UNCHANGED <<points, run, doc>>
    BY <1>8 DEF DeleteStaleRow, InFile, Save
  <2>2. PICK k \in Names : k \notin DOMAIN Attached[doc.body] /\ doc.source = <<File, k>>
    BY <1>0, <2>1 DEF DocInv
  <2>3. File' = File BY <2>1 DEF File
  <2>4. ASSUME NEW n \in DOMAIN Attached[doc.body] \ doc.left PROVE Kept(n)'
    <3>1. doc.source # <<File, n>> BY <2>2, OtherNames
    <3>2. Kept(n) BY <2>1, <3>1 DEF AttachInv
    <3>3. <<File, n>> \in Sources BY <1>a, <2>1
    <3>4. rows'[<<File, n>>] = rows[<<File, n>>] BY <1>0, <2>1, <3>1, <3>3
    <3> QED BY <2>1, <2>3, <3>2, <3>4, KeptStays
  <2> QED BY <2>1, <2>4 DEF AttachInv
<1>9. ASSUME NEW f \in Files, Decides(f) PROVE AttachInv'
  <2>1. CASE pc' \notin InFile BY <1>1, <2>1
  <2>2. CASE pc' \in InFile
    <3>1. EmbedMismatch \/ SaveRow
      BY <1>9, <2>2 DEF Decides, SkipKnown, SkipTooLarge, SkipSameStat, SkipSameContent,
         ExtractNothing, SkipSameText, ExtractDry, AttachmentsDone, Done, InFile
    <3>2. pc \in {"embed", "save"} /\ pc \in InFile BY <3>1 DEF EmbedMismatch, SaveRow, InFile
    <3>3. PICK status \in {"indexed", "failed_embed"} :
            /\ rows' = [rows EXCEPT ![doc.source] =
                          NewRow(File, doc.content, doc.text, status)]
            /\ status = "indexed" => pc = "save"
      BY <3>1 DEF EmbedMismatch, SaveRow, Save
    <3>4. /\ pc' = "attach" /\ doc' = doc /\ points' = points
          /\ run' = run \/ run' = [run EXCEPT !.seen = run.seen \cup {doc.source}]
      BY <2>2, <3>1 DEF EmbedMismatch, SaveRow, Done, InFile
    <3>5. run'.params = run.params /\ File' = File BY <1>0, <3>4 DEF RunRecord, File
    <3>6. ASSUME NEW n \in DOMAIN Attached[doc.body] \ doc.left PROVE Kept(n)'
      <4>1. <<File, n>> \in Sources BY <1>a, <3>2
      <4>2. CASE doc.source # <<File, n>>
        <5>1. Kept(n) BY <3>2, <4>2 DEF AttachInv
        <5>2. rows'[<<File, n>>] = rows[<<File, n>>] BY <1>0, <3>3, <4>1, <4>2
        <5> QED BY <3>4, <3>5, <5>1, <5>2, KeptStays
      <4>3. CASE doc.source = <<File, n>>
        <5>1. doc.text = Attached[doc.body][n] BY <3>2, <4>3 DEF AttachInv
        <5>2. NewRow(File, doc.content, doc.text, status) \in Row
          BY <1>0, <1>a, <3>2, NewRowType
        <5>3. rows'[<<File, n>>] # NoRow /\ rows'[<<File, n>>].status = status
          <6>1. rows'[<<File, n>>] = NewRow(File, doc.content, doc.text, status)
            BY <1>0, <3>3, <4>1, <4>3
          <6>2. NoRow \notin Row BY JobRunnerAssumption
          <6> QED BY <5>2, <6>1, <6>2 DEF NewRow
        <5>4. status = "indexed" =>
                points'[<<File, n>>] = PointsOf(Attached[doc.body][n], run.params, "this")
          BY <3>3, <3>4, <4>3, <5>1 DEF RunPlace
        <5>5. doc'.body = doc.body BY <3>4
        <5> QED BY <3>5, <5>3, <5>4, <5>5 DEF Kept, Holds
      <4> QED BY <4>2, <4>3
    <3> QED BY <3>4, <3>6 DEF AttachInv
  <2> QED BY <2>1, <2>2
<1> QED BY <1>2, <1>3, <1>4, <1>5, <1>6, <1>7, <1>8, <1>9, AllSteps DEF InRun, Proceeds

(* When all attachments of a re-indexed file are through, its rows are     *)
(* those of the attachments it has, and each indexed one has the points of *)
(* its text, whatever earlier runs left (runner.py:567-623).               *)
THEOREM AttachmentsFollow == JRSpec => []AttachmentsFollowFile
<1> DEFINE IInv == JRInv /\ RunPlace /\ AttachInv
<1>1. JRInit => IInv
  <2>1. JRInit => RunPlace BY DEF JRInit, RunPlace, Main
  <2>2. JRInit => AttachInv BY DEF JRInit, AttachInv, InFile
  <2> QED BY <2>1, <2>2, JRInitInv
<1>2. IInv /\ [JRNext]_jrVars => IInv'
  <2>1. JRInv /\ [JRNext]_jrVars => JRInv'
    BY TypeStep, RunInvStep, DocStep, PointStep DEF JRInv
  <2> QED BY <2>1, PlaceStep, AttachStep
<1>3. IInv => AttachmentsFollowFile
  <2> SUFFICES ASSUME JRInv, AttachInv, pc = "attach", doc.left = {}, Stale = {},
                      NEW n \in Names
               PROVE  IF n \in DOMAIN Attached[doc.body]
                      THEN Kept(n) ELSE rows[<<File, n>>] = NoRow
    BY DEF AttachmentsFollowFile, Kept
  <2>1. pc \in InFile /\ File \in Files
    <3>1. pc \in InFile BY DEF InFile
    <3> QED BY <3>1, AtHand DEF JRInv
  <2>2. CASE n \in DOMAIN Attached[doc.body] BY <2>1, <2>2 DEF AttachInv
  <2>3. CASE n \notin DOMAIN Attached[doc.body]
    <3>1. <<File, n>> \in Sources BY <2>1, SourceShape
    <3>2. <<File, n>> \notin {<<File, m>> : m \in DOMAIN Attached[doc.body]}
      BY <2>3, OtherNames
    <3>3. <<File, n>> \in Attachments(File) BY DEF Attachments
    <3> QED BY <2>3, <3>1, <3>2, <3>3 DEF Stale, EmbeddedInState, Recorded
  <2> QED BY <2>2, <2>3
<1> HIDE DEF IInv
<1> QED BY <1>1, <1>2, <1>3, PTL DEF JRSpec

-----------------------------------------------------------------------------
(* What holds of two versions holds between them.                          *)
LEMMA SameBetween ==
    ASSUME NothingReturns, NEW u \in Versions, NEW v \in Versions, NEW w \in Versions,
           u <= v, v <= w, w \notin TooLarge, Content[u] # Gone, Content[w] # Gone
    PROVE  Content[u] = Content[w] => Content[v] = Content[w]
<1>1. u \in Nat /\ v \in Nat /\ w \in Nat BY VersionNumbers
<1>2. v = u \/ v = w \/ (u < v /\ v < w) BY <1>1
<1>3. CASE u < v /\ v < w BY <1>3 DEF NothingReturns
<1> QED BY <1>2, <1>3

(* A row whose stat advances because the bytes are its own: it is passed   *)
(* over no more often than before, and has their text.                     *)
LEMMA StatAdvances ==
    ASSUME NothingReturns, NEW r \in Row, NEW s \in Versions, NEW t \in Versions,
           s <= t, s \notin TooLarge, ReadInOrder(r, 1, s),
           Content[t] # Gone, r.content = Content[t]
    PROVE  LET n == [r EXCEPT !.stat = s] IN
           /\ ReadInOrder(n, 1, t)
           /\ s = t => n.text = Yield[Content[t]]
           /\ Alive(n, t) => Alive(r, t)
<1> DEFINE n == [r EXCEPT !.stat = s]
<1>1. n.stat = s /\ n.content = r.content /\ n.text = r.text BY DEF Row
<1>2. s \in Nat /\ t \in Nat /\ 1 \in Versions BY VersionNumbers
<1>3. ReadInOrder(n, 1, t)
  <2>1. ReadInOrder(r, 1, t) BY <1>2, ReadWider, 1 <= 1
  <2> QED BY <1>1, <2>1 DEF ReadInOrder
<1>4. ASSUME s = t PROVE n.text = Yield[Content[t]]
  <2>1. PICK x, y \in 1..s : /\ x <= y /\ Content[x] # Gone /\ Content[y] # Gone
                             /\ r.content = Content[x] /\ r.text = Yield[Content[y]]
                             /\ r.text \in Texts
    BY DEF ReadInOrder
  <2>2. x \in Versions /\ y \in Versions /\ x \in Nat /\ y \in Nat /\ y <= t
    BY <1>2, <1>4, VersionsBetween, VersionNumbers
  <2>3. t \notin TooLarge /\ Content[x] = Content[t] BY <1>4, <2>1
  <2>4. Content[y] = Content[t] BY <2>1, <2>2, <2>3, SameBetween
  <2> QED BY <1>1, <2>1, <2>4
<1>5. ASSUME Alive(n, t) PROVE Alive(r, t)
  <2> HIDE DEF n
  <2>1. PICK w \in Versions :
          /\ t <= w /\ Content[w] # Gone /\ w \notin TooLarge
          /\ n.stat = w \/ n.content = Content[w] \/ n.text = Yield[Content[w]]
    BY <1>5 DEF Alive
  <2>2. w \in Nat BY VersionNumbers
  <2>3. n.stat = w => w = t BY <1>1, <1>2, <2>1, <2>2
  <2>4. r.content = Content[w] \/ r.text = Yield[Content[w]] BY <1>1, <2>1, <2>3
  <2> QED BY <2>1, <2>4 DEF Alive
<1> QED BY <1>3, <1>4, <1>5

(* Likewise when other bytes gave the text it has.                         *)
LEMMA ContentAdvances ==
    ASSUME NothingReturns, NEW r \in Row, NEW s \in Versions, NEW v \in Versions,
           NEW t \in Versions, s <= v, v <= t, ReadInOrder(r, 1, s),
           Content[v] # Gone, Content[t] # Gone, r.text = Yield[Content[t]]
    PROVE  LET n == [r EXCEPT !.stat = s, !.content = Content[v]] IN
           /\ ReadInOrder(n, 1, t)
           /\ Alive(n, t) => Alive(r, t)
<1> DEFINE n == [r EXCEPT !.stat = s, !.content = Content[v]]
<1>1. n.stat = s /\ n.content = Content[v] /\ n.text = r.text BY DEF Row
<1>2. s \in Nat /\ v \in Nat /\ t \in Nat /\ 1 <= v /\ 1 <= t BY VersionNumbers
<1>3. r.text \in Texts BY DEF ReadInOrder
<1> HIDE DEF n
<1>4. ReadInOrder(n, 1, t)
  <2>1. v \in 1..t /\ t \in 1..t BY <1>2
  <2> QED BY <1>1, <1>3, <2>1 DEF ReadInOrder
<1>5. ASSUME Alive(n, t) PROVE Alive(r, t)
  <2>1. PICK w \in Versions :
          /\ t <= w /\ Content[w] # Gone /\ w \notin TooLarge
          /\ n.stat = w \/ n.content = Content[w] \/ n.text = Yield[Content[w]]
    BY <1>5 DEF Alive
  <2>2. w \in Nat BY VersionNumbers
  <2>3. n.stat = w => w = t
    <3> SUFFICES ASSUME n.stat = w PROVE w = t OBVIOUS
    <3>1. w = s BY <1>1
    <3>2. w \in Nat /\ t \in Nat /\ t <= w /\ w <= t BY <1>2, <2>1, <2>2, <3>1
    <3> QED BY <3>2
  <2>4. n.content = Content[w] => Content[t] = Content[w]
    <3>1. t <= w /\ Content[w] # Gone /\ w \notin TooLarge BY <2>1
    <3>2. Content[v] = Content[w] => Content[t] = Content[w]
      BY <3>1, SameBetween, Zenon
    <3> QED BY <1>1, <3>2
  <2>5. r.text = Yield[Content[w]] BY <1>1, <2>1, <2>3, <2>4
  <2> QED BY <2>1, <2>5 DEF Alive
<1> QED BY <1>4, <1>5, Zenon DEF n

-----------------------------------------------------------------------------
(* Around a run, before its scan and at its end no row gets worse.         *)
LEMMA HistOutside ==
    ASSUME Scopes \subseteq {"job"}, JRInv, JRTypeOK', PlaceInv, PlaceInv', HistInv,
           Around \/ Opening \/ Scan \/ Ending
    PROVE  HistInv'
<1>0. /\ JRTypeOK /\ run \in RunRecord /\ params \in Nat /\ run.params \in Nat
      /\ rows \in [Sources -> Row \cup {NoRow}]
      /\ \A f \in Files : <<f>> \in Sources /\ RowTruthful(f)
  BY SourceShape DEF JRInv, JRTypeOK, HistInv, RunRecord, Params
<1>a. Bounded /\ Bounded' BY Bounds, PTL DEF JRInv
<1>1. ASSUME pc' \notin {"extract", "embed", "delete", "upsert", "save"} PROVE ReadingInv'
  BY <1>1 DEF ReadingInv, Main
<1>2. CASE Around
  <2>1. /\ pc' = pc /\ run' = run /\ doc' = doc /\ points' = points
        /\ File' = File /\ params <= params'
        /\ rows' = rows \/ (pc = "idle" /\ rows' = [s \in Sources |-> NoRow])
        /\ \A f \in Files : tree[f] <= tree'[f] /\ (Decided(f)' <=> Decided(f))
    BY <1>0, <1>2, AroundStays
  <2>2. CASE rows' # rows
    <3>1. pc' = "idle" /\ \A f \in Files : rows'[<<f>>] = NoRow BY <1>0, <2>1, <2>2
    <3>2. \A f \in Files : RowTruthful(f)' BY <3>1 DEF RowTruthful
    <3> QED BY <1>1, <3>1, <3>2 DEF HistInv
  <2>3. CASE rows' = rows
    <3>1. ASSUME NEW f \in Files PROVE RowTruthful(f)'
      <4>1. Stat(f)' = Stat(f) BY <2>1 DEF Stat
      <4>2. VersionBound(f) <= VersionBound(f)'
        <5>1. VersionBound(f) \in Nat /\ tree[f] <= tree'[f] BY <1>a, <2>1 DEF Bounded
        <5> QED BY <2>1, <4>1, <5>1 DEF VersionBound
      <4>3. ParamBound(f) <= ParamBound(f)'
        <5>1. ParamBound(f) \in Nat BY <1>a DEF Bounded
        <5> QED BY <2>1, <5>1 DEF ParamBound
      <4>4. \A t \in Texts, p \in Params : Holds(<<f>>, t, p) => Holds(<<f>>, t, p)'
        BY <2>1 DEF Holds
      <4>5. rows'[<<f>>] = rows[<<f>>] BY <2>3
      <4> QED BY <1>0, <2>1, <4>2, <4>3, <4>4, <4>5, RowStays
    <3>2. CASE pc = "extract" \/ Main
      <4>1. /\ pc \in InFile \cup {"extract"} /\ pc # "idle" /\ pc \notin BeforeScan
        BY <3>2 DEF Main, InFile, BeforeScan
      <4>2. File \in Files /\ File \in Scanned /\ File \in run.todo BY <4>1, AtHand DEF JRInv
      <4>3. /\ run.scanned \in [Files -> Versions] /\ Stat(File) \in Versions
            /\ Stat(File)' = Stat(File)
        <5>1. run.scanned \in [Files -> Versions] BY <1>0, <4>1, Scanning
        <5> QED BY <2>1, <4>2, <5>1 DEF Stat
      <4>4. /\ tree[File] \in Versions /\ tree'[File] \in Versions
            /\ tree[File] <= tree'[File] /\ Stat(File) \in Nat
            /\ tree[File] \in Nat /\ tree'[File] \in Nat
        BY <1>a, <2>1, <4>2, <4>3, VersionNumbers DEF Bounded
      <4>5. pc = "extract" => \E v \in Stat(File)..tree'[File] : doc.content = Content[v]
        <5>1. \A v \in Stat(File)..tree[File] : v \in Stat(File)..tree'[File] BY <4>4
        <5> QED BY <5>1 DEF HistInv, ReadingInv
      <4>6. Main /\ pc # "extract" => ReadInOrder(doc, Stat(File), tree'[File])
        <5>1. Main /\ pc # "extract" => ReadInOrder(doc, Stat(File), tree[File])
          BY DEF HistInv, ReadingInv
        <5> QED BY <4>3, <4>4, <5>1, ReadWider
      <4>7. Main /\ pc # "extract" => Dead(File)'
        <5> SUFFICES ASSUME Main, pc # "extract", rows[<<File>>] # NoRow,
                            rows[<<File>>].status = "indexed",
                            rows[<<File>>].params = params',
                            Alive(rows[<<File>>], tree'[File])
                     PROVE  FALSE
          BY <2>1, <2>3 DEF Dead
        <5>1. rows[<<File>>].params <= params
          <6>1. rows[<<File>>] \in Row BY <1>0, <4>2
          <6>2. rows[<<File>>].params \in Nat BY <6>1 DEF Row, Params
          <6>3. rows[<<File>>].params <= ParamBound(File)
            BY <1>0, <4>2 DEF RowTruthful
          <6> QED BY <1>a, <4>2, <6>2, <6>3 DEF Bounded
        <5>2. params' = params
          <6>1. params' \in Nat BY <1>a, <4>2 DEF Bounded
          <6> QED BY <1>0, <2>1, <5>1, <6>1
        <5>3. Alive(rows[<<File>>], tree[File]) BY <4>4, AliveShrinks
        <5>4. Dead(File) BY DEF HistInv, ReadingInv
        <5> QED BY <5>2, <5>3, <5>4 DEF Dead
      <4>8. HasRow(File)' <=> HasRow(File) BY <2>1, <2>3 DEF HasRow
      <4>9. Main' <=> Main BY <2>1 DEF Main
      <4>10. pc = "extract" =>
               (HasRow(File) => /\ rows[<<File>>].stat # Stat(File)
                                /\ rows[<<File>>].content # doc.content)
        BY DEF HistInv, ReadingInv
      <4>11. ReadInOrder(doc, Stat(File), tree'[File]) => ReadInOrder(doc, Stat(File), tree[File])'
        BY <2>1, <4>3
      <4>12. ReadingInv'
        BY <2>1, <2>3, <4>3, <4>5, <4>6, <4>7, <4>8, <4>9, <4>10, <4>11 DEF ReadingInv
      <4> QED BY <3>1, <4>12 DEF HistInv
    <3>3. CASE ~(pc = "extract" \/ Main)
      <4>1. pc' # "extract" /\ ~Main' BY <2>1, <3>3 DEF Main
      <4>2. ReadingInv' BY <4>1 DEF ReadingInv
      <4> QED BY <3>1, <4>2 DEF HistInv
    <3> QED BY <3>2, <3>3
  <2> QED BY <2>2, <2>3
<1>3. ASSUME ~ForgetRows, Opening \/ Scan \/ Ending PROVE HistInv'
  <2>1. CASE Start
    <3>1. /\ pc = "idle" /\ pc' \in {"prepare", "scan"} /\ run'.params = params
          /\ UNCHANGED <<tree, params, rows, points>>
      BY <2>1 DEF Start, NoRun
    <3>2. pc \in BeforeScan /\ pc' \in BeforeScan BY <3>1 DEF BeforeScan
    <3>3. ASSUME NEW f \in Files PROVE RowTruthful(f)'
      <4>1. VersionBound(f) = VersionBound(f)' BY <3>1, <3>2 DEF VersionBound
      <4>2. ParamBound(f) = ParamBound(f)' BY <3>1 DEF ParamBound
      <4>3. /\ tree[f] \in Nat /\ VersionBound(f) \in Nat /\ ParamBound(f) \in Nat
            /\ tree[f] <= tree'[f] /\ params <= params'
        BY <1>0, <1>a, <3>1 DEF Bounded
      <4>4. \A t \in Texts, p \in Params : Holds(<<f>>, t, p) => Holds(<<f>>, t, p)'
        BY <3>1 DEF Holds
      <4> QED BY <1>0, <3>1, <4>1, <4>2, <4>3, <4>4, RowStays
    <3> QED BY <1>1, <3>1, <3>3 DEF HistInv
  <2>2. CASE Recreate
    BY <1>0, <2>2 DEF Recreate, RunRecord
  <2>3. CASE Scan
    <3>1. /\ pc = "scan" /\ pc' = "next" /\ run'.params = run.params /\ run'.scanned = tree
          /\ UNCHANGED <<tree, params, rows, points>>
      BY <1>0, <2>3 DEF Scan, RunRecord
    <3>2. ASSUME NEW f \in Files PROVE RowTruthful(f)'
      <4>1. ~Decided(f)' /\ ~Decided(f)
        BY <1>0, <2>3, <3>1, NothingDecided DEF BeforeScan
      <4>2. VersionBound(f) = VersionBound(f)'
        BY <3>1, <4>1 DEF VersionBound, Stat, BeforeScan
      <4>3. ParamBound(f) = ParamBound(f)' BY <3>1, <4>1 DEF ParamBound
      <4>4. /\ tree[f] \in Nat /\ VersionBound(f) \in Nat /\ ParamBound(f) \in Nat
            /\ tree[f] <= tree'[f] /\ params <= params'
        BY <1>0, <1>a, <3>1 DEF Bounded
      <4>5. \A t \in Texts, p \in Params : Holds(<<f>>, t, p) => Holds(<<f>>, t, p)'
        BY <3>1 DEF Holds
      <4> QED BY <1>0, <3>1, <4>2, <4>3, <4>4, <4>5, RowStays
    <3> QED BY <1>1, <3>1, <3>2 DEF HistInv
  <2>4. CASE Ending
    <3>1. /\ pc' = "idle" /\ points' = Aged /\ UNCHANGED <<tree, params, rows>>
      BY <2>4 DEF Ending, Abandon, GuardRefuses, Finish, Stop
    <3>2. ASSUME NEW f \in Files PROVE RowTruthful(f)'
      <4>1. VersionBound(f)' = tree[f] BY <3>1 DEF VersionBound, BeforeScan
      <4>2. ParamBound(f)' = params BY <3>1 DEF ParamBound
      <4>3. /\ tree[f] \in Nat /\ VersionBound(f) <= tree[f] /\ ParamBound(f) <= params
            /\ tree[f] <= tree'[f] /\ params <= params'
        BY <1>0, <1>a, <3>1 DEF Bounded
      <4>4. \A t \in Texts, p \in Params : Holds(<<f>>, t, p) => Holds(<<f>>, t, p)'
        <5> SUFFICES ASSUME NEW t \in Texts, NEW p \in Params, Holds(<<f>>, t, p)
                     PROVE  Holds(<<f>>, t, p)'
          OBVIOUS
        <5>1. Aged[<<f>>] = PointsOf(t, p, "past") BY <1>0, AgedHolds
        <5> QED BY <3>1, <5>1 DEF Holds
      <4> QED BY <1>0, <3>1, <4>1, <4>2, <4>3, <4>4, RowStays
    <3> QED BY <1>1, <3>1, <3>2 DEF HistInv
  <2> QED BY <1>3, <2>1, <2>2, <2>3, <2>4 DEF Opening
<1>4. CASE ForgetRows
  <2>1. pc' = "scan" /\ \A f \in Files : rows'[<<f>>] = NoRow BY <1>0, <1>4 DEF ForgetRows
  <2>2. \A f \in Files : RowTruthful(f)' BY <2>1 DEF RowTruthful
  <2> QED BY <1>1, <2>1, <2>2 DEF HistInv
<1> QED BY <1>2, <1>3, <1>4

-----------------------------------------------------------------------------
(* What is known of a file the run has not decided about yet.              *)
LEMMA Undecided ==
    ASSUME JRInv, PlaceInv, pc \notin BeforeScan, NEW f \in Files, ~Decided(f)
    PROVE  /\ VersionBound(f) = Stat(f) /\ ParamBound(f) = run.params
           /\ Stat(f) \in Versions /\ tree[f] \in Versions /\ Stat(f) <= tree[f]
           /\ Stat(f) \in Nat /\ tree[f] \in Nat
           /\ params \in Nat /\ run.params \in Nat /\ run.params <= params
<1>1. VersionBound(f) = Stat(f) /\ ParamBound(f) = run.params
  BY DEF VersionBound, ParamBound, BeforeScan
<1>2. Bounded BY Bounds DEF JRInv
<1> QED BY <1>1, <1>2 DEF Bounded

(* The row of a file about to be indexed is dead: nothing may pass over    *)
(* the file on it while its points are replaced.                           *)
LEMMA ExtractKills ==
    ASSUME NothingReturns, JRInv, PlaceInv, HistInv, Extract
    PROVE  /\ ReadInOrder(doc', Stat(File), tree[File])
           /\ Dead(File)
<1>0. JRTypeOK /\ DocInv /\ pc = "extract" /\ pc \in InFile \cup {"extract"}
  BY DEF JRInv, Extract
<1>1. /\ doc \in DocRecord /\ File \in Files /\ <<File>> \in Sources
      /\ pc \notin BeforeScan /\ ~Decided(File)
  <2>1. File \in run.todo /\ Main BY <1>0, AtHand DEF Main
  <2> QED BY <1>0, <2>1, AtHand DEF Decided, BeforeScan
<1>2. /\ Stat(File) \in Versions /\ tree[File] \in Versions /\ Stat(File) <= tree[File]
      /\ Stat(File) \in Nat /\ tree[File] \in Nat
      /\ VersionBound(File) = Stat(File) /\ ParamBound(File) = run.params
      /\ params \in Nat /\ run.params \in Nat /\ run.params <= params
  BY <1>1, Undecided
<1>3. /\ Bytes(File) # Gone /\ Yield[Bytes(File)] \in Texts
      /\ ~SameText(File, Yield[Bytes(File)])
      /\ doc'.content = doc.content /\ doc'.text = Yield[Bytes(File)]
  BY <1>1 DEF Extract, DocRecord
<1>4. PICK v \in Stat(File)..tree[File] : doc.content = Content[v]
  BY <1>0 DEF HistInv, ReadingInv
<1>5. /\ v \in Versions /\ v \in Nat /\ Stat(File) <= v /\ v <= tree[File]
      /\ Content[v] # Gone
  <2>1. doc.content \in Contents BY <1>0 DEF DocInv
  <2>2. Gone \notin Contents BY JobRunnerAssumption
  <2> QED BY <1>2, <1>4, <2>1, <2>2, VersionsBetween
<1>6. ReadInOrder(doc', Stat(File), tree[File])
  <2>1. tree[File] \in Stat(File)..tree[File] BY <1>2
  <2> QED BY <1>3, <1>4, <1>5, <2>1 DEF ReadInOrder, Bytes
<1> DEFINE r == rows[<<File>>]
<1>7. ASSUME r # NoRow, r.status = "indexed", r.params = params PROVE ~Alive(r, tree[File])
  <2>1. r \in Row BY <1>0, <1>1, <1>7 DEF JRTypeOK
  <2>2. /\ r.stat <= Stat(File) /\ r.params <= run.params
        /\ ReadInOrder(r, 1, Stat(File))
    BY <1>1, <1>2, <1>7 DEF HistInv, RowTruthful
  <2>3. r.params = run.params BY <1>2, <1>7, <2>2
  <2>4. HasRow(File) BY <1>7, <2>3 DEF HasRow
  <2>5. r.stat # Stat(File) /\ r.content # doc.content
    BY <1>0, <2>4 DEF HistInv, ReadingInv
  <2>6. r.stat < Stat(File)
    <3>1. r.stat \in Versions BY <2>1 DEF Row
    <3>2. r.stat \in Nat BY <3>1, VersionNumbers
    <3> QED BY <1>2, <2>2, <2>5, <3>2
  <2>7. r.text # Yield[Content[tree[File]]] BY <1>3, <1>7, <2>4 DEF SameText, Bytes
  <2>8. Content[tree[File]] # Gone BY <1>3 DEF Bytes
  <2> HIDE DEF r
  <2> QED BY <1>2, <1>4, <1>5, <2>1, <2>2, <2>5, <2>6, <2>7, <2>8, ReadingKills
<1> QED BY <1>6, <1>7 DEF Dead

(* The row of a file the scan has not found is dead as well.               *)
LEMMA VanishedIsDead ==
    ASSUME NothingReturns, JRInv, PlaceInv, HistInv, pc \notin BeforeScan,
           NEW f \in Files, f \notin Scanned
    PROVE  Dead(f)
<1> DEFINE r == rows[<<f>>]
<1>1. ASSUME r # NoRow, r.status = "indexed" PROVE ~Alive(r, tree[f])
  <2>1. r \in Row BY <1>1, SourceShape DEF JRInv, JRTypeOK
  <2>2. ~Decided(f) BY DEF Decided
  <2>3. /\ VersionBound(f) = Stat(f) /\ Stat(f) \in Versions /\ tree[f] \in Versions
        /\ Stat(f) <= tree[f]
    BY <2>2, Undecided
  <2>4. r.stat <= Stat(f) /\ ReadInOrder(r, 1, Stat(f))
    BY <1>1, <2>3 DEF HistInv, RowTruthful
  <2>5. Content[Stat(f)] = Gone
    <3>1. DOMAIN run.scanned = Files BY Scanning DEF JRInv
    <3> QED BY <3>1 DEF Scanned, Stat
  <2> HIDE DEF r
  <2> QED BY <2>1, <2>3, <2>4, <2>5, GoneKills
<1> QED BY <1>1 DEF Dead

(* The calls of a run that decide about no file leave the rows truthful,   *)
LEMMA HistProceeds ==
    ASSUME NothingReturns, JRInv, JRTypeOK', PlaceInv, PlaceInv', WrittenInv, HistInv,
           Proceeds
    PROVE  HistInv'
<1>0. /\ JRTypeOK /\ DocInv /\ RunInv /\ doc \in DocRecord
      /\ points \in [Sources -> SUBSET Point]
      /\ \A f \in Files : <<f>> \in Sources /\ RowTruthful(f)
  BY SourceShape DEF JRInv, JRTypeOK, HistInv
<1>1. /\ pc \notin BeforeScan /\ pc' \notin BeforeScan /\ tree' = tree /\ params' = params
      /\ run'.params = run.params /\ run'.scanned = run.scanned
  BY InRunStays DEF InRun
<1>2. \A f \in Files : Stat(f)' = Stat(f) BY <1>1 DEF Stat
<1>3. ASSUME NEW f \in Files PROVE RowTruthful(f)'
  <2>1. Decided(f)' <=> Decided(f) BY Proceeding
  <2>2. VersionBound(f)' = VersionBound(f) /\ ParamBound(f)' = ParamBound(f)
    BY <1>1, <1>2, <2>1 DEF VersionBound, ParamBound, BeforeScan
  <2>3. /\ tree[f] \in Nat /\ VersionBound(f) \in Nat /\ ParamBound(f) \in Nat
        /\ params \in Nat
    <3>1. Bounded BY <1>0, Bounds
    <3> QED BY <3>1 DEF Bounded
  <2>4. CASE rows'[<<f>>] = NoRow BY <2>4 DEF RowTruthful
  <2>5. CASE rows'[<<f>>] # NoRow
    <3>1. rows'[<<f>>] = rows[<<f>>] BY <2>5, ProceedingRows
    <3>2. (\A t \in Texts, p \in Params : Holds(<<f>>, t, p) => Holds(<<f>>, t, p)')
          \/ Dead(f)
      <4>1. CASE points'[<<f>>] = points[<<f>>] BY <4>1 DEF Holds
      <4>2. CASE f \notin Scanned BY <1>1, <4>2, VanishedIsDead
      <4>3. CASE Sweep /\ points'[<<f>>] = {q \in points[<<f>>] : q.gen = "this"}
        <5>1. pc = "sweep" BY <4>3 DEF Sweep
        <5>2. run.mode = "full" /\ ~run.dry
          BY <1>0, <5>1 DEF PlaceInv, RunPlace, RunInv
        <5>3. Decided(f)
          BY <2>5, <3>1, <5>1, <5>2 DEF WrittenInv, FullWrites
        <5>4. CASE rows[<<f>>].status = "indexed"
          <6>1. \A q \in points[<<f>>] : q.gen = "this"
            BY <5>2, <5>3, <5>4 DEF WrittenInv, FullWrites
          <6>2. points'[<<f>>] = points[<<f>>] BY <4>3, <6>1
          <6> QED BY <4>1, <6>2
        <5>5. CASE rows[<<f>>].status # "indexed" BY <5>5 DEF Dead
        <5> QED BY <5>4, <5>5
      <4>4. CASE (DeleteBySource \/ UpsertPoints) /\ Main /\ f = File
        <5>1. pc # "extract" BY <4>4 DEF DeleteBySource, UpsertPoints
        <5> QED BY <4>4, <5>1 DEF HistInv, ReadingInv
      <4> QED BY <4>1, <4>2, <4>3, <4>4, ProceedingPoints
    <3> QED BY <1>0, <1>1, <2>2, <2>3, <3>1, <3>2, RowStays
  <2> QED BY <2>4, <2>5
<1>4. ASSUME pc' # "extract", ~Main' PROVE ReadingInv'
  BY <1>4 DEF ReadingInv
<1>5. ASSUME NEW f \in Files, Hash(f) PROVE ReadingInv'
  <2>1. /\ pc' = "extract" /\ UNCHANGED <<rows, run>> /\ f \in run.todo
        /\ ~SameStat(f) /\ ~SameContent(f, Bytes(f))
        /\ doc' = [NoDoc EXCEPT !.source = <<f>>, !.content = Bytes(f)]
    BY <1>5 DEF Hash
  <2>2. doc'.content = Bytes(f) /\ doc'.source = <<f>> BY <2>1 DEF NoDoc
  <2>3. File' = f BY <2>2 DEF File
  <2>4. tree[f] \in Stat(f)..tree[f]
    <3>1. ~Decided(f) BY <1>5, <2>1 DEF Decided, Hash, InFile
    <3>2. Stat(f) \in Nat /\ tree[f] \in Nat /\ Stat(f) <= tree[f]
      BY <1>1, <3>1, Undecided
    <3> QED BY <3>2
  <2>5. \E v \in Stat(f)..tree[f] : doc'.content = Content[v]
    BY <2>2, <2>4 DEF Bytes
  <2>6. HasRow(f) => rows[<<f>>].stat # Stat(f) /\ rows[<<f>>].content # doc'.content
    BY <2>1, <2>2 DEF SameStat, SameContent
  <2>7. (Stat(File) = Stat(f))' /\ Stat(f)' = Stat(f) BY <1>2, <2>3
  <2>8. HasRow(File)' <=> HasRow(f) BY <2>1, <2>3 DEF HasRow
  <2> QED BY <1>1, <2>1, <2>3, <2>5, <2>6, <2>7, <2>8 DEF ReadingInv
<1>6. ASSUME Extract PROVE ReadingInv'
  <2>1. /\ pc' = "embed" /\ run' = run /\ rows' = rows /\ doc'.source = doc.source
    BY <1>0, <1>6 DEF Extract, DocRecord
  <2>2. File' = File /\ Stat(File)' = Stat(File) BY <2>1 DEF File, Stat
  <2>3. ReadInOrder(doc', Stat(File), tree[File]) /\ Dead(File) BY <1>6, ExtractKills
  <2>4. ReadInOrder(doc, Stat(File), tree[File])' BY <1>1, <2>2, <2>3 DEF ReadInOrder
  <2>5. Dead(File)' BY <1>1, <2>1, <2>2, <2>3 DEF Dead
  <2> QED BY <2>1, <2>4, <2>5 DEF ReadingInv
<1>7. ASSUME Embed \/ DeleteBySource \/ UpsertPoints PROVE ReadingInv'
  <2>1. /\ pc \in {"embed", "delete", "upsert"} /\ pc' \in {"delete", "upsert", "save"}
        /\ UNCHANGED <<doc, run, rows>>
    BY <1>7 DEF Embed, DeleteBySource, UpsertPoints
  <2>2. File' = File /\ Stat(File)' = Stat(File) BY <2>1 DEF File, Stat
  <2>3. Main' => Main BY <2>1, <2>2 DEF Main
  <2>4. Main => ReadInOrder(doc, Stat(File), tree[File]) /\ Dead(File)
    BY <2>1 DEF HistInv, ReadingInv
  <2>5. Dead(File) => Dead(File)' BY <1>1, <2>1, <2>2 DEF Dead
  <2>6. ReadInOrder(doc, Stat(File), tree[File]) => ReadInOrder(doc, Stat(File), tree[File])'
    BY <1>1, <2>1, <2>2 DEF ReadInOrder
  <2> QED BY <2>1, <2>3, <2>4, <2>5, <2>6 DEF ReadingInv
<1>8. ASSUME NEW n \in Names, Attach(n) PROVE ReadingInv'
  <2>1. pc' \in {"embed", "attach"} /\ doc'.source = <<File, n>>
    BY <1>0, <1>8 DEF Attach, DocRecord
  <2>2. doc'.source # <<File'>> BY <2>1
  <2> QED BY <1>4, <2>1, <2>2 DEF Main
<1>9. ASSUME \/ \E s \in Sources : DeleteStalePoints(s) \/ DeleteVanishedPoints(s)
             \/ DeleteStaleRow \/ EndScan \/ DeleteVanishedRow \/ Sweep
      PROVE  ReadingInv'
  <2>1. pc' \in {"stale", "vanishrow", "attach", "finish", "sweep", "vanish"}
    BY <1>9 DEF DeleteStalePoints, DeleteVanishedPoints, DeleteStaleRow, EndScan,
       DeleteVanishedRow, Sweep
  <2> QED BY <1>4, <2>1 DEF Main
<1>10. ReadingInv' BY <1>5, <1>6, <1>7, <1>8, <1>9 DEF Proceeds
<1> QED BY <1>3, <1>10 DEF HistInv

(* and a file that is decided about has a truthful one:                    *)
LEMMA DecidedTruthful ==
    ASSUME NothingReturns, JRInv, JRTypeOK', PlaceInv, PlaceInv', HistInv,
           NEW g \in Files, Decides(g), ~Decided(g)
    PROVE  RowTruthful(g)'
<1>0. /\ JRTypeOK /\ DocInv /\ rows \in [Sources -> Row \cup {NoRow}]
      /\ <<g>> \in Sources /\ RowTruthful(g)
  BY SourceShape DEF JRInv, JRTypeOK, HistInv
<1>1. /\ pc \notin BeforeScan /\ pc' \notin BeforeScan /\ tree' = tree /\ params' = params
      /\ points' = points
  BY InRunStays, DecidingRows DEF InRun
<1>2. /\ VersionBound(g) = Stat(g) /\ ParamBound(g) = run.params
      /\ Stat(g) \in Versions /\ tree[g] \in Versions /\ Stat(g) <= tree[g]
      /\ Stat(g) \in Nat /\ tree[g] \in Nat
      /\ params \in Nat /\ run.params \in Nat /\ run.params <= params
  BY <1>1, Undecided
<1>3. VersionBound(g)' = tree[g] /\ ParamBound(g)' = params
  <2>1. Decided(g)' BY Deciding
  <2> QED BY <1>1, <2>1 DEF VersionBound, ParamBound
<1>4. \A t, p : Holds(<<g>>, t, p)' <=> Holds(<<g>>, t, p) BY <1>1 DEF Holds
<1>5. CASE rows'[<<g>>] = rows[<<g>>]
  <2>1. tree[g] <= tree'[g] /\ params <= params' BY <1>1, <1>2
  <2>2. VersionBound(g) <= VersionBound(g)' /\ ParamBound(g) <= ParamBound(g)'
    BY <1>2, <1>3
  <2> QED BY <1>0, <1>4, <1>5, <2>1, <2>2, RowStays
<1>6. ASSUME NEW n, rows'[<<g>>] = n, n.stat = Stat(g), n.params = run.params,
             n.status = "indexed" =>
               /\ Stat(g) \notin TooLarge
               /\ ReadInOrder(n, 1, tree[g])
               /\ Stat(g) = tree[g] /\ Bytes(g) # Gone => n.text = Yield[Bytes(g)]
               /\ run.params = params /\ Alive(n, tree[g])
                  => Holds(<<g>>, n.text, run.params)
      PROVE  RowTruthful(g)'
  <2>1. Bytes(g)' = Bytes(g) BY <1>1 DEF Bytes
  <2>2. Holds(<<g>>, n.text, run.params) => Holds(<<g>>, rows[<<g>>].text, rows[<<g>>].params)'
    BY <1>4, <1>6 DEF Holds
  <2>3. rows'[<<g>>].stat <= VersionBound(g)' /\ rows'[<<g>>].params <= ParamBound(g)'
    BY <1>2, <1>3, <1>6
  <2> QED BY <1>1, <1>3, <1>6, <2>1, <2>2, <2>3 DEF RowTruthful
<1>7. ASSUME NEW b, NEW t, NEW y, y # "indexed",
             \/ SaveUnlessDry(<<g>>, NewRow(g, b, t, y))
             \/ Save(<<g>>, NewRow(g, b, t, y))
      PROVE  RowTruthful(g)'
  <2>1. CASE rows'[<<g>>] = NewRow(g, b, t, y)
    BY <1>6, <1>7, <2>1 DEF NewRow
  <2>2. CASE rows' = rows BY <1>5, <2>2
  <2> QED BY <1>0, <1>7, <2>1, <2>2 DEF SaveUnlessDry, Save
<1>8. CASE SkipKnown(g) \/ SkipSameStat(g) \/ (g = File /\ (ExtractDry \/ AttachmentsDone))
  <2>1. rows' = rows BY <1>8 DEF SkipKnown, SkipSameStat, ExtractDry, AttachmentsDone
  <2> QED BY <1>5, <2>1
<1>9. CASE SkipTooLarge(g)
  BY <1>7, <1>9 DEF SkipTooLarge
<1>10. CASE g = File /\ ExtractNothing
  <2>1. PICK y \in Failures : SaveUnlessDry(<<g>>, NewRow(g, doc.content, NoText, y))
    BY <1>10 DEF ExtractNothing
  <2>2. y # "indexed" BY DEF Failures
  <2> QED BY <1>7, <2>1, <2>2
<1> DEFINE r == rows[<<g>>]
<1>11. HasRow(g) =>
         /\ r \in Row /\ r # NoRow /\ r.params = run.params
         /\ r.status = "indexed" =>
              /\ ReadInOrder(r, 1, Stat(g))
              /\ run.params = params /\ Alive(r, tree[g]) => Holds(<<g>>, r.text, run.params)
  BY <1>0, <1>2 DEF HasRow, RowTruthful
<1> HIDE DEF r
<1>12. CASE SkipSameContent(g)
  <2> DEFINE n == [r EXCEPT !.stat = Stat(g)]
  <2>1. /\ HasRow(g) /\ SaveUnlessDry(<<g>>, n) /\ Stat(g) \notin TooLarge
        /\ Content[tree[g]] # Gone /\ r.content = Content[tree[g]]
    BY <1>12 DEF SkipSameContent, SameContent, Bytes, r
  <2>2. CASE rows' = rows BY <1>5, <2>2
  <2>3. CASE rows'[<<g>>] = n
    <3>1. n.stat = Stat(g) /\ n.params = run.params /\ n.text = r.text
          /\ n.status = r.status
      BY <1>11, <2>1 DEF Row
    <3>2. ASSUME r.status = "indexed"
          PROVE  /\ ReadInOrder(n, 1, tree[g])
                 /\ Stat(g) = tree[g] => n.text = Yield[Content[tree[g]]]
                 /\ Alive(n, tree[g]) => Alive(r, tree[g])
      BY <1>2, <1>11, <2>1, <3>2, StatAdvances
    <3> HIDE DEF n
    <3> QED BY <1>6, <1>11, <2>1, <2>3, <3>1, <3>2 DEF Bytes
  <2> QED BY <1>0, <2>1, <2>2, <2>3 DEF SaveUnlessDry, Save
<1>13. CASE g = File /\ SkipSameText
  <2>1. pc = "extract" /\ Main BY <1>13 DEF SkipSameText, Main
  <2>2. PICK v \in Stat(g)..tree[g] : doc.content = Content[v]
    BY <1>13, <2>1 DEF HistInv, ReadingInv
  <2>3. v \in Versions /\ Stat(g) <= v /\ v <= tree[g] /\ Content[v] # Gone
    <3>1. doc.content \in Contents BY <1>0, <2>1 DEF DocInv
    <3>2. Gone \notin Contents BY JobRunnerAssumption
    <3> QED BY <1>2, <2>2, <3>1, <3>2, VersionsBetween
  <2>4. Stat(g) \notin TooLarge BY <1>13, <2>1 DEF PlaceInv, RunPlace
  <2> DEFINE n == [r EXCEPT !.stat = Stat(g), !.content = Content[v]]
  <2>5. /\ HasRow(g) /\ SaveUnlessDry(<<g>>, n) /\ r.status = "indexed"
        /\ Content[tree[g]] # Gone /\ r.text = Yield[Content[tree[g]]]
    BY <1>13, <2>2 DEF SkipSameText, SameText, Bytes, r
  <2>6. CASE rows' = rows BY <1>5, <2>6
  <2>7. CASE rows'[<<g>>] = n
    <3>1. n.stat = Stat(g) /\ n.params = run.params /\ n.text = r.text
      BY <1>11, <2>5 DEF Row
    <3>2. /\ ReadInOrder(n, 1, tree[g])
          /\ Alive(n, tree[g]) => Alive(r, tree[g])
      BY <1>2, <1>11, <2>3, <2>5, ContentAdvances
    <3> HIDE DEF n
    <3> QED BY <1>6, <1>11, <2>4, <2>5, <2>7, <3>1, <3>2 DEF Bytes
  <2> QED BY <1>0, <2>5, <2>6, <2>7 DEF SaveUnlessDry, Save
<1>14. CASE g = File /\ (EmbedMismatch \/ SaveRow)
  <2>1. pc \in {"embed", "save"} /\ pc \in InFile
    BY <1>14 DEF EmbedMismatch, SaveRow, InFile
  <2>2. g \in Scanned BY <1>0, <1>14, <2>1, AtHand
  <2>3. Main /\ doc.source = <<g>> BY <1>1, <1>14, <2>1, <2>2 DEF Decided, Main
  <2>4. CASE EmbedMismatch
    <3>1. Save(<<g>>, NewRow(g, doc.content, doc.text, "failed_embed"))
      BY <1>14, <2>3, <2>4 DEF EmbedMismatch
    <3> QED BY <1>7, <3>1
  <2>5. CASE SaveRow
    <3> DEFINE n == NewRow(g, doc.content, doc.text, "indexed")
    <3>1. rows'[<<g>>] = n BY <1>0, <1>14, <2>3, <2>5 DEF SaveRow, Save
    <3>2. /\ n.stat = Stat(g) /\ n.params = run.params /\ n.text = doc.text
          /\ n.content = doc.content
      BY DEF NewRow
    <3>3. Stat(g) \notin TooLarge BY <1>14, <2>3 DEF PlaceInv, RunPlace
    <3>4. Holds(<<g>>, doc.text, run.params)
      BY <2>3, <2>5 DEF SaveRow, PlaceInv, RunPlace, Holds
    <3>5. ReadInOrder(doc, Stat(g), tree[g])
      BY <1>14, <2>1, <2>3 DEF HistInv, ReadingInv
    <3>6. ReadInOrder(doc, 1, tree[g])
      <4>1. 1 \in Versions /\ 1 <= Stat(g) /\ tree[g] <= tree[g] BY <1>2, VersionNumbers
      <4> QED BY <1>2, <3>5, <4>1, ReadWider
    <3>7. Stat(g) = tree[g] => doc.text = Yield[Bytes(g)]
      <4>1. PICK v, w \in Stat(g)..tree[g] : doc.text = Yield[Content[w]]
        BY <3>5 DEF ReadInOrder
      <4>2. Stat(g) = tree[g] => w = tree[g] BY <1>2, <4>1
      <4> QED BY <4>1, <4>2 DEF Bytes
    <3> HIDE DEF n
    <3>8. ReadInOrder(n, 1, tree[g]) BY <3>2, <3>6 DEF ReadInOrder
    <3> QED BY <1>6, <3>1, <3>2, <3>3, <3>4, <3>7, <3>8
  <2> QED BY <1>14, <2>4, <2>5
<1> QED BY <1>8, <1>9, <1>10, <1>12, <1>13, <1>14 DEF Decides

(* the rows of the other files stay as they are.                           *)
LEMMA HistDecides ==
    ASSUME NothingReturns, JRInv, JRTypeOK', PlaceInv, PlaceInv', HistInv,
           NEW g \in Files, Decides(g)
    PROVE  HistInv'
<1>1. /\ pc \notin BeforeScan /\ pc' \notin BeforeScan /\ tree' = tree /\ params' = params
      /\ run'.params = run.params /\ run'.scanned = run.scanned
  BY InRunStays DEF InRun
<1>2. /\ points' = points
      /\ \A f \in Files : f # g \/ Decided(f) => rows'[<<f>>] = rows[<<f>>]
  BY DecidingRows
<1>3. ASSUME NEW f \in Files, f # g \/ Decided(f) PROVE RowTruthful(f)'
  <2>1. Decided(f)' <=> Decided(f) BY <1>3, Deciding
  <2>2. VersionBound(f)' = VersionBound(f) /\ ParamBound(f)' = ParamBound(f)
    BY <1>1, <2>1 DEF VersionBound, ParamBound, BeforeScan, Stat
  <2>3. /\ tree[f] \in Nat /\ VersionBound(f) \in Nat /\ ParamBound(f) \in Nat
        /\ params \in Nat
    <3>1. Bounded BY Bounds DEF JRInv
    <3> QED BY <3>1 DEF Bounded
  <2>4. tree[f] <= tree'[f] /\ params <= params' /\ VersionBound(f) <= VersionBound(f)'
        /\ ParamBound(f) <= ParamBound(f)'
    BY <1>1, <2>2, <2>3
  <2>5. \A t \in Texts, p \in Params : Holds(<<f>>, t, p) => Holds(<<f>>, t, p)'
    BY <1>2 DEF Holds
  <2>6. rows'[<<f>>] = rows[<<f>>] /\ RowTruthful(f) /\ JRTypeOK
    BY <1>2, <1>3 DEF HistInv, JRInv
  <2> QED BY <2>4, <2>5, <2>6, RowStays
<1>4. ~Decided(g) => RowTruthful(g)' BY DecidedTruthful
<1>5. pc' \in {"next", "attach"}
  BY DEF Decides, SkipKnown, SkipTooLarge, SkipSameStat, SkipSameContent,
     ExtractNothing, SkipSameText, ExtractDry, EmbedMismatch, SaveRow,
     AttachmentsDone, Done
<1>6. ReadingInv' BY <1>5 DEF ReadingInv, Main
<1> QED BY <1>3, <1>4, <1>6 DEF HistInv

(* Every step of the job keeps its rows truthful.                          *)
LEMMA HistStep ==
    ASSUME NothingReturns, Scopes \subseteq {"job"}
    PROVE  JRInv /\ PlaceInv /\ WrittenInv /\ HistInv /\ [JRNext]_jrVars => HistInv'
<1> SUFFICES ASSUME JRInv, PlaceInv, WrittenInv, HistInv, [JRNext]_jrVars PROVE HistInv'
  OBVIOUS
<1>1. JRTypeOK' /\ PlaceInv' BY TypeStep, OptionsStep, PlaceStep DEF PlaceInv
<1>2. CASE Around \/ Opening \/ Scan \/ Ending BY <1>1, <1>2, HistOutside
<1>3. CASE Proceeds BY <1>1, <1>3, HistProceeds
<1>4. ASSUME NEW g \in Files, Decides(g) PROVE HistInv' BY <1>1, <1>4, HistDecides
<1> QED BY <1>2, <1>3, <1>4, AllSteps DEF InRun

\* What is behind truthful rows and a run that has caught up.
HistoryInv == JRInv /\ PlaceInv /\ WrittenInv /\ HistInv

(* It holds in every reachable state when nothing that was replaced comes  *)
(* back and no run drops the collection before the rows.                   *)
THEOREM HistoryInvariant ==
    ASSUME NothingReturns, Scopes \subseteq {"job"}
    PROVE  JRSpec => []HistoryInv
<1>1. JRInit => HistoryInv
  <2> SUFFICES ASSUME JRInit PROVE HistoryInv OBVIOUS
  <2>1. pc = "idle" /\ \A s \in Sources : rows[s] = NoRow /\ points[s] = {}
    BY DEF JRInit
  <2>2. \A f \in Files : <<f>> \in Sources BY SourceShape
  <2>3. PlaceInv BY <2>1 DEF PlaceInv, RunOptions, RunPlace, BeforeScan, Main
  <2>4. WrittenInv
    <3>1. \A f \in Files : ~Decided(f) BY <2>1 DEF Decided, BeforeScan
    <3>2. run = NoRun BY DEF JRInit
    <3> QED BY <2>1, <2>2, <3>1, <3>2
            DEF WrittenInv, UpToDate, OldPoints, FullWrites, NoRun
  <2>5. HistInv BY <2>1, <2>2 DEF HistInv, RowTruthful, ReadingInv, Main
  <2> QED BY <2>3, <2>4, <2>5, JRInitInv DEF HistoryInv
<1>2. HistoryInv /\ [JRNext]_jrVars => HistoryInv'
  <2>1. JRInv /\ [JRNext]_jrVars => JRInv'
    BY TypeStep, RunInvStep, DocStep, PointStep DEF JRInv
  <2> QED BY <2>1, OptionsStep, PlaceStep, WrittenStep, HistStep DEF HistoryInv, PlaceInv
<1> QED BY <1>1, <1>2, PTL DEF JRSpec

(* A file that the next run would pass over as indexed is in the           *)
(* collection, with the text and the parameters of its row, whatever call  *)
(* was the last one of whatever runs there were (runner.py:5-7).           *)
THEOREM RowsAreTruthful ==
    ASSUME NothingReturns, Scopes \subseteq {"job"}
    PROVE  JRSpec => []IndexedRowsTruthful
<1>1. HistoryInv => IndexedRowsTruthful
  <2> SUFFICES ASSUME HistoryInv, NEW f \in Files, PassedOver(f)
               PROVE  Holds(<<f>>, rows[<<f>>].text, rows[<<f>>].params)
    BY DEF IndexedRowsTruthful
  <2>1. tree[f] \in Versions /\ tree[f] <= tree[f]
    <3>1. tree[f] \in Versions BY DEF HistoryInv, JRInv, JRTypeOK
    <3> QED BY <3>1, VersionNumbers
  <2>2. Alive(rows[<<f>>], tree[f]) BY <2>1 DEF PassedOver, Alive, Bytes
  <2> QED BY <2>2 DEF HistoryInv, HistInv, RowTruthful, PassedOver
<1> QED BY <1>1, HistoryInvariant, PTL

(* A full run, or an upsert that deletes, that ends with nothing having    *)
(* moved leaves rows and collection as the tree is (docs/modes.md:51-56,   *)
(* 84-97).                                                                 *)
THEOREM RunsCatchUp ==
    ASSUME NothingReturns, Scopes \subseteq {"job"}
    PROVE  JRSpec => []CaughtUp
<1>1. HistoryInv => CaughtUp
  <2> SUFFICES ASSUME HistoryInv, pc = "finish", quiet, ~run.dry,
                      run.mode = "full" \/ (run.mode = "upsert" /\ run.delete),
                      NEW f \in Files
               PROVE  IF Bytes(f) = Gone
                      THEN /\ rows[<<f>>] = NoRow
                           /\ run.mode = "full" => points[<<f>>] = {}
                      ELSE /\ rows[<<f>>] # NoRow
                           /\ rows[<<f>>].stat = tree[f] /\ rows[<<f>>].params = params
                           /\ rows[<<f>>].status = "indexed"
                              => Holds(<<f>>, Yield[Bytes(f)], params)
    BY DEF CaughtUp
  <2>1. /\ JRTypeOK /\ SeenInv /\ pc \notin BeforeScan /\ pc \notin InFile
        /\ <<f>> \in Sources
    BY SourceShape DEF HistoryInv, JRInv, BeforeScan, InFile
  <2>2. run.params = params /\ Stat(f) = tree[f]
    BY <2>1 DEF HistoryInv, PlaceInv, RunOptions
  <2>3. run.todo = {} BY DEF HistoryInv, PlaceInv, RunPlace
  <2>4. DOMAIN run.scanned = Files BY <2>1, Scanning
  <2>5. f \in Scanned <=> Bytes(f) # Gone BY <2>2, <2>4 DEF Scanned, Stat, Bytes
  <2>6. Decided(f) <=> f \in Scanned BY <2>1, <2>3 DEF Decided
  <2>7. CASE Bytes(f) = Gone
    <3>1. f \notin Scanned /\ ~Decided(f) BY <2>5, <2>6, <2>7
    <3>2. rows[<<f>>] = NoRow
      <4>1. CASE run.mode = "full"
        BY <3>1, <4>1 DEF HistoryInv, WrittenInv, FullWrites
      <4>2. CASE run.mode = "upsert" /\ run.delete
        <5>1. Vanished = {} BY <4>2 DEF HistoryInv, PlaceInv, RunPlace
        <5>2. \A s \in run.seen : s[1] \in Scanned BY <2>1 DEF SeenInv
        <5>3. <<f>> \notin run.seen /\ <<f>>[1] = f BY <3>1, <5>2
        <5> QED BY <2>1, <5>1, <5>3 DEF Vanished, Unseen, Recorded
      <4> QED BY <4>1, <4>2
    <3>3. ASSUME run.mode = "full" PROVE points[<<f>>] = {}
      <4>1. \A q \in points[<<f>>] : q.gen = "past"
        BY <3>1 DEF HistoryInv, WrittenInv, OldPoints
      <4>2. \A q \in points[<<f>>] : q.gen = "this"
        BY <3>3 DEF HistoryInv, WrittenInv, FullWrites
      <4> QED BY <4>1, <4>2
    <3> QED BY <2>7, <3>2, <3>3
  <2>8. CASE Bytes(f) # Gone
    <3>1. /\ rows[<<f>>] # NoRow
          /\ rows[<<f>>].stat = tree[f] /\ rows[<<f>>].params = params
      BY <2>2, <2>5, <2>6, <2>8 DEF HistoryInv, WrittenInv, UpToDate
    <3>2. ASSUME rows[<<f>>].status = "indexed"
          PROVE  Holds(<<f>>, Yield[Bytes(f)], params)
      <4>1. tree[f] \in Versions /\ tree[f] <= tree[f]
        <5>1. tree[f] \in Versions BY <2>1 DEF JRTypeOK
        <5> QED BY <5>1, VersionNumbers
      <4>2. tree[f] \notin TooLarge /\ rows[<<f>>].text = Yield[Bytes(f)]
        BY <2>8, <3>1, <3>2 DEF HistoryInv, HistInv, RowTruthful
      <4>3. Alive(rows[<<f>>], tree[f]) BY <2>8, <3>1, <4>1, <4>2 DEF Alive, Bytes
      <4> QED BY <3>1, <3>2, <4>2, <4>3 DEF HistoryInv, HistInv, RowTruthful
    <3> QED BY <2>8, <3>1, <3>2
  <2> QED BY <2>7, <2>8
<1> QED BY <1>1, HistoryInvariant, PTL
=============================================================================
