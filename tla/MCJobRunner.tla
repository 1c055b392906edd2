---------------------------- MODULE MCJobRunner ----------------------------
(* Small file histories for JobRunner.                                     *)
EXTENDS JobRunner, TLC

CONSTANTS f1, f2, n1, n2

\* Each text and its chunks; blank is one of attachments.
MCChunks == [short |-> 1, long |-> 2, letter |-> 2, note |-> 1, reply |-> 2,
             blank |-> 0]
MCYield == [A |-> "long", A2 |-> "long", B |-> "short",
            scan |-> "skipped_no_text", big |-> "long"]
NothingAttached == [b \in DOMAIN MCYield |-> <<>>]

\* Written, touched, saved again with the same text, shortened, removed,
\* back as something unreadable, and as something too large.
Forward == <<"A", "A", "A2", "B", Gone, "scan", "big">>
\* Written, shortened, removed.
Shortened == <<"A", "B", Gone>>
\* Edited once.
Edited == <<"A", "B">>

\* A message with two attachments, saved again with one of them rewritten
\* and the other one gone, and again with the other one back, the first blank.
MailYield == [m1 |-> "letter", m2 |-> "note", m3 |-> "reply"]
MailAttached == [m1 |-> (n1 :> "long") @@ (n2 :> "short"),
                 m2 |-> (n1 :> "short"),
                 m3 |-> (n1 :> "blank") @@ (n2 :> "long")]
Mail == <<"m1", "m2", "m3">>

\* Either history, whichever version the file starts at.  In the second one the
\* parameters stay and the state is not lost: both are told in the first.
\* OneHistory is the action constraint that keeps the two apart.
BothYield == MCYield @@ MailYield
BothAttached == NothingAttached @@ MailAttached
Both == Forward \o Mail
InMail == \E f \in Files : tree[f] > Len(Forward)
OneHistory == /\ InMail' = InMail
              /\ InMail => params' = params /\ losses' = losses

\* One message that never changes.
LetterYield == [m1 |-> "long"]
LetterAttached == [m1 |-> (n1 :> "short")]
Letter == <<"m1">>
=============================================================================
