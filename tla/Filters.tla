------------------------------ MODULE Filters ------------------------------
(***************************************************************************)
(* The include and exclude patterns of a job (src/src/sources/filters.py), *)
(* which have two readers: the scan, by glob_to_regex, and rclone, by      *)
(* to_rclone_pattern and the rules made of it.                             *)
(*                                                                         *)
(* A pattern and a path are sequences of characters; "/" separates the     *)
(* segments of a path, none of which is empty.  To the scan every other    *)
(* character but "*" and "?" stands for itself; to rclone so do those that *)
(* are not of a group, [ab] or {a,b}.                                      *)
(***************************************************************************)
EXTENDS Integers, Sequences

CONSTANTS Characters,
          PatternLists,  \* the lists of patterns a job may have
          TreePaths      \* the paths of the files in its source

Rooted(s) == s # <<>> /\ s[1] = "/"

ASSUME FiltersAssumption ==
    /\ {"*", "/"} \subseteq Characters
    /\ PatternLists \subseteq Seq(Seq(Characters))
    /\ TreePaths \subseteq {s \in Seq(Characters) : ~Rooted(s)}

VARIABLES filters,  \* the include and the exclude list of the job
          path      \* the path of a file in its source

fiVars == <<filters, path>>

\* "**" at position i of a pattern, and "**/".
Doubled(g, i) == i < Len(g) /\ g[i] = "*" /\ g[i + 1] = "*"
Crossing(g, i) == Doubled(g, i) /\ i + 1 < Len(g) /\ g[i + 2] = "/"
Crossings(g) == {i \in 1..Len(g) : Crossing(g, i)}

-----------------------------------------------------------------------------
(* The tokens of a pattern, read from left to right.  What takes "**/" for *)
(* one does so at the positions `cross'.                                   *)
Width(g, cross, i) == IF i \in cross THEN 3 ELSE IF Doubled(g, i) THEN 2 ELSE 1

\* The token at i takes the characters of s from k to m - 1.
Takes(g, cross, i, s, k, m) ==
    /\ k <= m
    /\ IF i \in cross THEN m = k \/ s[m - 1] = "/"
       ELSE IF Doubled(g, i) THEN TRUE
       ELSE IF g[i] = "*" THEN \A n \in k..m - 1 : s[n] # "/"
       ELSE m = k + 1 /\ (s[k] = g[i] \/ (g[i] = "?" /\ s[k] # "/"))

\* From which positions of s on the pattern from i on matches all of it.
MatchedFrom(g, cross, s) ==
    LET from[i \in 1..Len(g) + 1] ==
          IF i > Len(g) THEN {Len(s) + 1}
          ELSE LET rest == from[i + Width(g, cross, i)]
               IN {k \in 1..Len(s) + 1 : \E m \in rest : Takes(g, cross, i, s, k, m)}
    IN from

\* lstrip("/")
Stripped(s) ==
    LET first == CHOOSE i \in 1..Len(s) + 1 : /\ \A k \in 1..i - 1 : s[k] = "/"
                                              /\ i <= Len(s) => s[i] # "/"
    IN SubSeq(s, first, Len(s))

\* The regular expression of a pattern, applied to a path as a whole.
Matches(g, s) == 1 \in MatchedFrom(g, Crossings(g), s)[1]
MatchesGlob(g, s) == Matches(Stripped(g), Stripped(s))

\* path_matches: excludes win, a list of includes that is not empty decides.
Scanned(f, s) ==
    /\ \A i \in DOMAIN f.exclude : ~MatchesGlob(f.exclude[i], s)
    /\ f.include = <<>> \/ \E i \in DOMAIN f.include : MatchesGlob(f.include[i], s)

-----------------------------------------------------------------------------
(* to_rclone_pattern: unanchored without a leading "**/", else anchored.   *)
\* Slip: the prefix is left in place.
ToRcloneLiterally(g) == IF Rooted(g) THEN g ELSE <<"/">> \o g

ToRclone(g) ==
    IF Crossing(g, 1) THEN SubSeq(g, 4, Len(g))
    ELSE IF Rooted(g) THEN g ELSE <<"/">> \o g

(* rclone's reading of a pattern without groups: "**" stands for any       *)
(* characters wherever it is, so that "**/" requires a directory; a        *)
(* pattern that does not begin with "/" may begin at any segment.          *)
RcloneMatches(g, s) ==
    IF Rooted(g) THEN 1 \in MatchedFrom(Tail(g), {}, s)[1]
    ELSE \E k \in MatchedFrom(g, {}, s)[1] : k = 1 \/ s[k - 1] = "/"

(* Of [ab] rclone takes one character, of {a,b} one of the pieces between  *)
(* the commas.  Groups are not nested here, and hold no star next to one   *)
(* outside; a class is of plain characters, each of them written out.      *)
Closer == [c \in {"[", "{"} |-> IF c = "[" THEN "]" ELSE "}"]
GroupSigns == {"[", "]", "{", "}"}
Grouped(g) == \E i \in DOMAIN g : g[i] \in GroupSigns

\* Where the group that begins at i ends, if it does; and what it stands for.
Closing(g, i) == {j \in i + 1..Len(g) : g[j] = Closer[g[i]]
                                        /\ \A k \in i + 1..j - 1 : g[k] # Closer[g[i]]}
Pieces(g, i, j) ==
    IF g[i] = "[" THEN {<<g[k]>> : k \in i + 1..j - 1}
    ELSE LET marks == {i, j} \cup {k \in i + 1..j - 1 : g[k] = ","}
         IN {SubSeq(g, k[1] + 1, k[2] - 1) :
                 k \in {m \in marks \X marks : /\ m[1] < m[2]
                                               /\ \A n \in marks : ~(m[1] < n /\ n < m[2])}}

TooManyStars(g) == \E i \in 1..Len(g) - 2 : Doubled(g, i) /\ Doubled(g, i + 1)

\* The patterns without groups that one stands for; none if rclone refuses it.
Spelled(g) ==
    LET from[i \in 1..Len(g) + 1] ==
          IF i > Len(g) THEN {<<>>}
          ELSE IF g[i] \notin GroupSigns THEN {<<g[i]>> \o rest : rest \in from[i + 1]}
          ELSE IF g[i] \notin DOMAIN Closer THEN {}
          ELSE UNION {{piece \o rest : piece \in Pieces(g, i, j), rest \in from[j + 1]} :
                          j \in Closing(g, i)}
    IN from[1]
Readings(g) == IF TooManyStars(g) THEN {} ELSE IF Grouped(g) THEN Spelled(g) ELSE {g}

\* A pattern with "/" at its end is about directories: an exclude leaves out all
\* there is in them, an include says nothing of files.
Directory(g) == g # <<>> /\ g[Len(g)] = "/"
Completed(g) == IF Directory(g) THEN g \o <<"*", "*">> ELSE g
RcloneRefuses(rule) == Readings(Completed(rule.pattern)) = {}
RcloneApplies(rule, s) ==
    /\ ~(rule.keep /\ Directory(rule.pattern))
    /\ \E g \in Readings(Completed(rule.pattern)) : RcloneMatches(g, s)

\* rclone_filter_args: the excludes, the includes, then "+ */" for directories
\* and "- **" when there are includes.
Rules(f) ==
    [i \in DOMAIN f.exclude |-> [keep |-> FALSE, pattern |-> ToRclone(f.exclude[i])]]
    \o [i \in DOMAIN f.include |-> [keep |-> TRUE, pattern |-> ToRclone(f.include[i])]]
    \o IF f.include = <<>> THEN <<>>
       ELSE <<[keep |-> FALSE, pattern |-> <<"*", "*">>]>>

\* rclone ends at once over a rule that it refuses.  The first rule that applies
\* decides; a file no rule applies to is fetched.
Fetched(f, s) ==
    LET applying == {i \in DOMAIN Rules(f) : RcloneApplies(Rules(f)[i], s)}
    IN /\ \A i \in DOMAIN Rules(f) : ~RcloneRefuses(Rules(f)[i])
       /\ \A i \in applying : (\A k \in applying : i <= k) => Rules(f)[i].keep

-----------------------------------------------------------------------------
FIInit ==
    /\ \E include, exclude \in PatternLists :
         filters = [include |-> include, exclude |-> exclude]
    /\ path \in TreePaths
FISpec == FIInit /\ [][UNCHANGED fiVars]_fiVars

-----------------------------------------------------------------------------
\* A pattern of the dialect alone: it has no empty segment, no group, no three
\* stars in a row and no "/" at its end.
Segmented(g) == \A i \in 2..Len(g) : ~(g[i - 1] = "/" /\ g[i] = "/")
Simple(g) == /\ g # <<>> /\ Segmented(g)
             /\ ~Grouped(g) /\ ~TooManyStars(g) /\ ~Directory(g)
\* "**/" crosses segments only where it opens the pattern, bare.
Plain(g) == Simple(g) /\ Crossings(g) \subseteq {1}
PlainFilters(f) == /\ \A i \in DOMAIN f.include : Plain(f.include[i])
                   /\ \A i \in DOMAIN f.exclude : Plain(f.exclude[i])

(* Of patterns in which "**/" is at most the beginning, and none is what   *)
(* the two dialects read apart (a group, a "/" at the end, "//", "***"),   *)
(* the scan and rclone make the same file set: none is fetched and never   *)
(* scanned, none expected and never fetched (filters.py:1-5, 57-70 and     *)
(* 79-84).                                                                 *)
PlainPatternsAgree == PlainFilters(filters) => (Scanned(filters, path) <=> Fetched(filters, path))

(* filters.py:3-5: "both phases see the same file set by construction".    *)
(* The scan lets every "**/" stand for nothing; only the leading one is    *)
(* taken off for rclone, for which the others require a directory: of      *)
(* "d/**/x" the file d/x is never fetched.                                 *)
SameFileSet == Scanned(filters, path) <=> Fetched(filters, path)
=============================================================================
