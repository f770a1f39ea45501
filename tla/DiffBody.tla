------------------------------ MODULE DiffBody -------------------------------
(***************************************************************************)
(* One file of the review panel: the diff git printed becomes numbered     *)
(* rows, the lines git left out become bands, and a click on a band reads  *)
(* the file and shows them (src/webui/frontend/src/diffSummary.ts and      *)
(* FileBody in components/DiffView.tsx).                                   *)
(*                                                                         *)
(* A file is an edit script: line i of it is kept, deleted or added, and   *)
(* its text is i, so no two lines read alike.  git is external: it prints  *)
(* the changed lines with Context lines around them.  Colours, badges and  *)
(* the words of a hunk header are left out.                                *)
(***************************************************************************)
EXTENDS Integers, Sequences, FiniteSets, SequencesExt, FiniteSetsExt

CONSTANTS Scripts,     \* the changes: sequences of "ctx", "del" and "add"
          Context,     \* unchanged lines git prints around a change
          DashedLines, \* whether a changed line may begin with "-- " or "++ "
          BlankTails,  \* whether the file may end in a blank line
          Rewrites,    \* whether the agent may write the file before it was read
          DiffSteps    \* clicks and faults
ASSUME DiffBodyAssumption ==
    /\ Scripts \subseteq Seq({"ctx", "del", "add"}) /\ Context \in Nat \ {0} /\ DiffSteps \in Nat
    /\ DashedLines \in BOOLEAN /\ BlankTails \in BOOLEAN /\ Rewrites \in BOOLEAN

VARIABLES
    script, status, \* the change: kinds of lines; modified, added or deleted
    bareOld, bareNew, dashed, blank, \* no newline at the end; odd lines; a blank last line
    rows, gaps,     \* the parsed diff and its gaps: they are what the file is drawn from
    text,           \* the file as it is now
    blob, blobFailed, open, loadingIdx, \* FileBody's state
    prefetching, gapReads, \* calls on their way: the first read; one per click
    diffSteps
fileVars == <<script, status, bareOld, bareNew, dashed, blank, rows, gaps>>
bodyVars == <<blob, blobFailed, open, loadingIdx, prefetching, gapReads>>
diffVars == <<fileVars, text, bodyVars, diffSteps>>

None == 0
\* What was read of the file: nothing, or its lines.
NoBlob == <<>>
NoRead == [at |-> "none", lines |-> NoBlob]
Asked == [at |-> "asked", lines |-> NoBlob]

(***************************************************************************)
(* The change and git's diff of it.                                        *)
(***************************************************************************)
Places(kinds) == {i \in DOMAIN script : script[i] \in kinds}
Side(kinds) == SelectSeq([i \in DOMAIN script |-> i], LAMBDA i : script[i] \in kinds)
Old == Side({"ctx", "del"})
New == Side({"ctx", "add"})
Changes == Places({"add", "del"})
Printed(i) == \E j \in Changes : j - Context <= i /\ i <= j + Context
Starts(i) == Printed(i) /\ ~(i > 1 /\ Printed(i - 1))
\* The number a hunk begins with on one side: 0 when that side is empty.
FirstNumber(side, i) ==
    IF side = <<>> THEN 0 ELSE 1 + Cardinality({j \in Range(side) : j < i})
\* The last line of a side that ends without a newline is followed by a mark.
Marked(i) ==
    \/ bareOld /\ Old # <<>> /\ i = Last(Old)
    \/ bareNew /\ New # <<>> /\ i = Last(New)
Printout(i) ==
    (IF Starts(i) THEN <<[kind |-> "hunk", old |-> FirstNumber(Old, i),
                          new |-> FirstNumber(New, i), text |-> None]>> ELSE <<>>)
    \o <<[kind |-> script[i], old |-> 0, new |-> 0, text |-> i]>>
    \o (IF Marked(i) THEN <<[kind |-> "mark", old |-> 0, new |-> 0, text |-> None]>> ELSE <<>>)
GitDiff == FlattenSeq([i \in DOMAIN script |-> IF Printed(i) THEN Printout(i) ELSE <<>>])

(***************************************************************************)
(* parseFileDiff: rows with the numbers of both sides, 0 for none.  A      *)
(* changed line whose text begins with "-- " or "++ " reads as a header.   *)
(***************************************************************************)
Row(kind, o, n, t) == [kind |-> kind, oldNo |-> o, newNo |-> n, text |-> t]
\* Mutant: a deleted line takes a number of the new side, too.
AfterDeletionBoth(p, l) ==
    [rows |-> Append(p.rows, Row("del", p.oldNo, 0, l.text)),
     oldNo |-> p.oldNo + 1, newNo |-> p.newNo + 1]
AfterDeletion(p, l) ==
    [rows |-> Append(p.rows, Row("del", p.oldNo, 0, l.text)),
     oldNo |-> p.oldNo + 1, newNo |-> p.newNo]
ParseLine(p, l) ==
    CASE l.kind = "hunk" ->
           [rows |-> Append(p.rows, Row("hunk", 0, 0, None)), oldNo |-> l.old, newNo |-> l.new]
      [] l.kind = "mark" -> [p EXCEPT !.rows = Append(@, Row("mark", 0, 0, None))]
      [] l.kind \in {"add", "del"} /\ l.text \in dashed -> p
      [] l.kind = "add" /\ l.text \notin dashed ->
           [rows |-> Append(p.rows, Row("add", 0, p.newNo, l.text)),
            oldNo |-> p.oldNo, newNo |-> p.newNo + 1]
      [] l.kind = "del" /\ l.text \notin dashed -> AfterDeletion(p, l)
      [] OTHER ->
           [rows |-> Append(p.rows, Row("ctx", p.oldNo, p.newNo, l.text)),
            oldNo |-> p.oldNo + 1, newNo |-> p.newNo + 1]
parseFileDiff == FoldLeft(ParseLine, [rows |-> <<>>, oldNo |-> 0, newNo |-> 0], GitDiff).rows

(***************************************************************************)
(* hunkGaps: the lines hidden before each hunk, and after the last.  An    *)
(* end of 0 is "to the end of the file, wherever that is".                 *)
(***************************************************************************)
Body(rs, h) ==
    {j \in h + 1 .. Len(rs) : \A k \in h + 1 .. j : rs[k].kind # "hunk"}
NewNumbers(rs, J) == {rs[j].newNo : j \in J} \ {0}
LastShown(rs, h) == Max({0} \cup NewNumbers(rs, 1 .. h - 1))
GapBefore(rs, h) ==
    [start |-> LastShown(rs, h) + 1, end |-> Min(NewNumbers(rs, Body(rs, h))) - 1]
HunksWithGap(rs) ==
    {h \in DOMAIN rs :
        /\ rs[h].kind = "hunk" /\ NewNumbers(rs, Body(rs, h)) # {}
        /\ GapBefore(rs, h).end >= GapBefore(rs, h).start}
HasTrailingGap(rs) ==
    /\ LastShown(rs, Len(rs) + 1) > 0 /\ status = "modified"
    /\ rs[Len(rs)].kind # "mark"
trailingGapKey(rs) == Len(rs) + 1
hunkGaps(rs) ==
    [h \in HunksWithGap(rs)
           \cup (IF HasTrailingGap(rs) THEN {trailingGapKey(rs)} ELSE {}) |->
        IF h \in DOMAIN rs THEN GapBefore(rs, h)
        ELSE [start |-> LastShown(rs, h) + 1, end |-> 0]]

(***************************************************************************)
(* splitRows: the old side left, the new side right; a run of deletions    *)
(* and additions is paired line by line.                                   *)
(***************************************************************************)
NoRow == Row("none", 0, 0, None)
Pad(s, i) == IF i \in DOMAIN s THEN s[i] ELSE NoRow
Pairs(s) == Max({Len(s.dels), Len(s.adds)})
Flush(s) ==
    [out |-> s.out \o [i \in 1 .. Pairs(s) |-> [left |-> Pad(s.dels, i), right |-> Pad(s.adds, i)]],
     dels |-> <<>>, adds |-> <<>>]
SplitRow(s, r) ==
    CASE r.kind = "del" -> [s EXCEPT !.dels = Append(@, r)]
      [] r.kind = "add" -> [s EXCEPT !.adds = Append(@, r)]
      [] r.kind = "hunk" -> Flush(s)
      [] OTHER -> [Flush(s) EXCEPT !.out = Append(@, [left |-> r, right |-> r])]
splitRows == Flush(FoldLeft(SplitRow, [out |-> <<>>, dels |-> <<>>, adds |-> <<>>], rows)).out

(***************************************************************************)
(* FileBody: the first read, clicks on bands, their answers.               *)
(***************************************************************************)
\* handleBlob strips every newline at the end, so a blank last line is lost.
BlobOf(t) == <<IF blank /\ t # <<>> THEN Front(t) ELSE t>>
Lines == Head(blob)
DiffSpend == diffSteps < DiffSteps /\ diffSteps' = diffSteps + 1
Known(gap) == gap.end # 0 \/ blob # NoBlob
GapEnd(gap) == IF gap.end # 0 THEN gap.end ELSE Len(Lines)
gapLen(gap) == GapEnd(gap) - gap.start + 1
Band(g) == IF Known(gaps[g]) THEN gapLen(gaps[g]) > 0 ELSE ~blobFailed
ToggleGap(g) ==
    /\ g \in DOMAIN gaps /\ Band(g) /\ loadingIdx # g /\ DiffSpend
    /\ IF g \in open
       THEN open' = open \ {g} /\ UNCHANGED <<loadingIdx, gapReads>>
       ELSE IF blob = NoBlob
       THEN loadingIdx' = g /\ gapReads' = Append(gapReads, [gap |-> g, lines |-> NoBlob])
            /\ UNCHANGED open
       ELSE open' = open \cup {g} /\ UNCHANGED <<loadingIdx, gapReads>>
    /\ UNCHANGED <<fileVars, text, blob, blobFailed, prefetching>>
ReadServed(i) ==
    /\ gapReads[i].lines = NoBlob
    /\ gapReads' = [gapReads EXCEPT ![i].lines = BlobOf(text)]
    /\ UNCHANGED <<fileVars, text, blob, blobFailed, open, loadingIdx, prefetching, diffSteps>>
\* blob and blobFailed are what the first read waits for: it is dropped.
ReadLands(i) ==
    /\ gapReads[i].lines # NoBlob
    /\ blob' = gapReads[i].lines /\ open' = open \cup {gapReads[i].gap}
    /\ loadingIdx' = 0 /\ gapReads' = RemoveAt(gapReads, i) /\ prefetching' = NoRead
    /\ UNCHANGED <<fileVars, text, blobFailed, diffSteps>>
ReadFails(i) ==
    /\ DiffSpend /\ blobFailed' = TRUE /\ loadingIdx' = 0
    /\ gapReads' = RemoveAt(gapReads, i) /\ prefetching' = NoRead
    /\ UNCHANGED <<fileVars, text, blob, open>>
PrefetchServed ==
    /\ prefetching = Asked
    /\ prefetching' = [at |-> "served", lines |-> BlobOf(text)]
    /\ UNCHANGED <<fileVars, text, blob, blobFailed, open, loadingIdx, gapReads, diffSteps>>
PrefetchLands ==
    /\ prefetching.at = "served"
    /\ blob' = prefetching.lines /\ prefetching' = NoRead
    /\ UNCHANGED <<fileVars, text, blobFailed, open, loadingIdx, gapReads, diffSteps>>
PrefetchFails ==
    /\ prefetching # NoRead /\ DiffSpend
    /\ blobFailed' = TRUE /\ prefetching' = NoRead
    /\ UNCHANGED <<fileVars, text, blob, open, loadingIdx, gapReads>>
\* The agent puts a line before the file.
Rewrite ==
    /\ text = New /\ (Rewrites \/ (blob # NoBlob /\ gapReads = <<>>)) /\ DiffSpend
    /\ text' = <<Len(script) + 1>> \o New
    /\ UNCHANGED <<fileVars, bodyVars>>

(***************************************************************************)
(* What is on the screen.                                                  *)
(***************************************************************************)
revealedRows(gap) ==
    IF blob = NoBlob THEN <<>>
    ELSE [k \in 1 .. Max({0, Min({GapEnd(gap), Len(Lines)}) - gap.start + 1}) |->
            Row("ctx", gap.start + k - 1, gap.start + k - 1, Lines[gap.start + k - 1])]
Revealed(g) == IF g \in DOMAIN gaps \cap open THEN revealedRows(gaps[g]) ELSE <<>>
\* The inline view, and the two columns of the split view.
Inline ==
    FlattenSeq([i \in 1 .. Len(rows) + 1 |->
        Revealed(i) \o (IF i \in DOMAIN rows THEN <<rows[i]>> ELSE <<>>)])

(***************************************************************************)
(* Behaviours.                                                             *)
(***************************************************************************)
\* A kept last line ends the same way on both sides, and a line that is only
\* one side's last has a newline on the other.
SharedEnd == bareOld /\ bareNew /\ Old # <<>> /\ New # <<>> /\ Last(Old) = Last(New)
EndsAgree ==
    /\ bareOld => Old # <<>> /\ (script[Last(Old)] = "del" \/ SharedEnd)
    /\ bareNew => New # <<>> /\ (script[Last(New)] = "add" \/ SharedEnd)
DiffInit ==
    /\ script \in Scripts /\ Changes # {}
    /\ status \in {"modified"} \cup (IF Old = <<>> THEN {"added"} ELSE {})
                              \cup (IF New = <<>> THEN {"deleted"} ELSE {})
    /\ bareOld \in BOOLEAN /\ bareNew \in BOOLEAN /\ EndsAgree
    /\ dashed \in IF DashedLines THEN SUBSET Changes ELSE {{}}
    /\ blank \in IF BlankTails THEN BOOLEAN ELSE {FALSE}
    /\ rows = parseFileDiff /\ gaps = hunkGaps(rows) /\ text = New
    /\ blob = NoBlob /\ blobFailed = FALSE /\ open = {} /\ loadingIdx = 0
    \* Only the files on the screen are read ahead, for the length of the tail.
    /\ prefetching \in {NoRead} \cup (IF HasTrailingGap(rows) THEN {Asked} ELSE {})
    /\ gapReads = <<>> /\ diffSteps = 0
DiffNext ==
    \/ \E g \in DOMAIN gaps : ToggleGap(g)
    \/ \E i \in DOMAIN gapReads : ReadServed(i) \/ ReadLands(i) \/ ReadFails(i)
    \/ PrefetchServed \/ PrefetchLands \/ PrefetchFails
    \/ Rewrite
DiffSpec == DiffInit /\ [][DiffNext]_diffVars

DiffTypeOK ==
    /\ status \in {"modified", "added", "deleted"}
    /\ open \subseteq DOMAIN gaps /\ loadingIdx \in {0} \cup DOMAIN gaps
    /\ blobFailed \in BOOLEAN /\ prefetching.at \in {"none", "asked", "served"} /\ diffSteps \in 0 .. DiffSteps
    /\ open # {} => blob # NoBlob

\* The lines of the new side that a closed band on the screen stands for.  A
\* band to an end that was not read yet stands for the rest of the file.
HiddenBy(g) ==
    IF g \in DOMAIN gaps \ open /\ Band(g)
    THEN gaps[g].start .. (IF Known(gaps[g]) THEN GapEnd(gaps[g]) ELSE Len(New))
    ELSE {}
HiddenLines == UNION {HiddenBy(g) : g \in DOMAIN gaps}
\* After a read that failed the band to the end is not drawn.
NotDrawn ==
    IF blobFailed /\ blob = NoBlob THEN LastShown(rows, Len(rows) + 1) + 1 .. Len(New) ELSE {}
\* As many lines were added as deleted before line i of the script.
Balanced(i) ==
    Cardinality({j \in Places({"add"}) : j < i}) = Cardinality({j \in Places({"del"}) : j < i})
\* The rows and the bands of one file tell the whole of it (parseFileDiff,
\* hunkGaps, revealedRows, splitRows): a printed row carries that line of each of
\* its sides, a revealed one that line of the new side, and of the old side where
\* the changes before it balance; the rows are in order, and every line of the
\* new side is shown once or behind exactly one closed band, whatever was
\* clicked, but for those after the last row when the file could not be read; the
\* split view drops no row of either side.
RowsTellTheFile ==
    LET columns == splitRows
        shown == SelectSeq(Inline, LAMBDA r : r.newNo > 0)
        numbers == {shown[i].newNo : i \in DOMAIN shown}
        left == SelectSeq([i \in DOMAIN columns |-> columns[i].left],
                          LAMBDA r : r.oldNo > 0)
        right == SelectSeq([i \in DOMAIN columns |-> columns[i].right],
                           LAMBDA r : r.newNo > 0)
    IN  /\ \A i \in DOMAIN shown :
              shown[i].newNo \in DOMAIN New /\ shown[i].text = New[shown[i].newNo]
        /\ \A i, j \in DOMAIN shown : i < j => shown[i].newNo < shown[j].newNo
        /\ DOMAIN New = numbers \cup HiddenLines \cup NotDrawn
        /\ numbers \cap (HiddenLines \cup NotDrawn) = {} /\ HiddenLines \cap NotDrawn = {}
        /\ \A g, h \in DOMAIN gaps : g # h => HiddenBy(g) \cap HiddenBy(h) = {}
        /\ \A i \in DOMAIN shown :
              shown[i].kind = "ctx" /\ Balanced(shown[i].text) =>
                  shown[i].oldNo \in DOMAIN Old /\ Old[shown[i].oldNo] = shown[i].text
        /\ \A i \in DOMAIN left :
              left[i].oldNo \in DOMAIN Old /\ left[i].text = Old[left[i].oldNo]
        /\ left = SelectSeq(rows, LAMBDA r : r.oldNo > 0)
        /\ right = SelectSeq(rows, LAMBDA r : r.newNo > 0)

\* A row of the split view carries the number its line has on each side
\* (diffSummary.ts: "content rows carry old/new line numbers for the gutter").
\* revealedRows numbers the old side like the new one.
RevealedRowsAreNumbered ==
    status = "modified" =>
        \A g \in DOMAIN gaps : \A i \in DOMAIN Revealed(g) :
            LET r == Revealed(g)[i]
            IN  r.oldNo \in DOMAIN Old /\ Old[r.oldNo] = r.text
=============================================================================
