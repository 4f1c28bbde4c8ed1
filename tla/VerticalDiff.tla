---------------------------- MODULE VerticalDiff ----------------------------
(***************************************************************************)
(* An edit that is shown in the editor line by line, and accepted or       *)
(* rejected block by block: the diff of the old lines against the          *)
(* generated ones as they arrive (core/diff/streamDiff.ts, util.ts), its    *)
(* lines applied to the document, the final diff (core/diff/myers.ts), and  *)
(* the user's decisions (extensions/vscode/src/diff/vertical).             *)
(*                                                                         *)
(* Lines of the document count from 0.  A line is its text and its         *)
(* indentation; the thresholds that say when two texts are alike are a     *)
(* constant.                                                               *)
(***************************************************************************)
EXTENDS Integers, FiniteSets, Sequences, SequencesExt

CONSTANTS LineText,         \* what a line may say
          Blank,            \* the text of an empty line
          Alike,            \* the pairs of texts that pass for one line that was changed
          Long,             \* the texts of more than eight characters
          Files,            \* the files: the lines before, in and after the range
          News,             \* the lines that may be generated
          MaxTyped          \* bound on the lines the user types

Line == [text : LineText, indent : Nat]
Empty == [text |-> Blank, indent |-> 0]
IsEmpty(line) == line.text = Blank

\* An edit has a range of at least one line.
ASSUME DiffAssumption ==
    /\ Blank \in LineText /\ MaxTyped \in Nat /\ News \subseteq Seq(Line)
    /\ Files \subseteq [before : Seq(Line), lines : Seq(Line) \ {<<>>}, after : Seq(Line)]

VARIABLES
    original,   \* the file, the generated lines and their diff, as the edit began
    stream,     \* the diff lines still to come
    view,       \* the document with its decorations
    at,         \* "stream", "open" or "closed"
    typed,      \* how many lines the user typed
    plan        \* what was decided of each line of the final diff

diffVars == <<original, stream, view, at, typed, plan>>

Item(type, line) == [type |-> type, line |-> line]
LinesOf(items) == [i \in DOMAIN items |-> items[i].line]
LinesIn(diff, types) ==
    FlattenSeq([i \in DOMAIN diff |-> IF diff[i].type \in types THEN <<diff[i].line>> ELSE <<>>])
OldSide(diff) == LinesIn(diff, {"same", "old"})
NewSide(diff) == LinesIn(diff, {"same", "new"})

-----------------------------------------------------------------------------
(* streamDiff                                                              *)

Matches(new, old) == ~IsEmpty(new) /\ (new.text = old.text \/ <<new.text, old.text>> \in Alike)

\* The index of the first old line that new matches, or 0; an empty line
\* matches the next one only.
MatchIndex(new, olds) ==
    IF IsEmpty(new) THEN IF olds # <<>> /\ IsEmpty(olds[1]) THEN 1 ELSE 0
    ELSE SelectInSeq(olds, LAMBDA old : Matches(new, old))

\* Mutant: the old lines before a match are passed over.
DiffStepSkippingOlds(acc, new) ==
    LET i == MatchIndex(new, acc.olds)
    IN  IF i = 0 THEN [acc EXCEPT !.out = Append(@, Item("new", new))]
        ELSE [acc EXCEPT !.olds = SubSeq(@, i + 1, Len(@)),
                         !.out = Append(@, Item("same", acc.olds[i]))]

\* One turn of the loop.  A line that differs by its indentation only is the
\* old line; after the first such mistake short lines may differ so, too.
DiffStep(acc, new) ==
    LET i == MatchIndex(new, acc.olds)
        old == acc.olds[i]
        sameIndent == new.text = old.text /\ new.indent = old.indent
        fixed == new.text = old.text /\ (acc.permissive \/ new.text \in Long \/ IsEmpty(new))
        skipped == [j \in 1..(i - 1) |-> Item("old", acc.olds[j])]
    IN  IF i = 0 THEN [acc EXCEPT !.out = Append(@, Item("new", new))]
        ELSE [olds |-> SubSeq(acc.olds, i + 1, Len(acc.olds)),
              permissive |-> acc.permissive \/ (fixed /\ ~sameIndent),
              out |-> acc.out \o skipped \o
                      (IF sameIndent \/ fixed THEN <<Item("same", old)>>
                       ELSE <<Item("old", old), Item("new", new)>>)]

StreamDiff(olds, news) ==
    LET acc[n \in 0..Len(news)] ==
            IF n = 0 THEN [olds |-> olds, permissive |-> FALSE, out |-> <<>>]
            ELSE DiffStep(acc[n - 1], news[n])
        end == acc[Len(news)]
    IN  end.out \o [j \in DOMAIN end.olds |-> Item("old", end.olds[j])]

\* filterLeadingAndTrailingNewLineInsertion: an empty line is not inserted first,
\* last, or before a removed line.
FilterStep(acc, d) ==
    IF d.type = "new" /\ IsEmpty(d.line)
    THEN [acc EXCEPT !.first = FALSE, !.buffer = IF acc.first THEN @ ELSE Append(@, d)]
    ELSE [first |-> FALSE, buffer |-> <<>>,
          out |-> acc.out \o (IF d.type = "old" THEN <<>> ELSE acc.buffer) \o <<d>>]

FilterInsertions(diff) ==
    LET acc[n \in 0..Len(diff)] ==
            IF n = 0 THEN [first |-> TRUE, buffer |-> <<>>, out |-> <<>>]
            ELSE FilterStep(acc[n - 1], diff[n])
    IN  acc[Len(diff)].out

\* A range that is one empty line is a place to insert at.
DiffLines(olds, news) ==
    FilterInsertions(StreamDiff(IF olds = <<Empty>> THEN <<>> ELSE olds, news))

-----------------------------------------------------------------------------
(* The editor: what its edits do to the lines of the document              *)

InsertAbove(doc, i, lines) ==
    IF i >= Len(doc) THEN doc \o lines
    ELSE SubSeq(doc, 1, i) \o lines \o SubSeq(doc, i + 1, Len(doc))

\* The last line has no line end: of it an empty line is left.
DeleteLines(doc, i, n) ==
    IF i >= Len(doc) THEN doc
    ELSE IF i + n < Len(doc) THEN SubSeq(doc, 1, i) \o SubSeq(doc, i + n + 1, Len(doc))
    ELSE SubSeq(doc, 1, i) \o <<Empty>>

\* Mutant: the last line of the range is taken to be behind it.
ReplaceRangeButLast(doc, first, last, lines) ==
    SubSeq(doc, 1, first) \o lines \o SubSeq(doc, last + 1, Len(doc))

ReplaceRange(doc, first, last, lines) ==
    SubSeq(doc, 1, first) \o lines \o SubSeq(doc, last + 2, Len(doc))

-----------------------------------------------------------------------------
(* Decorations and blocks                                                  *)

AddGreen(added, i) ==
    IF added # <<>> /\ Last(added).end = i - 1 THEN [added EXCEPT ![Len(added)].end = i]
    ELSE Append(added, [start |-> i, end |-> i])

Red(i, line) == [start |-> i, end |-> i, line |-> line]

ShiftDownAfterLine(ranges, line, offset) ==
    [k \in DOMAIN ranges |->
        IF ranges[k].start >= line
        THEN [ranges[k] EXCEPT !.start = @ + offset, !.end = @ + offset] ELSE ranges[k]]

ShiftCodeLens(lenses, line, offset) ==
    LET others == SelectSeq(lenses, LAMBDA b : b.start # line)
    IN  [k \in DOMAIN others |-> IF others[k].start > line
                                 THEN [others[k] EXCEPT !.start = @ + offset] ELSE others[k]]

\* deleteRangesStartingAt: the red lines that follow each other from line on.
RedsAt(removed, line) ==
    LET i == SelectInSeq(removed, LAMBDA r : r.start = line)
        follow == {n \in 0..(Len(removed) - i + 1) :
                      \A m \in 0..(n - 1) : removed[i + m].start = line + m}
    IN  IF i = 0 THEN <<>>
        ELSE SubSeq(removed, i, i - 1 + CHOOSE n \in follow : \A m \in follow : m <= n)

Without(seq, gone) ==
    FlattenSeq([i \in DOMAIN seq |->
                   IF \A k \in DOMAIN gone : gone[k] # seq[i] THEN <<seq[i]>> ELSE <<>>])

\* Mutant: the sizes are mixed up when the lines below are shifted.
AcceptRejectBlockSwapped(v, accept, b) ==
    LET reds == RedsAt(v.removed, b.start)
        offset == IF accept THEN -b.numGreen ELSE -b.numRed
        doc == IF accept THEN v.document ELSE DeleteLines(v.document, b.start + b.numRed, b.numGreen)
        cut == IF b.numRed > 0 THEN DeleteLines(doc, b.start, b.numRed) ELSE doc
    IN  [v EXCEPT !.document = IF b.numRed > 0 /\ ~accept
                               THEN InsertAbove(cut, b.start, LinesOf(reds)) ELSE cut,
                  !.removed = ShiftDownAfterLine(Without(@, reds), b.start, offset),
                  !.added = ShiftDownAfterLine(
                        SelectSeq(@, LAMBDA g : g.start # b.start + b.numRed), b.start, offset),
                  !.lenses = ShiftCodeLens(@, b.start, offset)]

AcceptRejectBlock(v, accept, b) ==
    LET reds == IF b.numRed > 0 THEN RedsAt(v.removed, b.start) ELSE <<>>
        offset == IF accept THEN -b.numRed ELSE -b.numGreen
        afterGreen == IF b.numGreen > 0 /\ ~accept
                      THEN DeleteLines(v.document, b.start + b.numRed, b.numGreen) ELSE v.document
        afterRed == IF b.numRed > 0 THEN DeleteLines(afterGreen, b.start, b.numRed) ELSE afterGreen
        added == IF b.numGreen > 0
                 THEN RemoveFirstMatch(v.added, LAMBDA g : g.start = b.start + b.numRed) ELSE v.added
    IN  [v EXCEPT !.document = IF reds # <<>> /\ ~accept
                               THEN InsertAbove(afterRed, b.start, LinesOf(reds)) ELSE afterRed,
                  !.removed = ShiftDownAfterLine(Without(@, reds), b.start, offset),
                  !.added = ShiftDownAfterLine(added, b.start, offset),
                  !.lenses = ShiftCodeLens(@, b.start, offset)]

-----------------------------------------------------------------------------
(* The lines as they arrive                                                *)

\* Mutant: the green lines below the red ones are not shifted.
InsertDeletionBufferUnshifted(v) ==
    LET n == Len(v.buffer)
        start == v.index - v.inserted
    IN  [v EXCEPT !.lenses = IF n + v.inserted = 0 THEN @
                             ELSE Append(@, [start |-> start, numRed |-> n, numGreen |-> v.inserted]),
                  !.document = InsertAbove(@, start, [k \in 1..n |-> Empty]),
                  !.removed = @ \o [k \in 1..n |-> Red(start + k - 1, v.buffer[k])],
                  !.index = @ + n, !.buffer = <<>>, !.inserted = 0]

\* The end of a block: its removed lines come back, empty and red, above the
\* inserted ones.
InsertDeletionBuffer(v) ==
    LET n == Len(v.buffer)
        start == v.index - v.inserted
    IN  [v EXCEPT !.lenses = IF n + v.inserted = 0 THEN @
                             ELSE Append(@, [start |-> start, numRed |-> n, numGreen |-> v.inserted]),
                  !.document = InsertAbove(@, start, [k \in 1..n |-> Empty]),
                  !.removed = @ \o [k \in 1..n |-> Red(start + k - 1, v.buffer[k])],
                  !.added = ShiftDownAfterLine(@, start, n),
                  !.index = @ + n, !.buffer = <<>>, !.inserted = 0]

HandleDiffLine(v, d) ==
    CASE d.type = "same" -> [InsertDeletionBuffer(v) EXCEPT !.index = @ + 1]
      [] d.type = "old" -> [v EXCEPT !.buffer = Append(@, d.line),
                                     !.document = DeleteLines(@, v.index, 1)]
      [] d.type = "new" -> [v EXCEPT !.document = InsertAbove(@, v.index, <<d.line>>),
                                     !.added = AddGreen(@, v.index),
                                     !.index = @ + 1, !.inserted = @ + 1]

-----------------------------------------------------------------------------
(* The final diff                                                          *)

\* Which lines a diff keeps: some longest common subsequence.
Alignments(olds, news) ==
    LET Ascending(S) == SetToSortSeq(S, <)
        Common == {p \in (SUBSET DOMAIN olds) \X (SUBSET DOMAIN news) :
                      /\ Cardinality(p[1]) = Cardinality(p[2])
                      /\ \A k \in 1..Cardinality(p[1]) :
                            olds[Ascending(p[1])[k]] = news[Ascending(p[2])[k]]}
    IN  {p \in Common : \A q \in Common : Cardinality(q[1]) <= Cardinality(p[1])}

\* The diff of an alignment: between two kept lines the removed ones come first.
DiffOf(olds, news, p) ==
    LET s == SetToSortSeq(p[1], <)
        t == SetToSortSeq(p[2], <)
        n == Len(s)
        Between(u, k, len) == (IF k = 1 THEN 1 ELSE u[k - 1] + 1)..(IF k > n THEN len ELSE u[k] - 1)
        Items(type, lines, S) == LET u == SetToSortSeq(S, <)
                                 IN [j \in DOMAIN u |-> Item(type, lines[u[j]])]
        Part(k) == Items("old", olds, Between(s, k, Len(olds))) \o
                   Items("new", news, Between(t, k, Len(news))) \o
                   (IF k > n THEN <<>> ELSE <<Item("same", olds[s[k]])>>)
    IN  FlattenSeq([k \in 1..(n + 1) |-> Part(k)])

\* A line that was removed and inserted with another indentation is kept; removed
\* empty lines at the end are forgotten.
MergeStep(acc, d) ==
    IF acc # <<>> /\ d.type = "new" /\ Last(acc).type = "old" /\ Last(acc).line.text = d.line.text
    THEN Append(Front(acc), Item("same", Last(acc).line)) ELSE Append(acc, d)

DropTrailing(diff) ==
    LET kept == {i \in DOMAIN diff : ~(diff[i].type = "old" /\ IsEmpty(diff[i].line))}
    IN  SubSeq(diff, 1, IF kept = {} THEN 0 ELSE CHOOSE i \in kept : \A j \in kept : j <= i)

MyersDiffs(olds, news) ==
    {DropTrailing(FoldLeft(MergeStep, <<>>, DiffOf(olds, news, p))) : p \in Alignments(olds, news)}

\* No lines, ended by a line end, are one empty line.
Terminated(lines) == IF lines = <<>> THEN <<Empty>> ELSE lines

\* The blocks of a diff that begins at line first.
LensStep(acc, d, line) ==
    IF d.type = "old" THEN [acc EXCEPT !.red = @ + 1]
    ELSE IF d.type = "new" THEN [acc EXCEPT !.green = @ + 1]
    ELSE IF acc.red + acc.green = 0 THEN acc
    ELSE [red |-> 0, green |-> 0,
          lenses |-> Append(acc.lenses, [start |-> line - acc.red - acc.green,
                                         numRed |-> acc.red, numGreen |-> acc.green])]

Lenses(diff, first) ==
    LET Step(acc, i) == LensStep(acc, Append(diff, Item("same", Empty))[i], first + i - 1)
    IN  FoldLeft(Step, [red |-> 0, green |-> 0, lenses |-> <<>>],
                 [i \in 1..(Len(diff) + 1) |-> i]).lenses

\* From the last block to the first.
RejectAllBlocks(v) ==
    LET n == Len(v.lenses)
        acc[k \in 0..n] == IF k = n THEN v ELSE AcceptRejectBlock(acc[k + 1], FALSE, v.lenses[k + 1])
    IN  acc[0]

\* reapplyWithMyersDiff: the lines are put back, and the range is replaced by the
\* lines of the final diff.
ReapplyWith(v, diff, first, last) ==
    LET doc == RejectAllBlocks(v).document
        endsWithNewline == first < last /\ last < Len(doc) /\ IsEmpty(doc[last + 1])
        shown == Terminated([i \in DOMAIN diff |->
                                IF diff[i].type = "old" THEN Empty ELSE diff[i].line])
        LinesAt(type) == SelectSeq([i \in DOMAIN diff |-> i], LAMBDA i : diff[i].type = type)
        reds == LinesAt("old")
    IN  [v EXCEPT !.document = ReplaceRange(doc, first, last,
                                            shown \o IF endsWithNewline THEN <<Empty>> ELSE <<>>),
                  !.removed = [k \in DOMAIN reds |-> Red(first + reds[k] - 1, diff[reds[k]].line)],
                  !.added = FoldLeft(LAMBDA acc, i : AddGreen(acc, first + i - 1), <<>>, LinesAt("new")),
                  !.lenses = Lenses(diff, first)]

\* clear(): every block that is left.
ClearAll(v, accept) ==
    LET DeleteRange(r, doc) == DeleteLines(doc, r.start, r.end - r.start + 1)
        Restore(doc, r) == InsertAbove(DeleteRange(r, doc), r.start, <<r.line>>)
        doc == IF accept THEN FoldRight(DeleteRange, v.removed, v.document)
               ELSE FoldRight(DeleteRange, v.added, FoldLeft(Restore, v.document, v.removed))
    IN  [v EXCEPT !.document = doc, !.removed = <<>>, !.added = <<>>, !.lenses = <<>>]

-----------------------------------------------------------------------------
(* What has been decided, line by line                                     *)

Decided(items, fate) == [i \in DOMAIN items |-> [type |-> items[i].type, line |-> items[i].line,
                              fate |-> IF items[i].type = "same" THEN "kept" ELSE fate]]
Kept(lines) == [i \in DOMAIN lines |-> [type |-> "same", line |-> lines[i], fate |-> "kept"]]

\* What the document shows of an item.
Shown(item) ==
    CASE item.fate = "kept" -> <<item.line>>
      [] item.fate = "open" -> <<IF item.type = "old" THEN Empty ELSE item.line>>
      [] item.fate = "accepted" -> IF item.type = "old" THEN <<>> ELSE <<item.line>>
      [] item.fate = "rejected" -> IF item.type = "old" THEN <<item.line>> ELSE <<>>

Render(items) == FlattenSeq([i \in DOMAIN items |-> Shown(items[i])])

IsOpen(i) == plan[i].fate = "open"
Hunk(i) == Cardinality({j \in 1..i : IsOpen(j) /\ (j = 1 \/ ~IsOpen(j - 1))})
OpenItems(h) == {i \in DOMAIN plan : IsOpen(i) /\ Hunk(i) = h}
DecideItems(S, accept) ==
    LET fate == IF accept THEN "accepted" ELSE "rejected"
    IN  [i \in DOMAIN plan |-> IF i \in S THEN [plan[i] EXCEPT !.fate = fate] ELSE plan[i]]

-----------------------------------------------------------------------------
(* The handler and its user                                                *)

First == Len(original.before)
LastLine == First + Len(original.lines) - 1

DiffBegins(f, new) ==
    LET diff == DiffLines(f.lines, new)
    IN  /\ original = [before |-> f.before, lines |-> f.lines, after |-> f.after,
                       new |-> new, diff |-> diff]
        /\ stream = diff
        /\ view = [document |-> f.before \o f.lines \o f.after,
                   index |-> Len(f.before), inserted |-> 0, buffer |-> <<>>,
                   removed |-> <<>>, added |-> <<>>, lenses |-> <<>>]
        /\ at = "stream" /\ typed = 0 /\ plan = <<>>

DiffInit == \E f \in Files, new \in News : DiffBegins(f, new)

HandleLine ==
    /\ at = "stream" /\ stream # <<>>
    /\ view' = HandleDiffLine(view, Head(stream))
    /\ stream' = Tail(stream)
    /\ UNCHANGED <<original, at, typed, plan>>

\* The end of run().
Reapply ==
    /\ at = "stream" /\ stream = <<>>
    /\ \E diff \in MyersDiffs(Terminated(OldSide(original.diff)),
                             Terminated(NewSide(original.diff))) :
          /\ view' = ReapplyWith(InsertDeletionBuffer(view), diff, First, LastLine)
          /\ plan' = Kept(original.before) \o Decided(diff, "open") \o Kept(original.after)
    /\ at' = "open"
    /\ UNCHANGED <<original, stream, typed>>

\* acceptRejectVerticalDiffBlock: with its last block the diff is closed.
DecideBlock(k, accept) ==
    /\ at = "open" /\ k \in DOMAIN view.lenses
    /\ LET v == AcceptRejectBlock(view, accept, view.lenses[k])
       IN  IF Len(view.lenses) = 1 THEN view' = ClearAll(v, TRUE) /\ at' = "closed"
           ELSE view' = v /\ UNCHANGED at
    /\ plan' = DecideItems(OpenItems(k), accept)
    /\ UNCHANGED <<original, stream, typed>>

DecideAll(accept) ==
    /\ at = "open"
    /\ view' = ClearAll(view, accept)
    /\ plan' = DecideItems({i \in DOMAIN plan : IsOpen(i)}, accept)
    /\ at' = "closed"
    /\ UNCHANGED <<original, stream, typed>>

\* The user types a line end behind a line that is not marked.
TypeLine(i) ==
    LET behind == {k \in DOMAIN plan : Len(Render(SubSeq(plan, 1, k))) = i + 1}
        k == IF behind = {} THEN Len(plan) ELSE CHOOSE k \in behind : \A j \in behind : k <= j
    IN  /\ at = "open" /\ typed < MaxTyped /\ i < Len(view.document)
        /\ \A r \in ToSet(view.removed) \cup ToSet(view.added) : i \notin r.start..r.end
        /\ view' = [view EXCEPT !.document = InsertAbove(@, i + 1, <<Empty>>),
                                !.removed = ShiftDownAfterLine(@, i, 1),
                                !.added = ShiftDownAfterLine(@, i, 1),
                                !.lenses = ShiftCodeLens(@, i, 1)]
        /\ plan' = SubSeq(plan, 1, k) \o Kept(<<Empty>>) \o SubSeq(plan, k + 1, Len(plan))
        /\ typed' = typed + 1
        /\ UNCHANGED <<original, stream, at>>

DiffNext ==
    \/ HandleLine
    \/ Reapply
    \/ \E accept \in BOOLEAN :
          DecideAll(accept) \/ \E k \in DOMAIN view.lenses : DecideBlock(k, accept)
    \/ \E i \in 0..(Len(view.document) - 1) : TypeLine(i)

DiffSpec == DiffInit /\ [][DiffNext]_diffVars

-----------------------------------------------------------------------------
(* Properties                                                              *)

DiffTypeOK ==
    /\ at \in {"stream", "open", "closed"} /\ typed \in 0..MaxTyped
    /\ at = "stream" => view.index \in view.inserted..Len(view.document)

Marked(ranges) == UNION {r.start..r.end : r \in ToSet(ranges)}
RedLines(b) == b.start..(b.start + b.numRed - 1)
GreenLines(b) == (b.start + b.numRed)..(b.start + b.numRed + b.numGreen - 1)
Visible(lines) ==
    FlattenSeq([i \in DOMAIN lines |-> IF IsEmpty(lines[i]) THEN <<>> ELSE <<lines[i]>>])
Texts(lines) ==
    FlattenSeq([i \in DOMAIN lines |-> IF IsEmpty(lines[i]) THEN <<>> ELSE <<lines[i].text>>])

\* The invariants of streamDiff.ts:7: every old line comes in the diff, in order,
\* as old or the same; every generated line, too, as new or the same, but for
\* empty lines and the indentation of lines that are kept.
NoLineIsLost ==
    /\ original.lines # <<Empty>> => OldSide(original.diff) = original.lines
    /\ Texts(NewSide(original.diff)) = Texts(original.new)

\* The document is what has been decided: for whichever blocks were accepted and
\* rejected, in any order, with lines typed in between, it has the lines of the
\* accepted new text and of the rejected old text, and those around the range as
\* they were.  (Empty lines are counted unless the range ends in one, or with the
\* file.)
DocumentIsDecided ==
    at # "stream" =>
        IF original.after # <<>> /\ ~IsEmpty(Last(original.lines))
        THEN view.document = Render(plan)
        ELSE Visible(view.document) = Visible(Render(plan))

\* While the diff is shown, the blocks, the red and the green lines are where the
\* document has the lines that are undecided (handler.ts:230).
BlocksMarkTheirLines ==
    at = "open" =>
        LET LineOf(i) == Len(Render(SubSeq(plan, 1, i - 1)))
            Lines(S) == {LineOf(i) : i \in S}
            OfType(S, type) == {i \in S : plan[i].type = type}
            all == {i \in DOMAIN plan : IsOpen(i)}
        IN  /\ Marked(view.removed) = Lines(OfType(all, "old"))
            /\ \A r \in ToSet(view.removed) :
                  \E i \in OfType(all, "old") : r.start = LineOf(i) /\ r.line = plan[i].line
            /\ Marked(view.added) = Lines(OfType(all, "new"))
            /\ all = UNION {OpenItems(h) : h \in DOMAIN view.lenses}
            /\ \A h \in DOMAIN view.lenses :
                  LET b == view.lenses[h]
                  IN  /\ Lines(OfType(OpenItems(h), "old")) = RedLines(b)
                      /\ Lines(OfType(OpenItems(h), "new")) = GreenLines(b)

\* What was streamed so far can be taken back: with the removed lines put back the
\* marked lines are those of the blocks, and with all blocks rejected the document
\* is the one the edit began with, as the final diff takes for granted when it
\* replaces the range (handler.ts:299).
StreamedCanBeTakenBack ==
    at = "stream" =>
        LET v == InsertDeletionBuffer(view)
            doc == RejectAllBlocks(v).document
            begun == original.before \o original.lines \o original.after
        IN  /\ Marked(v.removed) = UNION {RedLines(b) : b \in ToSet(v.lenses)}
            /\ Marked(v.added) = UNION {GreenLines(b) : b \in ToSet(v.lenses)}
            /\ IF original.after # <<>> THEN doc = begun
               ELSE IsPrefix(begun, doc) /\ Visible(doc) = Visible(begun)

=============================================================================
