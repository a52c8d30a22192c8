--------------------------------- MODULE Patch ---------------------------------
(***************************************************************************)
(* ValidatedPatch (src/phase4_patch.py): one hunk is checked against the   *)
(* baseline and applied to it, line by line.  The controller parses the    *)
(* patch, the runner parses and applies it in the sandbox, the controller  *)
(* applies it again to what the sandbox returned.                          *)
(*                                                                         *)
(* A line of text is a model value: sizes, encodings and the fixed header  *)
(* lines of the one file are left out.  The body is read as it goes, which *)
(* is to say that it may be any.                                           *)
(***************************************************************************)
EXTENDS Integers, Sequences

CONSTANTS
    Lines,          \* lines a text may hold
    Sources,        \* baselines
    Hunks,          \* hunk headers
    MaxBody         \* bound on the lines of a hunk

\* A text that ends with a newline has a line; a header's numbers have digits only.
ASSUME PatchAssumption ==
    /\ Sources \subseteq Seq(Lines) \ {<<>>}
    /\ Hunks \subseteq [old_start : Nat, old_count : Nat, new_start : Nat, new_count : Nat]
    /\ MaxBody \in Nat

VARIABLES
    source,         \* the baseline's lines
    hunk,           \* the header
    body,           \* the lines of the hunk read so far
    index,          \* source_index: lines of the baseline taken so far
    output,         \* lines of the output so far
    seen,           \* old_seen and new_seen
    verdict

patchVars == <<source, hunk, body, index, output, seen, verdict>>

Init ==
    /\ source \in Sources
    /\ hunk \in Hunks
    /\ body = <<>>
    /\ index = 0
    /\ output = <<>>
    /\ seen = [old |-> 0, new |-> 0]
    /\ verdict = "header"

\* parse: the header counts and starts from 1.
HeaderCounts == \A field \in DOMAIN hunk : hunk[field] >= 1

\* The hunk must not start beyond the end.
Locate ==
    /\ verdict = "header"
    /\ IF /\ HeaderCounts
          /\ hunk.old_start - 1 <= Len(source)
       THEN /\ index' = hunk.old_start - 1
            /\ output' = SubSeq(source, 1, index')
            /\ verdict' = "body"
       ELSE verdict' = "refused" /\ UNCHANGED <<index, output>>
    /\ UNCHANGED <<source, hunk, body, seen>>

\* Mutant of Matches: what a "-" line removes is not compared.
MatchesContext(kind, line) ==
    kind = "context" => index < Len(source) /\ source[index + 1] = line

\* A line the hunk keeps or removes is the baseline's next line.
Matches(kind, line) ==
    kind \in {"context", "remove"} => index < Len(source) /\ source[index + 1] = line

One(condition) == IF condition THEN 1 ELSE 0

\* The next line of the body: " ", "-" or "+".
ReadLine(kind, line) ==
    /\ verdict = "body"
    /\ Len(body) < MaxBody
    /\ body' = Append(body, [kind |-> kind, line |-> line])
    /\ IF Matches(kind, line)
       THEN /\ index' = index + One(kind \in {"context", "remove"})
            /\ output' = IF kind = "remove" THEN output ELSE Append(output, line)
            /\ seen' = [old |-> seen.old + One(kind \in {"context", "remove"}),
                        new |-> seen.new + One(kind \in {"context", "add"})]
            /\ UNCHANGED verdict
       ELSE verdict' = "refused" /\ UNCHANGED <<index, output, seen>>
    /\ UNCHANGED <<source, hunk>>

\* The body is at its end: it is as long, and the output starts, as the header says.
HeaderHolds ==
    /\ seen.old = hunk.old_count
    /\ seen.new = hunk.new_count
    /\ Len(output) - seen.new + 1 = hunk.new_start

\* Mutant of Finish: the baseline's rest is taken from where the hunk started.
FinishTwice ==
    /\ verdict = "body"
    /\ body # <<>>
    /\ IF HeaderHolds
       THEN /\ output' = output \o SubSeq(source, hunk.old_start, Len(source))
            /\ verdict' = "applied"
       ELSE verdict' = "refused" /\ UNCHANGED output
    /\ UNCHANGED <<source, hunk, body, index, seen>>

\* What follows the hunk is kept.
Finish ==
    /\ verdict = "body"
    /\ body # <<>>
    /\ IF HeaderHolds
       THEN /\ output' = output \o SubSeq(source, index + 1, Len(source))
            /\ verdict' = "applied"
       ELSE verdict' = "refused" /\ UNCHANGED output
    /\ UNCHANGED <<source, hunk, body, index, seen>>

Next ==
    \/ Locate
    \/ \E kind \in {"context", "remove", "add"}, line \in Lines : ReadLine(kind, line)
    \/ Finish

Spec == Init /\ [][Next]_patchVars

-----------------------------------------------------------------------------
\* What applying a unified diff means, without an index.

\* The lines of the body of these kinds, the first upTo of them read.
Text(kinds) ==
    LET upTo[n \in 0 .. Len(body)] ==
            IF n = 0 THEN <<>>
            ELSE IF body[n].kind \in kinds THEN Append(upTo[n - 1], body[n].line)
            ELSE upTo[n - 1]
    IN  upTo[Len(body)]

Old == Text({"context", "remove"})

New == Text({"context", "add"})

\* The old text is what the baseline holds where the header says, with as many lines
\* as it says, and the new text goes to the same place.
Fits ==
    /\ \A field \in DOMAIN hunk : hunk[field] >= 1
    /\ hunk.old_start - 1 + Len(Old) <= Len(source)
    /\ SubSeq(source, hunk.old_start, hunk.old_start - 1 + Len(Old)) = Old
    /\ hunk.old_count = Len(Old)
    /\ hunk.new_count = Len(New)
    /\ hunk.new_start = hunk.old_start

\* A patch is applied if and only if it fits, and then the old text, and nothing else,
\* has given way to the new.
AppliesHunk ==
    /\ verdict = "applied" =>
          /\ Fits
          /\ output = SubSeq(source, 1, hunk.old_start - 1) \o New
                         \o SubSeq(source, hunk.old_start + Len(Old), Len(source))
    /\ verdict = "refused" => ~Fits

\* "The hunk" bounds what a child can do to the file: the lines before and after it are
\* the baseline's, and the output is longer by what the header adds.
ChangesOnlyTheHunk ==
    verdict = "applied" =>
        /\ Len(output) = Len(source) - hunk.old_count + hunk.new_count
        /\ hunk.old_start - 1 + hunk.old_count <= Len(source)
        /\ \A i \in 1 .. hunk.old_start - 1 : output[i] = source[i]
        /\ \A i \in hunk.old_start + hunk.old_count .. Len(source) :
              output[i - hunk.old_count + hunk.new_count] = source[i]
=============================================================================
