------------------------------ MODULE Patch_proofs ------------------------------
(***************************************************************************)
(* A patch that is applied changes nothing but its hunk, and it is applied *)
(* if and only if its hunk fits, for every baseline, header and body.  The *)
(* first invariant says where in the baseline and in the output the loop   *)
(* over the body stands; the second, that what it has read so far is there *)
(* in the baseline and what it has put out is what it has read.            *)
(***************************************************************************)
EXTENDS Patch, SequenceTheorems, TLAPS

\* The lines before the hunk are in place, and behind them stand as many lines as the
\* body has brought; as many of the baseline's have been taken.
LoopInv ==
    /\ hunk.old_start >= 1
    /\ seen \in [old : Nat, new : Nat]
    /\ index = hunk.old_start - 1 + seen.old
    /\ index <= Len(source)
    /\ output \in Seq(Lines)
    /\ Len(output) = hunk.old_start - 1 + seen.new
    /\ \A i \in 1 .. hunk.old_start - 1 : output[i] = source[i]

PatchInv ==
    /\ source \in Seq(Lines)
    /\ hunk \in [old_start : Nat, old_count : Nat, new_start : Nat, new_count : Nat]
    /\ verdict \in {"header", "body", "applied", "refused"}
    /\ verdict = "header" => seen = [old |-> 0, new |-> 0]
    /\ verdict = "body" => LoopInv
    /\ ChangesOnlyTheHunk

LEMMA PatchInit == Init => PatchInv
  <1> SUFFICES ASSUME Init
               PROVE  PatchInv
    OBVIOUS
  <1>1. source \in Seq(Lines)
    BY PatchAssumption DEF Init
  <1>2. hunk \in [old_start : Nat, old_count : Nat, new_start : Nat, new_count : Nat]
    BY PatchAssumption DEF Init
  <1> QED
    BY <1>1, <1>2 DEF Init, PatchInv, ChangesOnlyTheHunk

LEMMA LocateKeeps == PatchInv /\ Locate => PatchInv'
  <1> SUFFICES ASSUME PatchInv, Locate
               PROVE  PatchInv'
    OBVIOUS
  <1>1. /\ source' = source /\ hunk' = hunk /\ seen' = seen
        /\ source \in Seq(Lines)
        /\ hunk \in [old_start : Nat, old_count : Nat, new_start : Nat, new_count : Nat]
    BY DEF PatchInv, Locate, HeaderCounts
  <1>2. CASE verdict' = "refused"
    BY <1>1, <1>2 DEF PatchInv, ChangesOnlyTheHunk
  <1>3. CASE verdict' # "refused"
    <2>1. /\ hunk.old_start >= 1
          /\ hunk.old_start - 1 <= Len(source)
          /\ index' = hunk.old_start - 1
          /\ output' = SubSeq(source, 1, index')
          /\ verdict' = "body"
      BY <1>1, <1>3 DEF Locate, HeaderCounts
    <2>2. seen = [old |-> 0, new |-> 0]
      BY DEF PatchInv, Locate, HeaderCounts
    <2>3. /\ output' \in Seq(Lines)
          /\ Len(output') = hunk.old_start - 1
          /\ \A i \in 1 .. hunk.old_start - 1 : output'[i] = source[i]
      BY <1>1, <2>1
    <2>4. LoopInv'
      BY <1>1, <2>1, <2>2, <2>3 DEF LoopInv
    <2> QED
      BY <1>1, <2>1, <2>4 DEF PatchInv, ChangesOnlyTheHunk
  <1> QED
    BY <1>2, <1>3

\* What the loop has put before the hunk is not changed by what it appends.
LEMMA AppendKeeps ==
    ASSUME LoopInv, hunk.old_start \in Nat,
           NEW line \in Lines, output' = Append(output, line)
    PROVE  /\ output' \in Seq(Lines)
           /\ Len(output') = Len(output) + 1
           /\ \A i \in 1 .. hunk.old_start - 1 : output'[i] = source[i]
  <1>1. output \in Seq(Lines)
    BY DEF LoopInv
  <1>2. /\ output' \in Seq(Lines)
        /\ Len(output') = Len(output) + 1
        /\ \A i \in 1 .. Len(output) : output'[i] = output[i]
    BY <1>1, AppendProperties
  <1>3. ASSUME NEW i \in 1 .. hunk.old_start - 1
        PROVE  output'[i] = source[i]
    <2>1. seen.new \in Nat /\ hunk.old_start - 1 + seen.new = Len(output)
      BY DEF LoopInv
    <2>2. Len(output) \in Nat
      BY <1>1
    <2>3. i \in 1 .. Len(output)
      BY <2>1, <2>2
    <2> QED
      BY <1>2, <2>3 DEF LoopInv
  <1> QED
    BY <1>2, <1>3

\* Arithmetic on lines from the hunk's start.
LEMMA Shift ==
    ASSUME NEW k \in Nat, NEW n \in Nat, NEW d \in Nat
    PROVE  (k - 1 + n) + d = k - 1 + (n + d) /\ n + d \in Nat
  OBVIOUS

\* A line that takes d lines of the baseline, 0 or 1, and puts e lines out.
LEMMA LineKeepsLoop ==
    ASSUME LoopInv, hunk' = hunk, source' = source, hunk.old_start \in Nat,
           NEW d \in Nat, NEW e \in Nat,
           index' = index + d, index' <= Len(source),
           seen' = [old |-> seen.old + d, new |-> seen.new + e],
           output' \in Seq(Lines), Len(output') = Len(output) + e,
           \A i \in 1 .. hunk.old_start - 1 : output'[i] = source[i]
    PROVE  LoopInv'
  <1>1. seen.old \in Nat /\ seen.new \in Nat
    BY DEF LoopInv
  <1>2. /\ index = hunk.old_start - 1 + seen.old
        /\ Len(output) = hunk.old_start - 1 + seen.new
        /\ hunk.old_start >= 1
    BY Zenon DEF LoopInv
  <1>3. seen.old + d \in Nat /\ seen.new + e \in Nat
    BY <1>1, Shift, Zenon
  <1>4. /\ seen' \in [old : Nat, new : Nat]
        /\ seen'.old = seen.old + d
        /\ seen'.new = seen.new + e
    <2> DEFINE o == seen.old + d
               n == seen.new + e
    <2>1. seen' = [old |-> o, new |-> n] /\ o \in Nat /\ n \in Nat
      BY <1>3
    <2> HIDE DEF o, n
    <2>2. seen' \in [old : Nat, new : Nat] /\ seen'.old = o /\ seen'.new = n
      BY <2>1
    <2> QED
      BY <2>2 DEF o, n
  <1>5. /\ (hunk.old_start - 1 + seen.old) + d = hunk.old_start - 1 + (seen.old + d)
        /\ (hunk.old_start - 1 + seen.new) + e = hunk.old_start - 1 + (seen.new + e)
    <2> DEFINE k == hunk.old_start
               o == seen.old
               n == seen.new
    <2>1. k \in Nat /\ o \in Nat /\ n \in Nat
      BY <1>1
    <2> HIDE DEF k, o, n
    <2>2. (k - 1 + o) + d = k - 1 + (o + d) /\ (k - 1 + n) + e = k - 1 + (n + e)
      BY <2>1, Shift
    <2> QED
      BY <2>2 DEF k, o, n
  <1>6. index' = hunk.old_start - 1 + seen'.old
    BY <1>2, <1>4, <1>5, Zenon
  <1>7. Len(output') = hunk.old_start - 1 + seen'.new
    BY <1>2, <1>4, <1>5, Zenon
  <1> QED
    BY <1>2, <1>4, <1>6, <1>7, Zenon DEF LoopInv

LEMMA ReadLineKeeps ==
    ASSUME PatchInv, NEW kind \in {"context", "remove", "add"}, NEW line \in Lines,
           ReadLine(kind, line)
    PROVE  PatchInv'
  <1>1. /\ source' = source /\ hunk' = hunk
        /\ source \in Seq(Lines)
        /\ hunk \in [old_start : Nat, old_count : Nat, new_start : Nat, new_count : Nat]
        /\ LoopInv
    BY DEF PatchInv, ReadLine
  <1>2. CASE verdict' = "refused"
    BY <1>1, <1>2 DEF PatchInv, ChangesOnlyTheHunk
  <1>3. CASE verdict' # "refused"
    <2>1. /\ Matches(kind, line)
          /\ verdict' = "body"
          /\ index' = index + One(kind \in {"context", "remove"})
          /\ output' = IF kind = "remove" THEN output ELSE Append(output, line)
          /\ seen' = [old |-> seen.old + One(kind \in {"context", "remove"}),
                      new |-> seen.new + One(kind \in {"context", "add"})]
      BY <1>3 DEF ReadLine
    <2>2. index \in Nat /\ Len(source) \in Nat
      <3>1. /\ seen.old \in Nat /\ hunk.old_start \in Nat /\ hunk.old_start >= 1
            /\ index = hunk.old_start - 1 + seen.old
        BY <1>1 DEF LoopInv
      <3> QED
        BY <1>1, <3>1
    <2>3. LoopInv'
      <3>1. CASE kind = "context"
        <4>1. index' = index + 1 /\ index < Len(source)
          BY <2>1, <3>1 DEF One, Matches
        <4>2. output' = Append(output, line)
          BY <2>1, <3>1
        <4>3. seen' = [old |-> seen.old + 1, new |-> seen.new + 1]
          BY <2>1, <3>1 DEF One
        <4>4. /\ output' \in Seq(Lines)
              /\ Len(output') = Len(output) + 1
              /\ \A i \in 1 .. hunk.old_start - 1 : output'[i] = source[i]
          BY <1>1, <4>2, AppendKeeps
        <4>5. index' <= Len(source)
          BY <2>2, <4>1
        <4> QED
          BY <1>1, <4>1, <4>3, <4>4, <4>5, LineKeepsLoop
      <3>2. CASE kind = "remove"
        <4>1. index' = index + 1 /\ index < Len(source)
          BY <2>1, <3>2 DEF One, Matches
        <4>2. output' = output
          BY <2>1, <3>2
        <4>3. seen' = [old |-> seen.old + 1, new |-> seen.new + 0]
          BY <2>1, <3>2 DEF One
        <4>4. /\ output' \in Seq(Lines)
              /\ Len(output') = Len(output) + 0
              /\ \A i \in 1 .. hunk.old_start - 1 : output'[i] = source[i]
          BY <1>1, <4>2, LenProperties DEF LoopInv
        <4>5. index' <= Len(source)
          BY <2>2, <4>1
        <4> QED
          BY <1>1, <4>1, <4>3, <4>4, <4>5, LineKeepsLoop
      <3>3. CASE kind = "add"
        <4>1. index' = index + 0
          BY <2>1, <3>3 DEF One
        <4>2. output' = Append(output, line)
          BY <2>1, <3>3
        <4>3. seen' = [old |-> seen.old + 0, new |-> seen.new + 1]
          BY <2>1, <3>3 DEF One
        <4>4. /\ output' \in Seq(Lines)
              /\ Len(output') = Len(output) + 1
              /\ \A i \in 1 .. hunk.old_start - 1 : output'[i] = source[i]
          BY <1>1, <4>2, AppendKeeps
        <4>5. index' <= Len(source)
          BY <1>1, <2>2, <4>1 DEF LoopInv
        <4> QED
          BY <1>1, <4>1, <4>3, <4>4, <4>5, LineKeepsLoop
      <3> QED
        BY <3>1, <3>2, <3>3
    <2> QED
      BY <1>1, <2>1, <2>3 DEF PatchInv, ChangesOnlyTheHunk
  <1> QED
    BY <1>2, <1>3

\* Lengths and places, with s lines in the baseline, the hunk at k for o lines of it
\* and n in their place.
LEMMA HunkLength ==
    ASSUME NEW s \in Nat, NEW k \in Nat, NEW o \in Nat, NEW n \in Nat
    PROVE  (k - 1 + n) + (s - (k - 1 + o)) = s - o + n
  OBVIOUS

LEMMA HunkPlace ==
    ASSUME NEW s \in Nat, NEW k \in Nat, NEW o \in Nat, NEW n \in Nat, NEW i \in Int,
           k + o <= i, i <= s
    PROVE  /\ i - (k - 1 + o) \in 1 .. s - (k - 1 + o)
           /\ (k - 1 + n) + (i - (k - 1 + o)) = i - o + n
           /\ (k - 1 + o) + (i - (k - 1 + o)) = i
  OBVIOUS

LEMMA FinishKeeps == PatchInv /\ Finish => PatchInv'
  <1> SUFFICES ASSUME PatchInv, Finish
               PROVE  PatchInv'
    OBVIOUS
  <1>1. /\ source' = source /\ hunk' = hunk /\ index' = index /\ seen' = seen
        /\ source \in Seq(Lines)
        /\ hunk \in [old_start : Nat, old_count : Nat, new_start : Nat, new_count : Nat]
        /\ LoopInv
    BY DEF PatchInv, Finish
  <1>2. CASE verdict' = "refused"
    BY <1>1, <1>2 DEF PatchInv, ChangesOnlyTheHunk
  <1>3. CASE verdict' # "refused"
    <2> DEFINE rest == SubSeq(source, index + 1, Len(source))
    <2>1. /\ verdict' = "applied"
          /\ output' = output \o rest
          /\ seen.old = hunk.old_count
          /\ seen.new = hunk.new_count
      BY <1>3 DEF Finish, HeaderHolds
    <2>2. /\ rest \in Seq(Lines)
          /\ Len(rest) = Len(source) - index
          /\ \A i \in 1 .. Len(source) - index : rest[i] = source[index + i]
      <3>0. /\ hunk.old_start \in Nat /\ seen.old \in Nat /\ hunk.old_start >= 1
            /\ index = hunk.old_start - 1 + seen.old
            /\ index <= Len(source) /\ Len(source) \in Nat
        BY <1>1 DEF LoopInv
      <3>1. /\ index \in Int /\ index <= Len(source) /\ Len(source) \in Nat
            /\ \A i \in index + 1 .. Len(source) : source[i] \in Lines
        BY <1>1, <3>0
      <3>2. /\ rest \in Seq(Lines)
            /\ Len(rest) = IF index + 1 <= Len(source) THEN Len(source) - (index + 1) + 1 ELSE 0
            /\ \A i \in 1 .. Len(source) - (index + 1) + 1 : rest[i] = source[index + 1 + i - 1]
        BY <3>1, SubSeqProperties
      <3> HIDE DEF rest
      <3>3. /\ Len(rest) = Len(source) - index
            /\ Len(source) - (index + 1) + 1 = Len(source) - index
            /\ \A i \in 1 .. Len(source) - index : index + 1 + i - 1 = index + i
        BY <3>1, <3>2
      <3> QED
        BY <3>2, <3>3
    <2> HIDE DEF rest
    <2>3. /\ Len(output') = Len(output) + Len(rest)
          /\ \A i \in 1 .. Len(output) : output'[i] = output[i]
          /\ \A i \in 1 .. Len(rest) : output'[Len(output) + i] = rest[i]
      <3>1. output \in Seq(Lines)
        BY <1>1 DEF LoopInv
      <3>2. /\ Len(output') = Len(output) + Len(rest)
            /\ \A i \in 1 .. Len(output) + Len(rest) :
                  output'[i] = IF i <= Len(output) THEN output[i] ELSE rest[i - Len(output)]
        BY <2>1, <2>2, <3>1, ConcatProperties
      <3>3. Len(output) \in Nat /\ Len(rest) \in Nat
        BY <2>2, <3>1
      <3>4. ASSUME NEW i \in 1 .. Len(rest)
            PROVE  output'[Len(output) + i] = rest[i]
        <4>1. /\ Len(output) + i \in 1 .. Len(output) + Len(rest)
              /\ ~(Len(output) + i <= Len(output))
              /\ Len(output) + i - Len(output) = i
          BY <3>3
        <4> QED
          BY <3>2, <4>1
      <3>5. \A i \in 1 .. Len(output) : output'[i] = output[i]
        BY <3>2, <3>3
      <3> QED
        BY <3>2, <3>4, <3>5
    <2>4. /\ Len(output) = hunk.old_start - 1 + hunk.new_count
          /\ index = hunk.old_start - 1 + hunk.old_count
          /\ index <= Len(source)
          /\ hunk.old_start >= 1
      BY <1>1, <2>1 DEF LoopInv
    <2>0. /\ hunk.old_start \in Nat /\ hunk.old_count \in Nat /\ hunk.new_count \in Nat
          /\ Len(source) \in Nat
      BY <1>1
    <2>5. Len(output') = Len(source) - hunk.old_count + hunk.new_count
      <3>1. (hunk.old_start - 1 + hunk.new_count)
               + (Len(source) - (hunk.old_start - 1 + hunk.old_count))
            = Len(source) - hunk.old_count + hunk.new_count
        BY <2>0, HunkLength
      <3> QED
        BY <2>2, <2>3, <2>4, <3>1
    <2>6. ASSUME NEW i \in 1 .. hunk.old_start - 1
          PROVE  output'[i] = source[i]
      <3>1. i \in 1 .. Len(output)
        BY <1>1, <2>4
      <3> QED
        BY <1>1, <2>3, <3>1 DEF LoopInv
    <2>7. ASSUME NEW i \in hunk.old_start + hunk.old_count .. Len(source)
          PROVE  output'[i - hunk.old_count + hunk.new_count] = source[i]
      <3>1. /\ i - index \in 1 .. Len(rest)
            /\ Len(output) + (i - index) = i - hunk.old_count + hunk.new_count
            /\ index + (i - index) = i
        <4>1. /\ i - (hunk.old_start - 1 + hunk.old_count)
                    \in 1 .. Len(source) - (hunk.old_start - 1 + hunk.old_count)
              /\ (hunk.old_start - 1 + hunk.new_count)
                    + (i - (hunk.old_start - 1 + hunk.old_count))
                 = i - hunk.old_count + hunk.new_count
              /\ (hunk.old_start - 1 + hunk.old_count)
                    + (i - (hunk.old_start - 1 + hunk.old_count)) = i
          <5>1. i \in Int /\ hunk.old_start + hunk.old_count <= i /\ i <= Len(source)
            BY <2>0
          <5> DEFINE s == Len(source)
                     k == hunk.old_start
                     o == hunk.old_count
                     n == hunk.new_count
          <5>2. /\ s \in Nat /\ k \in Nat /\ o \in Nat /\ n \in Nat
                /\ k + o <= i /\ i <= s
            BY <2>0, <5>1
          <5> HIDE DEF s, k, o, n
          <5>3. /\ i - (k - 1 + o) \in 1 .. s - (k - 1 + o)
                /\ (k - 1 + n) + (i - (k - 1 + o)) = i - o + n
                /\ (k - 1 + o) + (i - (k - 1 + o)) = i
            BY <5>1, <5>2, HunkPlace
          <5> QED
            BY <5>3 DEF s, k, o, n
        <4> QED
          BY <2>2, <2>4, <4>1
      <3>2. rest[i - index] = source[index + (i - index)]
        BY <2>2, <3>1
      <3>3. output'[Len(output) + (i - index)] = rest[i - index]
        BY <2>3, <3>1
      <3> QED
        BY <3>1, <3>2, <3>3
    <2> QED
      BY <1>1, <2>1, <2>4, <2>5, <2>6, <2>7 DEF PatchInv, ChangesOnlyTheHunk
  <1> QED
    BY <1>2, <1>3

LEMMA PatchStep == PatchInv /\ [Next]_patchVars => PatchInv'
  <1> SUFFICES ASSUME PatchInv, [Next]_patchVars
               PROVE  PatchInv'
    OBVIOUS
  <1>1. CASE UNCHANGED patchVars
    BY <1>1 DEF patchVars, PatchInv, LoopInv, ChangesOnlyTheHunk
  <1>2. CASE Next
    BY <1>2, LocateKeeps, ReadLineKeeps, FinishKeeps DEF Next
  <1> QED
    BY <1>1, <1>2

\* Whatever a child's patch says, a patch that is applied leaves every line of the
\* baseline outside its hunk as it was, for baselines and hunks of any size.
THEOREM PatchIsLocal == Spec => []ChangesOnlyTheHunk
  <1>1. PatchInv => ChangesOnlyTheHunk
    BY DEF PatchInv
  <1> QED
    BY <1>1, PatchInit, PatchStep, PTL DEF Spec

-----------------------------------------------------------------------------
\* The equation that defines the recursion of Text, for a body that has been read.
Picks(F, read, kinds) ==
    F = [n \in 0 .. Len(read) |->
            IF n = 0 THEN <<>>
            ELSE IF read[n].kind \in kinds THEN Append(F[n - 1], read[n].line)
            ELSE F[n - 1]]

\* It has one solution: Text is defined by a recursion that makes sense.
OnePick(read, kinds) ==
    \E F : Picks(F, read, kinds) /\ \A G : Picks(G, read, kinds) => G = F

\* An empty body, and a body that is one line longer.
LEMMA PicksNothing == \A kinds : OnePick(<<>>, kinds)
  <1> SUFFICES ASSUME NEW kinds
               PROVE  OnePick(<<>>, kinds)
    OBVIOUS
  <1> DEFINE F == [n \in 0 .. 0 |-> <<>>]
  <1>1. Len(<<>>) = 0
    OBVIOUS
  <1>2. ASSUME NEW G
        PROVE  Picks(G, <<>>, kinds) <=> G = F
    BY <1>1 DEF Picks
  <1> HIDE DEF F
  <1>3. Picks(F, <<>>, kinds) /\ \A G : Picks(G, <<>>, kinds) => G = F
    BY <1>2
  <1> QED
    BY <1>3 DEF OnePick

\* A line of the body.
Items == [kind : {"context", "remove", "add"}, line : Lines]

\* The solution for a body that is one line longer.
OneMore(F, read, item, kinds) ==
    [n \in 0 .. Len(read) + 1 |->
        IF n <= Len(read) THEN F[n]
        ELSE IF item.kind \in kinds THEN Append(F[Len(read)], item.line)
        ELSE F[Len(read)]]

\* What solves the longer equation solves the shorter, up to the last line.
LEMMA PicksOneMore ==
    ASSUME NEW read \in Seq(Items), NEW item \in Items, NEW kinds,
           NEW F, Picks(F, read, kinds), \A G : Picks(G, read, kinds) => G = F
    PROVE  /\ Picks(OneMore(F, read, item, kinds), Append(read, item), kinds)
           /\ \A G : Picks(G, Append(read, item), kinds)
                       => G = OneMore(F, read, item, kinds)
  <1> DEFINE more == Append(read, item)
             last == Len(read)
             E == [n \in 0 .. last + 1 |->
                        IF n <= last THEN F[n]
                        ELSE IF item.kind \in kinds THEN Append(F[last], item.line)
                        ELSE F[last]]
  <1>1. /\ last \in Nat
        /\ Len(more) = last + 1
        /\ \A i \in 1 .. last : more[i] = read[i]
        /\ more[last + 1] = item
    BY AppendProperties, LenProperties
  <1> HIDE DEF more, last
  <1>2. ASSUME NEW G, Picks(G, more, kinds)
        PROVE  G = E
    <2> DEFINE H == [n \in 0 .. last |-> G[n]]
    <2>1. ASSUME NEW n \in 0 .. last + 1
          PROVE  G[n] = IF n = 0 THEN <<>>
                        ELSE IF more[n].kind \in kinds THEN Append(G[n - 1], more[n].line)
                        ELSE G[n - 1]
      BY <1>1, <1>2 DEF Picks
    <2>8. ASSUME NEW n \in 0 .. last, n # 0
           PROVE  /\ G[n] = IF read[n].kind \in kinds THEN Append(H[n - 1], read[n].line)
                            ELSE H[n - 1]
      <3>1. n \in 0 .. last + 1 /\ n - 1 \in 0 .. last /\ n \in 1 .. last
        BY <1>1, <2>8
      <3>2. H[n - 1] = G[n - 1] /\ more[n] = read[n]
        BY <1>1, <3>1
      <3> QED
        BY <2>1, <2>8, <3>1, <3>2, Zenon
    <2>9. G[0] = <<>>
      BY <1>1, <2>1
    <2>2. H = [n \in 0 .. last |-> IF n = 0 THEN <<>>
                        ELSE IF read[n].kind \in kinds THEN Append(H[n - 1], read[n].line)
                        ELSE H[n - 1]]
      BY <2>8, <2>9
    <2>3. Picks(H, read, kinds)
      BY <2>2 DEF Picks, last
    <2>4. H = F
      BY <2>3
    <2>5. G = [n \in 0 .. last + 1 |-> G[n]]
      BY <1>1, <1>2 DEF Picks
    <2>6. ASSUME NEW n \in 0 .. last + 1
          PROVE  G[n] = E[n]
      <3>1. CASE n \in 0 .. last
        <4>1. H[n] = G[n] /\ n <= last
          BY <1>1, <3>1
        <4>2. E[n] = F[n]
          BY <4>1
        <4> QED
          BY <2>4, <4>1, <4>2, Zenon
      <3>2. CASE n = last + 1
        <4>1. n # 0 /\ ~(n <= last) /\ n - 1 = last /\ last \in 0 .. last
          BY <1>1, <3>2
        <4>2. G[last] = F[last]
          BY <2>4, <4>1
        <4>3. E[n] = IF item.kind \in kinds THEN Append(F[last], item.line) ELSE F[last]
          BY <4>1
        <4>4. G[n] = IF item.kind \in kinds THEN Append(G[last], item.line) ELSE G[last]
          BY <1>1, <2>1, <3>2, <4>1
        <4> QED
          BY <4>2, <4>3, <4>4, Zenon
      <3> QED
        BY <1>1, <3>1, <3>2
    <2> HIDE DEF H
    <2>7. E = [n \in 0 .. last + 1 |-> E[n]]
      OBVIOUS
    <2> HIDE DEF E
    <2> QED
      BY <2>5, <2>6, <2>7
  <1>3. Picks(E, more, kinds)
    <2>1. F = [n \in 0 .. last |-> IF n = 0 THEN <<>>
                        ELSE IF read[n].kind \in kinds THEN Append(F[n - 1], read[n].line)
                        ELSE F[n - 1]]
      BY DEF Picks, last
    <2>2. ASSUME NEW n \in 0 .. last + 1
          PROVE  E[n] = IF n = 0 THEN <<>>
                        ELSE IF more[n].kind \in kinds THEN Append(E[n - 1], more[n].line)
                        ELSE E[n - 1]
      <3>1. CASE n = 0
        <4>1. 0 \in 0 .. last /\ 0 <= last
          BY <1>1
        <4>2. F[0] = <<>>
          BY <2>1, <4>1
        <4> QED
          BY <3>1, <4>1, <4>2
      <3>2. CASE n \in 1 .. last
        <4>1. n \in 0 .. last /\ n # 0 /\ n - 1 \in 0 .. last + 1 /\ n - 1 <= last /\ n <= last
          BY <1>1, <3>2
        <4>2. F[n] = IF read[n].kind \in kinds THEN Append(F[n - 1], read[n].line)
                     ELSE F[n - 1]
          BY <2>1, <4>1
        <4>3. E[n] = F[n] /\ E[n - 1] = F[n - 1] /\ more[n] = read[n]
          BY <1>1, <3>2, <4>1
        <4> QED
          BY <4>1, <4>2, <4>3, Zenon
      <3>3. CASE n = last + 1
        <4>1. /\ n # 0 /\ ~(n <= last) /\ n - 1 = last /\ last \in 0 .. last + 1
              /\ last <= last
          BY <1>1, <3>3
        <4>2. /\ E[n] = IF item.kind \in kinds THEN Append(F[last], item.line) ELSE F[last]
              /\ E[last] = F[last]
          BY <4>1
        <4> QED
          BY <1>1, <3>3, <4>1, <4>2, Zenon
      <3> QED
        BY <1>1, <3>1, <3>2, <3>3
    <2>3. E = [n \in 0 .. last + 1 |-> E[n]]
      OBVIOUS
    <2> HIDE DEF E
    <2>4. E = [n \in 0 .. last + 1 |->
                        IF n = 0 THEN <<>>
                        ELSE IF more[n].kind \in kinds THEN Append(E[n - 1], more[n].line)
                        ELSE E[n - 1]]
      BY <2>2, <2>3
    <2> QED
      BY <1>1, <2>4 DEF Picks
  <1>4. E = OneMore(F, read, item, kinds)
    BY DEF OneMore, last
  <1> HIDE DEF E
  <1> QED
    BY <1>2, <1>3, <1>4 DEF more

\* Text of a body that has been read.
Pick(read, kinds) == (CHOOSE G : Picks(G, read, kinds))[Len(read)]

LEMMA TextIsPick ==
    ASSUME NEW kinds
    PROVE  Text(kinds) = Pick(body, kinds) /\ Text(kinds)' = Pick(body', kinds)
  BY DEF Text, Pick, Picks

LEMMA PickIs ==
    ASSUME NEW read, NEW kinds,
           NEW F, Picks(F, read, kinds), \A G : Picks(G, read, kinds) => G = F
    PROVE  Pick(read, kinds) = F[Len(read)]
  <1>1. Picks(CHOOSE G : Picks(G, read, kinds), read, kinds)
    OBVIOUS
  <1>2. (CHOOSE G : Picks(G, read, kinds)) = F
    BY <1>1
  <1> QED
    BY <1>2 DEF Pick

\* The recursion's two cases.
LEMMA PickEmpty == \A kinds : Pick(<<>>, kinds) = <<>>
  <1> SUFFICES ASSUME NEW kinds
               PROVE  Pick(<<>>, kinds) = <<>>
    OBVIOUS
  <1>1. PICK F : Picks(F, <<>>, kinds) /\ \A G : Picks(G, <<>>, kinds) => G = F
    BY PicksNothing DEF OnePick
  <1>2. Pick(<<>>, kinds) = F[0]
    BY <1>1, PickIs, EmptySeq
  <1>3. F[0] = <<>>
    BY <1>1, EmptySeq DEF Picks
  <1> QED
    BY <1>2, <1>3

LEMMA PickAppend ==
    ASSUME NEW read \in Seq(Items), NEW item \in Items, NEW kinds, OnePick(read, kinds)
    PROVE  /\ OnePick(Append(read, item), kinds)
           /\ Pick(Append(read, item), kinds)
                 = IF item.kind \in kinds THEN Append(Pick(read, kinds), item.line)
                   ELSE Pick(read, kinds)
  <1>1. PICK F : Picks(F, read, kinds) /\ \A G : Picks(G, read, kinds) => G = F
    BY DEF OnePick
  <1> DEFINE E == OneMore(F, read, item, kinds)
  <1>2. /\ Picks(E, Append(read, item), kinds)
        /\ \A G : Picks(G, Append(read, item), kinds) => G = E
    BY <1>1, PicksOneMore
  <1>3. Pick(read, kinds) = F[Len(read)]
    BY <1>1, PickIs
  <1>4. /\ Len(read) \in Nat
        /\ Len(Append(read, item)) = Len(read) + 1
    BY AppendProperties, LenProperties
  <1>5. E[Len(read) + 1] = IF item.kind \in kinds THEN Append(F[Len(read)], item.line)
                           ELSE F[Len(read)]
    BY <1>4 DEF OneMore
  <1> HIDE DEF E
  <1>6. Pick(Append(read, item), kinds) = E[Len(read) + 1]
    BY <1>2, <1>4, PickIs
  <1>7. OnePick(Append(read, item), kinds)
    BY <1>2 DEF OnePick
  <1> QED
    BY <1>3, <1>5, <1>6, <1>7

-----------------------------------------------------------------------------
\* What the loop has taken is the body's old text, what it has put out is its new text.
LoopText ==
    /\ HeaderCounts
    /\ seen.old = Len(Old)
    /\ seen.new = Len(New)
    /\ Old = SubSeq(source, hunk.old_start, index)
    /\ Old \in Seq(Lines) /\ New \in Seq(Lines)
    /\ output = SubSeq(source, 1, hunk.old_start - 1) \o New

\* AppliesHunk, and what makes it inductive: the loop reads the hunk as the declarative
\* definition does, and until it refuses, nothing it has read says that the hunk does
\* not fit.
TextInv ==
    /\ body \in Seq(Items)
    /\ \A kinds : OnePick(body, kinds)
    /\ verdict = "header" => body = <<>>
    /\ verdict = "body" => LoopText
    /\ AppliesHunk

\* Old and New under a step that reads a line, and one that reads none.
LEMMA TextGrows ==
    ASSUME body \in Seq(Items), \A kinds : OnePick(body, kinds),
           NEW item \in Items, body' = Append(body, item)
    PROVE  /\ body' \in Seq(Items)
           /\ \A kinds : OnePick(body', kinds)
           /\ Old' = IF item.kind \in {"context", "remove"} THEN Append(Old, item.line) ELSE Old
           /\ New' = IF item.kind \in {"context", "add"} THEN Append(New, item.line) ELSE New
  <1>1. body' \in Seq(Items)
    BY AppendProperties
  <1>2. ASSUME NEW kinds
        PROVE  /\ OnePick(body', kinds)
               /\ Text(kinds)' = IF item.kind \in kinds THEN Append(Text(kinds), item.line)
                                ELSE Text(kinds)
    <2>1. OnePick(body, kinds)
      OBVIOUS
    <2> QED
      BY <2>1, PickAppend, TextIsPick
  <1> QED
    BY <1>1, <1>2 DEF Old, New

LEMMA TextStays == body' = body => Old' = Old /\ New' = New
  BY TextIsPick DEF Old, New

LEMMA TextEmpty == body = <<>> => Old = <<>> /\ New = <<>>
  BY TextIsPick, PickEmpty DEF Old, New

\* Sequences: the next line of a text that is taken, and one that is put out.
LEMMA TakeNext ==
    ASSUME NEW s \in Seq(Lines), NEW k \in Nat, k >= 1, NEW i \in Int,
           k - 1 <= i, i < Len(s)
    PROVE  SubSeq(s, k, i + 1) = Append(SubSeq(s, k, i), s[i + 1])
  <1>1. /\ Len(s) \in Nat
        /\ k \in 1 .. Len(s)
        /\ i + 1 \in k .. Len(s)
        /\ i + 1 - 1 = i
    OBVIOUS
  <1>2. SubSeq(s, k, i + 1) = SubSeq(s, k, i) \o <<s[i + 1]>>
    BY <1>1, SubSeqRecursiveSecond
  <1>3. /\ s[i + 1] \in Lines
        /\ \A j \in k .. i : s[j] \in Lines
    BY <1>1
  <1>4. SubSeq(s, k, i) \in Seq(Lines)
    BY <1>3, SubSeqProperties
  <1> QED
    BY <1>2, <1>3, <1>4, AppendIsConcat

LEMMA PutNext ==
    ASSUME NEW a \in Seq(Lines), NEW b \in Seq(Lines), NEW line \in Lines
    PROVE  Append(a \o b, line) = a \o Append(b, line)
  <1>1. a \o b \in Seq(Lines) /\ <<line>> \in Seq(Lines)
    BY ConcatProperties
  <1>2. /\ Append(a \o b, line) = (a \o b) \o <<line>>
        /\ Append(b, line) = b \o <<line>>
    BY <1>1, AppendIsConcat
  <1>3. (a \o b) \o <<line>> = a \o (b \o <<line>>)
    BY <1>1, ConcatAssociative
  <1> QED
    BY <1>2, <1>3

\* Where a text with one more line stands in s, that line is the next of s.
LEMMA NextLineIsThere ==
    ASSUME NEW s \in Seq(Lines), NEW k \in Nat, k >= 1, NEW o \in Seq(Lines),
           NEW line \in Lines,
           k - 1 + Len(Append(o, line)) <= Len(s),
           SubSeq(s, k, k - 1 + Len(Append(o, line))) = Append(o, line)
    PROVE  k - 1 + Len(o) < Len(s) /\ s[k - 1 + Len(o) + 1] = line
  <1> DEFINE m == Len(o)
             l == Append(o, line)
  <1>1. /\ m \in Nat /\ Len(l) = m + 1 /\ l[m + 1] = line /\ Len(s) \in Nat
    BY AppendProperties
  <1> HIDE DEF m, l
  <1>2. /\ k - 1 + (m + 1) = k + m
        /\ k + m <= Len(s) /\ k + m \in Nat
        /\ m + 1 \in 1 .. (k + m) - k + 1
        /\ k + (m + 1) - 1 = k - 1 + m + 1
    BY <1>1 DEF l
  <1>3. ASSUME NEW j \in k .. k + m
        PROVE  s[j] \in Lines
    <2>1. j \in 1 .. Len(s)
      BY <1>1, <1>2
    <2> QED
      BY <2>1, ElementOfSeq
  <1>4. \A j \in 1 .. (k + m) - k + 1 : SubSeq(s, k, k + m)[j] = s[k + j - 1]
    BY <1>2, <1>3, SubSeqProperties
  <1>5. SubSeq(s, k, k + m)[m + 1] = s[k + (m + 1) - 1]
    BY <1>2, <1>4
  <1>6. SubSeq(s, k, k + m) = l
    BY <1>1, <1>2 DEF l
  <1> QED
    BY <1>1, <1>2, <1>5, <1>6 DEF m

LEMMA TextInit == Init => TextInv
  <1> SUFFICES ASSUME Init
               PROVE  TextInv
    OBVIOUS
  <1>1. body = <<>> /\ verdict = "header"
    BY DEF Init
  <1> QED
    BY <1>1, PicksNothing DEF TextInv, AppliesHunk

LEMMA LocateFits == PatchInv /\ TextInv /\ Locate => TextInv'
  <1> SUFFICES ASSUME PatchInv, TextInv, Locate
               PROVE  TextInv'
    OBVIOUS
  <1>1. /\ source' = source /\ hunk' = hunk /\ seen' = seen /\ body' = body
        /\ source \in Seq(Lines)
        /\ hunk \in [old_start : Nat, old_count : Nat, new_start : Nat, new_count : Nat]
        /\ verdict = "header"
    BY DEF PatchInv, Locate, HeaderCounts
  <1>2. body = <<>> /\ seen = [old |-> 0, new |-> 0]
    BY <1>1 DEF PatchInv, TextInv
  <1>3. Old' = <<>> /\ New' = <<>>
    BY <1>1, <1>2, TextStays, TextEmpty
  <1>4. body' \in Seq(Items) /\ \A kinds : OnePick(body', kinds)
    BY <1>1 DEF TextInv
  <1>5. CASE HeaderCounts /\ hunk.old_start - 1 <= Len(source)
    <2>1. /\ index' = hunk.old_start - 1
          /\ output' = SubSeq(source, 1, index')
          /\ verdict' = "body"
          /\ hunk.old_start \in Nat /\ hunk.old_start >= 1
      BY <1>1, <1>5 DEF Locate, HeaderCounts
    <2>2. SubSeq(source, hunk.old_start, index') = <<>>
      BY <2>1, SubSeqEmpty
    <2>3. output' = SubSeq(source, 1, hunk.old_start - 1) \o <<>>
      <3>1. \A i \in 1 .. hunk.old_start - 1 : source[i] \in Lines
        BY <1>1, <1>5, <2>1
      <3>2. SubSeq(source, 1, hunk.old_start - 1) \in Seq(Lines)
        BY <2>1, <3>1, SubSeqProperties
      <3> QED
        BY <2>1, <3>2, ConcatEmptySeq
    <2>4. LoopText'
      BY <1>1, <1>2, <1>3, <1>5, <2>1, <2>2, <2>3, EmptySeq DEF LoopText, HeaderCounts
    <2> QED
      BY <1>4, <2>1, <2>4 DEF TextInv, AppliesHunk
  <1>6. CASE ~(HeaderCounts /\ hunk.old_start - 1 <= Len(source))
    <2>1. verdict' = "refused"
      BY <1>6 DEF Locate
    <2>2. ~Fits'
      BY <1>1, <1>3, <1>6, EmptySeq DEF Fits, HeaderCounts
    <2> QED
      BY <1>4, <2>1, <2>2 DEF TextInv, AppliesHunk
  <1> QED
    BY <1>5, <1>6

\* A line that is not the baseline's next: no more lines make the hunk fit.
LEMMA MismatchDoesNotFit ==
    ASSUME PatchInv, TextInv, verdict = "body",
           source' = source, hunk' = hunk,
           NEW line \in Lines, ~(index < Len(source) /\ source[index + 1] = line),
           Old' = Append(Old, line)
    PROVE  ~Fits'
  <1>1. /\ source \in Seq(Lines) /\ hunk.old_start \in Nat /\ hunk.old_start >= 1
        /\ index = hunk.old_start - 1 + Len(Old) /\ index <= Len(source)
    BY DEF PatchInv, LoopInv, TextInv, LoopText
  <1>2. Old \in Seq(Lines)
    BY DEF TextInv, LoopText
  <1>3. SUFFICES ASSUME Fits'
                 PROVE  FALSE
    OBVIOUS
  <1>4. /\ hunk.old_start - 1 + Len(Append(Old, line)) <= Len(source)
        /\ SubSeq(source, hunk.old_start, hunk.old_start - 1 + Len(Append(Old, line)))
              = Append(Old, line)
    BY <1>3 DEF Fits
  <1>5. /\ hunk.old_start - 1 + Len(Old) < Len(source)
        /\ source[hunk.old_start - 1 + Len(Old) + 1] = line
    BY <1>1, <1>2, <1>4, NextLineIsThere
  <1> QED
    BY <1>1, <1>5

LEMMA ReadLineFits ==
    ASSUME PatchInv, TextInv,
           NEW kind \in {"context", "remove", "add"}, NEW line \in Lines,
           ReadLine(kind, line)
    PROVE  TextInv'
  <1> DEFINE item == [kind |-> kind, line |-> line]
  <1>1. /\ source' = source /\ hunk' = hunk /\ verdict = "body"
        /\ source \in Seq(Lines)
        /\ hunk \in [old_start : Nat, old_count : Nat, new_start : Nat, new_count : Nat]
        /\ LoopInv /\ LoopText
        /\ body' = Append(body, item)
        /\ body \in Seq(Items) /\ \A kinds : OnePick(body, kinds)
    BY DEF PatchInv, TextInv, ReadLine
  <1>2. item \in Items /\ item.kind = kind /\ item.line = line
    BY DEF Items
  <1> HIDE DEF item
  <1>3. /\ body' \in Seq(Items)
        /\ \A kinds : OnePick(body', kinds)
        /\ Old' = IF kind \in {"context", "remove"} THEN Append(Old, line) ELSE Old
        /\ New' = IF kind \in {"context", "add"} THEN Append(New, line) ELSE New
    BY <1>1, <1>2, TextGrows
  <1>4. CASE ~Matches(kind, line)
    <2>1. verdict' = "refused"
      BY <1>4 DEF ReadLine
    <2>2. /\ kind \in {"context", "remove"}
          /\ ~(index < Len(source) /\ source[index + 1] = line)
      BY <1>4 DEF Matches
    <2>3. ~Fits'
      BY <1>1, <1>3, <2>2, MismatchDoesNotFit
    <2> QED
      BY <1>3, <2>1, <2>3 DEF TextInv, AppliesHunk
  <1>5. CASE Matches(kind, line)
    <2>1. /\ verdict' = "body"
          /\ index' = index + One(kind \in {"context", "remove"})
          /\ output' = IF kind = "remove" THEN output ELSE Append(output, line)
          /\ seen' = [old |-> seen.old + One(kind \in {"context", "remove"}),
                      new |-> seen.new + One(kind \in {"context", "add"})]
      BY <1>1, <1>5 DEF ReadLine
    <2>2. /\ hunk.old_start \in Nat /\ hunk.old_start >= 1
          /\ seen.old \in Nat /\ seen.new \in Nat
          /\ index = hunk.old_start - 1 + seen.old
          /\ index \in Int /\ index <= Len(source) /\ hunk.old_start - 1 <= index
          /\ Len(source) \in Nat
      <3>1. /\ seen.old \in Nat /\ seen.new \in Nat
            /\ hunk.old_start \in Nat /\ hunk.old_start >= 1
            /\ index = hunk.old_start - 1 + seen.old
            /\ index <= Len(source)
        BY <1>1 DEF LoopInv
      <3> QED
        BY <1>1, <3>1
    <2>3. /\ seen'.old = Len(Old')
          /\ Old' \in Seq(Lines)
          /\ Old' = SubSeq(source, hunk.old_start, index')
      <3>1. CASE kind \in {"context", "remove"}
        <4>1. /\ index' = index + 1 /\ seen'.old = seen.old + 1
              /\ index < Len(source) /\ source[index + 1] = line
              /\ Old' = Append(Old, line)
          BY <1>3, <1>5, <2>1, <3>1 DEF One, Matches
        <4>2. SubSeq(source, hunk.old_start, index + 1)
                = Append(SubSeq(source, hunk.old_start, index), source[index + 1])
          BY <1>1, <2>2, <4>1, TakeNext
        <4>3. Old = SubSeq(source, hunk.old_start, index) /\ seen.old = Len(Old)
          BY <1>1 DEF LoopText
        <4>4. Len(Append(Old, line)) = Len(Old) + 1 /\ Append(Old, line) \in Seq(Lines)
          BY <1>1, AppendProperties DEF LoopText
        <4> QED
          BY <4>1, <4>2, <4>3, <4>4
      <3>2. CASE kind = "add"
        <4>1. index' = index /\ seen'.old = seen.old /\ Old' = Old
          BY <1>3, <2>1, <2>2, <3>2 DEF One
        <4> QED
          BY <1>1, <4>1 DEF LoopText
      <3> QED
        BY <3>1, <3>2
    <2>4. /\ seen'.new = Len(New')
          /\ New' \in Seq(Lines)
          /\ output' = SubSeq(source, 1, hunk.old_start - 1) \o New'
      <3>1. /\ New \in Seq(Lines) /\ seen.new = Len(New)
            /\ output = SubSeq(source, 1, hunk.old_start - 1) \o New
        BY <1>1 DEF LoopText
      <3>2. CASE kind \in {"context", "add"}
        <4>1. /\ output' = Append(output, line) /\ seen'.new = seen.new + 1
              /\ New' = Append(New, line)
          BY <1>3, <2>1, <3>2 DEF One
        <4>2. \A i \in 1 .. hunk.old_start - 1 : source[i] \in Lines
          BY <1>1, <2>2
        <4>3. SubSeq(source, 1, hunk.old_start - 1) \in Seq(Lines)
          BY <2>2, <4>2, SubSeqProperties
        <4>4. Append(SubSeq(source, 1, hunk.old_start - 1) \o New, line)
                = SubSeq(source, 1, hunk.old_start - 1) \o Append(New, line)
          BY <3>1, <4>3, PutNext
        <4>5. Append(New, line) \in Seq(Lines) /\ Len(Append(New, line)) = Len(New) + 1
          BY <3>1, AppendProperties
        <4> QED
          BY <3>1, <4>1, <4>4, <4>5
      <3>3. CASE kind = "remove"
        <4>1. output' = output /\ seen'.new = seen.new /\ New' = New
          BY <1>3, <2>1, <2>2, <3>3 DEF One
        <4> QED
          BY <3>1, <4>1
      <3> QED
        BY <3>2, <3>3
    <2>5. HeaderCounts'
      BY <1>1 DEF LoopText, HeaderCounts
    <2>6. LoopText'
      BY <1>1, <2>3, <2>4, <2>5 DEF LoopText
    <2> QED
      BY <1>3, <2>1, <2>6 DEF TextInv, AppliesHunk
  <1> QED
    BY <1>4, <1>5

\* Where the output starts, in the terms of HeaderHolds.
LEMMA StartOfOutput ==
    ASSUME NEW k \in Nat, NEW n \in Nat
    PROVE  (k - 1 + n) - n + 1 = k
  OBVIOUS

LEMMA FinishFits == PatchInv /\ TextInv /\ Finish => TextInv'
  <1> SUFFICES ASSUME PatchInv, TextInv, Finish
               PROVE  TextInv'
    OBVIOUS
  <1>1. /\ source' = source /\ hunk' = hunk /\ body' = body /\ verdict = "body"
        /\ hunk \in [old_start : Nat, old_count : Nat, new_start : Nat, new_count : Nat]
        /\ LoopInv /\ LoopText
        /\ body \in Seq(Items) /\ \A kinds : OnePick(body, kinds)
    BY DEF PatchInv, TextInv, Finish
  <1>2. Old' = Old /\ New' = New
    BY <1>1, TextStays
  <1>3. /\ hunk.old_start \in Nat
        /\ seen.old = Len(Old) /\ seen.new = Len(New) /\ seen.old \in Nat /\ seen.new \in Nat
        /\ index = hunk.old_start - 1 + seen.old
        /\ index <= Len(source)
        /\ Len(output) = hunk.old_start - 1 + seen.new
    BY <1>1 DEF LoopInv, LoopText
  <1>4. CASE HeaderHolds
    <2>1. /\ verdict' = "applied"
          /\ output' = output \o SubSeq(source, index + 1, Len(source))
          /\ seen.old = hunk.old_count /\ seen.new = hunk.new_count
          /\ Len(output) - seen.new + 1 = hunk.new_start
      BY <1>4 DEF Finish, HeaderHolds
    <2>2. hunk.new_start = hunk.old_start
      <3>1. (hunk.old_start - 1 + seen.new) - seen.new + 1 = hunk.old_start
        BY <1>3, StartOfOutput
      <3> QED
        BY <1>3, <2>1, <3>1, Zenon
    <2>3. index + 1 = hunk.old_start + Len(Old)
      BY <1>3
    <2>4. Fits'
      BY <1>1, <1>2, <1>3, <2>1, <2>2 DEF Fits, LoopText, HeaderCounts
    <2>5. output' = SubSeq(source, 1, hunk.old_start - 1) \o New
                       \o SubSeq(source, hunk.old_start + Len(Old), Len(source))
      BY <1>1, <2>1, <2>3 DEF LoopText
    <2> QED
      BY <1>1, <1>2, <2>1, <2>4, <2>5 DEF TextInv, AppliesHunk
  <1>5. CASE ~HeaderHolds
    <2>1. verdict' = "refused"
      BY <1>5 DEF Finish
    <2>2. ~Fits'
      <3>1. SUFFICES ASSUME Fits'
                     PROVE  HeaderHolds
        BY <1>5
      <3>2. /\ hunk.old_count = Len(Old) /\ hunk.new_count = Len(New)
            /\ hunk.new_start = hunk.old_start
        BY <1>1, <1>2, <3>1 DEF Fits
      <3> QED
        BY <1>3, <3>2 DEF HeaderHolds
    <2> QED
      BY <1>1, <2>1, <2>2 DEF TextInv, AppliesHunk
  <1> QED
    BY <1>4, <1>5

\* The loop applies a hunk if and only if the unified diff fits the baseline, and then
\* does to it what the diff says, for baselines, hunks and bodies of any size.
THEOREM PatchAppliesHunk == Spec => []AppliesHunk
  <1>1. TextInv /\ PatchInv /\ [Next]_patchVars => TextInv'
    <2> SUFFICES ASSUME TextInv, PatchInv, [Next]_patchVars
                 PROVE  TextInv'
      OBVIOUS
    <2>1. CASE UNCHANGED patchVars
      BY <2>1, TextStays DEF patchVars, TextInv, LoopText, HeaderCounts, AppliesHunk, Fits
    <2>2. CASE Next
      BY <2>2, LocateFits, ReadLineFits, FinishFits DEF Next
    <2> QED
      BY <2>1, <2>2
  <1>2. TextInv => AppliesHunk
    BY DEF TextInv
  <1>3. PatchInv /\ [Next]_patchVars => PatchInv'
    BY PatchStep
  <1> QED
    BY <1>1, <1>2, <1>3, PatchInit, TextInit, PTL DEF Spec
================================================================================
