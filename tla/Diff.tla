-------------------------------- MODULE Diff --------------------------------
(***************************************************************************)
(* The line diff of the file viewer and the timeline:                      *)
(* packages/spec_harness/src/react/diff.ts.  A line of a diff is given by  *)
(* its number on each side, 0 where it has none.                           *)
(***************************************************************************)
EXTENDS Integers, Sequences, SequencesExt, FiniteSets, FiniteSetsExt

CONSTANTS
  MaxCells,           \* beyond this the table is not filled
  Context             \* unchanged lines shown around a change

ASSUME DiffAssumption == MaxCells \in Nat /\ Context \in Nat

VARIABLES before, after

Line(old, new) == [old |-> old, new |-> new]
Ctx(line) == line.old # 0 /\ line.new # 0

CommonPrefix(a, b) ==
  Max({k \in 0..Min({Len(a), Len(b)}) : SubSeq(a, 1, k) = SubSeq(b, 1, k)})

CommonSuffix(a, b) == CommonPrefix(Reverse(a), Reverse(b))

\* The cells of the table, and one behind on each side.
Cells(a, b) == (1..Len(a) + 1) \X (1..Len(b) + 1)

\* The length of the longest common subsequence of what begins at i and j.
Longest(a, b, t, i, j) ==
  IF i > Len(a) \/ j > Len(b) THEN 0
  ELSE IF a[i] = b[j] THEN t[<<i + 1, j + 1>>] + 1
  ELSE Max({t[<<i + 1, j>>], t[<<i, j + 1>>]})

Table(a, b) == LET t[p \in Cells(a, b)] == Longest(a, b, t, p[1], p[2]) IN t

\* The table walked back; the rest of one side when the other is used up.
WalkFrom(a, b, t, w, i, j) ==
  IF i > Len(a) THEN [k \in 1..Len(b) + 1 - j |-> Line(0, j + k - 1)]
  ELSE IF j > Len(b) THEN [k \in 1..Len(a) + 1 - i |-> Line(i + k - 1, 0)]
  ELSE IF a[i] = b[j] THEN <<Line(i, j)>> \o w[<<i + 1, j + 1>>]
  ELSE IF t[<<i + 1, j>>] >= t[<<i, j + 1>>]
  THEN <<Line(i, 0)>> \o w[<<i + 1, j>>]
  ELSE <<Line(0, j)>> \o w[<<i, j + 1>>]

\* Mutation: the walk does not look at the table.
WalkBlindly(a, b) ==
  LET t == [p \in Cells(a, b) |-> 0]
      w[p \in Cells(a, b)] == WalkFrom(a, b, t, w, p[1], p[2])
  IN  w[<<1, 1>>]

Walk(a, b) ==
  LET t == Table(a, b)
      w[p \in Cells(a, b)] == WalkFrom(a, b, t, w, p[1], p[2])
  IN  w[<<1, 1>>]

Replaced(a, b) ==
  [i \in DOMAIN a |-> Line(i, 0)] \o [j \in DOMAIN b |-> Line(0, j)]

LineDiff(a, b) ==
  LET start == CommonPrefix(a, b)
      tail  == CommonSuffix(SubSeq(a, start + 1, Len(a)), SubSeq(b, start + 1, Len(b)))
      midA  == SubSeq(a, start + 1, Len(a) - tail)
      midB  == SubSeq(b, start + 1, Len(b) - tail)
      mid   == IF Len(midA) * Len(midB) \in 1..MaxCells THEN Walk(midA, midB)
                                                        ELSE Replaced(midA, midB)
      At(n) == IF n = 0 THEN 0 ELSE start + n
  IN  [i \in 1..start |-> Line(i, i)]
        \o [k \in DOMAIN mid |-> Line(At(mid[k].old), At(mid[k].new))]
        \o [k \in 1..tail |-> Line(Len(a) - tail + k, Len(b) - tail + k)]

\* The hunks of a diff, as runs of positions: a change opens one with the
\* context before it; it takes the context behind the change, and goes on
\* through what joins it to a change in reach.
Changed(lines, k) == k \in DOMAIN lines /\ ~Ctx(lines[k])

Flush(s) ==
  IF s.open THEN [s EXCEPT !.hunks = Append(@, s.current), !.open = FALSE] ELSE s

AddLine(lines, s, i) ==
  IF Changed(lines, i)
  THEN [s EXCEPT !.open = TRUE, !.trailing = 0,
                 !.current = IF s.open THEN @ \cup {i} ELSE Max({1, i - Context})..i]
  ELSE IF ~s.open THEN s
  ELSE IF s.trailing < Context
  THEN [s EXCEPT !.current = @ \cup {i}, !.trailing = @ + 1]
  ELSE IF \E k \in i + 1..i + Context : Changed(lines, k)
  THEN [s EXCEPT !.current = @ \cup {i}]
  ELSE Flush(s)

DiffHunks(lines) ==
  LET scan[i \in 0..Len(lines)] ==
        IF i = 0 THEN [hunks |-> <<>>, current |-> {}, open |-> FALSE, trailing |-> 0]
        ELSE AddLine(lines, scan[i - 1], i)
  IN  Flush(scan[Len(lines)]).hunks

\* A file is edited, on either side.
Edit(line) ==
  \/ before' = Append(before, line) /\ UNCHANGED after
  \/ after' = Append(after, line) /\ UNCHANGED before

-----------------------------------------------------------------------------
\* A diff counts a side from 1 to n: each line once, in order.
Counts(numbers, n) ==
  /\ \A k \in DOMAIN numbers : numbers[k] \in 0..n
  /\ \A i \in 1..n : \E k \in DOMAIN numbers : numbers[k] = i
  /\ \A k, l \in DOMAIN numbers :
       k < l /\ numbers[k] # 0 /\ numbers[l] # 0 => numbers[k] < numbers[l]

Increasing(f, k) == \A p, q \in 1..k : p < q => f[p] < f[q]

\* The places f in a and g in b hold a common subsequence of length k.
Common(a, b, k, f, g) ==
  Increasing(f, k) /\ Increasing(g, k) /\ \A p \in 1..k : a[f[p]] = b[g[p]]

\* No common subsequence of a and b is longer than n.
NoneLonger(a, b, n) ==
  \A k \in 0..Min({Len(a), Len(b)}) :
    \A f \in [1..k -> DOMAIN a], g \in [1..k -> DOMAIN b] : Common(a, b, k, f, g) => k <= n

(***************************************************************************)
(* A diff holds every line of both sides once, in order, and calls lines   *)
(* unchanged that are equal; below the limit it finds as many of those as  *)
(* there can be.  The hunks are the runs of positions within reach of a    *)
(* change, and nothing else: none overlap, and no change is left out.      *)
(***************************************************************************)
Aligned(a, b, d) ==
  /\ Counts([k \in DOMAIN d |-> d[k].old], Len(a)) /\ Counts([k \in DOMAIN d |-> d[k].new], Len(b))
  /\ \A k \in DOMAIN d : Ctx(d[k]) => a[d[k].old] = b[d[k].new]

Unchanged(d) == {k \in DOMAIN d : Ctx(d[k])}

InReach(d) ==
  {i \in DOMAIN d : \E k \in DOMAIN d : Changed(d, k) /\ i - k \in -Context..Context}

Grouped(d, hunks) ==
  /\ UNION Range(hunks) = InReach(d)
  /\ \A h \in DOMAIN hunks :
       /\ hunks[h] # {} /\ hunks[h] = Min(hunks[h])..Max(hunks[h])
       /\ h > 1 => Min(hunks[h]) > Max(hunks[h - 1]) + 1

DiffExact ==
  LET d == LineDiff(before, after)
  IN  /\ Aligned(before, after, d)
      /\ Len(before) * Len(after) <= MaxCells =>
           NoneLonger(before, after, Cardinality(Unchanged(d)))
      /\ Grouped(d, DiffHunks(d))
=============================================================================
