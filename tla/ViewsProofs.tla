----------------------------- MODULE ViewsProofs -----------------------------
(***************************************************************************)
(* Proofs about Views.tla: the reader of the event stream (Sse.tla), the   *)
(* window of the model (Window.tla), the segments of a text that streams   *)
(* in (Segments.tla), the cards of a turn (Cards.tla), the line diff and   *)
(* its hunks (Diff.tla).                                                   *)
(***************************************************************************)
EXTENDS Views, HistoryProofs, TLAPS, FiniteSetTheorems

-----------------------------------------------------------------------------
(***************************************************************************)
(* Induction, minima.                                                      *)
(***************************************************************************)
LEMMA StrongInduction ==
  ASSUME NEW T, \A n \in Nat : (\A m \in 0..n-1 : m \in T) => n \in T
  PROVE  Nat \subseteq T
  <1> SUFFICES ASSUME Nat \ T # {} PROVE FALSE
    OBVIOUS
  <1>1. PICK x \in Nat \ T : \A y \in Nat \ T : x <= y
    <2>1. Nat \ T \in SUBSET Nat
      OBVIOUS
    <2> QED
      BY <2>1, LeastNatural
  <1>2. \A m \in 0..x-1 : m \in T
    <2> SUFFICES ASSUME NEW m \in 0..x-1, m \notin T PROVE FALSE
      OBVIOUS
    <2>1. m \in Nat \ T /\ m < x
      OBVIOUS
    <2> QED
      BY <1>1, <2>1
  <1> QED
    BY <1>1, <1>2

\* Induction from the end of an interval.
LEMMA Downward ==
  ASSUME NEW n \in Nat, NEW T,
         \A i \in 1..n : (\A j \in i+1..n : j \in T) => i \in T
  PROVE  1..n \subseteq T
  <1> DEFINE R == {d \in Nat : d < n => n - d \in T}
  <1>1. ASSUME NEW d \in Nat, \A e \in 0..d-1 : e \in R PROVE d \in R
    <2> SUFFICES ASSUME d < n PROVE n - d \in T
      OBVIOUS
    <2>1. ASSUME NEW j \in n-d+1..n PROVE j \in T
      <3>1. n - j \in 0..d-1 /\ n - j < n /\ n - (n - j) = j
        OBVIOUS
      <3> QED
        BY <1>1, <3>1
    <2>2. n - d \in 1..n
      OBVIOUS
    <2> QED
      BY <2>1, <2>2
  <1> HIDE DEF R
  <1>2. Nat \subseteq R
    BY <1>1, StrongInduction
  <1>3. ASSUME NEW i \in 1..n PROVE i \in T
    <2>1. n - i \in Nat /\ n - i < n /\ n - (n - i) = i
      OBVIOUS
    <2> QED
      BY <1>2, <2>1 DEF R
  <1> QED
    BY <1>3

LEMMA MinIs ==
  ASSUME NEW T \in SUBSET Nat, NEW x \in T, \A y \in T : x <= y
  PROVE  Min(T) = x
  <1>0. T # {}
    OBVIOUS
  <1>1. Min(T) \in T /\ \A y \in T : Min(T) <= y
    BY <1>0, MinOfNats
  <1>2. Min(T) <= x /\ x <= Min(T) /\ x \in Nat /\ Min(T) \in Nat
    BY <1>1
  <1> HIDE DEF Min
  <1> QED
    BY <1>2

-----------------------------------------------------------------------------
(***************************************************************************)
(* What a stream is normalised to, mark by mark.                           *)
(***************************************************************************)
Takes(s, taken) ==
  taken = [k \in 0..Len(s) |-> IF k = 0 THEN <<>> ELSE Put(taken[k-1], s[k])]

Taken(s) == CHOOSE taken : Takes(s, taken)

LEMMA TakenSteps ==
  ASSUME NEW s, Len(s) \in Nat
  PROVE  /\ Taken(s)[0] = <<>>
         /\ \A k \in 1..Len(s) : Taken(s)[k] = Put(Taken(s)[k-1], s[k])
         /\ Normalized(s) = Taken(s)[Len(s)]
  <1> DEFINE Builds(f, m) == f = [k \in 0..m |-> IF k = 0 THEN <<>> ELSE Put(f[k-1], s[k])]
             T == {m \in Nat : \E f : Builds(f, m)}
             n == Len(s)
             taken == Taken(s)
  <1>1. 0 \in T
    <2>1. Builds([k \in 0..0 |-> <<>>], 0)
      OBVIOUS
    <2> QED
      BY <2>1
  <1>2. ASSUME NEW m \in Nat, m \in T PROVE m + 1 \in T
    <2>1. PICK f : Builds(f, m)
      BY <1>2
    <2> DEFINE g == [k \in 0..m+1 |-> IF k \in 0..m THEN f[k] ELSE Put(f[k-1], s[k])]
    <2>2. ASSUME NEW k \in 0..m+1
          PROVE  g[k] = IF k = 0 THEN <<>> ELSE Put(g[k-1], s[k])
      <3>1. CASE k \in 0..m
        <4>1. g[k] = f[k]
          BY <3>1
        <4>2. k # 0 => g[k-1] = f[k-1]
          <5> SUFFICES ASSUME k # 0 PROVE g[k-1] = f[k-1]
            OBVIOUS
          <5>1. k - 1 \in 0..m /\ k - 1 \in 0..m+1
            BY <3>1
          <5> QED
            BY <5>1
        <4>3. f[k] = IF k = 0 THEN <<>> ELSE Put(f[k-1], s[k])
          BY <2>1, <3>1
        <4> HIDE DEF g
        <4> QED
          BY <4>1, <4>2, <4>3
      <3>2. CASE k = m + 1
        <4>1. k # 0 /\ k \notin 0..m /\ k - 1 \in 0..m /\ k - 1 \in 0..m+1
          BY <3>2
        <4>2. g[k-1] = f[k-1]
          BY <4>1
        <4>3. g[k] = Put(f[k-1], s[k])
          BY <4>1
        <4> HIDE DEF g
        <4> QED
          BY <4>1, <4>2, <4>3
      <3> QED
        BY <3>1, <3>2
    <2>3. Builds(g, m + 1)
      BY <2>2
    <2> HIDE DEF g, Builds
    <2> QED
      BY <2>3
  <1>3. Takes(s, taken)
    <2>1. n \in T
      <3> HIDE DEF Builds, T
      <3>1. Nat \subseteq T
        BY <1>1, <1>2, Induction
      <3> QED
        BY <3>1
    <2>2. \E f : Takes(s, f)
      BY <2>1 DEF Takes
    <2> QED
      BY <2>2, Zenon DEF Taken
  <1>4. Normalized(s) = taken[Len(s)]
    BY DEF Normalized, Taken, Takes
  <1> HIDE DEF taken
  <1>5. taken[0] = <<>> /\ \A k \in 1..Len(s) : taken[k] = Put(taken[k-1], s[k])
    <2>1. \A k \in 0..Len(s) : taken[k] = IF k = 0 THEN <<>> ELSE Put(taken[k-1], s[k])
      BY <1>3 DEF Takes
    <2>2. 0 \in 0..Len(s) /\ \A k \in 1..Len(s) : k \in 0..Len(s) /\ k # 0
      OBVIOUS
    <2> QED
      BY <2>1, <2>2
  <1> QED
    BY <1>4, <1>5 DEF taken

\* Marks put one behind the other.
LEMMA PutMark ==
  ASSUME NEW S, NEW t \in Seq(S), NEW w \in S
  PROVE  Put(t, w) \in Seq(S) /\ Put(t, w) # <<>> /\ Last(Put(t, w)) = w
  <1>1. Append(t, w) \in Seq(S) /\ Append(t, w) # <<>> /\ Last(Append(t, w)) = w
    BY DEF Last
  <1>2. ASSUME t # <<>>
        PROVE  /\ Append(Front(t), w) \in Seq(S) /\ Append(Front(t), w) # <<>>
               /\ Last(Append(Front(t), w)) = w
    <2>1. Len(t) - 1 \in Nat
      BY <1>2
    <2>2. Front(t) \in Seq(S)
      BY <2>1 DEF Front
    <2> HIDE DEF Front
    <2> QED
      BY <2>2 DEF Last
  <1> QED
    BY <1>1, <1>2 DEF Put

\* Whatever comes behind, what has been taken stays.
LEMMA TakenPrefix ==
  ASSUME NEW S, NEW s \in Seq(S), NEW c \in Seq(S)
  PROVE  /\ \A k \in 0..Len(s) : Taken(s \o c)[k] = Taken(s)[k] /\ Taken(s)[k] \in Seq(S)
         /\ \A k \in 1..Len(c) :
              Taken(s \o c)[Len(s)+k] = Put(Taken(s \o c)[Len(s)+k-1], c[k])
  <1> DEFINE r == s \o c
             T == {k \in Nat : k <= Len(s) => Taken(r)[k] = Taken(s)[k] /\ Taken(s)[k] \in Seq(S)}
  <1>0. /\ r \in Seq(S) /\ Len(r) = Len(s) + Len(c) /\ Len(s) \in Nat /\ Len(c) \in Nat
        /\ \A k \in 1..Len(s) : r[k] = s[k] /\ s[k] \in S
        /\ \A k \in 1..Len(c) : r[Len(s)+k] = c[k]
    OBVIOUS
  <1> HIDE DEF r
  <1>a. Taken(s)[0] = <<>> /\ \A k \in 1..Len(s) : Taken(s)[k] = Put(Taken(s)[k-1], s[k])
    BY <1>0, TakenSteps
  <1>b. Taken(r)[0] = <<>> /\ \A k \in 1..Len(r) : Taken(r)[k] = Put(Taken(r)[k-1], r[k])
    <2>1. Len(r) \in Nat
      BY <1>0
    <2> QED
      BY <2>1, TakenSteps
  <1>1. 0 \in T
    <2>1. Taken(s)[0] \in Seq(S) /\ Taken(r)[0] = Taken(s)[0]
      BY <1>a, <1>b
    <2> QED
      BY <2>1
  <1>2. ASSUME NEW k \in Nat, k \in T PROVE k + 1 \in T
    <2> SUFFICES ASSUME k + 1 <= Len(s)
                 PROVE  Taken(r)[k+1] = Taken(s)[k+1] /\ Taken(s)[k+1] \in Seq(S)
      OBVIOUS
    <2>1. k + 1 \in 1..Len(s) /\ k + 1 \in 1..Len(r) /\ (k + 1) - 1 = k /\ k <= Len(s)
      BY <1>0
    <2>2. Taken(r)[k] = Taken(s)[k] /\ Taken(s)[k] \in Seq(S)
      BY <1>2, <2>1
    <2>3. Taken(r)[k+1] = Put(Taken(r)[k], r[k+1]) /\ Taken(s)[k+1] = Put(Taken(s)[k], s[k+1])
      BY <1>a, <1>b, <2>1
    <2>4. r[k+1] = s[k+1] /\ s[k+1] \in S
      BY <1>0, <2>1
    <2> QED
      BY <2>2, <2>3, <2>4, PutMark
  <1> HIDE DEF T
  <1>3. Nat \subseteq T
    BY <1>1, <1>2, Induction
  <1>4. \A k \in 0..Len(s) : Taken(r)[k] = Taken(s)[k] /\ Taken(s)[k] \in Seq(S)
    BY <1>0, <1>3 DEF T
  <1>5. ASSUME NEW k \in 1..Len(c)
        PROVE  Taken(r)[Len(s)+k] = Put(Taken(r)[Len(s)+k-1], c[k])
    <2>1. Len(s) + k \in 1..Len(r)
      BY <1>0
    <2> QED
      BY <1>0, <1>b, <2>1
  <1> QED
    BY <1>4, <1>5 DEF r

-----------------------------------------------------------------------------
(***************************************************************************)
(* The pieces a stream is cut into.                                        *)
(***************************************************************************)
\* What begins at `from', cut as f says of the rest.
CutAt(s, f, from) ==
  IF Ends(s, from) = {} THEN <<SubSeq(s, from, Len(s))>>
  ELSE <<SubSeq(s, from, Min(Ends(s, from)) - 1)>> \o f[Min(Ends(s, from)) + 2]

Cut1(s) == CHOOSE cut : cut = [from \in 1..Len(s) + 1 |-> CutAt(s, cut, from)]

LEMMA FirstEnd ==
  ASSUME NEW s, Len(s) \in Nat, NEW from \in 1..Len(s) + 1, Ends(s, from) # {}
  PROVE  LET e == Min(Ends(s, from))
         IN  /\ e \in from..Len(s) - 1 /\ s[e] = "LF" /\ s[e+1] = "LF"
             /\ e + 2 \in from+1..Len(s) + 1
             /\ \A i \in Ends(s, from) : e <= i
  <1> DEFINE E == Ends(s, from)
             e == Min(E)
  <1>1. E \in SUBSET Nat /\ E # {}
    BY DEF Ends
  <1>2. e \in E /\ \A i \in E : e <= i
    <2> HIDE DEF E
    <2> QED
      BY <1>1, MinOfNats
  <1> HIDE DEF e
  <1>3. e \in from..Len(s) - 1 /\ s[e] = "LF" /\ s[e+1] = "LF"
    BY <1>2 DEF Ends
  <1>4. e + 2 \in from+1..Len(s) + 1
    BY <1>3
  <1> QED
    BY <1>2, <1>3, <1>4 DEF e

LEMMA CutSteps ==
  ASSUME NEW s, Len(s) \in Nat
  PROVE  /\ \A from \in 1..Len(s) + 1 : Cut1(s)[from] = CutAt(s, Cut1(s), from)
         /\ Blocks(s) = Cut1(s)[1]
  <1> DEFINE n == Len(s) + 1
             Fits(f, i) == f[i] = CutAt(s, f, i)
             T == {d \in Nat : d <= n =>
                     \E f : f = [i \in 1..n |-> f[i]] /\ \A i \in n-d+1..n : Fits(f, i)}
  <1>0. n \in Nat /\ n >= 1
    OBVIOUS
  <1>1. 0 \in T
    <2> DEFINE f == [i \in 1..n |-> <<>>]
    <2>1. f = [i \in 1..n |-> f[i]]
      OBVIOUS
    <2>2. \A i \in n-0+1..n : Fits(f, i)
      <3>1. n-0+1..n = {}
        BY <1>0
      <3> HIDE DEF n, Fits, f
      <3> QED
        BY <3>1
    <2> HIDE DEF f, Fits, n
    <2> QED
      BY <2>1, <2>2
  <1>2. ASSUME NEW d \in Nat, d \in T PROVE d + 1 \in T
    <2> SUFFICES ASSUME d + 1 <= n
                 PROVE  \E g : g = [i \in 1..n |-> g[i]] /\ \A i \in n-(d+1)+1..n : Fits(g, i)
      OBVIOUS
    <2>1. PICK f : f = [i \in 1..n |-> f[i]] /\ \A i \in n-d+1..n : Fits(f, i)
      BY <1>0, <1>2
    <2> DEFINE x == n - d
               g == [i \in 1..n |-> IF i = x THEN CutAt(s, f, x) ELSE f[i]]
    <2>2. x \in 1..n /\ x \in Nat
      BY <1>0
    <2>3. ASSUME NEW i \in x..n PROVE Fits(g, i)
      <3>1. i \in 1..n /\ i \in 1..Len(s) + 1
        BY <2>2
      <3>2. CutAt(s, g, i) = CutAt(s, f, i)
        <4>1. CASE Ends(s, i) = {}
          BY <4>1 DEF CutAt
        <4>2. CASE Ends(s, i) # {}
          <5> DEFINE j == Min(Ends(s, i)) + 2
          <5>1. j \in i+1..Len(s) + 1
            BY <3>1, <4>2, FirstEnd
          <5> HIDE DEF j
          <5>2. j \in 1..n /\ j # x
            BY <1>0, <2>2, <3>1, <5>1
          <5>3. g[j] = f[j]
            BY <5>2
          <5> HIDE DEF g
          <5> QED
            BY <4>2, <5>3 DEF CutAt, j
        <4> QED
          BY <4>1, <4>2
      <3>3. g[i] = CutAt(s, f, i)
        <4>1. CASE i = x
          BY <3>1, <4>1
        <4>2. CASE i # x
          <5>1. i \in n-d+1..n
            BY <1>0, <2>2, <4>2
          <5>2. Fits(f, i)
            BY <2>1, <5>1
          <5> QED
            BY <3>1, <4>2, <5>2
        <4> QED
          BY <4>1, <4>2
      <3> HIDE DEF g
      <3> QED
        BY <3>2, <3>3
    <2>4. g = [i \in 1..n |-> g[i]]
      OBVIOUS
    <2>5. x = n - (d + 1) + 1
      BY <1>0
    <2> HIDE DEF g, x, Fits, n
    <2> QED
      BY <2>3, <2>4, <2>5
  <1>3. \E f : f = [i \in 1..n |-> CutAt(s, f, i)]
    <2>1. n \in T
      <3> HIDE DEF T
      <3>1. Nat \subseteq T
        BY <1>1, <1>2, Induction
      <3> QED
        BY <1>0, <3>1
    <2>2. PICK f : f = [i \in 1..n |-> f[i]] /\ \A i \in n-n+1..n : Fits(f, i)
      BY <1>0, <2>1
    <2>3. \A i \in 1..n : f[i] = CutAt(s, f, i)
      <3>1. n - n + 1 = 1
        BY <1>0
      <3> HIDE DEF n
      <3> QED
        BY <2>2, <3>1
    <2>4. f = [i \in 1..n |-> CutAt(s, f, i)]
      <3> HIDE DEF n
      <3> QED
        BY <2>2, <2>3
    <2> QED
      BY <2>4
  <1>4. Cut1(s) = [from \in 1..Len(s) + 1 |-> CutAt(s, Cut1(s), from)]
    BY <1>3, Zenon DEF Cut1
  <1>5. Blocks(s) = Cut1(s)[1]
    BY DEF Blocks, Cut1, CutAt
  <1>6. ASSUME NEW from \in 1..Len(s) + 1 PROVE Cut1(s)[from] = CutAt(s, Cut1(s), from)
    BY <1>4
  <1> QED
    BY <1>5, <1>6

LEMMA Joined ==
  ASSUME NEW S, NEW s \in Seq(S), NEW t \in Seq(S)
  PROVE  /\ s \o t \in Seq(S) /\ Len(s \o t) = Len(s) + Len(t)
         /\ \A i \in 1..Len(s) : (s \o t)[i] = s[i]
         /\ \A i \in 1..Len(t) : (s \o t)[Len(s)+i] = t[i]
  OBVIOUS

LEMMA BeginOf ==
  ASSUME NEW S, NEW s \in Seq(S), NEW k \in 0..Len(s)
  PROVE  /\ SubSeq(s, 1, k) \in Seq(S) /\ Len(SubSeq(s, 1, k)) = k
         /\ \A i \in 1..k : SubSeq(s, 1, k)[i] = s[i]
  OBVIOUS

LEMMA LastOfJoin ==
  ASSUME NEW X, NEW a \in Seq(X), NEW b \in Seq(X), b # <<>>
  PROVE  a \o b \in Seq(X) /\ a \o b # <<>> /\ Last(a \o b) = Last(b) /\ Last(b) \in X
  <1> DEFINE n == Len(b)
             r == a \o b
  <1>1. n \in Nat /\ n >= 1 /\ Len(a) \in Nat
    OBVIOUS
  <1>2. r \in Seq(X) /\ Len(r) = Len(a) + n /\ \A i \in 1..n : r[Len(a)+i] = b[i]
    BY Joined
  <1>3. b[n] \in X /\ r[Len(r)] = b[n] /\ r # <<>>
    BY <1>1, <1>2
  <1> QED
    BY <1>2, <1>3 DEF r, Last

LEMMA FrontOfJoin ==
  ASSUME NEW X, NEW a \in Seq(X), NEW b \in Seq(X), b # <<>>
  PROVE  /\ Front(a \o b) = a \o Front(b) /\ Front(b) \in Seq(X)
         /\ b = Front(b) \o <<Last(b)>>
  <1> DEFINE n == Len(b)
             r == a \o b
  <1>1. n \in Nat /\ n >= 1 /\ Len(a) \in Nat
    OBVIOUS
  <1>2. /\ r \in Seq(X) /\ Len(r) = Len(a) + n
        /\ \A i \in 1..Len(a) : r[i] = a[i]
        /\ \A i \in 1..n : r[Len(a)+i] = b[i]
    BY Joined
  <1>3. b[n] \in X /\ r[Len(r)] = b[n]
    BY <1>1, <1>2
  <1>4. Front(b) \in Seq(X) /\ Len(Front(b)) = n - 1 /\ \A i \in 1..n-1 : Front(b)[i] = b[i]
    <2>1. n - 1 \in 0..n /\ n - 1 \in Nat
      BY <1>1
    <2> QED
      BY <2>1, BeginOf DEF Front
  <1>5. /\ Front(r) \in Seq(X) /\ Len(Front(r)) = Len(r) - 1
        /\ \A i \in 1..Len(r)-1 : Front(r)[i] = r[i]
    <2>1. Len(r) - 1 \in 0..Len(r) /\ Len(r) - 1 \in Nat
      BY <1>1, <1>2
    <2> HIDE DEF r
    <2> QED
      BY <1>2, <2>1 DEF Front
  <1> HIDE DEF r, Front
  <1>6. /\ a \o Front(b) \in Seq(X) /\ Len(a \o Front(b)) = Len(a) + (n - 1)
        /\ \A i \in 1..Len(a) : (a \o Front(b))[i] = a[i]
        /\ \A i \in 1..n-1 : (a \o Front(b))[Len(a)+i] = Front(b)[i]
    <2> DEFINE f == Front(b)
    <2>1. f \in Seq(X) /\ Len(f) = n - 1
      BY <1>4
    <2> HIDE DEF f, n
    <2>2. /\ a \o f \in Seq(X) /\ Len(a \o f) = Len(a) + Len(f)
          /\ \A i \in 1..Len(a) : (a \o f)[i] = a[i]
          /\ \A i \in 1..Len(f) : (a \o f)[Len(a)+i] = f[i]
      BY <2>1, Joined
    <2> QED
      BY <2>1, <2>2 DEF f
  <1>7. Front(r) = a \o Front(b)
    <2> DEFINE q == a \o Front(b)
    <2> HIDE DEF q
    <2>1. q \in Seq(X) /\ Len(q) = Len(Front(r))
      BY <1>1, <1>2, <1>5, <1>6 DEF q
    <2>2. ASSUME NEW i \in 1..Len(Front(r)) PROVE Front(r)[i] = q[i]
      <3>1. i \in 1..Len(r)-1 /\ (i \in 1..Len(a) \/ (i - Len(a) \in 1..n-1 /\ i - Len(a) \in 1..n))
        BY <1>1, <1>2, <1>5
      <3>2. CASE i \in 1..Len(a)
        BY <1>2, <1>5, <1>6, <3>1, <3>2 DEF q
      <3>3. CASE i - Len(a) \in 1..n-1 /\ i - Len(a) \in 1..n
        <4>1. Len(a) + (i - Len(a)) = i
          BY <1>1
        <4>2. r[i] = b[i - Len(a)] /\ q[i] = Front(b)[i - Len(a)]
          BY <1>2, <1>6, <3>3, <4>1 DEF q
        <4> QED
          BY <1>4, <1>5, <3>1, <3>3, <4>2
      <3> QED
        BY <3>1, <3>2, <3>3
    <2>3. Front(r) = q
      BY <1>5, <2>1, <2>2, SameSequence
    <2> QED
      BY <2>3 DEF q
  <1>8. b = Front(b) \o <<Last(b)>>
    <2> DEFINE q == Front(b) \o <<b[n]>>
    <2>1. /\ q \in Seq(X) /\ Len(q) = n
          /\ \A i \in 1..n-1 : q[i] = Front(b)[i]
          /\ q[n] = b[n]
      BY <1>1, <1>3, <1>4
    <2> HIDE DEF q
    <2>2. \A i \in 1..n : q[i] = b[i]
      BY <1>1, <1>4, <2>1
    <2>3. b = q
      BY <2>1, <2>2, SameSequence
    <2> QED
      BY <2>3 DEF q, Last
  <1>9. r # <<>>
    BY <1>1, <1>2
  <1> QED
    BY <1>2, <1>3, <1>4, <1>7, <1>8, <1>9 DEF r, Last

LEMMA EndOf ==
  ASSUME NEW S, NEW s \in Seq(S), NEW m \in 0..Len(s)
  PROVE  /\ From(s, m) \in Seq(S) /\ Len(From(s, m)) = Len(s) - m /\ Len(s) - m \in Nat
         /\ \A i \in 1..Len(s) - m : From(s, m)[i] = s[m+i] /\ m + i \in 1..Len(s)
  BY DEF From

-----------------------------------------------------------------------------
(***************************************************************************)
(* What is cut does not depend on where it stands.                         *)
(***************************************************************************)
\* A sequence is its begin and its end.
LEMMA SplitAt ==
  ASSUME NEW S, NEW s \in Seq(S), NEW m \in 0..Len(s)
  PROVE  s = SubSeq(s, 1, m) \o From(s, m)
  <1> DEFINE p == SubSeq(s, 1, m)
             q == From(s, m)
             r == p \o q
  <1>1. p \in Seq(S) /\ Len(p) = m /\ \A i \in 1..m : p[i] = s[i]
    BY BeginOf
  <1>2. q \in Seq(S) /\ Len(q) = Len(s) - m /\ \A i \in 1..Len(s) - m : q[i] = s[m+i]
    BY EndOf
  <1> HIDE DEF p, q
  <1>3. /\ r \in Seq(S) /\ Len(r) = Len(p) + Len(q)
        /\ \A i \in 1..Len(p) : r[i] = p[i]
        /\ \A i \in 1..Len(q) : r[Len(p)+i] = q[i]
    BY <1>1, <1>2, Joined
  <1> HIDE DEF r
  <1>4. Len(r) = Len(s) /\ Len(s) \in Nat
    BY <1>1, <1>2, <1>3
  <1>5. ASSUME NEW i \in 1..Len(s) PROVE s[i] = r[i]
    <2>1. CASE i \in 1..m
      BY <1>1, <1>3, <2>1
    <2>2. CASE i \notin 1..m
      <3>1. i - m \in 1..Len(s) - m /\ m + (i - m) = i
        BY <1>4, <2>2
      <3>2. q[i-m] = s[i]
        BY <1>2, <3>1
      <3>3. r[i] = q[i-m]
        BY <1>1, <1>2, <1>3, <3>1
      <3> QED
        BY <3>2, <3>3
    <2> QED
      BY <2>1, <2>2
  <1>6. s = r
    BY <1>3, <1>4, <1>5, SameSequence
  <1> QED
    BY <1>6 DEF r, p, q

LEMMA EndsShift ==
  ASSUME NEW S, NEW p \in Seq(S), NEW q \in Seq(S), NEW j \in 1..Len(q) + 1
  PROVE  /\ \A e \in Ends(q, j) : Len(p) + e \in Ends(p \o q, Len(p) + j)
         /\ \A e \in Ends(p \o q, Len(p) + j) : e - Len(p) \in Ends(q, j)
  <1> DEFINE r == p \o q
             m == Len(p)
  <1>1. /\ Len(r) = m + Len(q) /\ m \in Nat /\ Len(q) \in Nat
        /\ \A i \in 1..Len(q) : r[m+i] = q[i]
    BY Joined
  <1> HIDE DEF r, m
  <1>2. ASSUME NEW e \in Ends(q, j) PROVE m + e \in Ends(r, m + j)
    <2>1. e \in j..Len(q)-1 /\ q[e] = "LF" /\ q[e+1] = "LF"
      BY <1>2 DEF Ends
    <2>2. /\ e \in 1..Len(q) /\ e + 1 \in 1..Len(q) /\ m + (e + 1) = (m + e) + 1
          /\ m + e \in m+j..Len(r)-1
      BY <1>1, <2>1
    <2>3. r[m+e] = "LF" /\ r[(m+e)+1] = "LF"
      BY <1>1, <2>1, <2>2
    <2> QED
      BY <2>2, <2>3 DEF Ends
  <1>3. ASSUME NEW e \in Ends(r, m + j) PROVE e - m \in Ends(q, j)
    <2>1. e \in m+j..Len(r)-1 /\ r[e] = "LF" /\ r[e+1] = "LF"
      BY <1>3 DEF Ends
    <2>2. /\ e - m \in 1..Len(q) /\ (e - m) + 1 \in 1..Len(q)
          /\ m + (e - m) = e /\ m + ((e - m) + 1) = e + 1
          /\ e - m \in j..Len(q)-1
      BY <1>1, <2>1
    <2>3. q[e-m] = "LF" /\ q[(e-m)+1] = "LF"
      BY <1>1, <2>1, <2>2
    <2> QED
      BY <2>2, <2>3 DEF Ends
  <1> QED
    BY <1>2, <1>3 DEF r, m

LEMMA SlicesShift ==
  ASSUME NEW S, NEW p \in Seq(S), NEW q \in Seq(S),
         NEW j \in 1..Len(q) + 1, NEW k \in j-1..Len(q)
  PROVE  SubSeq(p \o q, Len(p) + j, Len(p) + k) = SubSeq(q, j, k)
  <1> DEFINE r == p \o q
             m == Len(p)
             a == SubSeq(r, m + j, m + k)
             b == SubSeq(q, j, k)
  <1>1. /\ r \in Seq(S) /\ Len(r) = m + Len(q) /\ m \in Nat /\ Len(q) \in Nat
        /\ \A i \in 1..Len(q) : r[m+i] = q[i]
    BY Joined
  <1> HIDE DEF r, m
  <1>2. a = [i \in 1..k-j+1 |-> r[i+(m+j)-1]] /\ b = [i \in 1..k-j+1 |-> q[i+j-1]]
    <2>1. (m + k) - (m + j) + 1 = k - j + 1 /\ k - j + 1 \in Nat
      BY <1>1
    <2>2. m + j \in Int /\ m + k \in Int
      BY <1>1
    <2> QED
      BY <2>1, <2>2
  <1>3. ASSUME NEW i \in 1..k-j+1 PROVE r[i+(m+j)-1] = q[i+j-1]
    <2>1. i + j - 1 \in 1..Len(q) /\ m + (i + j - 1) = i+(m+j)-1
      BY <1>1
    <2> QED
      BY <1>1, <2>1
  <1> HIDE DEF a, b
  <1>4. a = b
    BY <1>2, <1>3
  <1> QED
    BY <1>4 DEF a, b, r, m

\* What follows a begin is cut as if it stood alone.
LEMMA CutShift ==
  ASSUME NEW S, NEW p \in Seq(S), NEW q \in Seq(S), NEW from \in 1..Len(q) + 1
  PROVE  Cut1(p \o q)[Len(p) + from] = Cut1(q)[from]
  <1> DEFINE r == p \o q
             m == Len(p)
             n == Len(q) + 1
             T == {j \in 1..n : Cut1(r)[m+j] = Cut1(q)[j]}
  <1>0. Len(r) = m + Len(q) /\ m \in Nat /\ Len(q) \in Nat /\ n \in Nat /\ Len(r) \in Nat
    BY Joined
  <1>1. ASSUME NEW j \in 1..n, \A k \in j+1..n : k \in T PROVE Cut1(r)[m+j] = Cut1(q)[j]
    <2>1. j \in 1..Len(q) + 1 /\ m + j \in 1..Len(r) + 1
      BY <1>0
    <2>2. Cut1(q)[j] = CutAt(q, Cut1(q), j)
      BY <1>0, <2>1, CutSteps
    <2>3. Cut1(r)[m+j] = CutAt(r, Cut1(r), m + j)
      <3> HIDE DEF r, m
      <3> QED
        BY <1>0, <2>1, CutSteps
    <2>4. /\ \A e \in Ends(q, j) : m + e \in Ends(r, m + j)
          /\ \A e \in Ends(r, m + j) : e - m \in Ends(q, j)
      BY <2>1, EndsShift
    <2>5. \A k \in j-1..Len(q) : SubSeq(r, m + j, m + k) = SubSeq(q, j, k)
      BY <2>1, SlicesShift
    <2> HIDE DEF r, m
    <2>6. CASE Ends(q, j) = {}
      <3>1. Ends(r, m + j) = {}
        BY <2>4, <2>6
      <3>2. SubSeq(r, m + j, Len(r)) = SubSeq(q, j, Len(q))
        <4>1. Len(q) \in j-1..Len(q)
          BY <1>0, <2>1
        <4> QED
          BY <1>0, <2>5, <4>1
      <3> QED
        BY <2>2, <2>3, <2>6, <3>1, <3>2 DEF CutAt
    <2>7. CASE Ends(q, j) # {}
      <3> DEFINE e == Min(Ends(q, j))
      <3>1. /\ e \in j..Len(q)-1 /\ e + 2 \in j+1..Len(q) + 1 /\ e \in Nat
            /\ \A i \in Ends(q, j) : e <= i
        BY <1>0, <2>1, <2>7, FirstEnd
      <3>2. e \in Ends(q, j)
        <4>1. Ends(q, j) \in SUBSET Nat
          BY <1>0, <2>1 DEF Ends
        <4> QED
          BY <2>7, <4>1, MinOfNats
      <3> HIDE DEF e
      <3>3. m + e \in Ends(r, m + j)
        BY <2>4, <3>2
      <3>4. \A i \in Ends(r, m + j) : m + e <= i
        <4> SUFFICES ASSUME NEW i \in Ends(r, m + j) PROVE m + e <= i
          OBVIOUS
        <4>1. i - m \in Ends(q, j) /\ i \in Int
          BY <2>1, <2>4, <1>0 DEF Ends
        <4>2. e <= i - m
          BY <3>1, <4>1
        <4> QED
          BY <1>0, <3>1, <4>1, <4>2
      <3>5. Min(Ends(r, m + j)) = m + e
        <4>1. Ends(r, m + j) \in SUBSET Nat
          BY <1>0, <2>1 DEF Ends
        <4> QED
          BY <3>3, <3>4, <4>1, MinIs
      <3>6. SubSeq(r, m + j, (m + e) - 1) = SubSeq(q, j, e - 1)
        <4>1. e - 1 \in j-1..Len(q) /\ m + (e - 1) = (m + e) - 1
          BY <1>0, <2>1, <3>1
        <4> QED
          BY <2>5, <4>1
      <3>7. Cut1(r)[(m + e) + 2] = Cut1(q)[e+2]
        <4>1. e + 2 \in j+1..n /\ m + (e + 2) = (m + e) + 2
          BY <1>0, <3>1
        <4>2. e + 2 \in T
          BY <1>1, <4>1
        <4> HIDE DEF n
        <4> QED
          BY <4>1, <4>2
      <3>8. Ends(r, m + j) # {}
        BY <3>3
      <3>9. Cut1(q)[j] = <<SubSeq(q, j, e - 1)>> \o Cut1(q)[e+2]
        BY <2>2, <2>7 DEF CutAt, e
      <3>10. Cut1(r)[m+j] = <<SubSeq(r, m + j, (m + e) - 1)>> \o Cut1(r)[(m + e) + 2]
        BY <2>3, <3>5, <3>8 DEF CutAt
      <3> QED
        BY <3>6, <3>7, <3>9, <3>10
    <2> QED
      BY <2>6, <2>7
  <1>2. 1..n \subseteq T
    <2>1. \A j \in 1..n : (\A k \in j+1..n : k \in T) => j \in T
      BY <1>1
    <2> HIDE DEF T, n
    <2> QED
      BY <1>0, <2>1, Downward
  <1>3. from \in T
    BY <1>2
  <1> QED
    BY <1>3

LEMMA JoinedIs ==
  ASSUME NEW S, NEW s \in Seq(S), NEW t \in Seq(S), NEW r, r = s \o t
  PROVE  /\ r \in Seq(S) /\ Len(r) = Len(s) + Len(t)
         /\ \A i \in 1..Len(s) : r[i] = s[i]
         /\ \A i \in 1..Len(t) : r[Len(s)+i] = t[i]
  BY Joined

LEMMA JoinAssoc ==
  ASSUME NEW X, NEW a \in Seq(X), NEW b \in Seq(X), NEW c \in Seq(X)
  PROVE  a \o (b \o c) = (a \o b) \o c
  <1> DEFINE l == Len(a)
             m == Len(b)
             n == Len(c)
             bc == b \o c
             ab == a \o b
             u == a \o bc
             v == ab \o c
  <1>0. l \in Nat /\ m \in Nat /\ n \in Nat
    OBVIOUS
  <1>1. /\ bc \in Seq(X) /\ Len(bc) = m + n
        /\ \A i \in 1..m : bc[i] = b[i]
        /\ \A i \in 1..n : bc[m+i] = c[i]
    BY Joined
  <1>2. /\ ab \in Seq(X) /\ Len(ab) = l + m
        /\ \A i \in 1..l : ab[i] = a[i]
        /\ \A i \in 1..m : ab[l+i] = b[i]
    BY Joined
  <1>a. u = a \o bc /\ v = ab \o c
    OBVIOUS
  <1> HIDE DEF bc, ab, u, v, l, m, n
  <1>3. /\ u \in Seq(X) /\ Len(u) = l + Len(bc)
        /\ \A i \in 1..l : u[i] = a[i]
        /\ \A i \in 1..Len(bc) : u[l+i] = bc[i]
    BY <1>a, <1>1, JoinedIs DEF l
  <1>4. /\ v \in Seq(X) /\ Len(v) = Len(ab) + n
        /\ \A i \in 1..Len(ab) : v[i] = ab[i]
        /\ \A i \in 1..n : v[Len(ab)+i] = c[i]
    <2>1. ab \in Seq(X) /\ c \in Seq(X) /\ v = ab \o c
      BY <1>a, <1>2
    <2>2. /\ v \in Seq(X) /\ Len(v) = Len(ab) + Len(c)
          /\ \A i \in 1..Len(ab) : v[i] = ab[i]
          /\ \A i \in 1..Len(c) : v[Len(ab)+i] = c[i]
      BY <2>1, JoinedIs
    <2> QED
      BY <2>2 DEF n
  <1>5. Len(u) = Len(v) /\ Len(u) = l + m + n
    BY <1>0, <1>1, <1>2, <1>3, <1>4
  <1>6. ASSUME NEW i \in 1..Len(u) PROVE u[i] = v[i]
    <2>1. CASE i <= l
      <3>1. i \in 1..l /\ i \in 1..Len(ab)
        BY <1>0, <1>2, <2>1
      <3> QED
        BY <1>2, <1>3, <1>4, <3>1
    <2>2. CASE l < i /\ i <= l + m
      <3>1. /\ i - l \in 1..m /\ l + (i - l) = i /\ i \in 1..Len(ab)
            /\ i - l \in 1..Len(bc)
        BY <1>0, <1>1, <1>2, <2>2
      <3>2. u[i] = bc[i-l] /\ v[i] = ab[i]
        BY <1>3, <1>4, <3>1
      <3>3. bc[i-l] = b[i-l] /\ ab[i] = b[i-l]
        BY <1>1, <1>2, <3>1
      <3> QED
        BY <3>2, <3>3
    <2>3. CASE l + m < i
      <3>1. /\ i - l - m \in 1..n /\ m + (i - l - m) = i - l /\ l + (i - l) = i
            /\ Len(ab) + (i - l - m) = i /\ i - l \in 1..Len(bc)
        BY <1>0, <1>1, <1>2, <1>5, <2>3
      <3>2. u[i] = bc[i-l] /\ bc[i-l] = c[i-l-m]
        BY <1>1, <1>3, <3>1
      <3>3. v[i] = c[i-l-m]
        BY <1>4, <3>1
      <3> QED
        BY <3>2, <3>3
    <2> QED
      BY <1>0, <1>5, <2>1, <2>2, <2>3
  <1>7. u = v
    BY <1>3, <1>4, <1>5, <1>6, SameSequence
  <1> QED
    BY <1>7 DEF u, v, bc, ab

\* The pieces are sequences.
LEMMA BlocksType ==
  ASSUME NEW S, NEW s \in Seq(S)
  PROVE  Blocks(s) \in Seq(Seq(S))
  <1> DEFINE n == Len(s) + 1
             T == {i \in 1..n : Cut1(s)[i] \in Seq(Seq(S))}
  <1>0. Len(s) \in Nat /\ n \in Nat /\ n >= 1
    OBVIOUS
  <1>1. ASSUME NEW i \in 1..n, \A j \in i+1..n : j \in T PROVE Cut1(s)[i] \in Seq(Seq(S))
    <2>1. Cut1(s)[i] = CutAt(s, Cut1(s), i)
      BY <1>0, CutSteps
    <2>2. ASSUME NEW e \in Int, e <= Len(s) PROVE SubSeq(s, i, e) \in Seq(S)
      <3>1. \A k \in i..e : s[k] \in S
        BY <1>0, <2>2
      <3> QED
        BY <1>0, <2>2, <3>1, SubSeqProperties
    <2>3. CASE Ends(s, i) = {}
      <3>1. SubSeq(s, i, Len(s)) \in Seq(S)
        BY <1>0, <2>2
      <3> QED
        BY <2>1, <2>3, <3>1 DEF CutAt
    <2>4. CASE Ends(s, i) # {}
      <3> DEFINE e == Min(Ends(s, i))
      <3>1. e \in i..Len(s)-1 /\ e + 2 \in i+1..n
        BY <1>0, <2>4, FirstEnd
      <3> HIDE DEF e
      <3>2. Cut1(s)[e+2] \in Seq(Seq(S))
        BY <1>1, <3>1
      <3>3. SubSeq(s, i, e - 1) \in Seq(S)
        BY <1>0, <2>2, <3>1
      <3> QED
        BY <2>1, <2>4, <3>2, <3>3 DEF CutAt, e
    <2> QED
      BY <2>3, <2>4
  <1>2. 1..n \subseteq T
    <2>1. \A i \in 1..n : (\A j \in i+1..n : j \in T) => i \in T
      BY <1>1
    <2> HIDE DEF T, n
    <2> QED
      BY <1>0, <2>1, Downward
  <1>3. Cut1(s)[1] \in Seq(Seq(S))
    BY <1>0, <1>2
  <1> QED
    BY <1>0, <1>3, CutSteps

\* The pieces of s behind i end in the one that begins behind m, and any other
\* end of s in its place is cut where it would be cut by itself.
EndsAt(S, s, i, m) ==
  /\ Last(Cut1(s)[i]) = From(s, m)
  /\ Ends(s, m + 1) = {}
  /\ m = i - 1 \/ s[m] = "LF"
  /\ \A q \in Seq(S) : Cut1(SubSeq(s, 1, m) \o q)[i] = Front(Cut1(s)[i]) \o Blocks(q)

\* The pieces are sequences, and the last is an end of the whole without a
\* blank line.
LEMMA CutShape ==
  ASSUME NEW S, NEW s \in Seq(S), NEW from \in 1..Len(s) + 1
  PROVE  /\ Cut1(s)[from] \in Seq(Seq(S)) /\ Cut1(s)[from] # <<>>
         /\ \E m \in from-1..Len(s) : EndsAt(S, s, from, m)
  <1> DEFINE Good(i) == /\ Cut1(s)[i] \in Seq(Seq(S)) /\ Cut1(s)[i] # <<>>
                        /\ \E m \in i-1..Len(s) : EndsAt(S, s, i, m)
             T == {i \in 1..Len(s) + 1 : Good(i)}
  <1>0. Len(s) \in Nat /\ Len(s) + 1 \in Nat
    OBVIOUS
  <1>1. ASSUME NEW i \in 1..Len(s) + 1, \A j \in i+1..Len(s) + 1 : j \in T PROVE Good(i)
    <2>0. Cut1(s)[i] = CutAt(s, Cut1(s), i)
      BY <1>0, CutSteps
    <2>1. CASE Ends(s, i) = {}
      <3>1. Cut1(s)[i] = <<SubSeq(s, i, Len(s))>>
        BY <2>0, <2>1 DEF CutAt
      <3>2. i - 1 \in 0..Len(s) /\ (i - 1) + 1 = i /\ i - 1 \in i-1..Len(s)
        BY <1>0
      <3>3. From(s, i - 1) = SubSeq(s, i, Len(s)) /\ From(s, i - 1) \in Seq(S)
        BY <3>2, EndOf DEF From
      <3>4. Cut1(s)[i] = <<From(s, i - 1)>>
        BY <3>1, <3>3
      <3> HIDE DEF From
      <3>5. Cut1(s)[i] \in Seq(Seq(S)) /\ Cut1(s)[i] # <<>> /\ Last(Cut1(s)[i]) = From(s, i - 1)
        BY <3>3, <3>4 DEF Last
      <3>6. ASSUME NEW q \in Seq(S)
            PROVE  Cut1(SubSeq(s, 1, i - 1) \o q)[i] = Front(Cut1(s)[i]) \o Blocks(q)
        <4> DEFINE p == SubSeq(s, 1, i - 1)
        <4>1. p \in Seq(S) /\ Len(p) = i - 1
          BY <3>2, BeginOf
        <4>2. Len(q) \in Nat /\ 1 \in 1..Len(q) + 1 /\ Len(p) + 1 = i
          BY <1>0, <4>1
        <4> HIDE DEF p
        <4>3. Cut1(p \o q)[i] = Cut1(q)[1] /\ Blocks(q) = Cut1(q)[1]
          BY <4>1, <4>2, CutShift, CutSteps
        <4>4. Front(Cut1(s)[i]) = <<>>
          BY <3>4 DEF Front
        <4>5. Blocks(q) \in Seq(Seq(S))
          BY <4>2, <4>3, BlocksType
        <4> QED
          BY <4>3, <4>4, <4>5 DEF p
      <3> QED
        BY <2>1, <3>2, <3>5, <3>6 DEF EndsAt
    <2>2. CASE Ends(s, i) # {}
      <3> DEFINE e == Min(Ends(s, i))
                 x == SubSeq(s, i, e - 1)
                 b == Cut1(s)[e+2]
      <3>1. e \in i..Len(s) - 1 /\ s[e] = "LF" /\ s[e+1] = "LF" /\ e + 2 \in i+1..Len(s) + 1
        BY <1>0, <2>2, FirstEnd
      <3>2. Cut1(s)[i] = <<x>> \o b
        BY <2>0, <2>2 DEF CutAt
      <3> HIDE DEF e
      <3>3. Good(e + 2)
        BY <1>1, <3>1
      <3>4. x \in Seq(S)
        <4>1. i \in Nat /\ i >= 1 /\ e - 1 \in Int /\ e - 1 <= Len(s)
          BY <1>0, <3>1
        <4>2. \A k \in i..e-1 : s[k] \in S
          BY <1>0, <3>1
        <4> QED
          BY <4>1, <4>2, SubSeqProperties
      <3> HIDE DEF x
      <3>5. <<x>> \in Seq(Seq(S)) /\ b \in Seq(Seq(S)) /\ b # <<>>
        BY <3>3, <3>4
      <3>6. PICK m \in (e+2)-1..Len(s) : EndsAt(S, s, e + 2, m)
        BY <3>3
      <3>7. m \in i-1..Len(s) /\ s[m] = "LF"
        <4>1. (e + 2) - 1 = e + 1 /\ m \in i-1..Len(s)
          BY <1>0, <3>1
        <4> QED
          BY <3>1, <3>6, <4>1 DEF EndsAt
      <3>8. ASSUME NEW q \in Seq(S)
            PROVE  Cut1(SubSeq(s, 1, m) \o q)[i] = <<x>> \o (Front(b) \o Blocks(q))
        <4> DEFINE r == SubSeq(s, 1, m) \o q
        <4>1. m \in 0..Len(s) /\ m \in Nat /\ Len(q) \in Nat /\ i \in 1..m /\ e \in 1..m
              /\ e + 1 \in 1..m /\ e - 1 \in 0..m
          BY <1>0, <3>1, <3>7, <3>6
        <4>2. r \in Seq(S) /\ Len(r) = m + Len(q) /\ \A k \in 1..m : r[k] = s[k]
          BY <4>1, BeginOf, Joined
        <4>3. Cut1(r)[e+2] = Front(b) \o Blocks(q)
          BY <3>6 DEF EndsAt, b
        <4> HIDE DEF r
        <4>4. i \in 1..Len(r) + 1 /\ Len(r) \in Nat
          BY <1>0, <4>1, <4>2
        <4>5. Cut1(r)[i] = CutAt(r, Cut1(r), i)
          BY <4>4, CutSteps
        <4>6. e \in Ends(r, i)
          <5>1. e \in i..Len(r)-1
            BY <1>0, <3>1, <4>1, <4>2
          <5> QED
            BY <3>1, <4>1, <4>2, <5>1 DEF Ends
        <4>7. \A k \in Ends(r, i) : e <= k
          <5> SUFFICES ASSUME NEW k \in Ends(r, i), k < e PROVE FALSE
            BY <1>0, <4>1 DEF Ends
          <5>1. k \in i..Len(r)-1 /\ r[k] = "LF" /\ r[k+1] = "LF"
            BY DEF Ends
          <5>2. k \in 1..m /\ k + 1 \in 1..m /\ k \in i..Len(s)-1
            BY <1>0, <3>1, <4>1, <5>1
          <5>3. k \in Ends(s, i)
            BY <4>2, <5>1, <5>2 DEF Ends
          <5>4. e <= k
            BY <1>0, <2>2, <5>3, FirstEnd DEF e
          <5> QED
            BY <4>1, <5>2, <5>4
        <4>8. Min(Ends(r, i)) = e
          <5>1. Ends(r, i) \in SUBSET Nat
            BY <1>0, <4>4 DEF Ends
          <5> QED
            BY <4>6, <4>7, <5>1, MinIs
        <4>9. SubSeq(r, i, e - 1) = x
          <5> DEFINE f == SubSeq(r, i, e - 1)
          <5>1. f = [k \in 1..e-i |-> r[k+i-1]] /\ x = [k \in 1..e-i |-> s[k+i-1]]
            <6>1. (e - 1) - i + 1 = e - i /\ e - i \in Nat /\ e - 1 \in Int
              BY <1>0, <3>1
            <6> QED
              BY <6>1, <4>1 DEF x
          <5>2. ASSUME NEW k \in 1..e-i PROVE r[k+i-1] = s[k+i-1]
            <6>1. k + i - 1 \in 1..m
              BY <1>0, <3>1, <4>1
            <6> QED
              BY <4>2, <6>1
          <5> HIDE DEF f
          <5>3. f = x
            BY <5>1, <5>2
          <5> QED
            BY <5>3 DEF f
        <4>10. Ends(r, i) # {}
          BY <4>6
        <4>11. Cut1(r)[i] = <<x>> \o Cut1(r)[e+2]
          BY <4>5, <4>8, <4>9, <4>10 DEF CutAt
        <4> QED
          BY <4>3, <4>11 DEF r
      <3> HIDE DEF b
      <3>9. /\ <<x>> \o b \in Seq(Seq(S)) /\ <<x>> \o b # <<>>
            /\ Last(<<x>> \o b) = Last(b) /\ Front(<<x>> \o b) = <<x>> \o Front(b)
            /\ Front(b) \in Seq(Seq(S))
        <4> DEFINE a == <<x>>
                   X == Seq(S)
        <4>1. a \in Seq(X) /\ b \in Seq(X) /\ b # <<>>
          BY <3>5
        <4> HIDE DEF a, X
        <4>2. a \o b \in Seq(X) /\ a \o b # <<>> /\ Last(a \o b) = Last(b)
          BY <4>1, LastOfJoin
        <4>3. Front(a \o b) = a \o Front(b) /\ Front(b) \in Seq(X)
          BY <4>1, FrontOfJoin
        <4> QED
          BY <4>2, <4>3 DEF a, X
      <3>10. ASSUME NEW q \in Seq(S)
             PROVE  Cut1(SubSeq(s, 1, m) \o q)[i] = Front(<<x>> \o b) \o Blocks(q)
        <4>1. Cut1(SubSeq(s, 1, m) \o q)[i] = <<x>> \o (Front(b) \o Blocks(q))
          BY <3>8
        <4>2. Blocks(q) \in Seq(Seq(S))
          BY BlocksType
        <4>3. <<x>> \o (Front(b) \o Blocks(q)) = (<<x>> \o Front(b)) \o Blocks(q)
          <5> DEFINE a == <<x>>
                     f == Front(b)
                     c == Blocks(q)
                     X == Seq(S)
          <5>1. a \in Seq(X) /\ f \in Seq(X) /\ c \in Seq(X)
            BY <3>5, <3>9, <4>2
          <5> HIDE DEF a, f, c, X
          <5>2. a \o (f \o c) = (a \o f) \o c
            BY <5>1, JoinAssoc
          <5> QED
            BY <5>2 DEF a, f, c
        <4> QED
          BY <3>9, <4>1, <4>3
      <3>11. EndsAt(S, s, i, m)
        <4>1. Last(Cut1(s)[i]) = From(s, m) /\ Ends(s, m + 1) = {}
          BY <3>2, <3>6, <3>9 DEF EndsAt, b
        <4>2. \A q \in Seq(S) : Cut1(SubSeq(s, 1, m) \o q)[i] = Front(Cut1(s)[i]) \o Blocks(q)
          BY <3>2, <3>10
        <4> QED
          BY <3>7, <4>1, <4>2 DEF EndsAt
      <3> QED
        BY <3>2, <3>7, <3>9, <3>11
    <2> QED
      BY <2>1, <2>2
  <1> HIDE DEF Good
  <1>2. 1..Len(s) + 1 \subseteq T
    <2>1. \A i \in 1..Len(s) + 1 : (\A j \in i+1..Len(s) + 1 : j \in T) => i \in T
      BY <1>1
    <2> HIDE DEF T
    <2> QED
      BY <1>0, <2>1, Downward
  <1>3. Good(from)
    BY <1>2
  <1> QED
    BY <1>3 DEF Good

LEMMA BlocksReplace ==
  ASSUME NEW S, NEW s \in Seq(S)
  PROVE  /\ Blocks(s) \in Seq(Seq(S)) /\ Blocks(s) # <<>>
         /\ \E m \in 0..Len(s) :
              /\ Last(Blocks(s)) = From(s, m) /\ Ends(s, m + 1) = {}
              /\ m = 0 \/ s[m] = "LF"
              /\ \A q \in Seq(S) :
                   Blocks(SubSeq(s, 1, m) \o q) = Front(Blocks(s)) \o Blocks(q)
  <1>1. Len(s) \in Nat /\ 1 \in 1..Len(s) + 1 /\ 1 - 1 = 0
    OBVIOUS
  <1>2. Blocks(s) = Cut1(s)[1]
    BY <1>1, CutSteps
  <1>3. Cut1(s)[1] \in Seq(Seq(S)) /\ Cut1(s)[1] # <<>>
    BY <1>1, CutShape
  <1>4. PICK m \in 1-1..Len(s) : EndsAt(S, s, 1, m)
    BY <1>1, CutShape
  <1>5. m \in 0..Len(s) /\ (m = 0 \/ s[m] = "LF")
    BY <1>1, <1>4 DEF EndsAt
  <1>6. ASSUME NEW q \in Seq(S)
        PROVE  Blocks(SubSeq(s, 1, m) \o q) = Front(Blocks(s)) \o Blocks(q)
    <2> DEFINE r == SubSeq(s, 1, m) \o q
    <2>1. SubSeq(s, 1, m) \in Seq(S)
      BY <1>5, BeginOf
    <2>2. r \in Seq(S)
      BY <2>1, Joined
    <2>3. Cut1(r)[1] = Front(Cut1(s)[1]) \o Blocks(q)
      BY <1>4 DEF EndsAt
    <2> HIDE DEF r
    <2>4. Blocks(r) = Cut1(r)[1]
      BY <2>2, CutSteps
    <2> QED
      BY <1>2, <2>3, <2>4 DEF r
  <1>7. Last(Blocks(s)) = From(s, m) /\ Ends(s, m + 1) = {}
    BY <1>2, <1>4 DEF EndsAt
  <1> QED
    BY <1>2, <1>3, <1>5, <1>6, <1>7

LEMMA AppendToJoin ==
  ASSUME NEW X, NEW a \in Seq(X), NEW b \in Seq(X), NEW w \in X,
         NEW r, r = a \o b, NEW x, x = Append(b, w), NEW y, y = Append(r, w)
  PROVE  y = a \o x
  <1>0. Len(a) \in Nat /\ Len(b) \in Nat
    OBVIOUS
  <1>1. /\ r \in Seq(X) /\ Len(r) = Len(a) + Len(b)
        /\ \A i \in 1..Len(a) : r[i] = a[i]
        /\ \A i \in 1..Len(b) : r[Len(a)+i] = b[i]
    BY JoinedIs
  <1>2. /\ x \in Seq(X) /\ Len(x) = Len(b) + 1 /\ x[Len(b)+1] = w
        /\ \A i \in 1..Len(b) : x[i] = b[i]
    OBVIOUS
  <1>3. /\ y \in Seq(X) /\ Len(y) = Len(r) + 1 /\ y[Len(r)+1] = w
        /\ \A i \in 1..Len(r) : y[i] = r[i]
    BY <1>1
  <1> DEFINE z == a \o x
  <1>4. /\ z \in Seq(X) /\ Len(z) = Len(a) + Len(x)
        /\ \A i \in 1..Len(a) : z[i] = a[i]
        /\ \A i \in 1..Len(x) : z[Len(a)+i] = x[i]
    <2>1. z = a \o x /\ x \in Seq(X)
      BY <1>2
    <2> HIDE DEF z
    <2> QED
      BY <2>1, JoinedIs
  <1> HIDE DEF z
  <1>5. ASSUME NEW i \in 1..Len(y) PROVE y[i] = z[i]
    <2>1. CASE i \in 1..Len(a)
      <3>1. i \in 1..Len(r)
        BY <1>0, <1>1, <2>1
      <3> QED
        BY <1>1, <1>3, <1>4, <2>1, <3>1
    <2>2. CASE i \in Len(a)+1..Len(r)
      <3>1. i - Len(a) \in 1..Len(b) /\ Len(a) + (i - Len(a)) = i /\ i \in 1..Len(r)
            /\ i - Len(a) \in 1..Len(x)
        BY <1>0, <1>1, <1>2, <2>2
      <3>2. y[i] = r[i] /\ r[i] = b[i-Len(a)]
        BY ONLY <1>1, <1>3, <3>1
      <3>3. z[i] = x[i-Len(a)] /\ x[i-Len(a)] = b[i-Len(a)]
        BY ONLY <1>2, <1>4, <3>1
      <3> QED
        BY <3>2, <3>3
    <2>3. CASE i = Len(r) + 1
      <3>1. i - Len(a) = Len(b) + 1 /\ Len(a) + (i - Len(a)) = i /\ i - Len(a) \in 1..Len(x)
        BY <1>0, <1>1, <1>2, <2>3
      <3> QED
        BY <1>2, <1>3, <1>4, <2>3, <3>1
    <2> QED
      BY <1>0, <1>1, <1>3, <2>1, <2>2, <2>3
  <1>6. Len(y) = Len(z)
    BY <1>0, <1>1, <1>2, <1>3, <1>4
  <1>7. y = z
    BY <1>3, <1>4, <1>5, <1>6, SameSequence
  <1> QED
    BY <1>7 DEF z

\* A mark more changes the last piece only.
LEMMA BlocksPut ==
  ASSUME NEW S, NEW s \in Seq(S), NEW w \in S
  PROVE  Blocks(Put(s, w)) = Front(Blocks(s)) \o Blocks(Put(Last(Blocks(s)), w))
  <1>1. PICK m \in 0..Len(s) :
          /\ Last(Blocks(s)) = From(s, m) /\ Ends(s, m + 1) = {}
          /\ m = 0 \/ s[m] = "LF"
          /\ \A q \in Seq(S) : Blocks(SubSeq(s, 1, m) \o q) = Front(Blocks(s)) \o Blocks(q)
    BY BlocksReplace
  <1> DEFINE p == SubSeq(s, 1, m)
             l == From(s, m)
  <1>2. s = p \o l
    BY SplitAt
  <1>3. p \in Seq(S) /\ l \in Seq(S) /\ Len(l) = Len(s) - m /\ Len(s) \in Nat
    BY BeginOf, EndOf
  <1> HIDE DEF p, l
  <1>4. Put(s, w) = p \o Put(l, w)
    <2>1. Append(s, w) = p \o Append(l, w)
      BY <1>2, <1>3, AppendToJoin
    <2>2. CASE l = <<>>
      <3>1. m = Len(s)
        BY <1>3, <2>2
      <3>2. s # <<>> => Last(s) # "CR"
        <4> SUFFICES ASSUME s # <<>> PROVE Last(s) # "CR"
          OBVIOUS
        <4>1. m # 0
          BY <1>3, <3>1
        <4> QED
          BY <1>1, <3>1, <4>1 DEF Last
      <3> QED
        BY <2>1, <2>2, <3>2 DEF Put
    <2>3. CASE l # <<>>
      <3>1. s # <<>> /\ Last(s) = Last(l)
        BY <1>2, <1>3, <2>3, LastOfJoin
      <3>2. Front(s) = p \o Front(l) /\ Front(l) \in Seq(S)
        BY <1>2, <1>3, <2>3, FrontOfJoin
      <3>3. Append(Front(s), w) = p \o Append(Front(l), w)
        <4> DEFINE f == Front(l)
        <4> HIDE DEF f
        <4>1. f \in Seq(S)
          BY <3>2 DEF f
        <4>2. Front(s) = p \o f
          BY <3>2 DEF f
        <4> DEFINE g == Front(s)
        <4>3. g = p \o f
          BY <4>2
        <4> HIDE DEF g
        <4>4. Append(g, w) = p \o Append(f, w)
          BY <1>3, <4>1, <4>3, AppendToJoin
        <4> QED
          BY <4>4 DEF f, g
      <3> QED
        BY <2>1, <2>3, <3>1, <3>3 DEF Put
    <2> QED
      BY <2>2, <2>3
  <1>5. Put(l, w) \in Seq(S)
    BY <1>3, PutMark
  <1>6. Blocks(p \o Put(l, w)) = Front(Blocks(s)) \o Blocks(Put(l, w))
    BY <1>1, <1>5 DEF p
  <1> QED
    BY <1>1, <1>4, <1>6 DEF l

LEMMA LoneBlock ==
  ASSUME NEW S, NEW s \in Seq(S), Ends(s, 1) = {}
  PROVE  Blocks(s) = <<s>>
  <1>1. Len(s) \in Nat /\ 1 \in 1..Len(s) + 1
    OBVIOUS
  <1>2. Blocks(s) = CutAt(s, Cut1(s), 1)
    BY <1>1, CutSteps
  <1>3. SubSeq(s, 1, Len(s)) = s
    OBVIOUS
  <1> QED
    BY <1>2, <1>3 DEF CutAt

\* The piece at the end is one piece.
LEMMA OwnBlock ==
  ASSUME NEW S, NEW s \in Seq(S)
  PROVE  Blocks(Last(Blocks(s))) = <<Last(Blocks(s))>>
  <1>1. PICK m \in 0..Len(s) : Last(Blocks(s)) = From(s, m) /\ Ends(s, m + 1) = {}
    <2> HIDE DEF Blocks, Ends
    <2> QED
      BY BlocksReplace
  <1> DEFINE p == SubSeq(s, 1, m)
             l == From(s, m)
  <1>2. s = p \o l
    BY SplitAt
  <1>3. p \in Seq(S) /\ Len(p) = m /\ l \in Seq(S) /\ Len(l) \in Nat
    BY BeginOf, EndOf
  <1> HIDE DEF p, l
  <1>4. Ends(l, 1) = {}
    <2>1. 1 \in 1..Len(l) + 1
      BY <1>3
    <2>2. \A e \in Ends(l, 1) : Len(p) + e \in Ends(p \o l, Len(p) + 1)
      BY <1>3, <2>1, EndsShift
    <2> QED
      BY <1>1, <1>2, <1>3, <2>2
  <1> QED
    BY <1>1, <1>3, <1>4, LoneBlock DEF l

-----------------------------------------------------------------------------
(***************************************************************************)
(* What is normalised stays so.                                            *)
(***************************************************************************)
\* A CR at the end may be the begin of a CRLF; there is none elsewhere.
NoCarriage(t) == \A i \in 1..Len(t) - 1 : t[i] # "CR"

LEMMA TakenType ==
  ASSUME NEW S, NEW s \in Seq(S)
  PROVE  \A k \in 0..Len(s) : Taken(s)[k] \in Seq(S)
  <1>1. <<>> \in Seq(S)
    OBVIOUS
  <1> QED
    BY <1>1, TakenPrefix

LEMMA NormalOfSent ==
  ASSUME NEW S, NEW s \in Seq(S), Sent(s)
  PROVE  Normalized(s) \in Seq(S) /\ NoCarriage(Normalized(s))
  <1> DEFINE Good(k) == /\ NoCarriage(Taken(s)[k])
                        /\ k > 0 => Taken(s)[k] # <<>> /\ Last(Taken(s)[k]) = s[k]
             T == {k \in Nat : k <= Len(s) => Good(k)}
  <1>0. Len(s) \in Nat
    OBVIOUS
  <1>1. /\ Taken(s)[0] = <<>> /\ Normalized(s) = Taken(s)[Len(s)]
        /\ \A k \in 1..Len(s) : Taken(s)[k] = Put(Taken(s)[k-1], s[k])
    BY <1>0, TakenSteps
  <1>2. \A k \in 0..Len(s) : Taken(s)[k] \in Seq(S)
    BY TakenType
  <1>3. 0 \in T
    BY <1>1 DEF NoCarriage
  <1>4. ASSUME NEW k \in Nat, k \in T PROVE k + 1 \in T
    <2> SUFFICES ASSUME k + 1 <= Len(s) PROVE Good(k + 1)
      OBVIOUS
    <2> DEFINE t == Taken(s)[k]
               w == s[k+1]
               u == Taken(s)[k+1]
    <2>1. k \in 0..Len(s) /\ k + 1 \in 1..Len(s) /\ (k + 1) - 1 = k /\ k + 1 > 0
      BY <1>0
    <2>2. t \in Seq(S) /\ w \in S /\ u = Put(t, w)
      BY <1>1, <1>2, <2>1
    <2>3. Good(k)
      BY <1>4, <2>1
    <2>4. t # <<>> => k \in 1..Len(s) - 1 /\ Last(t) = s[k]
      <3>1. k = 0 => t = <<>>
        BY <1>1
      <3> QED
        BY <1>0, <2>1, <2>3, <3>1
    <2>5. t # <<>> /\ Last(t) = "CR" => w = "LF"
      <3> SUFFICES ASSUME t # <<>>, Last(t) = "CR" PROVE w = "LF"
        OBVIOUS
      <3>1. k \in 1..Len(s) - 1 /\ s[k] = "CR"
        BY <2>4
      <3> QED
        BY <3>1 DEF Sent
    <2>6. NoCarriage(t)
      BY <2>3
    <2> HIDE DEF t, w, u, Good
    <2>7. u # <<>> /\ Last(u) = w
      BY <2>2, PutMark
    <2>8. NoCarriage(u)
      <3>1. CASE w = "LF" /\ t # <<>> /\ Last(t) = "CR"
        <4>1. u = Append(Front(t), w)
          BY <2>2, <3>1 DEF Put
        <4>2. Len(t) \in Nat /\ Len(t) - 1 \in 0..Len(t)
          BY <2>2, <3>1
        <4>3. /\ Front(t) \in Seq(S) /\ Len(Front(t)) = Len(t) - 1
              /\ \A i \in 1..Len(t) - 1 : Front(t)[i] = t[i]
          BY <2>2, <4>2, BeginOf DEF Front
        <4> DEFINE f == Front(t)
        <4> HIDE DEF f
        <4>4. f \in Seq(S) /\ u = Append(f, w)
          BY <4>1, <4>3 DEF f
        <4>5. Len(u) = Len(f) + 1 /\ \A i \in 1..Len(f) : u[i] = f[i]
          BY <4>4
        <4>6. Len(f) = Len(t) - 1 /\ \A i \in 1..Len(f) : f[i] = t[i]
          BY <4>2, <4>3 DEF f
        <4>7. ASSUME NEW i \in 1..Len(u) - 1 PROVE u[i] # "CR"
          <5>1. i \in 1..Len(f) /\ i \in 1..Len(t) - 1
            BY <4>2, <4>5, <4>6
          <5> QED
            BY <2>6, <4>5, <4>6, <5>1 DEF NoCarriage
        <4> QED
          BY <4>7 DEF NoCarriage
      <3>2. CASE ~ (w = "LF" /\ t # <<>> /\ Last(t) = "CR")
        <4>1. u = Append(t, w)
          BY <2>2, <3>2 DEF Put
        <4>2. Len(t) \in Nat /\ Len(u) = Len(t) + 1 /\ \A i \in 1..Len(t) : u[i] = t[i]
          BY <2>2, <4>1
        <4>3. ASSUME NEW i \in 1..Len(u) - 1 PROVE u[i] # "CR"
          <5>1. i \in 1..Len(t) /\ t # <<>> /\ (i \in 1..Len(t) - 1 \/ i = Len(t))
            BY <2>2, <4>2
          <5>2. Last(t) # "CR"
            BY <2>5, <3>2, <5>1
          <5>3. t[i] # "CR"
            BY <2>6, <5>1, <5>2 DEF NoCarriage, Last
          <5> QED
            BY <4>2, <5>1, <5>3
        <4> QED
          BY <4>3 DEF NoCarriage
      <3> QED
        BY <3>1, <3>2
    <2> QED
      BY <2>7, <2>8 DEF Good, u, w
  <1> HIDE DEF T, Good
  <1>5. Nat \subseteq T
    BY <1>3, <1>4, Induction
  <1>6. Good(Len(s)) /\ Len(s) \in 0..Len(s)
    BY <1>0, <1>5 DEF T
  <1> QED
    BY <1>1, <1>2, <1>6 DEF Good

LEMMA NormalOfNormal ==
  ASSUME NEW S, NEW t \in Seq(S), NoCarriage(t)
  PROVE  Normalized(t) = t
  <1> DEFINE T == {k \in Nat : k <= Len(t) => Taken(t)[k] = SubSeq(t, 1, k)}
  <1>0. Len(t) \in Nat
    OBVIOUS
  <1>1. /\ Taken(t)[0] = <<>> /\ Normalized(t) = Taken(t)[Len(t)]
        /\ \A k \in 1..Len(t) : Taken(t)[k] = Put(Taken(t)[k-1], t[k])
    BY <1>0, TakenSteps
  <1>2. 0 \in T
    <2>1. SubSeq(t, 1, 0) = <<>>
      OBVIOUS
    <2>2. Taken(t)[0] = SubSeq(t, 1, 0)
      BY <1>1, <2>1
    <2> QED
      BY <2>2
  <1>3. ASSUME NEW k \in Nat, k \in T PROVE k + 1 \in T
    <2> SUFFICES ASSUME k + 1 <= Len(t) PROVE Taken(t)[k+1] = SubSeq(t, 1, k + 1)
      OBVIOUS
    <2> DEFINE b == SubSeq(t, 1, k)
    <2>1. k \in 0..Len(t) /\ k + 1 \in 1..Len(t) /\ (k + 1) - 1 = k
      BY <1>0
    <2>2. Taken(t)[k+1] = Put(b, t[k+1])
      <3>1. Taken(t)[k] = b
        BY <1>3, <2>1
      <3>2. Taken(t)[k+1] = Put(Taken(t)[k], t[k+1])
        BY <1>1, <2>1
      <3> HIDE DEF b
      <3> QED
        BY <3>1, <3>2
    <2>3. b \in Seq(S) /\ Len(b) = k /\ \A i \in 1..k : b[i] = t[i]
      BY <2>1, BeginOf
    <2>4. SubSeq(t, 1, k + 1) = Append(b, t[k+1])
      BY SubSeqStep
    <2> HIDE DEF b
    <2>5. b # <<>> => Last(b) # "CR"
      <3> SUFFICES ASSUME b # <<>> PROVE Last(b) # "CR"
        OBVIOUS
      <3>1. k \in 1..Len(t) - 1 /\ k \in 1..k
        BY <1>0, <2>1, <2>3
      <3> QED
        BY <2>3, <3>1 DEF NoCarriage, Last
    <2> QED
      BY <2>2, <2>4, <2>5 DEF Put
  <1> HIDE DEF T
  <1>4. Nat \subseteq T
    BY <1>2, <1>3, Induction
  <1>5. Taken(t)[Len(t)] = SubSeq(t, 1, Len(t))
    BY <1>0, <1>4 DEF T
  <1>6. SubSeq(t, 1, Len(t)) = t
    OBVIOUS
  <1> QED
    BY <1>1, <1>5, <1>6

\* One mark more behind two texts of which one ends as the other is cut.
LEMMA PutBoth ==
  ASSUME NEW S, NEW t \in Seq(S), NEW v \in Seq(S), NEW w \in S, NEW F \in Seq(Seq(S)),
         Blocks(t) = F \o Blocks(v)
  PROVE  Blocks(Put(t, w)) = F \o Blocks(Put(v, w))
  <1> DEFINE X == Seq(S)
             B == Blocks(v)
             A == Blocks(t)
             f == Front(B)
             d == Blocks(Put(Last(B), w))
  <1>1. B \in Seq(X) /\ B # <<>>
    BY BlocksReplace
  <1>2. A = F \o B /\ F \in Seq(X)
    OBVIOUS
  <1>3. Blocks(Put(t, w)) = Front(A) \o Blocks(Put(Last(A), w))
    BY BlocksPut
  <1>4. Blocks(Put(v, w)) = f \o d
    BY BlocksPut
  <1> HIDE DEF X, A, B
  <1>5. Last(A) = Last(B) /\ Last(B) \in X
    BY <1>1, <1>2, LastOfJoin
  <1>6. Front(A) = F \o f /\ f \in Seq(X)
    BY <1>1, <1>2, FrontOfJoin
  <1>7. d \in Seq(X)
    <2>1. Put(Last(B), w) \in Seq(S)
      BY <1>5, PutMark DEF X
    <2> QED
      BY <2>1, BlocksType DEF X
  <1>8. Blocks(Put(t, w)) = (F \o f) \o d
    BY <1>3, <1>5, <1>6
  <1> HIDE DEF f, d
  <1>9. F \o (f \o d) = (F \o f) \o d
    <2> DEFINE a == F
    <2>1. a \in Seq(X)
      BY <1>2
    <2> HIDE DEF a
    <2>2. f \in Seq(X) /\ d \in Seq(X)
      BY <1>6, <1>7
    <2>3. a \o (f \o d) = (a \o f) \o d
      BY ONLY <2>1, <2>2, JoinAssoc
    <2> QED
      BY <2>3 DEF a
  <1> QED
    BY <1>4, <1>8, <1>9

LEMMA NormalEnd ==
  ASSUME NEW S, NEW s \in Seq(S), NoCarriage(s), NEW m \in 0..Len(s)
  PROVE  NoCarriage(From(s, m))
  <1>1. /\ Len(From(s, m)) = Len(s) - m /\ Len(s) \in Nat
        /\ \A i \in 1..Len(s) - m : From(s, m)[i] = s[m+i]
    BY EndOf
  <1> HIDE DEF From
  <1>2. ASSUME NEW i \in 1..Len(From(s, m)) - 1 PROVE From(s, m)[i] # "CR"
    <2>1. m + i \in 1..Len(s) - 1 /\ i \in 1..Len(s) - m
      BY <1>1
    <2> QED
      BY <1>1, <2>1 DEF NoCarriage
  <1> QED
    BY <1>2 DEF NoCarriage

\* Reading on from the last piece is reading on from the begin.
LEMMA ReadOn ==
  ASSUME NEW S, NEW s \in Seq(S), NEW c \in Seq(S), Sent(s)
  PROVE  LET B == Blocks(Normalized(s))
         IN  /\ B \in Seq(Seq(S)) /\ B # <<>>
             /\ Last(B) \in Seq(S) /\ Blocks(Last(B)) = <<Last(B)>>
             /\ Blocks(Normalized(s \o c)) = Front(B) \o Blocks(Normalized(Last(B) \o c))
  <1> DEFINE t == Normalized(s)
             B == Blocks(t)
             b == Last(B)
             F == Front(B)
             X == Seq(S)
             r == s \o c
             q == b \o c
  <1>0. Len(s) \in Nat /\ Len(c) \in Nat
    OBVIOUS
  <1>1. t \in Seq(S) /\ NoCarriage(t)
    BY NormalOfSent
  <1>2. B \in Seq(X) /\ B # <<>> /\ \E m \in 0..Len(t) : b = From(t, m)
    <2> HIDE DEF t, Blocks
    <2> QED
      BY <1>1, BlocksReplace
  <1>3. b \in Seq(S) /\ NoCarriage(b)
    <2>1. PICK m \in 0..Len(t) : b = From(t, m)
      BY <1>2
    <2> HIDE DEF t, B
    <2>2. From(t, m) \in Seq(S) /\ NoCarriage(From(t, m))
      BY <1>1, EndOf, NormalEnd
    <2> HIDE DEF b, From
    <2> QED
      BY <2>1, <2>2
  <1>4. Blocks(b) = <<b>>
    <2> HIDE DEF t
    <2> QED
      BY <1>1, OwnBlock
  <1>5. Normalized(b) = b
    <2> HIDE DEF b
    <2> QED
      BY <1>3, NormalOfNormal
  <1>6. F \in Seq(X) /\ B = F \o <<b>>
    <2> DEFINE e == <<>>
    <2>1. e \in Seq(X)
      OBVIOUS
    <2> HIDE DEF e, B, X
    <2> QED
      BY <1>2, <2>1, FrontOfJoin
  <1> DEFINE f(k) == Taken(r)[Len(s)+k]
             g(k) == Taken(q)[Len(b)+k]
             Good(k) == Blocks(f(k)) = F \o Blocks(g(k)) /\ f(k) \in Seq(S) /\ g(k) \in Seq(S)
             T == {k \in Nat : k <= Len(c) => Good(k)}
  <1> HIDE DEF b, F, B, X, t
  <1>7. Len(b) \in Nat /\ r \in Seq(S) /\ q \in Seq(S)
        /\ Len(r) = Len(s) + Len(c) /\ Len(q) = Len(b) + Len(c)
    BY <1>3, Joined
  <1>8. /\ f(0) = t /\ \A k \in 1..Len(c) : f(k) = Put(f(k-1), c[k])
    <2>1. /\ \A k \in 0..Len(s) : Taken(s \o c)[k] = Taken(s)[k]
          /\ \A k \in 1..Len(c) : Taken(s \o c)[Len(s)+k] = Put(Taken(s \o c)[Len(s)+k-1], c[k])
      BY TakenPrefix
    <2>2. Len(s) + 0 = Len(s) /\ Len(s) \in 0..Len(s)
      BY <1>0
    <2>3. t = Taken(s)[Len(s)]
      BY <1>0, TakenSteps DEF t
    <2>4. \A k \in 1..Len(c) : Len(s)+k-1 = Len(s)+(k-1)
      BY <1>0
    <2> HIDE DEF Put
    <2> QED
      BY <2>1, <2>2, <2>3, <2>4
  <1>9. /\ g(0) = b /\ \A k \in 1..Len(c) : g(k) = Put(g(k-1), c[k])
    <2>1. /\ \A k \in 0..Len(b) : Taken(b \o c)[k] = Taken(b)[k]
          /\ \A k \in 1..Len(c) : Taken(b \o c)[Len(b)+k] = Put(Taken(b \o c)[Len(b)+k-1], c[k])
      BY <1>3, TakenPrefix
    <2>2. Len(b) + 0 = Len(b) /\ Len(b) \in 0..Len(b)
      BY <1>7
    <2>3. b = Taken(b)[Len(b)]
      BY <1>5, <1>7, TakenSteps
    <2>4. \A k \in 1..Len(c) : Len(b)+k-1 = Len(b)+(k-1)
      BY <1>7
    <2> HIDE DEF Put
    <2> QED
      BY <2>1, <2>2, <2>3, <2>4
  <1>10. Normalized(r) = f(Len(c)) /\ Normalized(q) = g(Len(c))
    <2> HIDE DEF r, q
    <2>1. Len(r) \in Nat /\ Len(q) \in Nat
      BY <1>7
    <2> QED
      BY <1>7, <2>1, TakenSteps
  <1> HIDE DEF f, g, r, q
  <1>11. 0 \in T
    <2>1. Blocks(f(0)) = F \o Blocks(g(0))
      BY <1>4, <1>6, <1>8, <1>9 DEF B
    <2> QED
      BY <1>1, <1>3, <1>8, <1>9, <2>1
  <1>12. ASSUME NEW k \in Nat, k \in T PROVE k + 1 \in T
    <2> SUFFICES ASSUME k + 1 <= Len(c) PROVE Good(k + 1)
      OBVIOUS
    <2>1. k + 1 \in 1..Len(c) /\ (k + 1) - 1 = k /\ c[k+1] \in S /\ k <= Len(c)
      BY <1>0
    <2>2. Good(k)
      BY <1>12, <2>1
    <2>3. f(k + 1) = Put(f(k), c[k+1]) /\ g(k + 1) = Put(g(k), c[k+1])
      BY <1>8, <1>9, <2>1
    <2>4. Put(f(k), c[k+1]) \in Seq(S) /\ Put(g(k), c[k+1]) \in Seq(S)
      BY <2>1, <2>2, PutMark
    <2>5. F \in Seq(Seq(S))
      BY <1>6 DEF X
    <2>6. Blocks(Put(f(k), c[k+1])) = F \o Blocks(Put(g(k), c[k+1]))
      BY <2>1, <2>2, <2>5, PutBoth
    <2> QED
      BY <2>3, <2>4, <2>6
  <1> HIDE DEF T, Good
  <1>13. Nat \subseteq T
    BY <1>11, <1>12, Induction
  <1>14. Good(Len(c))
    BY <1>0, <1>13 DEF T
  <1>15. Blocks(Normalized(r)) = F \o Blocks(Normalized(q))
    BY <1>10, <1>14 DEF Good
  <1> QED
    BY <1>2, <1>3, <1>4, <1>15 DEF r, q, b, B, F, t, X

-----------------------------------------------------------------------------
(***************************************************************************)
(* The events of one list of pieces behind another.                        *)
(***************************************************************************)
LEMMA ParseType ==
  ASSUME NEW y
  PROVE  ParseSseBlock(y) \in Seq({<<>>, <<"D">>})
  <1> DEFINE data == SelectSeq(y, LAMBDA w : w \in {"D", "X"})
             E == {<<>>, <<"D">>}
  <1>1. ParseSseBlock(y) = IF Contains(y, "E") /\ data \in {<<>>, <<"D">>} THEN <<data>> ELSE <<>>
    BY DEF ParseSseBlock
  <1> HIDE DEF data
  <1>2. data \in {<<>>, <<"D">>} => <<data>> \in Seq(E)
    OBVIOUS
  <1>3. <<>> \in Seq(E)
    OBVIOUS
  <1> QED
    BY <1>1, <1>2, <1>3

LEMMA EventsStep ==
  ASSUME NEW S, NEW p \in Seq(S), NEW x \in S
  PROVE  /\ Events(p) \in Seq({<<>>, <<"D">>})
         /\ Events(Append(p, x)) = Events(p) \o ParseSseBlock(x)
  <1> DEFINE E == {<<>>, <<"D">>}
             f == [i \in 1..Len(p) |-> ParseSseBlock(p[i])]
             q == Append(p, x)
  <1>1. \A y : ParseSseBlock(y) \in Seq(E)
    BY ParseType
  <1> HIDE DEF E
  <1>2. Len(p) \in Nat /\ DOMAIN p = 1..Len(p)
    OBVIOUS
  <1>3. f \in Seq(Seq(E)) /\ Events(p) = FlattenSeq(f) /\ Len(f) = Len(p)
    <2>1. Events(p) = FlattenSeq(f)
      BY <1>2 DEF Events
    <2> QED
      BY <1>1, <1>2, <2>1
  <1>4. Events(q) = FlattenSeq(Append(f, ParseSseBlock(x)))
    <2> DEFINE g == [i \in 1..Len(q) |-> ParseSseBlock(q[i])]
               h == Append(f, ParseSseBlock(x))
    <2>1. /\ Len(q) = Len(p) + 1 /\ DOMAIN q = 1..Len(q) /\ q[Len(p)+1] = x
          /\ \A i \in 1..Len(p) : q[i] = p[i]
      OBVIOUS
    <2> HIDE DEF q
    <2>2. Events(q) = FlattenSeq(g)
      BY <2>1 DEF Events
    <2>3. /\ h \in Seq(Seq(E)) /\ Len(h) = Len(p) + 1 /\ h[Len(p)+1] = ParseSseBlock(x)
          /\ \A i \in 1..Len(p) : h[i] = f[i]
      BY <1>1, <1>2, <1>3
    <2>4. g \in Seq(Seq(E)) /\ Len(g) = Len(p) + 1
      BY <1>1, <1>2, <2>1
    <2>5. ASSUME NEW i \in 1..Len(p) + 1 PROVE g[i] = h[i]
      <3>1. g[i] = ParseSseBlock(q[i])
        BY <2>1
      <3>2. CASE i \in 1..Len(p)
        <4>1. f[i] = ParseSseBlock(p[i])
          BY <3>2
        <4> HIDE DEF f, g, h
        <4> QED
          BY <2>1, <2>3, <3>1, <3>2, <4>1
      <3>3. CASE i = Len(p) + 1
        <4> HIDE DEF f, g, h
        <4> QED
          BY <2>1, <2>3, <3>1, <3>3
      <3> QED
        BY <1>2, <3>2, <3>3
    <2> HIDE DEF f, g, h
    <2>6. g = h
      BY <2>3, <2>4, <2>5, SameSequence
    <2> QED
      BY <2>2, <2>6 DEF h
  <1> HIDE DEF f, q
  <1>5. FlattenSeq(f) \in Seq(E) /\ FlattenSeq(Append(f, ParseSseBlock(x))) = FlattenSeq(f) \o ParseSseBlock(x)
    BY <1>1, <1>3, FlattenAppend
  <1> QED
    BY <1>3, <1>4, <1>5 DEF q, E

LEMMA EventsJoin ==
  ASSUME NEW S, NEW a \in Seq(S), NEW b \in Seq(S)
  PROVE  Events(a \o b) = Events(a) \o Events(b)
  <1> DEFINE E == {<<>>, <<"D">>}
             c(k) == SubSeq(b, 1, k)
             T == {k \in Nat : k <= Len(b) => Events(a \o c(k)) = Events(a) \o Events(c(k))}
  <1>0. Len(b) \in Nat /\ Events(<<>>) = <<>>
    <2>1. Events(<<>>) = FlattenSeq(<<>>)
      BY DEF Events
    <2> QED
      BY <2>1, FlattenEmpty
  <1>1. \A k \in 0..Len(b) : c(k) \in Seq(S)
    BY BeginOf
  <1>2. \A p \in Seq(S) : Events(p) \in Seq(E)
    <2> SUFFICES ASSUME NEW p \in Seq(S) PROVE Events(p) \in Seq(E)
      OBVIOUS
    <2>1. CASE S = {}
      <3>1. p = <<>>
        BY <2>1
      <3>2. Events(p) = <<>>
        BY <1>0, <3>1
      <3> QED
        BY <3>2
    <2>2. CASE S # {}
      <3>1. PICK x : x \in S
        BY <2>2
      <3> QED
        BY <3>1, EventsStep
    <2> QED
      BY <2>1, <2>2
  <1> HIDE DEF E
  <1>3. 0 \in T
    <2>1. c(0) = <<>> /\ a \o <<>> = a
      OBVIOUS
    <2> DEFINE e == Events(a)
    <2>2. e \in Seq(E)
      BY <1>2
    <2> HIDE DEF e, c
    <2>3. e \o <<>> = e
      BY <2>2
    <2>4. Events(a \o c(0)) = Events(a) \o Events(c(0))
      BY <1>0, <2>1, <2>3 DEF e
    <2> QED
      BY <2>4
  <1>4. ASSUME NEW k \in Nat, k \in T PROVE k + 1 \in T
    <2> SUFFICES ASSUME k + 1 <= Len(b)
                 PROVE  Events(a \o c(k + 1)) = Events(a) \o Events(c(k + 1))
      OBVIOUS
    <2> DEFINE x == b[k+1]
               d == c(k)
               r == a \o d
               g == Events(a)
               h == Events(d)
               y == ParseSseBlock(x)
    <2>1. k \in 0..Len(b) /\ k + 1 \in 1..Len(b) /\ x \in S
      BY <1>0
    <2>2. c(k + 1) = Append(d, x)
      BY SubSeqStep
    <2>3. d \in Seq(S) /\ r \in Seq(S) /\ g \in Seq(E) /\ h \in Seq(E) /\ y \in Seq(E)
      <3>1. d \in Seq(S)
        BY <1>1, <2>1
      <3> HIDE DEF d
      <3>2. r \in Seq(S) /\ g \in Seq(E) /\ h \in Seq(E)
        BY <1>2, <3>1, Joined
      <3>3. y \in Seq(E)
        BY ParseType DEF E
      <3> QED
        BY <3>1, <3>2, <3>3
    <2>4. Events(r) = g \o h
      BY <1>4, <2>1
    <2> HIDE DEF x, d, c
    <2>5. Append(r, x) = a \o Append(d, x)
      BY <2>1, <2>3, AppendToJoin
    <2>6. Events(Append(d, x)) = h \o y
      BY <2>1, <2>3, EventsStep
    <2> HIDE DEF r
    <2>7. Events(Append(r, x)) = Events(r) \o y
      BY <2>1, <2>3, EventsStep
    <2> HIDE DEF g, h, y
    <2>8. g \o (h \o y) = (g \o h) \o y
      BY ONLY <2>3, JoinAssoc
    <2> QED
      BY <2>2, <2>4, <2>5, <2>6, <2>7, <2>8 DEF g
  <1> HIDE DEF T
  <1>5. Nat \subseteq T
    BY <1>3, <1>4, Induction
  <1>6. Events(a \o c(Len(b))) = Events(a) \o Events(c(Len(b)))
    BY <1>0, <1>5 DEF T
  <1>7. c(Len(b)) = b
    OBVIOUS
  <1> HIDE DEF c
  <1> QED
    BY <1>6, <1>7

-----------------------------------------------------------------------------
(***************************************************************************)
(* The reader of the stream.                                               *)
(***************************************************************************)
Marks == Lines \cup {"CR", "LF"}

\* What has been handed on are the events of all pieces of the stream but the
\* last, and the last waits.
StreamInv ==
  LET pieces == Blocks(Normalized(stream))
  IN  /\ stream \in Seq(Marks) /\ Sent(stream)
      /\ got = Events(Front(pieces))
      /\ buffer = Last(pieces)

LEMMA StreamInitially == ViewsInit => StreamInv
  <1> SUFFICES ASSUME ViewsInit PROVE StreamInv
    OBVIOUS
  <1> DEFINE e == <<>>
  <1>1. stream = e /\ buffer = e /\ got = e
    BY DEF ViewsInit
  <1>2. e \in Seq(Marks) /\ Len(e) = 0
    OBVIOUS
  <1>3. Sent(e) /\ NoCarriage(e) /\ Ends(e, 1) = {}
    BY DEF Sent, NoCarriage, Ends
  <1>4. Front(<<e>>) = <<>> /\ Last(<<e>>) = e
    BY DEF Front, Last
  <1>5. Events(<<>>) = <<>>
    <2>1. Events(<<>>) = FlattenSeq(<<>>)
      BY DEF Events
    <2> QED
      BY <2>1, FlattenEmpty
  <1>a. e = <<>>
    OBVIOUS
  <1> HIDE DEF e
  <1>6. Normalized(e) = e
    BY <1>2, <1>3, NormalOfNormal
  <1>7. Blocks(e) = <<e>>
    BY <1>2, <1>3, LoneBlock
  <1> QED
    BY <1>a, <1>1, <1>2, <1>3, <1>4, <1>5, <1>6, <1>7 DEF StreamInv

LEMMA StreamFeed ==
  ASSUME StreamInv, NEW chunk \in Seq(Marks), Feed(chunk)
  PROVE  StreamInv'
  <1> DEFINE B == Blocks(Normalized(stream))
             D == Blocks(Normalized(buffer \o chunk))
             C == Blocks(Normalized(stream \o chunk))
             X == Seq(Marks)
             f == Front(B)
             g == Front(D)
  <1>1. stream \in Seq(Marks) /\ Sent(stream) /\ got = Events(f) /\ buffer = Last(B)
    BY DEF StreamInv
  <1>2. /\ stream' = stream \o chunk /\ Sent(stream \o chunk)
        /\ got' = got \o Events(g) /\ buffer' = Last(D)
    BY DEF Feed, Read, Join
  <1>3. /\ B \in Seq(X) /\ B # <<>> /\ Last(B) \in Seq(Marks)
        /\ C = f \o Blocks(Normalized(Last(B) \o chunk))
    <2> HIDE DEF Blocks, Normalized
    <2> QED
      BY <1>1, ReadOn
  <1>4. C = f \o D
    BY <1>1, <1>3
  <1>5. D \in Seq(X) /\ D # <<>>
    <2> DEFINE r == buffer \o chunk
               t == Normalized(r)
    <2>1. r \in Seq(Marks)
      BY <1>1, <1>3, Joined
    <2> HIDE DEF r
    <2>2. t \in Seq(Marks)
      <3>1. Len(r) \in Nat /\ Len(r) \in 0..Len(r)
        BY <2>1
      <3> QED
        BY <2>1, <3>1, TakenType, TakenSteps
    <2> HIDE DEF t
    <2>3. Blocks(t) \in Seq(Seq(Marks)) /\ Blocks(t) # <<>>
      BY <2>2, BlocksReplace
    <2> QED
      BY <2>3 DEF r, t
  <1>6. stream' \in Seq(Marks) /\ Sent(stream')
    BY <1>1, <1>2, Joined
  <1>c. C = Blocks(Normalized(stream'))
    BY <1>2
  <1> HIDE DEF B, C, D, X
  <1>7. f \in Seq(X)
    <2> DEFINE e == <<>>
    <2>1. e \in Seq(X)
      OBVIOUS
    <2> HIDE DEF e
    <2> QED
      BY <1>3, <2>1, FrontOfJoin
  <1> HIDE DEF f
  <1>8. Front(C) = f \o g /\ g \in Seq(X)
    BY <1>4, <1>5, <1>7, FrontOfJoin
  <1>9. Last(C) = Last(D)
    BY <1>4, <1>5, <1>7, LastOfJoin
  <1> HIDE DEF g
  <1>10. Events(f \o g) = Events(f) \o Events(g)
    BY <1>7, <1>8, EventsJoin
  <1> QED
    BY <1>c, <1>1, <1>2, <1>6, <1>8, <1>9, <1>10 DEF StreamInv

LEMMA StreamStep ==
  StreamInv /\ [ViewsNext]_<<view, before, after, text, stream, buffer, got, cardsVars, log>>
    => StreamInv'
  <1> SUFFICES ASSUME StreamInv,
                      [ViewsNext]_<<view, before, after, text, stream, buffer, got, cardsVars, log>>
               PROVE  StreamInv'
    OBVIOUS
  <1>1. (\E chunk \in Chunks : Feed(chunk)) \/ UNCHANGED <<stream, buffer, got>>
    BY DEF ViewsNext
  <1>2. CASE UNCHANGED <<stream, buffer, got>>
    BY <1>2 DEF StreamInv
  <1>3. ASSUME NEW chunk \in Chunks, Feed(chunk) PROVE StreamInv'
    <2>1. chunk \in UNION {[1..m -> Marks] : m \in 0..2}
      BY <1>3 DEF Chunks, Marks, BoundedSeq, SeqOf
    <2>2. PICK m \in 0..2 : chunk \in [1..m -> Marks]
      BY <2>1
    <2>3. chunk \in Seq(Marks)
      BY <2>2
    <2> QED
      BY <1>3, <2>3, StreamFeed
  <1> QED
    BY <1>1, <1>2, <1>3

LEMMA StreamIsRead ==
  ASSUME StreamInv
  PROVE  ReadsWhole
  <1> DEFINE B == Blocks(Normalized(stream))
             X == Seq(Marks)
             e == <<>>
             c == <<>>
             f == Front(B)
             l == <<Last(B)>>
  <1>1. stream \in Seq(Marks) /\ Sent(stream) /\ got = Events(f) /\ buffer = Last(B)
    BY DEF StreamInv
  <1>2. B \in Seq(X) /\ B # <<>> /\ Last(B) \in X
    <2>1. c \in Seq(Marks)
      OBVIOUS
    <2> HIDE DEF Blocks, Normalized, c
    <2> QED
      BY <1>1, <2>1, ReadOn
  <1>3. e \in Seq(X) /\ l \in Seq(X)
    BY <1>2
  <1> HIDE DEF B, X, e
  <1>4. f \in Seq(X) /\ B = f \o l
    BY <1>2, <1>3, FrontOfJoin
  <1>5. Events(f \o l) = Events(f) \o Events(l)
    <2> HIDE DEF f, l
    <2> QED
      BY <1>3, <1>4, EventsJoin
  <1> QED
    BY <1>1, <1>4, <1>5 DEF ReadsWhole, B

-----------------------------------------------------------------------------
(***************************************************************************)
(* The window: the ends of a transcript.                                   *)
(***************************************************************************)
\* The end of a transcript is a suffix of it.
LEMMA FromIsSuffix ==
  ASSUME NEW h, IsTranscript(h), NEW p \in 0..Len(h)
  PROVE  IsSuffix(From(h, p), h)
  <1> DEFINE S == {h[i] : i \in DOMAIN h}
             g == From(h, p)
             s == Reverse(g)
             t == Reverse(h)
  <1>1. h \in Seq(S) /\ Len(h) \in Nat /\ DOMAIN h = 1..Len(h) /\ p \in Nat
    BY TranscriptElements
  <1>2. /\ Len(g) = Len(h) - p /\ Len(g) \in Nat /\ Len(g) <= Len(h)
        /\ \A i \in 1..Len(g) : g[i] = h[p+i] /\ p + i \in DOMAIN h
    <2>1. /\ Len(g) = Len(h) - p /\ Len(h) - p \in Nat
          /\ \A i \in 1..(Len(h) - p) : g[i] = h[p+i] /\ p + i \in DOMAIN h
      BY FromElements
    <2>2. Len(h) - p <= Len(h)
      BY <1>1
    <2> QED
      BY <2>1, <2>2
  <1>3. \A i \in DOMAIN h : h[i] \in S
    OBVIOUS
  <1> HIDE DEF S, g
  <1>4. s = [i \in 1..Len(g) |-> g[Len(g) - i + 1]]
    BY DEF Reverse
  <1>5. t = [i \in 1..Len(h) |-> h[Len(h) - i + 1]]
    BY DEF Reverse
  <1>6. ASSUME NEW i \in 1..Len(g)
        PROVE  /\ g[Len(g) - i + 1] = h[Len(h) - i + 1] /\ g[Len(g) - i + 1] \in S
               /\ i \in 1..Len(h)
    <2>1. Len(g) - i + 1 \in 1..Len(g) /\ p + (Len(g) - i + 1) = Len(h) - i + 1
          /\ i \in 1..Len(h)
      BY <1>1, <1>2
    <2>2. g[Len(g) - i + 1] = h[p + (Len(g) - i + 1)] /\ p + (Len(g) - i + 1) \in DOMAIN h
      BY <1>2, <2>1
    <2> QED
      BY <1>3, <2>1, <2>2
  <1>7. s \in Seq(S) /\ Len(s) = Len(g) /\ \A i \in 1..Len(g) : s[i] = g[Len(g) - i + 1]
    BY <1>2, <1>4, <1>6
  <1>8. t \in Seq(S) /\ Len(t) = Len(h) /\ \A i \in 1..Len(h) : t[i] = h[Len(h) - i + 1]
    <2>1. \A i \in 1..Len(h) : Len(h) - i + 1 \in 1..Len(h)
      BY <1>1
    <2>2. \A i \in 1..Len(h) : h[Len(h) - i + 1] \in S
      BY <1>1, <1>3, <2>1
    <2> QED
      BY <1>1, <1>5, <2>2
  <1>9. \A i \in 1..Len(s) : s[i] = t[i]
    BY <1>6, <1>7, <1>8
  <1> HIDE DEF s, t
  <1>10. SubSeq(s, 1, Len(s)) = SubSeq(t, 1, Len(s)) /\ Len(s) <= Len(t)
    <2>1. Len(s) <= Len(t) /\ Len(s) \in Nat
      BY <1>2, <1>7, <1>8
    <2> QED
      BY <1>9, <2>1
  <1> QED
    BY <1>10 DEF IsSuffix, IsPrefix, s, t, g

-----------------------------------------------------------------------------
(***************************************************************************)
(* What is sent of an end of the transcript: the placeholder first, unless *)
(* it starts with a user's message.                                        *)
(***************************************************************************)
AsSent(q) ==
  IF q # <<>> /\ Head(q).role # "user" THEN <<TrimPlaceholder>> \o q ELSE q

LEMMA PlaceholderFacts ==
  /\ IsMessage(TrimPlaceholder) /\ TrimPlaceholder.role = "user"
  /\ Canonical(<<TrimPlaceholder>>)
  /\ TrimPlaceholder # User("text")
  <1>1. IsMessage(TrimPlaceholder) /\ TrimPlaceholder.role = "user" /\ TrimPlaceholder.content = "trimmed"
    BY DEF TrimPlaceholder, User, IsMessage
  <1>2. ~ IsTool(TrimPlaceholder) /\ CallsOf(TrimPlaceholder) = <<>> /\ Says(TrimPlaceholder)
    BY <1>1 DEF IsTool, CallsOf, Says, IsEmptyContent
  <1>3. User("text").content = "text"
    BY DEF User
  <1> QED
    BY <1>1, <1>2, <1>3, CanonicalSingle

LEMMA SentLegal ==
  ASSUME NEW q, Canonical(q), \A i \in DOMAIN q : q[i] # TrimPlaceholder
  PROVE  /\ Kept(AsSent(q)) = q
         /\ Replayable(AsSent(q))
         /\ AsSent(q) # <<>> => Head(AsSent(q)).role = "user"
  <1> DEFINE S == {q[i] : i \in DOMAIN q} \cup {TrimPlaceholder}
  <1>1. IsTranscript(q)
    BY DEF Canonical
  <1>2. q \in Seq({q[i] : i \in DOMAIN q}) /\ Len(q) \in Nat /\ DOMAIN q = 1..Len(q)
    BY <1>1, TranscriptElements
  <1>3. q \in Seq(S)
    BY <1>2
  <1>4. TrimPlaceholder \in S
    OBVIOUS
  <1> HIDE DEF S
  <1>5. CASE q # <<>> /\ Head(q).role # "user"
    <2> DEFINE r == <<TrimPlaceholder>> \o q
    <2>1. AsSent(q) = r
      BY <1>5 DEF AsSent
    <2>2. r # <<>> /\ Head(r) = TrimPlaceholder /\ Tail(r) = q
      BY <1>3, <1>4
    <2>3. Replayable(r)
      BY PlaceholderFacts, CanonicalConcat, CanonicalIsReplayable
    <2> HIDE DEF r
    <2> QED
      BY <2>1, <2>2, <2>3, PlaceholderFacts DEF Kept
  <1>6. CASE ~ (q # <<>> /\ Head(q).role # "user")
    <2>1. AsSent(q) = q
      BY <1>6 DEF AsSent
    <2>2. q # <<>> => Head(q) # TrimPlaceholder
      <3> SUFFICES ASSUME q # <<>> PROVE Head(q) # TrimPlaceholder
        OBVIOUS
      <3>1. Head(q) = q[1] /\ 1 \in DOMAIN q
        BY <1>2, <1>3
      <3> QED
        BY <3>1
    <2> QED
      BY <1>6, <2>1, <2>2, CanonicalIsReplayable DEF Kept
  <1> QED
    BY <1>5, <1>6

-----------------------------------------------------------------------------
(***************************************************************************)
(* The rungs: the second keeps a half of the middle, the next a quarter,   *)
(* the last an eighth, and the first two keep it all.                      *)
(***************************************************************************)
LEMMA Divisors ==
  /\ Divisor(0) = 1 /\ Divisor(1) = 1 /\ Divisor(2) = 2
  /\ Divisor(3) = 4 /\ Divisor(4) = 8
  BY DEF Divisor

LEMMA Shares ==
  ASSUME NEW n \in Nat
  PROVE  /\ n \div 1 = n /\ n \div 2 \in 0..n /\ n \div 4 \in 0..n /\ n \div 8 \in 0..n
         /\ n \div 4 <= n \div 2 /\ n \div 8 <= n \div 4
  OBVIOUS

\* The messages that come before those a rung keeps.
Middle(h) == Len(h) - (IF Last(h).role = "user" THEN 1 ELSE 0)
Start(h, divisor) ==
  IF divisor = 1 \/ Len(h) <= 1 THEN 0 ELSE Middle(h) - (Middle(h) \div divisor)

LEMMA StartFacts ==
  ASSUME NEW h, IsTranscript(h), h # <<>>
  PROVE  /\ \A d \in {1, 2, 4, 8} : Start(h, d) \in 0..Middle(h)
         /\ Middle(h) \in 0..Len(h) /\ Middle(h) >= Len(h) - 1
         /\ Last(h).role = "user" => Middle(h) = Len(h) - 1
         /\ Start(h, 1) = 0 /\ Start(h, 1) <= Start(h, 2)
         /\ Start(h, 2) <= Start(h, 4) /\ Start(h, 4) <= Start(h, 8)
  <1> DEFINE n == Len(h)
             m == Middle(h)
  <1>1. n \in Nat /\ n # 0
    <2>1. h \in Seq({h[i] : i \in DOMAIN h})
      BY TranscriptElements
    <2> QED
      BY <2>1
  <1>2. m = (IF Last(h).role = "user" THEN n - 1 ELSE n)
    BY <1>1 DEF Middle
  <1> HIDE DEF n, m
  <1>3. m \in Nat /\ m \in 0..n /\ m >= n - 1
    BY <1>1, <1>2
  <1>4. /\ m \div 1 = m /\ m \div 2 \in 0..m /\ m \div 4 \in 0..m /\ m \div 8 \in 0..m
        /\ m \div 4 <= m \div 2 /\ m \div 8 <= m \div 4
    BY <1>3, Shares
  <1>5. \A d \in {1, 2, 4, 8} : Start(h, d) = IF d = 1 \/ n <= 1 THEN 0 ELSE m - (m \div d)
    BY DEF Start, n, m
  <1>6. /\ Start(h, 1) = 0
        /\ Start(h, 2) = IF n <= 1 THEN 0 ELSE m - (m \div 2)
        /\ Start(h, 4) = IF n <= 1 THEN 0 ELSE m - (m \div 4)
        /\ Start(h, 8) = IF n <= 1 THEN 0 ELSE m - (m \div 8)
    BY <1>5
  <1> DEFINE two == m \div 2
             four == m \div 4
             eight == m \div 8
  <1>7. two \in 0..m /\ four \in 0..m /\ eight \in 0..m /\ four <= two /\ eight <= four
    BY <1>4
  <1> HIDE DEF two, four, eight
  <1>8. /\ Start(h, 2) = IF n <= 1 THEN 0 ELSE m - two
        /\ Start(h, 4) = IF n <= 1 THEN 0 ELSE m - four
        /\ Start(h, 8) = IF n <= 1 THEN 0 ELSE m - eight
    BY <1>6 DEF two, four, eight
  <1>9. /\ Start(h, 1) \in 0..m /\ Start(h, 2) \in 0..m /\ Start(h, 4) \in 0..m
        /\ Start(h, 8) \in 0..m
        /\ Start(h, 1) <= Start(h, 2)
        /\ Start(h, 2) <= Start(h, 4) /\ Start(h, 4) <= Start(h, 8)
    BY <1>3, <1>6, <1>7, <1>8
  <1>10. /\ m \in 0..n /\ m >= n - 1
         /\ Last(h).role = "user" => m = n - 1
    BY <1>1, <1>2, <1>3
  <1> QED
    BY <1>6, <1>9, <1>10 DEF n, m

\* What a rung sends is a cut of the transcript and its repair.
LEMMA DropOldestIsCut ==
  ASSUME NEW h, IsTranscript(h), h # <<>>, NEW d \in {2, 4, 8}, Len(h) > 1
  PROVE  DropOldest(h, d) = AsSent(SanitizeHistory(From(h, Start(h, d))))
  <1> DEFINE S == {h[i] : i \in DOMAIN h}
             n == Len(h)
             m == Middle(h)
             tail == IF Last(h).role = "user" THEN <<Last(h)>> ELSE <<>>
             middle == SubSeq(h, 1, n - Len(tail))
             keep == Len(middle) \div d
             k == m \div d
             end == SubSeq(middle, Len(middle) - keep + 1, Len(middle)) \o tail
             start == Start(h, d)
  <1>0. (d = 1 \/ Len(h) <= 1) = FALSE
    <2>1. d # 1 /\ Len(h) \in Nat
      BY TranscriptElements
    <2> QED
      BY <2>1
  <1>1. h \in Seq(S) /\ n \in Nat /\ n > 1 /\ DOMAIN h = 1..n
    BY TranscriptElements
  <1>2. \A i \in 1..n : h[i] \in S
    BY <1>1
  <1>3. /\ tail \in Seq(S) /\ n - Len(tail) = m /\ m + Len(tail) = n
        /\ Len(tail) = 0 \/ Len(tail) = 1
        /\ Len(tail) = 1 => tail[1] = h[n]
    <2>1. CASE Last(h).role = "user"
      <3>1. tail = <<h[n]>> /\ h[n] \in S /\ m = n - 1
        BY <1>1, <1>2, <2>1 DEF Last, Middle
      <3> HIDE DEF tail, S, n, m
      <3> QED
        BY <1>1, <3>1
    <2>2. CASE Last(h).role # "user"
      <3>1. tail = <<>> /\ m = n
        BY <1>1, <2>2 DEF Middle
      <3> HIDE DEF tail, S, n, m
      <3> QED
        BY <1>1, <3>1
    <2> QED
      BY <2>1, <2>2
  <1>4. m \in 0..n /\ m \in Nat /\ start = m - k /\ k \in 0..m /\ start \in 0..m
    <2>1. m \in 0..n /\ start \in 0..m
      BY StartFacts
    <2>2. m \in Nat
      BY <1>1, <2>1
    <2>3. start = m - k
      BY <1>1 DEF Start
    <2>4. k \in 0..m
      BY <2>2, Shares
    <2> QED
      BY <2>1, <2>2, <2>3, <2>4
  <1> HIDE DEF S, n, m, k, start, tail
  <1>5. middle \in Seq(S) /\ Len(middle) = m /\ \A i \in 1..m : middle[i] = h[i]
    BY <1>1, <1>3, <1>4
  <1>6. keep = k
    BY <1>5 DEF k
  <1> HIDE DEF middle, keep
  <1> DEFINE part == SubSeq(middle, m - k + 1, m)
  <1>7. end = part \o tail
    BY <1>5, <1>6
  <1>8. part \in Seq(S) /\ Len(part) = k /\ \A i \in 1..k : part[i] = h[start+i]
    <2>1. m - k + 1 = start + 1 /\ m - start = k
      BY <1>4
    <2> QED
      BY <1>4, <1>5, <2>1
  <1> HIDE DEF part, end
  <1>9. end \in Seq(S) /\ Len(end) = n - start /\ \A i \in 1..(n - start) : end[i] = h[start+i]
    <2> DEFINE l == Len(tail)
    <2>0. l \in 0..1 /\ k \in Nat /\ m \in Nat /\ n \in Nat /\ start = m - k /\ m + l = n
      BY <1>1, <1>3, <1>4
    <2>1. /\ end \in Seq(S) /\ Len(end) = k + l
          /\ \A i \in 1..k : end[i] = part[i]
          /\ \A i \in 1..l : end[k+i] = tail[i]
      <3>1. /\ part \o tail \in Seq(S) /\ Len(part \o tail) = Len(part) + Len(tail)
            /\ \A i \in 1..Len(part) : (part \o tail)[i] = part[i]
            /\ \A i \in 1..Len(tail) : (part \o tail)[Len(part)+i] = tail[i]
        <4>1. part \in Seq(S) /\ tail \in Seq(S)
          BY <1>3, <1>8
        <4> QED
          BY ONLY <4>1, Joined
      <3> QED
        BY ONLY <1>7, <1>8, <3>1 DEF l
    <2>2. l = 1 => tail[1] = h[n]
      BY <1>3
    <2> HIDE DEF l
    <2>3. k + l = n - start
      BY <2>0
    <2>4. ASSUME NEW i \in 1..(n - start) PROVE end[i] = h[start+i]
      <3>1. CASE i \in 1..k
        BY <1>8, <2>1, <3>1
      <3>2. CASE i \notin 1..k
        <4>1. l = 1 /\ i = k + 1 /\ start + i = n /\ 1 \in 1..l
          BY <2>0, <2>3, <3>2
        <4>2. end[k+1] = tail[1]
          BY <2>1, <4>1
        <4> QED
          BY <2>2, <4>1, <4>2
      <3> QED
        BY <3>1, <3>2
    <2> QED
      BY <2>1, <2>3, <2>4
  <1>10. start \in 0..Len(h)
    BY <1>1, <1>4 DEF n
  <1>11. /\ Len(From(h, start)) = n - start
         /\ \A i \in 1..(n - start) : From(h, start)[i] = h[start+i]
    BY <1>10, FromElements DEF n
  <1>12. From(h, start) \in Seq(S)
    BY <1>1, <1>4 DEF From, n
  <1>13. end = From(h, start)
    BY <1>9, <1>11, <1>12, SameSequence
  <1>14. DropOldest(h, d) = AsSent(SanitizeHistory(end))
    BY <1>0, Zenon DEF DropOldest, Cut, AsSent, end, keep, middle, tail, n
  <1> QED
    BY <1>13, <1>14 DEF start

-----------------------------------------------------------------------------
(***************************************************************************)
(* The transcripts that turns make are their own repair, the user speaks   *)
(* first, and no message of the user's is the placeholder.                 *)
(***************************************************************************)
AsksFirst == log # <<>> => log[1].role = "user"
NoPlaceholder == \A i \in DOMAIN log : log[i] # TrimPlaceholder
LogInv == Canonical(log) /\ AsksFirst /\ NoPlaceholder

\* The messages that come before those which `attempt' sends.
Dropped(attempt) == FirstFrom(log, Start(log, Divisor(attempt)))

LEMMA LogFacts ==
  ASSUME LogInv, log # <<>>
  PROVE  /\ IsTranscript(log) /\ Len(log) \in Nat /\ Len(log) >= 1
         /\ DOMAIN log = 1..Len(log) /\ SanitizeHistory(log) = log
  <1>1. IsTranscript(log)
    BY DEF LogInv, Canonical
  <1>2. log \in Seq({log[i] : i \in DOMAIN log})
    BY <1>1, TranscriptElements
  <1>3. Len(log) \in Nat /\ Len(log) >= 1
    BY <1>2
  <1> QED
    BY <1>1, <1>3, TranscriptElements, CanonicalIsFixed DEF LogInv

\* What a rung sends is an end of the transcript.
LEMMA FitIsEnd ==
  ASSUME LogInv, log # <<>>, NEW attempt \in 0..4
  PROVE  LET kept == From(log, Dropped(attempt))
         IN  /\ FitToWindow(log, attempt) = AsSent(kept)
             /\ Kept(FitToWindow(log, attempt)) = kept
             /\ Dropped(attempt) \in 0..Len(log)
             /\ Canonical(kept) /\ \A i \in DOMAIN kept : kept[i] # TrimPlaceholder
  <1> DEFINE d == Divisor(attempt)
             start == Start(log, d)
             p == FirstFrom(log, start)
             kept == From(log, p)
  <1>1. /\ IsTranscript(log) /\ Len(log) \in Nat /\ Len(log) >= 1 /\ Canonical(log)
        /\ DOMAIN log = 1..Len(log) /\ SanitizeHistory(log) = log
    BY LogFacts DEF LogInv
  <1>2. d \in {1, 2, 4, 8}
    BY Divisors
  <1>3. start \in 0..Len(log) /\ start \in Nat
    <2>1. start \in 0..Middle(log) /\ Middle(log) \in 0..Len(log)
      BY <1>1, <1>2, StartFacts
    <2> HIDE DEF start
    <2> QED
      BY <1>1, <2>1
  <1>4. FitToWindow(log, attempt) = DropOldest(log, d)
    BY <1>1 DEF FitToWindow
  <1> HIDE DEF d, start
  <1>5. p \in 0..Len(log) /\ p \in start..Len(log)
    BY <1>1, <1>3, FirstFromIsFirst
  <1>6. SanitizeHistory(From(log, start)) = kept /\ Canonical(kept)
    BY <1>1, <1>3, SanitizeCut
  <1>7. \A i \in DOMAIN kept : kept[i] # TrimPlaceholder
    <2>1. /\ DOMAIN kept = 1..(Len(log) - p)
          /\ \A i \in 1..(Len(log) - p) : kept[i] = log[p+i] /\ p + i \in DOMAIN log
      BY <1>1, <1>5, FromElements
    <2> HIDE DEF kept, p
    <2> QED
      BY <2>1 DEF LogInv, NoPlaceholder
  <1>8. DropOldest(log, d) = AsSent(kept)
    <2>1. CASE d = 1 \/ Len(log) <= 1
      <3>1. start = 0
        BY <2>1 DEF start, Start
      <3>2. 1 \in DOMAIN log /\ ~ IsTool(log[1]) /\ log[1].role = "user"
        BY <1>1 DEF LogInv, AsksFirst, IsTool
      <3>3. p <= 0
        <4>1. 0 \in start..Len(log) /\ 0 + 1 = 1
          BY <1>1, <3>1
        <4>2. 0 = Len(log) \/ ~ IsTool(log[0+1]) => p <= 0
          BY <1>1, <1>3, <4>1, FirstFromIsFirst
        <4> QED
          BY <3>2, <4>1, <4>2
      <3>4. p = 0
        BY <1>1, <1>5, <3>3
      <3>5. kept = log
        <4>1. kept = SubSeq(log, 1, Len(log))
          BY <3>4 DEF From
        <4>2. log \in Seq({log[i] : i \in DOMAIN log})
          BY <1>1, TranscriptElements
        <4> HIDE DEF kept
        <4> QED
          BY <4>1, <4>2
      <3>6. Head(log) = log[1]
        BY <1>1, TranscriptElements
      <3>7. AsSent(log) = log
        BY <3>2, <3>6 DEF AsSent
      <3>8. DropOldest(log, d) = log
        BY <2>1 DEF DropOldest
      <3> QED
        BY <3>5, <3>7, <3>8
    <2>2. CASE ~ (d = 1 \/ Len(log) <= 1)
      <3>1. d \in {2, 4, 8} /\ Len(log) > 1
        BY <1>1, <1>2, <2>2
      <3>2. DropOldest(log, d) = AsSent(SanitizeHistory(From(log, start)))
        BY <1>1, <3>1, DropOldestIsCut DEF start
      <3> QED
        BY <1>6, <3>2
    <2> QED
      BY <2>1, <2>2
  <1> HIDE DEF p
  <1>9. Kept(AsSent(kept)) = kept
    BY <1>6, <1>7, SentLegal
  <1> QED
    BY <1>4, <1>5, <1>6, <1>7, <1>8, <1>9 DEF Dropped, p, start, d

\* No rung sends more than the one below.
LEMMA DroppedGrows ==
  ASSUME LogInv, log # <<>>, NEW attempt \in 1..4
  PROVE  Dropped(attempt - 1) <= Dropped(attempt)
  <1> DEFINE lower == Start(log, Divisor(attempt - 1))
             start == Start(log, Divisor(attempt))
             p == FirstFrom(log, start)
  <1>1. IsTranscript(log) /\ Len(log) \in Nat
    BY LogFacts
  <1>2. lower <= start /\ lower \in 0..Len(log) /\ start \in 0..Len(log)
    <2>1. /\ Start(log, 1) <= Start(log, 2) /\ Start(log, 2) <= Start(log, 4)
          /\ Start(log, 4) <= Start(log, 8) /\ Start(log, 1) = 0
          /\ \A d \in {1, 2, 4, 8} : Start(log, d) \in 0..Middle(log)
          /\ Middle(log) \in 0..Len(log)
      BY <1>1, StartFacts
    <2>2. \A d \in {1, 2, 4, 8} : Start(log, d) \in 0..Len(log)
      BY <1>1, <2>1
    <2>3. attempt \in {1, 2, 3, 4}
      OBVIOUS
    <2>4. CASE attempt = 1
      BY <2>1, <2>2, <2>4, Divisors
    <2>5. CASE attempt = 2
      BY <2>1, <2>2, <2>5, Divisors
    <2>6. CASE attempt = 3
      BY <2>1, <2>2, <2>6, Divisors
    <2>7. CASE attempt = 4
      BY <2>1, <2>2, <2>7, Divisors
    <2> QED
      BY <2>3, <2>4, <2>5, <2>6, <2>7
  <1> HIDE DEF lower, start
  <1>3. p \in start..Len(log) /\ (p = Len(log) \/ ~ IsTool(log[p+1]))
    BY <1>1, <1>2, FirstFromIsFirst
  <1>4. p \in lower..Len(log)
    BY <1>1, <1>2, <1>3
  <1> HIDE DEF p
  <1>5. FirstFrom(log, lower) <= p
    BY <1>1, <1>2, <1>3, <1>4, FirstFromIsFirst
  <1> QED
    BY <1>5 DEF Dropped, lower, start, p

LEMMA LogIsLegal ==
  ASSUME LogInv
  PROVE  WindowLegal
  <1> SUFFICES ASSUME log # <<>>, NEW attempt \in 0..MaxAttempts
               PROVE  LET sent == FitToWindow(log, attempt)
                          kept == Kept(sent)
                      IN  /\ Replayable(sent)
                          /\ sent # <<>> => Head(sent).role = "user"
                          /\ sent = <<>> => Divisor(attempt) > 1
                          /\ IsSuffix(kept, log)
                          /\ Last(log).role = "user" => kept # <<>>
                          /\ attempt > 0 =>
                               Len(kept) <= Len(Kept(FitToWindow(log, attempt - 1)))
    BY DEF WindowLegal
  <1> DEFINE p == Dropped(attempt)
             kept == From(log, p)
  <1>1. attempt \in 0..4
    BY AttemptsAssumption
  <1>2. /\ FitToWindow(log, attempt) = AsSent(kept)
        /\ Kept(FitToWindow(log, attempt)) = kept
        /\ p \in 0..Len(log)
        /\ Canonical(kept) /\ \A i \in DOMAIN kept : kept[i] # TrimPlaceholder
    BY <1>1, FitIsEnd
  <1>3. IsTranscript(log) /\ Len(log) \in Nat /\ Len(log) >= 1 /\ DOMAIN log = 1..Len(log)
    BY LogFacts
  <1>4. Replayable(AsSent(kept)) /\ (AsSent(kept) # <<>> => Head(AsSent(kept)).role = "user")
    <2> HIDE DEF kept
    <2> QED
      BY <1>2, SentLegal
  <1>5. IsSuffix(kept, log)
    BY <1>2, <1>3, FromIsSuffix
  <1>6. ASSUME Last(log).role = "user" PROVE kept # <<>>
    <2> DEFINE start == Start(log, Divisor(attempt))
               n == Len(log)
    <2>1. start \in 0..Middle(log) /\ Middle(log) = n - 1
      <3>1. Divisor(attempt) \in {1, 2, 4, 8}
        BY <1>1, Divisors
      <3> QED
        BY <1>3, <1>6, <3>1, StartFacts
    <2>2. ~ IsTool(log[n])
      BY <1>6 DEF Last, IsTool
    <2>3. n \in Nat /\ n >= 1
      BY <1>3
    <2>4. p = FirstFrom(log, start)
      BY DEF Dropped
    <2> HIDE DEF start, p
    <2>5. start \in 0..n /\ n - 1 \in start..n /\ (n - 1) + 1 = n
      <3> HIDE DEF n
      <3> QED
        BY <2>1, <2>3
    <2>6. n - 1 = n \/ ~ IsTool(log[(n-1)+1]) => p <= n - 1
      BY <1>3, <2>4, <2>5, FirstFromIsFirst
    <2>7. p <= n - 1
      BY <2>2, <2>5, <2>6
    <2>8. Len(kept) = n - p
      BY <1>2, <1>3, FromElements
    <2>9. Len(kept) # 0
      <3> HIDE DEF n, kept
      <3> QED
        BY <1>2, <2>3, <2>7, <2>8 DEF n
    <2> QED
      BY <2>9
  <1>7. ASSUME attempt > 0
        PROVE  Len(kept) <= Len(Kept(FitToWindow(log, attempt - 1)))
    <2> DEFINE q == Dropped(attempt - 1)
    <2>1. attempt - 1 \in 0..4 /\ attempt \in 1..4
      BY <1>1, <1>7
    <2>2. Kept(FitToWindow(log, attempt - 1)) = From(log, q) /\ q \in 0..Len(log)
      BY <2>1, FitIsEnd
    <2>3. q <= p
      BY <2>1, DroppedGrows
    <2>4. Len(kept) = Len(log) - p /\ Len(From(log, q)) = Len(log) - q
      BY <1>2, <1>3, <2>2, FromElements
    <2>5. Len(log) - p <= Len(log) - q
      <3> HIDE DEF p, q
      <3> QED
        BY <1>2, <1>3, <2>2, <2>3
    <2> QED
      BY <2>2, <2>4, <2>5
  <1>8. ASSUME FitToWindow(log, attempt) = <<>> PROVE Divisor(attempt) > 1
    <2>1. Divisor(attempt) \in {1, 2, 4, 8}
      BY <1>1, Divisors
    <2>2. Divisor(attempt) # 1
      <3>1. SanitizeHistory(log) = log
        BY LogFacts
      <3>2. ASSUME Divisor(attempt) = 1 PROVE FitToWindow(log, attempt) = log
        BY <3>1, <3>2 DEF FitToWindow, DropOldest
      <3> QED
        BY <1>8, <3>2
    <2> QED
      BY <2>1, <2>2
  <1> HIDE DEF kept
  <1> QED
    BY <1>2, <1>4, <1>5, <1>6, <1>7, <1>8

-----------------------------------------------------------------------------
(***************************************************************************)
(* A round is canonical whatever the ids of its calls, the same twice too. *)
(***************************************************************************)
LEMMA ResultIsMessage ==
  ASSUME NEW id, NEW body
  PROVE  /\ ToolResult(id, body).role = "tool" /\ ToolResult(id, body).id = id
         /\ IsMessage(ToolResult(id, body))
  BY DEF ToolResult, IsMessage

LEMMA CanonicalRound ==
  ASSUME NEW n \in 1..3, NEW f, \A k \in 1..n : f[k] # NoId
  PROVE  LET asked   == [k \in 1..n |-> [id |-> f[k], name |-> "read"]]
             answers == [k \in 1..n |-> ToolResult(f[k], "ok")]
             round   == <<Assistant("empty", asked)>> \o answers
         IN  /\ Canonical(round) /\ \A j \in DOMAIN round : round[j] # TrimPlaceholder
             /\ \E S : answers \in Seq(S)
  <1> DEFINE asked == [k \in 1..n |-> [id |-> f[k], name |-> "read"]]
             answers == [k \in 1..n |-> ToolResult(f[k], "ok")]
             head == Assistant("empty", asked)
             S == {head} \cup {answers[k] : k \in 1..n}
             r == <<head>> \o answers
  <1>0. n \in Nat /\ n >= 1
    OBVIOUS
  <1>1. /\ IsSequence(asked) /\ Len(asked) = n /\ DOMAIN asked = 1..n
        /\ \A k \in 1..n : asked[k].id = f[k] /\ asked[k].name = "read" /\ IsCall(asked[k])
    BY <1>0 DEF IsSequence, IsCall
  <1>2. \A k \in 1..n : IsNamed(asked[k])
    BY <1>1 DEF IsNamed
  <1>3. \A k \in 1..n : answers[k] = ToolResult(f[k], "ok")
    OBVIOUS
  <1>4. answers \in Seq(S) /\ Len(answers) = n
    <2>1. \A k \in 1..n : answers[k] \in S
      OBVIOUS
    <2>2. answers = [k \in 1..n |-> answers[k]]
      OBVIOUS
    <2> HIDE DEF S, answers
    <2> QED
      BY <1>0, <2>1, <2>2
  <1>5. head \in S
    OBVIOUS
  <1>6. \A x \in S : x = head \/ \E k \in 1..n : x = answers[k]
    OBVIOUS
  <1> HIDE DEF asked, answers, S
  <1>7. /\ head.role = "assistant" /\ head.content = "empty" /\ head.calls = asked
        /\ CallsOf(head) = asked /\ IsMessage(head) /\ Says(head) /\ ~ IsTool(head)
    <2>1. /\ head.role = "assistant" /\ head.content = "empty" /\ head.calls = asked
          /\ head = Assistant(head.content, head.calls)
      BY DEF Assistant
    <2>2. asked # <<>>
      BY <1>0, <1>1
    <2> HIDE DEF head
    <2>3. CallsOf(head) = asked /\ Says(head) /\ ~ IsTool(head)
      BY <2>1, <2>2 DEF CallsOf, Says, IsTool
    <2>4. \A k \in DOMAIN head.calls :
            head.calls[k] = [id |-> head.calls[k].id, name |-> head.calls[k].name]
      BY <1>1, <2>1 DEF IsCall
    <2>5. IsMessage(head)
      BY <1>1, <2>1, <2>4 DEF IsMessage
    <2> QED
      BY <2>1, <2>3, <2>5
  <1>8. \A k \in 1..n :
          /\ answers[k].role = "tool" /\ answers[k].id = f[k]
          /\ IsMessage(answers[k]) /\ IsTool(answers[k]) /\ Answers(answers[k], asked[k])
    <2> SUFFICES ASSUME NEW k \in 1..n
                 PROVE  /\ answers[k].role = "tool" /\ answers[k].id = f[k]
                        /\ IsMessage(answers[k]) /\ IsTool(answers[k])
                        /\ Answers(answers[k], asked[k])
      OBVIOUS
    <2>1. answers[k].role = "tool" /\ answers[k].id = f[k] /\ IsMessage(answers[k])
      BY <1>3, ResultIsMessage
    <2>2. asked[k].id = f[k]
      BY <1>1
    <2> QED
      BY <2>1, <2>2 DEF IsTool, Answers
  <1> HIDE DEF head
  <1>9. /\ r \in Seq(S) /\ Len(r) = 1 + n /\ DOMAIN r = 1..(1 + n)
        /\ r[1] = head
        /\ \A k \in 1..n : r[1+k] = answers[k] /\ 1 + k \in DOMAIN r
    BY <1>0, <1>4, <1>5
  <1>10. \A j \in DOMAIN r : j = 1 \/ \E k \in 1..n : j = 1 + k
    <2> SUFFICES ASSUME NEW j \in DOMAIN r, j # 1
                 PROVE  \E k \in 1..n : j = 1 + k
      OBVIOUS
    <2>1. j - 1 \in 1..n /\ j = 1 + (j - 1)
      BY <1>0, <1>9
    <2> QED
      BY <2>1
  <1> HIDE DEF r
  <1>11. IsTranscript(r)
    <2>1. \A x \in S : IsMessage(x)
      BY <1>6, <1>7, <1>8
    <2>2. r \in Seq({r[j] : j \in DOMAIN r}) /\ \A j \in DOMAIN r : r[j] \in S
      BY <1>9
    <2> QED
      BY <2>1, <2>2 DEF IsTranscript, IsSequence
  <1>12. \A k \in 1..n : CallsOf(r[1+k]) = <<>> /\ IsTool(r[1+k]) /\ Says(r[1+k])
    BY <1>8, <1>9, CallsOfMessage DEF Says
  <1>13. \A j \in DOMAIN r : Says(r[j])
    BY <1>7, <1>9, <1>10, <1>12
  <1>14. ASSUME NEW j \in DOMAIN r, NEW k \in DOMAIN CallsOf(r[j]), NEW l \in DOMAIN CallsOf(r[j])
         PROVE  Paired(r, j, k) /\ OneAnswer(r, j, k, l)
    <2>1. CallsOf(r[j]) # <<>>
      OBVIOUS
    <2>2. j = 1 /\ CallsOf(r[j]) = asked
      BY <1>7, <1>9, <1>10, <1>12, <2>1
    <2>3. k \in 1..n /\ l \in 1..n /\ 1 + k <= Len(r)
      BY <1>1, <1>9, <2>2
    <2>4. r[j+k] = answers[k] /\ r[j+l] = answers[l] /\ j + k <= Len(r)
      BY <1>9, <2>2, <2>3
    <2>5. SameId(asked[k], asked[l]) => answers[k] = answers[l]
      BY <1>1, <1>3, <2>3 DEF SameId
    <2> QED
      BY <1>2, <1>8, <2>2, <2>3, <2>4, <2>5 DEF Paired, OneAnswer
  <1>15. ASSUME NEW j \in DOMAIN r, IsTool(r[j])
         PROVE  \E m \in 1..j-1 : j <= m + Len(CallsOf(r[m]))
    <2>1. PICK k \in 1..n : j = 1 + k
      BY <1>7, <1>9, <1>10, <1>15
    <2>2. 1 \in 1..j-1 /\ j <= 1 + Len(asked)
      BY <1>0, <1>1, <2>1
    <2> QED
      BY <1>7, <1>9, <2>2
  <1>16. Canonical(r)
    BY <1>11, <1>13, <1>14, <1>15 DEF Canonical
  <1>17. \A j \in DOMAIN r : r[j] # TrimPlaceholder
    <2>1. head # TrimPlaceholder /\ \A k \in 1..n : answers[k] # TrimPlaceholder
      BY <1>7, <1>8, PlaceholderFacts
    <2> QED
      BY <1>9, <1>10, <2>1
  <1> QED
    BY <1>4, <1>16, <1>17 DEF r, head, answers, asked

\* The transcript grows by a canonical piece, at first by the user's message.
LEMMA LogGrows ==
  ASSUME LogInv, NEW t, Canonical(t), \A j \in DOMAIN t : t[j] # TrimPlaceholder,
         log = <<>> => t = <<User("text")>>,
         log' = log \o t
  PROVE  LogInv'
  <1> DEFINE S == {log[i] : i \in DOMAIN log} \cup {t[i] : i \in DOMAIN t}
             r == log \o t
  <1>1. IsTranscript(log) /\ IsTranscript(t)
    BY DEF LogInv, Canonical
  <1>2. log \in Seq({log[i] : i \in DOMAIN log}) /\ t \in Seq({t[i] : i \in DOMAIN t})
    BY <1>1, TranscriptElements
  <1>3. log \in Seq(S) /\ t \in Seq(S)
    BY <1>2
  <1>4. \A x \in S : x # TrimPlaceholder
    BY DEF LogInv, NoPlaceholder
  <1> HIDE DEF S
  <1>5. r \in Seq(S)
    BY <1>3
  <1>6. \A i \in DOMAIN r : r[i] # TrimPlaceholder
    <2> HIDE DEF r
    <2>1. \A i \in DOMAIN r : r[i] \in S
      BY <1>5
    <2> QED
      BY <1>4, <2>1
  <1>7. r[1].role = "user"
    <2>1. CASE log = <<>>
      <3>1. r = t
        BY <1>3, <2>1
      <3>2. r[1] = User("text")
        BY <2>1, <3>1
      <3> QED
        BY <3>2 DEF User
    <2>2. CASE log # <<>>
      <3>1. r[1] = log[1]
        BY <1>3, <2>2
      <3> QED
        BY <2>2, <3>1 DEF LogInv, AsksFirst
    <2> QED
      BY <2>1, <2>2
  <1>8. Canonical(r)
    BY CanonicalConcat DEF LogInv
  <1> QED
    BY <1>6, <1>7, <1>8 DEF LogInv, AsksFirst, NoPlaceholder

-----------------------------------------------------------------------------
(***************************************************************************)
(* What turns do to the transcript.                                        *)
(***************************************************************************)
LEMMA PlainMessages ==
  /\ Canonical(<<User("text")>>) /\ User("text") # TrimPlaceholder
  /\ Canonical(<<Assistant("text", <<>>)>>) /\ Assistant("text", <<>>) # TrimPlaceholder
  <1>1. Canonical(<<User("text")>>)
    <2> DEFINE msg == User("text")
    <2>1. msg.role = "user" /\ msg.content = "text" /\ IsMessage(msg)
      BY DEF User, IsMessage
    <2> HIDE DEF msg
    <2>2. ~ IsTool(msg) /\ CallsOf(msg) = <<>> /\ Says(msg)
      BY <2>1 DEF IsTool, CallsOf, Says, IsEmptyContent
    <2>3. Canonical(<<msg>>)
      BY <2>1, <2>2, CanonicalSingle
    <2> QED
      BY <2>3 DEF msg
  <1>2. Canonical(<<Assistant("text", <<>>)>>) /\ Assistant("text", <<>>).role = "assistant"
    <2> DEFINE msg == Assistant("text", <<>>)
    <2>1. /\ msg.role = "assistant" /\ msg.content = "text" /\ msg.calls = <<>>
          /\ msg = Assistant(msg.content, msg.calls)
      BY DEF Assistant
    <2>2. IsSequence(<<>>) /\ DOMAIN <<>> = {}
      BY DEF IsSequence
    <2> HIDE DEF msg
    <2>3. IsMessage(msg)
      BY <2>1, <2>2 DEF IsMessage
    <2>4. ~ IsTool(msg) /\ CallsOf(msg) = <<>> /\ Says(msg)
      BY <2>1 DEF IsTool, CallsOf, Says, IsEmptyContent
    <2>5. Canonical(<<msg>>)
      BY <2>3, <2>4, CanonicalSingle
    <2> QED
      BY <2>1, <2>5 DEF msg
  <1> QED
    BY <1>1, <1>2, PlaceholderFacts

LEMMA LogInitially == ViewsInit => LogInv
  <1>1. ViewsInit => log = <<>>
    BY DEF ViewsInit
  <1>2. log = <<>> => AsksFirst /\ NoPlaceholder
    BY DEF AsksFirst, NoPlaceholder
  <1> QED
    BY <1>1, <1>2, CanonicalEmpty DEF LogInv

LEMMA AppendJoins ==
  ASSUME NEW h, IsTranscript(h), NEW msg
  PROVE  Append(h, msg) = h \o <<msg>>
  <1> DEFINE T == {h[i] : i \in DOMAIN h}
             S == T \cup {msg}
  <1>1. h \in Seq(T)
    BY TranscriptElements
  <1> HIDE DEF T
  <1>2. h \in Seq(S) /\ msg \in S
    BY <1>1
  <1> HIDE DEF S
  <1> QED
    BY <1>2

LEMMA LogSay ==
  ASSUME LogInv, Say
  PROVE  LogInv'
  <1> DEFINE msg == User("text")
  <1>1. IsTranscript(log)
    BY DEF LogInv, Canonical
  <1>3. log' = Append(log, msg)
    BY DEF Say
  <1> HIDE DEF msg
  <1>4. log' = log \o <<msg>>
    BY <1>1, <1>3, AppendJoins
  <1>5. \A j \in DOMAIN <<msg>> : <<msg>>[j] # TrimPlaceholder
    BY PlainMessages DEF msg
  <1>6. Canonical(<<msg>>)
    BY PlainMessages DEF msg
  <1>7. log = <<>> => <<msg>> = <<User("text")>>
    BY DEF msg
  <1> QED
    BY <1>4, <1>5, <1>6, <1>7, LogGrows

LEMMA LogReply ==
  ASSUME LogInv, Reply
  PROVE  LogInv'
  <1> DEFINE msg == Assistant("text", <<>>)
  <1>1. IsTranscript(log)
    BY DEF LogInv, Canonical
  <1>3. log' = Append(log, msg) /\ log # <<>>
    BY DEF Reply, Asking
  <1> HIDE DEF msg
  <1>4. log' = log \o <<msg>>
    BY <1>1, <1>3, AppendJoins
  <1>5. \A j \in DOMAIN <<msg>> : <<msg>>[j] # TrimPlaceholder
    BY PlainMessages DEF msg
  <1>6. Canonical(<<msg>>)
    BY PlainMessages DEF msg
  <1> QED
    BY <1>3, <1>4, <1>5, <1>6, LogGrows

LEMMA LogRound ==
  ASSUME LogInv, NEW asked \in 1..3, NEW new \in BOOLEAN, Round(asked, new)
  PROVE  LogInv'
  <1> DEFINE f == [k \in 1..asked |-> IF new THEN <<"toolu", Len(log), k>> ELSE <<"call", k>>]
             head == Assistant("empty", [k \in 1..asked |-> [id |-> f[k], name |-> "read"]])
             answers == [k \in 1..asked |-> ToolResult(f[k], "ok")]
             t == <<head>> \o answers
  <1>1. \A k \in 1..asked : f[k] # NoId
    BY DEF NoId
  <1>2. log' = Append(log, head) \o answers /\ log # <<>>
    BY DEF Round, Asking
  <1>3. /\ Canonical(t) /\ \A j \in DOMAIN t : t[j] # TrimPlaceholder
        /\ \E T : answers \in Seq(T)
    <2> HIDE DEF f
    <2> QED
      BY <1>1, CanonicalRound
  <1> HIDE DEF f, head, answers
  <1>4. log' = log \o t
    <2>1. PICK T : answers \in Seq(T)
      BY <1>3
    <2> DEFINE S == {log[i] : i \in DOMAIN log} \cup {head} \cup T
    <2>2. IsTranscript(log)
      BY DEF LogInv, Canonical
    <2>3. log \in Seq({log[i] : i \in DOMAIN log})
      BY <2>2, TranscriptElements
    <2>4. log \in Seq(S) /\ head \in S /\ answers \in Seq(S)
      BY <2>1, <2>3
    <2> HIDE DEF S
    <2>5. Append(log, head) = log \o <<head>> /\ <<head>> \in Seq(S)
      BY <2>4
    <2>6. (log \o <<head>>) \o answers = log \o (<<head>> \o answers)
      BY <2>4, <2>5, ConcatAssociative
    <2> QED
      BY <1>2, <2>5, <2>6
  <1> HIDE DEF t
  <1> QED
    BY <1>2, <1>3, <1>4, LogGrows

LEMMA LogStep ==
  LogInv /\ [ViewsNext]_<<view, before, after, text, stream, buffer, got, cardsVars, log>>
    => LogInv'
  <1> SUFFICES ASSUME LogInv,
                      [ViewsNext]_<<view, before, after, text, stream, buffer, got, cardsVars, log>>
               PROVE  LogInv'
    OBVIOUS
  <1>1. WindowNext \/ UNCHANGED log
    BY DEF ViewsNext
  <1>2. CASE UNCHANGED log
    BY <1>2 DEF LogInv, AsksFirst, NoPlaceholder
  <1>3. CASE WindowNext
    <2>1. CASE Say
      BY <2>1, LogSay
    <2>2. CASE Reply
      BY <2>2, LogReply
    <2>3. CASE \E asked \in 1..3, new \in BOOLEAN : Round(asked, new)
      BY <2>3, LogRound
    <2> QED
      BY <1>3, <2>1, <2>2, <2>3 DEF WindowNext
  <1> QED
    BY <1>1, <1>2, <1>3

-----------------------------------------------------------------------------
(***************************************************************************)
(* The theorem.                                                            *)
(***************************************************************************)
\* Whatever a project's turns have put into its transcript, and wherever a rung
\* of the ladder cuts it, fit_to_window sends an end of it, and no rung sends
\* more than the one below.  What is sent a provider accepts, and a user's
\* message begins it, unless nothing is sent at all; that happens on a rung that
\* drops messages and never when a user's message comes last.
THEOREM WindowLegalHolds == ViewsSpec => []WindowLegal
  <1>1. LogInv => WindowLegal
    BY LogIsLegal
  <1> QED
    BY <1>1, LogInitially, LogStep, PTL DEF ViewsSpec

\* Wherever the network cuts a stream of LF or CRLF lines, the events that
\* readSseStream has handed on, with what the end would flush, are those of the
\* stream read in one piece.
THEOREM ReadsWholeHolds == ViewsSpec => []ReadsWhole
  <1>1. StreamInv => ReadsWhole
    BY StreamIsRead
  <1> QED
    BY <1>1, StreamInitially, StreamStep, PTL DEF ViewsSpec
-----------------------------------------------------------------------------
(***************************************************************************)
(* The segments of the text (Segments.tla, choices.ts:141).  What is shown *)
(* of a text is read from each position on; text that comes behind it      *)
(* leaves every segment but the last as it is.                             *)
(***************************************************************************)
\* The segments of what begins at `from', with f for what follows a block.
Closing(s, at) == {i \in at + 2..Len(s) : s[i] = "tick"}

SegmentsAt(s, f, from) ==
  LET at    == FindFence(s, from)
      close == Closing(s, at)
  IN  IF at = 0 THEN Run(SubSeq(s, from, Len(s)))
      ELSE Run(SubSeq(s, from, at - 1)) \o
           IF close = {} THEN <<Loading>>
           ELSE <<Block(SubSeq(s, at + 2, Min(close) - 1))>> \o f[Min(close) + 1]

Parsed(s) == CHOOSE parse : parse = [from \in 1..Len(s) + 1 |-> SegmentsAt(s, parse, from)]

LEMMA FenceFacts ==
  ASSUME NEW s, Len(s) \in Nat, NEW from \in 1..Len(s) + 1
  PROVE  LET at == FindFence(s, from)
         IN  /\ at = 0 <=> Fences(s, from, {"name", "old"}) = {}
             /\ at # 0 => /\ at \in Fences(s, from, {"name", "old"})
                          /\ \A i \in Fences(s, from, {"name", "old"}) : at <= i
                          /\ at \in from..Len(s) - 1
             /\ at # 0 /\ Closing(s, at) # {} =>
                  /\ Min(Closing(s, at)) \in Closing(s, at)
                  /\ \A i \in Closing(s, at) : Min(Closing(s, at)) <= i
                  /\ Min(Closing(s, at)) \in at+2..Len(s)
                  /\ Min(Closing(s, at)) + 1 \in from+1..Len(s) + 1
  <1> DEFINE E == Fences(s, from, {"name", "old"})
             at == FindFence(s, from)
             C == Closing(s, at)
  <1>1. E \in SUBSET Nat /\ \A i \in E : i \in from..Len(s) - 1 /\ i # 0
    BY DEF Fences
  <1>2. at = IF E = {} THEN 0 ELSE Min(E)
    BY DEF FindFence
  <1> HIDE DEF E, at
  <1>3. E # {} => Min(E) \in E /\ \A i \in E : Min(E) <= i
    BY <1>1, MinOfNats
  <1>4. at = 0 <=> E = {}
    BY <1>1, <1>2, <1>3
  <1>5. at # 0 => at \in E /\ (\A i \in E : at <= i) /\ at \in from..Len(s) - 1
    BY <1>1, <1>2, <1>3
  <1>6. ASSUME at # 0, C # {}
        PROVE  /\ Min(C) \in C /\ (\A i \in C : Min(C) <= i)
               /\ Min(C) \in at+2..Len(s) /\ Min(C) + 1 \in from+1..Len(s) + 1
    <2>1. C \in SUBSET Nat /\ \A i \in C : i \in at+2..Len(s)
      BY <1>5, <1>6 DEF Closing
    <2> HIDE DEF C
    <2>2. Min(C) \in C /\ \A i \in C : Min(C) <= i
      BY <1>6, <2>1, MinOfNats
    <2>3. Min(C) \in at+2..Len(s)
      BY <2>1, <2>2
    <2>4. Min(C) + 1 \in from+1..Len(s) + 1
      BY <1>5, <1>6, <2>3
    <2> QED
      BY <2>2, <2>3, <2>4
  <1> QED
    BY <1>4, <1>5, <1>6 DEF E, at

LEMMA ParseSteps ==
  ASSUME NEW s, Len(s) \in Nat
  PROVE  /\ \A from \in 1..Len(s) + 1 : Parsed(s)[from] = SegmentsAt(s, Parsed(s), from)
         /\ ParseAssistantSegments(s) = Parsed(s)[1]
  <1> DEFINE n == Len(s) + 1
             Fits(f, i) == f[i] = SegmentsAt(s, f, i)
             T == {d \in Nat : d <= n =>
                     \E f : f = [i \in 1..n |-> f[i]] /\ \A i \in n-d+1..n : Fits(f, i)}
  <1>0. n \in Nat /\ n >= 1
    OBVIOUS
  <1>1. 0 \in T
    <2> DEFINE f == [i \in 1..n |-> <<>>]
    <2>1. f = [i \in 1..n |-> f[i]]
      OBVIOUS
    <2>2. \A i \in n-0+1..n : Fits(f, i)
      <3>1. n-0+1..n = {}
        BY <1>0
      <3> HIDE DEF n, Fits, f
      <3> QED
        BY <3>1
    <2> HIDE DEF f, Fits, n
    <2> QED
      BY <2>1, <2>2
  <1>2. ASSUME NEW d \in Nat, d \in T PROVE d + 1 \in T
    <2> SUFFICES ASSUME d + 1 <= n
                 PROVE  \E g : g = [i \in 1..n |-> g[i]] /\ \A i \in n-(d+1)+1..n : Fits(g, i)
      OBVIOUS
    <2>1. PICK f : f = [i \in 1..n |-> f[i]] /\ \A i \in n-d+1..n : Fits(f, i)
      BY <1>0, <1>2
    <2> DEFINE x == n - d
               g == [i \in 1..n |-> IF i = x THEN SegmentsAt(s, f, x) ELSE f[i]]
    <2>2. x \in 1..n /\ x \in Nat
      BY <1>0
    <2>3. ASSUME NEW i \in x..n PROVE Fits(g, i)
      <3>1. i \in 1..n /\ i \in 1..Len(s) + 1
        BY <2>2
      <3>2. SegmentsAt(s, g, i) = SegmentsAt(s, f, i)
        <4> DEFINE at == FindFence(s, i)
                   C  == Closing(s, at)
        <4>1. CASE at = 0 \/ C = {}
          BY <4>1 DEF SegmentsAt
        <4>2. CASE at # 0 /\ C # {}
          <5> DEFINE j == Min(C) + 1
          <5>1. j \in i+1..Len(s) + 1
            BY <3>1, <4>2, FenceFacts
          <5> HIDE DEF j
          <5>2. j \in 1..n /\ j # x
            BY <1>0, <2>2, <3>1, <5>1
          <5>3. g[j] = f[j]
            BY <5>2
          <5> HIDE DEF g
          <5> QED
            BY <4>2, <5>3 DEF SegmentsAt, j
        <4> QED
          BY <4>1, <4>2
      <3>3. g[i] = SegmentsAt(s, f, i)
        <4>1. CASE i = x
          BY <3>1, <4>1
        <4>2. CASE i # x
          <5>1. i \in n-d+1..n
            BY <1>0, <2>2, <4>2
          <5>2. Fits(f, i)
            BY <2>1, <5>1
          <5> QED
            BY <3>1, <4>2, <5>2
        <4> QED
          BY <4>1, <4>2
      <3> HIDE DEF g
      <3> QED
        BY <3>2, <3>3
    <2>4. g = [i \in 1..n |-> g[i]]
      OBVIOUS
    <2>5. x = n - (d + 1) + 1
      BY <1>0
    <2> HIDE DEF g, x, Fits, n
    <2> QED
      BY <2>3, <2>4, <2>5
  <1>3. \E f : f = [i \in 1..n |-> SegmentsAt(s, f, i)]
    <2>1. n \in T
      <3> HIDE DEF T
      <3>1. Nat \subseteq T
        BY <1>1, <1>2, Induction
      <3> QED
        BY <1>0, <3>1
    <2>2. PICK f : f = [i \in 1..n |-> f[i]] /\ \A i \in n-n+1..n : Fits(f, i)
      BY <1>0, <2>1
    <2>3. \A i \in 1..n : f[i] = SegmentsAt(s, f, i)
      <3>1. n - n + 1 = 1
        BY <1>0
      <3> HIDE DEF n
      <3> QED
        BY <2>2, <3>1
    <2>4. f = [i \in 1..n |-> SegmentsAt(s, f, i)]
      <3> HIDE DEF n
      <3> QED
        BY <2>2, <2>3
    <2> QED
      BY <2>4
  <1>4. Parsed(s) = [from \in 1..Len(s) + 1 |-> SegmentsAt(s, Parsed(s), from)]
    BY <1>3, Zenon DEF Parsed
  <1>5. ParseAssistantSegments(s) = Parsed(s)[1]
    BY DEF ParseAssistantSegments, Parsed, SegmentsAt, Closing
  <1>6. ASSUME NEW from \in 1..Len(s) + 1 PROVE Parsed(s)[from] = SegmentsAt(s, Parsed(s), from)
    BY <1>4
  <1> QED
    BY <1>5, <1>6

Pieces(s) ==
  {Loading, Chips} \cup {Md(SubSeq(s, a, b)) : a, b \in Int}
                   \cup {Code(Trim(SubSeq(s, a, b))) : a, b \in Int}

\* Every segment says a part of the text, or is one of the two kinds.
LEMMA SegmentsType ==
  ASSUME NEW s, Len(s) \in Nat, NEW X, Pieces(s) \subseteq X
  PROVE  /\ \A a, b \in Int : Run(SubSeq(s, a, b)) \in Seq(X) /\ Block(SubSeq(s, a, b)) \in X
         /\ Loading \in X
         /\ \A from \in 1..Len(s) + 1 : Parsed(s)[from] \in Seq(X)
  <1>1. ASSUME NEW a \in Int, NEW b \in Int
        PROVE  Run(SubSeq(s, a, b)) \in Seq(X) /\ Block(SubSeq(s, a, b)) \in X
    <2> DEFINE p == SubSeq(s, a, b)
    <2>1. Md(p) \in X /\ Code(Trim(p)) \in X /\ Chips \in X
      BY DEF Pieces
    <2> HIDE DEF p
    <2>2. <<Md(p)>> \in Seq(X) /\ <<>> \in Seq(X)
      BY <2>1
    <2>3. Run(p) \in Seq(X)
      BY <2>2, Zenon DEF Run
    <2>4. Block(p) \in X
      BY <2>1 DEF Block
    <2> QED
      BY <2>3, <2>4 DEF p
  <1>2. Loading \in X
    BY DEF Pieces
  <1> DEFINE n == Len(s) + 1
             T == {i \in 1..n : Parsed(s)[i] \in Seq(X)}
  <1>0. Len(s) \in Nat /\ n \in Nat
    OBVIOUS
  <1>3. ASSUME NEW i \in 1..n, \A j \in i+1..n : j \in T PROVE Parsed(s)[i] \in Seq(X)
    <2> DEFINE at == FindFence(s, i)
               C  == Closing(s, at)
               run == Run(SubSeq(s, i, at - 1))
    <2>1. Parsed(s)[i] = SegmentsAt(s, Parsed(s), i)
      BY <1>0, ParseSteps
    <2>2. CASE at = 0
      <3>1. Run(SubSeq(s, i, Len(s))) \in Seq(X)
        BY <1>0, <1>1
      <3> QED
        BY <2>1, <2>2, <3>1 DEF SegmentsAt
    <2>3. CASE at # 0
      <3>1. at \in i..Len(s) - 1
        BY <1>0, <2>3, FenceFacts
      <3>2. run \in Seq(X)
        <4>1. i \in Int /\ at - 1 \in Int
          BY <3>1
        <4> QED
          BY <1>1, <4>1
      <3>3. CASE C = {}
        <4>1. Parsed(s)[i] = run \o <<Loading>>
          BY <2>1, <2>3, <3>3 DEF SegmentsAt
        <4> HIDE DEF run
        <4> QED
          BY <1>2, <3>2, <4>1
      <3>4. CASE C # {}
        <4> DEFINE m == Min(C)
                   block == Block(SubSeq(s, at + 2, m - 1))
                   rest == Parsed(s)[m + 1]
        <4>1. Parsed(s)[i] = run \o (<<block>> \o rest)
          BY <2>1, <2>3, <3>4 DEF SegmentsAt
        <4>2. m \in at+2..Len(s) /\ m + 1 \in i+1..n
          BY <1>0, <2>3, <3>4, FenceFacts
        <4>3. block \in X
          <5>1. at + 2 \in Int /\ m - 1 \in Int
            <6> HIDE DEF at, m
            <6> QED
              BY <3>1, <4>2
          <5> HIDE DEF at, C, m
          <5> QED
            BY <1>1, <5>1
        <4>4. rest \in Seq(X)
          BY <1>3, <4>2
        <4> HIDE DEF run, block, rest
        <4> QED
          BY <3>2, <4>1, <4>3, <4>4
      <3> QED
        BY <3>3, <3>4
    <2> QED
      BY <2>2, <2>3
  <1>4. 1..n \subseteq T
    <2>1. \A i \in 1..n : (\A j \in i+1..n : j \in T) => i \in T
      BY <1>3
    <2> HIDE DEF T, n
    <2> QED
      BY <1>0, <2>1, Downward
  <1> QED
    BY <1>1, <1>2, <1>4

LEMMA PrefixOfJoin ==
  ASSUME NEW X, NEW a \in Seq(X), NEW u \in Seq(X)
  PROVE  IsPrefix(a, a \o u)
  <1> DEFINE r == a \o u
  <1>1. /\ r \in Seq(X) /\ Len(r) = Len(a) + Len(u) /\ Len(a) \in Nat /\ Len(u) \in Nat
        /\ \A i \in 1..Len(a) : r[i] = a[i]
    BY Joined
  <1> HIDE DEF r
  <1>2. Len(a) \in 0..Len(r) /\ Len(a) \in 0..Len(a)
    BY <1>1
  <1>3. /\ SubSeq(r, 1, Len(a)) \in Seq(X) /\ Len(SubSeq(r, 1, Len(a))) = Len(a)
        /\ \A i \in 1..Len(a) : SubSeq(r, 1, Len(a))[i] = r[i]
    BY <1>1, <1>2, BeginOf
  <1>4. /\ SubSeq(a, 1, Len(a)) \in Seq(X) /\ Len(SubSeq(a, 1, Len(a))) = Len(a)
        /\ \A i \in 1..Len(a) : SubSeq(a, 1, Len(a))[i] = a[i]
    BY <1>2, BeginOf
  <1> DEFINE p == SubSeq(r, 1, Len(a))
             q == SubSeq(a, 1, Len(a))
  <1> HIDE DEF p, q
  <1>5. p = q
    BY <1>1, <1>3, <1>4, SameSequence DEF p, q
  <1> QED
    BY <1>2, <1>5 DEF IsPrefix, p, q, r

\* A word more changes no slice, no fence that was found and no end of a block.
LEMMA WordMore ==
  ASSUME NEW W, NEW s \in Seq(W), NEW r \in Seq(W), Len(r) = Len(s) + 1,
         \A k \in 1..Len(s) : r[k] = s[k], NEW i \in 1..Len(s) + 1
  PROVE  /\ \A b \in i-1..Len(s) : SubSeq(r, i, b) = SubSeq(s, i, b)
         /\ FindFence(s, i) # 0 =>
              /\ FindFence(r, i) = FindFence(s, i)
              /\ Closing(s, FindFence(s, i)) # {} =>
                   /\ Closing(r, FindFence(s, i)) # {}
                   /\ Min(Closing(r, FindFence(s, i))) = Min(Closing(s, FindFence(s, i)))
  <1>0. Len(s) \in Nat
    OBVIOUS
  <1>1. r \in Seq(W) /\ Len(r) = Len(s) + 1 /\ \A k \in 1..Len(s) : r[k] = s[k]
    OBVIOUS
  <1>2. ASSUME NEW b \in i-1..Len(s) PROVE SubSeq(r, i, b) = SubSeq(s, i, b)
    <2>1. \A k \in 1..b-i+1 : k+i-1 \in 1..Len(s)
      BY <1>0
    <2>2. SubSeq(r, i, b) = [k \in 1..b-i+1 |-> r[k+i-1]] /\ SubSeq(s, i, b) = [k \in 1..b-i+1 |-> s[k+i-1]]
      OBVIOUS
    <2>3. \A k \in 1..b-i+1 : r[k+i-1] = s[k+i-1]
      BY <1>1, <2>1
    <2> QED
      BY <2>2, <2>3
  <1>3. ASSUME FindFence(s, i) # 0
        PROVE  /\ FindFence(r, i) = FindFence(s, i)
               /\ Closing(s, FindFence(s, i)) # {} =>
                    /\ Closing(r, FindFence(s, i)) # {}
                    /\ Min(Closing(r, FindFence(s, i))) = Min(Closing(s, FindFence(s, i)))
    <2> DEFINE at == FindFence(s, i)
               E == Fences(s, i, {"name", "old"})
               D == Fences(r, i, {"name", "old"})
               C == Closing(s, at)
               B == Closing(r, at)
    <2>1. at \in E /\ (\A k \in E : at <= k) /\ at \in i..Len(s) - 1
      BY <1>0, <1>3, FenceFacts
    <2>2. at \in D /\ \A k \in D : at <= k
      <3>1. at \in i..Len(r) - 1 /\ at \in 1..Len(s) /\ at + 1 \in 1..Len(s)
        BY <1>0, <1>1, <2>1
      <3>2. s[at] = "tick" /\ s[at+1] \in {"name", "old"}
        BY <2>1 DEF Fences
      <3>3. at \in D
        BY <1>1, <3>1, <3>2 DEF Fences
      <3>4. ASSUME NEW k \in D, k < at PROVE FALSE
        <4>1. k \in i..Len(r) - 1 /\ r[k] = "tick" /\ r[k+1] \in {"name", "old"}
          BY DEF Fences
        <4>2. k \in 1..Len(s) /\ k + 1 \in 1..Len(s) /\ k \in i..Len(s) - 1
          BY <1>0, <2>1, <3>4, <4>1
        <4>3. k \in E
          BY <1>1, <4>1, <4>2 DEF Fences
        <4> QED
          BY <2>1, <3>4, <4>2, <4>3
      <3>5. \A k \in D : k \in Int
        BY DEF Fences
      <3> QED
        BY <2>1, <3>3, <3>4, <3>5
    <2>3. FindFence(r, i) = at
      <3>1. D \in SUBSET Nat /\ D # {}
        BY <2>2 DEF Fences
      <3>2. Min(D) = at
        BY <2>2, <3>1, MinIs
      <3> QED
        BY <3>1, <3>2 DEF FindFence
    <2>4. ASSUME C # {} PROVE B # {} /\ Min(B) = Min(C)
      <3> DEFINE m == Min(C)
      <3>1. m \in C /\ (\A k \in C : m <= k) /\ m \in at+2..Len(s)
        BY <1>0, <1>3, <2>4, FenceFacts
      <3> HIDE DEF m
      <3>2. m \in 1..Len(s) /\ m \in at+2..Len(r)
        BY <1>0, <1>1, <2>1, <3>1
      <3>3. m \in B
        <4>1. s[m] = "tick"
          BY <3>1 DEF Closing
        <4> QED
          BY <1>1, <3>2, <4>1 DEF Closing
      <3>4. ASSUME NEW k \in B PROVE m <= k
        <4>1. k \in at+2..Len(r) /\ r[k] = "tick"
          BY DEF Closing
        <4>2. CASE k \in 1..Len(s)
          <5>1. k \in C
            BY <1>0, <1>1, <2>1, <4>1, <4>2 DEF Closing
          <5> QED
            BY <3>1, <5>1
        <4>3. CASE k \notin 1..Len(s)
          BY <1>0, <1>1, <2>1, <3>1, <4>1, <4>3
        <4> QED
          BY <4>2, <4>3
      <3>5. B \in SUBSET Nat
        BY <1>0, <2>1 DEF Closing
      <3>6. Min(B) = m
        BY <3>3, <3>4, <3>5, MinIs
      <3> QED
        BY <3>3, <3>6 DEF m
    <2> QED
      BY <2>3, <2>4
  <1> QED
    BY <1>1, <1>2, <1>3

Grows(X, old, new) ==
  old # <<>> => /\ \E u \in Seq(X) : new = Front(old) \o u
                /\ Last(old) = Chips => \E u \in Seq(X) : new = old \o u

LEMMA GrowsLone ==
  ASSUME NEW X, NEW x \in X, x # Chips, NEW new \in Seq(X)
  PROVE  Grows(X, <<x>>, new)
  <1>1. Front(<<x>>) = <<>> /\ Last(<<x>>) = x
    BY DEF Front, Last
  <1>2. new = <<>> \o new
    OBVIOUS
  <1> QED
    BY <1>1, <1>2 DEF Grows

\* What comes in front is in front of both.
LEMMA GrowsBehind ==
  ASSUME NEW X, NEW a \in Seq(X), NEW old \in Seq(X), NEW new \in Seq(X),
         old # <<>>, Grows(X, old, new)
  PROVE  Grows(X, a \o old, a \o new)
  <1>0. Last(a \o old) = Last(old)
    BY LastOfJoin
  <1>1. Front(a \o old) = a \o Front(old) /\ Front(old) \in Seq(X)
    BY FrontOfJoin
  <1>2. \E u \in Seq(X) : a \o new = Front(a \o old) \o u
    <2> DEFINE f == Front(old)
    <2>1. f \in Seq(X)
      BY <1>1
    <2>2. PICK u \in Seq(X) : new = f \o u
      BY DEF Grows
    <2> HIDE DEF f
    <2>3. a \in Seq(X) /\ u \in Seq(X)
      OBVIOUS
    <2>4. a \o (f \o u) = (a \o f) \o u
      BY <2>1, <2>3, JoinAssoc
    <2> QED
      BY <1>1, <2>2, <2>4 DEF f
  <1>3. ASSUME Last(a \o old) = Chips
        PROVE  \E u \in Seq(X) : a \o new = (a \o old) \o u
    <2>1. PICK u \in Seq(X) : new = old \o u
      BY <1>0, <1>3 DEF Grows
    <2>2. a \in Seq(X) /\ u \in Seq(X) /\ old \in Seq(X)
      OBVIOUS
    <2>3. a \o (old \o u) = (a \o old) \o u
      BY <2>2, JoinAssoc
    <2> QED
      BY <2>1, <2>3
  <1> QED
    BY <1>2, <1>3 DEF Grows

LEMMA ParseGrows ==
  ASSUME NEW W, NEW s \in Seq(W), NEW r \in Seq(W), Len(r) = Len(s) + 1,
         \A k \in 1..Len(s) : r[k] = s[k],
         NEW X, Pieces(s) \cup Pieces(r) \subseteq X
  PROVE  Grows(X, ParseAssistantSegments(s), ParseAssistantSegments(r))
  <1> DEFINE n == Len(s) + 1
             T == {i \in 1..n : Grows(X, Parsed(s)[i], Parsed(r)[i])}
  <1>0. /\ Len(s) \in Nat /\ n \in Nat /\ Len(r) = Len(s) + 1 /\ Len(r) \in Nat
        /\ s \in Seq(W) /\ r \in Seq(W) /\ \A k \in 1..Len(s) : r[k] = s[k]
    OBVIOUS
  <1>1. /\ \A a, b \in Int : Run(SubSeq(s, a, b)) \in Seq(X) /\ Block(SubSeq(s, a, b)) \in X
        /\ \A from \in 1..Len(s) + 1 : Parsed(s)[from] \in Seq(X)
        /\ \A from \in 1..Len(r) + 1 : Parsed(r)[from] \in Seq(X)
        /\ Loading \in X
    <2>1. Pieces(s) \subseteq X /\ Pieces(r) \subseteq X
      OBVIOUS
    <2> QED
      BY <1>0, <2>1, SegmentsType
  <1>2. ASSUME NEW i \in 1..n, \A j \in i+1..n : j \in T
        PROVE  Grows(X, Parsed(s)[i], Parsed(r)[i])
    <2> DEFINE at  == FindFence(s, i)
               C   == Closing(s, at)
               run == Run(SubSeq(s, i, at - 1))
               tail == Run(SubSeq(s, i, Len(s)))
    <2>0. i \in 1..Len(s) + 1 /\ i \in 1..Len(r) + 1
      BY <1>0
    <2>1. /\ Parsed(s)[i] = SegmentsAt(s, Parsed(s), i)
          /\ Parsed(r)[i] = SegmentsAt(r, Parsed(r), i)
          /\ Parsed(r)[i] \in Seq(X)
      BY <1>0, <1>1, <2>0, ParseSteps
    <2>2. CASE at = 0
      <3>1. Parsed(s)[i] = tail
        BY <2>1, <2>2 DEF SegmentsAt
      <3>2. tail \in Seq(X)
        BY <1>0, <1>1
      <3>3. CASE tail = <<>>
        BY <3>1, <3>3 DEF Grows
      <3>4. CASE tail # <<>>
        <4> DEFINE md == Md(SubSeq(s, i, Len(s)))
        <4>1. tail = <<md>>
          BY <3>4 DEF Run
        <4>2. md # Chips /\ md \in X
          BY <1>0 DEF Md, Chips, Pieces
        <4> HIDE DEF md, tail
        <4> QED
          BY <2>1, <3>1, <4>1, <4>2, GrowsLone
      <3> QED
        BY <3>3, <3>4
    <2>3. CASE at # 0
      <3>1. at \in i..Len(s) - 1
        BY <1>0, <2>3, FenceFacts
      <3>2. /\ \A b \in i-1..Len(s) : SubSeq(r, i, b) = SubSeq(s, i, b)
            /\ FindFence(r, i) = at
            /\ C # {} => Closing(r, at) # {} /\ Min(Closing(r, at)) = Min(C)
        BY <1>0, <2>0, <2>3, WordMore
      <3>3. run \in Seq(X) /\ Run(SubSeq(r, i, at - 1)) = run
        <4>1. at - 1 \in i-1..Len(s) /\ i \in Int /\ at - 1 \in Int
          BY <1>0, <3>1
        <4> QED
          BY <1>1, <3>2, <4>1
      <3>4. CASE C = {}
        <4> DEFINE rest == IF Closing(r, at) = {} THEN <<Loading>>
                           ELSE <<Block(SubSeq(r, at + 2, Min(Closing(r, at)) - 1))>>
                                  \o Parsed(r)[Min(Closing(r, at)) + 1]
        <4>1. Parsed(s)[i] = run \o <<Loading>>
          BY <2>1, <2>3, <3>4 DEF SegmentsAt
        <4>2. Parsed(r)[i] = run \o rest
          BY <2>1, <2>3, <3>2, <3>3 DEF SegmentsAt
        <4>3. rest \in Seq(X)
          <5>1. CASE Closing(r, at) = {}
            BY <1>1, <5>1
          <5>2. CASE Closing(r, at) # {}
            <6> DEFINE m == Min(Closing(r, at))
            <6>1. m \in at+2..Len(r) /\ m + 1 \in 1..Len(r) + 1
              BY <1>0, <2>0, <2>3, <3>2, <5>2, FenceFacts
            <6>2. Parsed(r)[m + 1] \in Seq(X)
              BY <1>1, <6>1
            <6>3. Block(SubSeq(r, at + 2, m - 1)) \in X
              <7>1. at + 2 \in Int /\ m - 1 \in Int
                <8> HIDE DEF at, m
                <8> QED
                  BY <3>1, <6>1
              <7>2. Pieces(r) \subseteq X
                OBVIOUS
              <7> HIDE DEF m, at
              <7> QED
                BY <1>0, <7>1, <7>2, SegmentsType
            <6> HIDE DEF m
            <6>4. <<Block(SubSeq(r, at + 2, m - 1))>> \o Parsed(r)[m + 1] \in Seq(X)
              <7> DEFINE block == Block(SubSeq(r, at + 2, m - 1))
              <7> HIDE DEF block
              <7> QED
                BY <6>2, <6>3 DEF block
            <6> QED
              BY <5>2, <6>4 DEF m
          <5> QED
            BY <5>1, <5>2
        <4>4. Loading # Chips /\ <<Loading>> \in Seq(X) /\ <<Loading>> # <<>>
          BY <1>1 DEF Loading, Chips
        <4> HIDE DEF run, rest
        <4>5. Grows(X, <<Loading>>, rest)
          BY <1>1, <4>3, <4>4, GrowsLone
        <4> QED
          BY <3>3, <4>1, <4>2, <4>3, <4>4, <4>5, GrowsBehind
      <3>5. CASE C # {}
        <4> DEFINE m == Min(C)
                   block == Block(SubSeq(s, at + 2, m - 1))
                   a == run \o <<block>>
                   old == Parsed(s)[m + 1]
                   new == Parsed(r)[m + 1]
        <4>1. m \in at+2..Len(s) /\ m + 1 \in i+1..n /\ m + 1 \in 1..Len(s) + 1
              /\ m + 1 \in 1..Len(r) + 1
          BY <1>0, <2>3, <3>5, FenceFacts
        <4>2. SubSeq(r, at + 2, m - 1) = SubSeq(s, at + 2, m - 1)
          <5>1. at + 2 \in 1..Len(s) + 1 /\ m - 1 \in (at + 2)-1..Len(s)
            BY <1>0, <3>1, <4>1
          <5> HIDE DEF at, m
          <5> QED
            BY <1>0, <5>1, WordMore
        <4>3. Parsed(s)[i] = run \o (<<block>> \o old)
          BY <2>1, <2>3, <3>5 DEF SegmentsAt
        <4>4. Parsed(r)[i] = run \o (<<block>> \o new)
          BY <2>1, <2>3, <3>2, <3>3, <3>5, <4>2 DEF SegmentsAt
        <4>5. block \in X
          <5>1. at + 2 \in Int /\ m - 1 \in Int
            <6> HIDE DEF at, m
            <6> QED
              BY <3>1, <4>1
          <5> HIDE DEF at, m
          <5> QED
            BY <1>1, <5>1
        <4>6. old \in Seq(X) /\ new \in Seq(X)
          BY <1>1, <4>1
        <4>7. Grows(X, old, new)
          BY <1>2, <4>1
        <4> HIDE DEF run, block, old, new
        <4>8. run \o (<<block>> \o old) = a \o old /\ run \o (<<block>> \o new) = a \o new
          <5> DEFINE b == <<block>>
          <5>1. b \in Seq(X) /\ run \in Seq(X)
            BY <3>3, <4>5
          <5> HIDE DEF b
          <5>2. run \o (b \o old) = (run \o b) \o old
            BY ONLY <4>6, <5>1, JoinAssoc
          <5>3. run \o (b \o new) = (run \o b) \o new
            BY ONLY <4>6, <5>1, JoinAssoc
          <5> QED
            BY <5>2, <5>3 DEF b
        <4>9. a \in Seq(X) /\ a # <<>>
          <5>1. <<block>> \in Seq(X) /\ <<block>> # <<>>
            BY <4>5
          <5> QED
            BY <3>3, <5>1, LastOfJoin
        <4>10. CASE old # <<>>
          <5>1. Grows(X, a \o old, a \o new)
            <6> HIDE DEF a
            <6> QED
              BY <4>6, <4>7, <4>9, <4>10, GrowsBehind
          <5> QED
            BY <4>3, <4>4, <4>8, <5>1
        <4>11. CASE old = <<>>
          <5> HIDE DEF a
          <5>1. a \o old = a
            BY <4>9, <4>11
          <5> DEFINE e == <<>>
          <5>2. e \in Seq(X)
            OBVIOUS
          <5> HIDE DEF e
          <5>3. a = Front(a) \o <<Last(a)>> /\ Front(a) \in Seq(X) /\ Last(a) \in X
            BY <4>9, <5>2, FrontOfJoin, LastOfJoin
          <5>4. \E u \in Seq(X) : a \o new = Front(a) \o u
            <6> DEFINE f == Front(a)
                       l == <<Last(a)>>
            <6>1. f \in Seq(X) /\ l \in Seq(X) /\ a = f \o l
              BY <5>3
            <6> HIDE DEF f, l
            <6>2. f \o (l \o new) = (f \o l) \o new
              BY ONLY <4>6, <6>1, JoinAssoc
            <6>3. l \o new \in Seq(X)
              BY <4>6, <6>1, Joined
            <6> QED
              BY <6>1, <6>2, <6>3 DEF f
          <5>5. Grows(X, a, a \o new)
            BY <4>6, <5>4 DEF Grows
          <5> QED
            BY <4>3, <4>4, <4>8, <5>1, <5>5
        <4> QED
          BY <4>10, <4>11
      <3> QED
        BY <3>4, <3>5
    <2> QED
      BY <2>2, <2>3
  <1>3. 1..n \subseteq T
    <2>1. \A i \in 1..n : (\A j \in i+1..n : j \in T) => i \in T
      BY <1>2
    <2> HIDE DEF T, n
    <2> QED
      BY <1>0, <2>1, Downward
  <1>4. Grows(X, Parsed(s)[1], Parsed(r)[1])
    BY <1>0, <1>3
  <1>5. ParseAssistantSegments(s) = Parsed(s)[1] /\ ParseAssistantSegments(r) = Parsed(r)[1]
    BY <1>0, ParseSteps
  <1> QED
    BY <1>4, <1>5

\* The end of what is shown is the end of what comes behind.
LEMMA LoadsBehind ==
  ASSUME NEW w, NEW X, NEW a \in Seq(X), NEW old \in Seq(X), NEW new \in Seq(X),
         old # <<>>, Loads(w, old, new)
  PROVE  Loads(w, a \o old, a \o new)
  <1>1. Last(a \o old) = Last(old) /\ a \o old # <<>>
    BY LastOfJoin
  <1>2. CASE new # <<>>
    <2>1. Last(a \o new) = Last(new) /\ a \o new # <<>>
      BY <1>2, LastOfJoin
    <2> DEFINE o == a \o old
               m == a \o new
    <2>2. o # <<>> /\ m # <<>> /\ Last(o) = Last(old) /\ Last(m) = Last(new) /\ (new = old => m = o)
      BY <1>1, <2>1
    <2> HIDE DEF o, m
    <2>3. Loads(w, o, m)
      BY <2>2 DEF Loads, EndsInTick
    <2> QED
      BY <2>3 DEF o, m
  <1>3. CASE new = <<>>
    <2> DEFINE o == a \o old
               m == a \o new
    <2>1. o # <<>> /\ Last(o) = Last(old)
      BY <1>1
    <2> HIDE DEF o, m
    <2>2. Loads(w, o, m)
      BY <1>3, <2>1 DEF Loads, EndsInTick
    <2> QED
      BY <2>2 DEF o, m
  <1> QED
    BY <1>2, <1>3

LEMMA ParseLoads ==
  ASSUME NEW W, NEW s \in Seq(W), NEW r \in Seq(W), Len(r) = Len(s) + 1,
         \A k \in 1..Len(s) : r[k] = s[k]
  PROVE  Loads(r[Len(r)], ParseAssistantSegments(s), ParseAssistantSegments(r))
  <1> DEFINE X == Pieces(s) \cup Pieces(r)
             n == Len(s) + 1
             w == r[n]
             T == {i \in 1..n : Loads(w, Parsed(s)[i], Parsed(r)[i])}
  <1>0. /\ Len(s) \in Nat /\ n \in Nat /\ Len(r) = n /\ Len(r) \in Nat
        /\ s \in Seq(W) /\ r \in Seq(W) /\ \A k \in 1..Len(s) : r[k] = s[k]
    OBVIOUS
  <1>1. /\ \A a, b \in Int : Run(SubSeq(s, a, b)) \in Seq(X) /\ Block(SubSeq(s, a, b)) \in X
        /\ \A from \in 1..Len(s) + 1 : Parsed(s)[from] \in Seq(X)
        /\ \A from \in 1..Len(r) + 1 : Parsed(r)[from] \in Seq(X)
        /\ Loading \in X
    <2>1. Pieces(s) \subseteq X /\ Pieces(r) \subseteq X
      OBVIOUS
    <2> HIDE DEF X
    <2> QED
      BY <1>0, <2>1, SegmentsType
  <1> HIDE DEF X
  <1>2. ASSUME NEW i \in 1..n, \A j \in i+1..n : j \in T
        PROVE  Loads(w, Parsed(s)[i], Parsed(r)[i])
    <2> DEFINE at  == FindFence(s, i)
               C   == Closing(s, at)
               run == Run(SubSeq(s, i, at - 1))
               tail == Run(SubSeq(s, i, Len(s)))
    <2>0. i \in 1..Len(s) + 1 /\ i \in 1..Len(r) + 1
      BY <1>0
    <2>1. /\ Parsed(s)[i] = SegmentsAt(s, Parsed(s), i)
          /\ Parsed(r)[i] = SegmentsAt(r, Parsed(r), i)
          /\ Parsed(r)[i] \in Seq(X)
      BY <1>0, <1>1, <2>0, ParseSteps
    <2>2. CASE at = 0
      <3>1. Parsed(s)[i] = tail
        BY <2>1, <2>2 DEF SegmentsAt
      <3>2. CASE tail = <<>>
        BY <3>1, <3>2 DEF Loads, EndsInTick
      <3>3. CASE tail # <<>>
        <4> DEFINE p == SubSeq(s, i, Len(s))
        <4>1. tail = <<Md(p)>> /\ ~Blank(p)
          BY <3>3 DEF Run
        <4>2. i \in 1..Len(s)
          <5>1. ASSUME i = Len(s) + 1 PROVE FALSE
            <6>1. p = <<>>
              BY <1>0, <5>1
            <6> QED
              BY <4>1, <6>1 DEF Blank
          <5> QED
            BY <1>0, <5>1
        <4>3. p = [k \in 1..Len(s)-i+1 |-> s[k+i-1]]
          BY <1>0, <4>2
        <4>4. Len(p) = Len(s)-i+1 /\ Len(p) \in 1..Len(s) /\ p[Len(p)] = s[Len(s)]
          <5> DEFINE l == Len(s)-i+1
          <5>1. l \in Nat /\ l \in 1..l /\ l + i - 1 = Len(s) /\ l \in 1..Len(s)
            BY <1>0, <4>2
          <5>2. Len(p) = l
            BY <4>3, <5>1
          <5>3. p[l] = s[l+i-1]
            BY <4>3, <5>1
          <5> HIDE DEF l, p
          <5>4. p[l] = s[Len(s)]
            BY <5>1, <5>3
          <5> QED
            BY <5>1, <5>2, <5>4 DEF l
        <4> HIDE DEF p
        <4>5. Last(tail) = Md(p) /\ Last(tail).text = p
          BY <4>1 DEF Last, Md
        <4>6. Last(tail) # Loading
          BY <4>5 DEF Md, Loading
        <4>7. ASSUME EndsInTick(tail), w \in {"name", "old"}
              PROVE  Parsed(r)[i] # <<>> /\ Last(Parsed(r)[i]) = Loading
          <5>1. s[Len(s)] = "tick"
            BY <4>4, <4>5, <4>7 DEF EndsInTick, Last
          <5> DEFINE D == Fences(r, i, {"name", "old"})
                     l == Len(s)
          <5>2. l \in D
            <6>1. l \in i..Len(r) - 1 /\ l \in 1..Len(s)
              BY <1>0, <4>2
            <6>2. r[l] = "tick" /\ r[l+1] = w
              BY <1>0, <5>1, <6>1
            <6> QED
              BY <4>7, <6>1, <6>2 DEF Fences
          <5>3. ASSUME NEW k \in D PROVE k = l
            <6>1. k \in i..Len(r) - 1 /\ r[k] = "tick" /\ r[k+1] \in {"name", "old"}
              BY DEF Fences
            <6>2. CASE k \in i..Len(s) - 1
              <7>1. k \in 1..Len(s) /\ k + 1 \in 1..Len(s)
                BY <1>0, <4>2, <6>2
              <7>2. k \in Fences(s, i, {"name", "old"})
                BY <1>0, <6>1, <6>2, <7>1 DEF Fences
              <7> QED
                BY <1>0, <2>0, <2>2, <7>2, FenceFacts
            <6>3. CASE k \notin i..Len(s) - 1
              BY <1>0, <6>1, <6>3
            <6> QED
              BY <6>2, <6>3
          <5>4. FindFence(r, i) = l
            <6>1. D \in SUBSET Nat /\ D # {} /\ l \in Nat /\ \A k \in D : l <= k
              BY <1>0, <5>2, <5>3
            <6>2. Min(D) = l
              BY <5>2, <6>1, MinIs
            <6> QED
              BY <6>1, <6>2 DEF FindFence
          <5>5. l # 0 /\ Closing(r, l) = {}
            BY <1>0, <4>2 DEF Closing
          <5> DEFINE b == Run(SubSeq(r, i, l - 1))
          <5>6. Parsed(r)[i] = b \o <<Loading>>
            BY <2>1, <5>4, <5>5 DEF SegmentsAt
          <5>7. b \in Seq(X)
            <6>1. Pieces(r) \subseteq X /\ i \in Int /\ l - 1 \in Int
              BY <1>0, <4>2 DEF X
            <6> QED
              BY <1>0, <6>1, SegmentsType
          <5> DEFINE e == <<Loading>>
          <5>8. e \in Seq(X) /\ e # <<>> /\ Last(e) = Loading
            BY <1>1 DEF Last
          <5> HIDE DEF b, e
          <5>9. Last(b \o e) = Last(e) /\ b \o e # <<>>
            BY <5>7, <5>8, LastOfJoin
          <5> QED
            BY <5>6, <5>8, <5>9 DEF e
        <4> HIDE DEF tail
        <4> QED
          BY <3>1, <4>6, <4>7 DEF Loads
      <3> QED
        BY <3>2, <3>3
    <2>3. CASE at # 0
      <3>1. at \in i..Len(s) - 1
        BY <1>0, <2>3, FenceFacts
      <3>2. /\ \A b \in i-1..Len(s) : SubSeq(r, i, b) = SubSeq(s, i, b)
            /\ FindFence(r, i) = at
            /\ C # {} => Closing(r, at) # {} /\ Min(Closing(r, at)) = Min(C)
        BY <1>0, <2>0, <2>3, WordMore
      <3>3. run \in Seq(X) /\ Run(SubSeq(r, i, at - 1)) = run
        <4>1. at - 1 \in i-1..Len(s) /\ i \in Int /\ at - 1 \in Int
          BY <1>0, <3>1
        <4> QED
          BY <1>1, <3>2, <4>1
      <3>4. CASE C = {}
        <4>1. Parsed(s)[i] = run \o <<Loading>>
          BY <2>1, <2>3, <3>4 DEF SegmentsAt
        <4>2. ASSUME w # "tick" PROVE Parsed(r)[i] = Parsed(s)[i]
          <5>1. Closing(r, at) = {}
            <6>1. ASSUME NEW k \in Closing(r, at) PROVE FALSE
              <7>1. k \in at+2..Len(r) /\ r[k] = "tick"
                BY DEF Closing
              <7>2. k # n
                BY <4>2, <7>1
              <7>3. k \in 1..Len(s) /\ k \in at+2..Len(s)
                BY <1>0, <3>1, <7>1, <7>2
              <7>4. k \in C
                BY <1>0, <7>1, <7>3 DEF Closing
              <7> QED
                BY <3>4, <7>4
            <6> QED
              BY <6>1
          <5>2. Parsed(r)[i] = run \o <<Loading>>
            BY <2>1, <2>3, <3>2, <3>3, <5>1 DEF SegmentsAt
          <5> QED
            BY <4>1, <5>2
        <4>3. ~EndsInTick(run \o <<Loading>>)
          <5> DEFINE e == <<Loading>>
          <5>1. e \in Seq(X) /\ e # <<>> /\ Last(e) = Loading
            BY <1>1 DEF Last
          <5> HIDE DEF e, run
          <5>2. Last(run \o e) = Loading
            BY <3>3, <5>1, LastOfJoin
          <5>3. Loading.kind # "md"
            BY DEF Loading
          <5> QED
            BY <5>2, <5>3 DEF EndsInTick, e
        <4> QED
          BY <4>1, <4>2, <4>3 DEF Loads
      <3>5. CASE C # {}
        <4> DEFINE m == Min(C)
                   block == Block(SubSeq(s, at + 2, m - 1))
                   a == run \o <<block>>
                   old == Parsed(s)[m + 1]
                   new == Parsed(r)[m + 1]
        <4>1. m \in at+2..Len(s) /\ m + 1 \in i+1..n /\ m + 1 \in 1..Len(s) + 1
              /\ m + 1 \in 1..Len(r) + 1
          BY <1>0, <2>3, <3>5, FenceFacts
        <4>2. SubSeq(r, at + 2, m - 1) = SubSeq(s, at + 2, m - 1)
          <5>1. at + 2 \in 1..Len(s) + 1 /\ m - 1 \in (at + 2)-1..Len(s)
            BY <1>0, <3>1, <4>1
          <5> HIDE DEF at, m
          <5> QED
            BY <1>0, <5>1, WordMore
        <4>3. Parsed(s)[i] = run \o (<<block>> \o old)
          BY <2>1, <2>3, <3>5 DEF SegmentsAt
        <4>4. Parsed(r)[i] = run \o (<<block>> \o new)
          BY <2>1, <2>3, <3>2, <3>3, <3>5, <4>2 DEF SegmentsAt
        <4>5. block \in X
          <5>1. at + 2 \in Int /\ m - 1 \in Int
            <6> HIDE DEF at, m
            <6> QED
              BY <3>1, <4>1
          <5> HIDE DEF at, m
          <5> QED
            BY <1>1, <5>1
        <4>6. old \in Seq(X) /\ new \in Seq(X)
          BY <1>1, <4>1
        <4>7. Loads(w, old, new)
          BY <1>2, <4>1
        <4>8. block.kind # "md" /\ block # Loading
          BY DEF Block, Chips, Code, Loading
        <4> HIDE DEF run, block, old, new, w
        <4>9. run \o (<<block>> \o old) = a \o old /\ run \o (<<block>> \o new) = a \o new
          <5> DEFINE b == <<block>>
          <5>1. b \in Seq(X) /\ run \in Seq(X)
            BY <3>3, <4>5
          <5> HIDE DEF b
          <5>2. run \o (b \o old) = (run \o b) \o old
            BY ONLY <4>6, <5>1, JoinAssoc
          <5>3. run \o (b \o new) = (run \o b) \o new
            BY ONLY <4>6, <5>1, JoinAssoc
          <5> QED
            BY <5>2, <5>3 DEF b
        <4>10. a \in Seq(X) /\ a # <<>> /\ Last(a) = block
          <5> DEFINE b == <<block>>
          <5>1. b \in Seq(X) /\ b # <<>> /\ Last(b) = block
            BY <4>5 DEF Last
          <5> HIDE DEF b
          <5>2. run \o b \in Seq(X) /\ run \o b # <<>> /\ Last(run \o b) = Last(b)
            BY <3>3, <5>1, LastOfJoin
          <5> QED
            BY <5>1, <5>2 DEF b
        <4> HIDE DEF a
        <4>11. CASE old # <<>>
          <5>1. Loads(w, a \o old, a \o new)
            BY <4>6, <4>7, <4>10, <4>11, LoadsBehind
          <5> QED
            BY <4>3, <4>4, <4>9, <5>1
        <4>12. CASE old = <<>>
          <5>1. a \o old = a
            BY <4>10, <4>12
          <5>2. Loads(w, a, a \o new)
            BY <4>8, <4>10 DEF Loads, EndsInTick
          <5> QED
            BY <4>3, <4>4, <4>9, <5>1, <5>2
        <4> QED
          BY <4>11, <4>12
      <3> QED
        BY <3>4, <3>5
    <2> QED
      BY <2>2, <2>3
  <1>3. 1..n \subseteq T
    <2>1. \A i \in 1..n : (\A j \in i+1..n : j \in T) => i \in T
      BY <1>2
    <2> HIDE DEF T, n
    <2> QED
      BY <1>0, <2>1, Downward
  <1>4. Loads(w, Parsed(s)[1], Parsed(r)[1])
    BY <1>0, <1>3
  <1>5. ParseAssistantSegments(s) = Parsed(s)[1] /\ ParseAssistantSegments(r) = Parsed(r)[1]
    BY <1>0, ParseSteps
  <1> QED
    BY <1>0, <1>4, <1>5

TextInv == text \in Seq(Words)

LEMMA TextStep ==
  TextInv /\ [ViewsNext]_<<view, before, after, text, stream, buffer, got, cardsVars, log>>
    => TextInv'
  <1> SUFFICES ASSUME TextInv,
                      [ViewsNext]_<<view, before, after, text, stream, buffer, got, cardsVars, log>>
               PROVE  TextInv'
    OBVIOUS
  <1>1. (\E word \in Words : Type(word)) \/ UNCHANGED text
    BY DEF ViewsNext
  <1> QED
    BY <1>1 DEF TextInv, Type

LEMMA TextGrows ==
  TextInv /\ [ViewsNext]_<<view, before, after, text, stream, buffer, got, cardsVars, log>>
    => [LET old == ParseAssistantSegments(text)
            new == ParseAssistantSegments(text')
        IN  /\ old # <<>> => IsPrefix(Front(old), new)
            /\ old # <<>> /\ Last(old) = Chips => IsPrefix(old, new)
            /\ Loads(Last(text'), old, new)]_text
  <1> DEFINE old == ParseAssistantSegments(text)
             new == ParseAssistantSegments(text')
  <1> SUFFICES ASSUME TextInv, text' # text,
                      [ViewsNext]_<<view, before, after, text, stream, buffer, got, cardsVars, log>>
               PROVE  /\ old # <<>> => IsPrefix(Front(old), new)
                      /\ old # <<>> /\ Last(old) = Chips => IsPrefix(old, new)
                      /\ Loads(Last(text'), old, new)
    OBVIOUS
  <1>1. PICK word \in Words : Type(word)
    BY DEF ViewsNext
  <1>2. text \in Seq(Words) /\ text' = Append(text, word) /\ Len(text) \in Nat
    BY <1>1 DEF TextInv, Type
  <1> DEFINE X == Pieces(text) \cup Pieces(text')
  <1>3. Grows(X, old, new)
    <2>1. Pieces(text) \cup Pieces(text') \subseteq X
      OBVIOUS
    <2>2. /\ text' \in Seq(Words) /\ Len(text') = Len(text) + 1
          /\ \A k \in 1..Len(text) : text'[k] = text[k]
      BY <1>2
    <2> HIDE DEF X
    <2> QED
      BY <1>2, <2>1, <2>2, ParseGrows
  <1>4. old \in Seq(X)
    <2>1. Pieces(text) \subseteq X /\ 1 \in 1..Len(text) + 1
      BY <1>2
    <2> HIDE DEF X
    <2> QED
      BY <1>2, <2>1, SegmentsType, ParseSteps
  <1>8. Loads(Last(text'), old, new)
    <2>1. /\ text' \in Seq(Words) /\ Len(text') = Len(text) + 1
          /\ \A k \in 1..Len(text) : text'[k] = text[k]
      BY <1>2
    <2>2. Loads(text'[Len(text')], old, new)
      BY <1>2, <2>1, ParseLoads
    <2>3. Last(text') = text'[Len(text')]
      BY DEF Last
    <2> QED
      BY <2>2, <2>3
  <1> HIDE DEF old, new, X
  <1>5. ASSUME old # <<>> PROVE Front(old) \in Seq(X)
    <2> DEFINE e == <<>>
    <2>1. e \in Seq(X)
      OBVIOUS
    <2> HIDE DEF e
    <2> QED
      BY <1>4, <1>5, <2>1, FrontOfJoin
  <1>6. ASSUME old # <<>> PROVE IsPrefix(Front(old), new)
    <2> DEFINE f == Front(old)
    <2>1. f \in Seq(X)
      BY <1>5, <1>6
    <2>2. PICK u \in Seq(X) : new = f \o u
      BY <1>3, <1>6 DEF Grows
    <2> HIDE DEF f
    <2>3. IsPrefix(f, f \o u)
      BY <2>1, PrefixOfJoin
    <2> QED
      BY <2>2, <2>3 DEF f
  <1>7. ASSUME old # <<>>, Last(old) = Chips PROVE IsPrefix(old, new)
    <2>1. PICK u \in Seq(X) : new = old \o u
      BY <1>3, <1>7 DEF Grows
    <2>2. IsPrefix(old, old \o u)
      BY <1>4, PrefixOfJoin
    <2> QED
      BY <2>1, <2>2
  <1> QED
    BY <1>6, <1>7, <1>8

\* As the text streams in, every segment that is shown but the last stays as it
\* is, when the last is a block of chips it stays too, and a block that is being
\* written is shown as loading from the end of its opening fence to its closing
\* one (choices.ts, parseAssistantSegments, called again on the whole text at
\* every delta).
THEOREM SegmentsGrowHolds == ViewsSpec => SegmentsGrow
  <1>1. ViewsInit => TextInv
    BY DEF ViewsInit, TextInv
  <1> QED
    BY <1>1, TextStep, TextGrows, PTL DEF ViewsSpec, SegmentsGrow

-----------------------------------------------------------------------------
(***************************************************************************)
(* The cards of a log, message by message (Cards.tla, items.ts:168).       *)
(***************************************************************************)
BuildsItems(s, f) ==
  f = [k \in 0..Len(s) |-> IF k = 0 THEN <<>> ELSE AddMessage(f[k-1], s[k])]

Items(s) == CHOOSE f : BuildsItems(s, f)

LEMMA ItemsSteps ==
  ASSUME NEW s, Len(s) \in Nat
  PROVE  /\ Items(s)[0] = <<>>
         /\ \A k \in 1..Len(s) : Items(s)[k] = AddMessage(Items(s)[k-1], s[k])
         /\ TakenItems(s) = Items(s)[Len(s)]
  <1> DEFINE Builds(f, m) == f = [k \in 0..m |-> IF k = 0 THEN <<>> ELSE AddMessage(f[k-1], s[k])]
             T == {m \in Nat : \E f : Builds(f, m)}
             n == Len(s)
             taken == Items(s)
  <1>1. 0 \in T
    <2>1. Builds([k \in 0..0 |-> <<>>], 0)
      OBVIOUS
    <2> QED
      BY <2>1
  <1>2. ASSUME NEW m \in Nat, m \in T PROVE m + 1 \in T
    <2>1. PICK f : Builds(f, m)
      BY <1>2
    <2> DEFINE g == [k \in 0..m+1 |-> IF k \in 0..m THEN f[k] ELSE AddMessage(f[k-1], s[k])]
    <2>2. ASSUME NEW k \in 0..m+1
          PROVE  g[k] = IF k = 0 THEN <<>> ELSE AddMessage(g[k-1], s[k])
      <3>1. CASE k \in 0..m
        <4>1. g[k] = f[k]
          BY <3>1
        <4>2. k # 0 => g[k-1] = f[k-1]
          <5> SUFFICES ASSUME k # 0 PROVE g[k-1] = f[k-1]
            OBVIOUS
          <5>1. k - 1 \in 0..m /\ k - 1 \in 0..m+1
            BY <3>1
          <5> QED
            BY <5>1
        <4>3. f[k] = IF k = 0 THEN <<>> ELSE AddMessage(f[k-1], s[k])
          BY <2>1, <3>1
        <4> HIDE DEF g
        <4> QED
          BY <4>1, <4>2, <4>3
      <3>2. CASE k = m + 1
        <4>1. k # 0 /\ k \notin 0..m /\ k - 1 \in 0..m /\ k - 1 \in 0..m+1
          BY <3>2
        <4>2. g[k-1] = f[k-1]
          BY <4>1
        <4>3. g[k] = AddMessage(f[k-1], s[k])
          BY <4>1
        <4> HIDE DEF g
        <4> QED
          BY <4>1, <4>2, <4>3
      <3> QED
        BY <3>1, <3>2
    <2>3. Builds(g, m + 1)
      BY <2>2
    <2> HIDE DEF g, Builds
    <2> QED
      BY <2>3
  <1>3. BuildsItems(s, taken)
    <2>1. n \in T
      <3> HIDE DEF Builds, T
      <3>1. Nat \subseteq T
        BY <1>1, <1>2, Induction
      <3> QED
        BY <3>1
    <2>2. \E f : BuildsItems(s, f)
      BY <2>1 DEF BuildsItems
    <2> QED
      BY <2>2, Zenon DEF Items
  <1>4. TakenItems(s) = taken[Len(s)]
    BY DEF TakenItems, Items, BuildsItems
  <1> HIDE DEF taken
  <1>5. taken[0] = <<>> /\ \A k \in 1..Len(s) : taken[k] = AddMessage(taken[k-1], s[k])
    <2>1. \A k \in 0..Len(s) : taken[k] = IF k = 0 THEN <<>> ELSE AddMessage(taken[k-1], s[k])
      BY <1>3 DEF BuildsItems
    <2>2. 0 \in 0..Len(s) /\ \A k \in 1..Len(s) : k \in 0..Len(s) /\ k # 0
      OBVIOUS
    <2> QED
      BY <2>1, <2>2
  <1> QED
    BY <1>4, <1>5 DEF taken

LEMMA ItemsAppend ==
  ASSUME NEW S, NEW s \in Seq(S), NEW m \in S
  PROVE  TakenItems(Append(s, m)) = AddMessage(TakenItems(s), m)
  <1> DEFINE r == Append(s, m)
             T == {k \in Nat : k <= Len(s) => Items(r)[k] = Items(s)[k]}
  <1>0. /\ Len(r) = Len(s) + 1 /\ Len(s) \in Nat /\ Len(r) \in Nat
        /\ \A k \in 1..Len(s) : r[k] = s[k]
        /\ r[Len(s)+1] = m
    OBVIOUS
  <1> HIDE DEF r
  <1>a. /\ Items(s)[0] = <<>> /\ TakenItems(s) = Items(s)[Len(s)]
        /\ \A k \in 1..Len(s) : Items(s)[k] = AddMessage(Items(s)[k-1], s[k])
    BY <1>0, ItemsSteps
  <1>b. /\ Items(r)[0] = <<>> /\ TakenItems(r) = Items(r)[Len(r)]
        /\ \A k \in 1..Len(r) : Items(r)[k] = AddMessage(Items(r)[k-1], r[k])
    BY <1>0, ItemsSteps
  <1>1. 0 \in T
    BY <1>a, <1>b
  <1>2. ASSUME NEW k \in Nat, k \in T PROVE k + 1 \in T
    <2> SUFFICES ASSUME k + 1 <= Len(s) PROVE Items(r)[k+1] = Items(s)[k+1]
      OBVIOUS
    <2>1. k + 1 \in 1..Len(s) /\ k + 1 \in 1..Len(r) /\ (k + 1) - 1 = k /\ k <= Len(s)
      BY <1>0
    <2>2. Items(r)[k] = Items(s)[k]
      BY <1>2, <2>1
    <2>3. Items(r)[k+1] = AddMessage(Items(r)[k], r[k+1]) /\ Items(s)[k+1] = AddMessage(Items(s)[k], s[k+1])
      BY <1>a, <1>b, <2>1
    <2> QED
      BY <1>0, <2>1, <2>2, <2>3
  <1> HIDE DEF T
  <1>3. Nat \subseteq T
    BY <1>1, <1>2, Induction
  <1>4. Items(r)[Len(s)] = Items(s)[Len(s)]
    BY <1>0, <1>3 DEF T
  <1>5. Items(r)[Len(r)] = AddMessage(Items(r)[Len(s)], r[Len(r)])
    <2>1. Len(r) \in 1..Len(r) /\ Len(r) - 1 = Len(s)
      BY <1>0
    <2> QED
      BY <1>b, <2>1
  <1> QED
    BY <1>0, <1>4, <1>5, <1>a, <1>b DEF r

-----------------------------------------------------------------------------
(***************************************************************************)
(* The two kinds of stored messages, and the cards there may be.           *)
(***************************************************************************)
Arguments == {"a", "b", "bad", "none"}
CardSet == [id : Int, input : {"a", "b", "nothing"},
            status : {"streaming", "pending", "done", "error"}]
Opened == [index : Nat, temp : Int, args : Arguments]
CallMessages == [role : {"call"}, id : Int, args : Arguments]
Results == [role : {"tool"}, id : Int, ok : {"done", "error"}]
Stored == CallMessages \cup Results

LEMMA CardIs ==
  ASSUME NEW id \in Int, NEW args \in Arguments
  PROVE  /\ ParseArgs(args) \in {"a", "b", "nothing"}
         /\ Card(id, ParseArgs(args), "pending") \in CardSet
         /\ Card(id, ParseArgs(args), "pending").id = id
         /\ Card(id, ParseArgs(args), "pending").status = "pending"
  BY DEF Arguments, ParseArgs, Card, CardSet

\* A result settles the card of its call and no other.
LEMMA AddResult ==
  ASSUME NEW items \in Seq(CardSet), NEW m \in Results, m.id \in 1..Len(items),
         \A j \in 1..Len(items) : items[j].id = j
  PROVE  /\ AddMessage(items, m) = [items EXCEPT ![m.id].status = m.ok]
         /\ AddMessage(items, m) \in Seq(CardSet)
         /\ Len(AddMessage(items, m)) = Len(items)
  <1> DEFINE at == {i \in DOMAIN items : items[i].id = m.id}
  <1>1. at = {m.id}
    OBVIOUS
  <1>2. Min(at) = m.id
    <2>1. at \in SUBSET Nat /\ m.id \in at /\ \A y \in at : m.id <= y
      BY <1>1
    <2> HIDE DEF at
    <2> QED
      BY <2>1, MinIs
  <1>3. m.role # "call" /\ m.ok \in {"done", "error"}
    BY DEF Results
  <1>4. AddMessage(items, m) = [items EXCEPT ![m.id].status = m.ok]
    <2>1. at # {}
      BY <1>1
    <2>2. AddMessage(items, m) = [items EXCEPT ![Min(at)].status = m.ok]
      BY <1>3, <2>1 DEF AddMessage
    <2> HIDE DEF at
    <2> QED
      BY <1>2, <2>2
  <1>5. [items EXCEPT ![m.id].status = m.ok] \in Seq(CardSet)
    <2>1. items[m.id] \in CardSet
      OBVIOUS
    <2>2. [items[m.id] EXCEPT !.status = m.ok] \in CardSet
      BY <1>3, <2>1 DEF CardSet
    <2> QED
      BY <2>2
  <1>6. Len([items EXCEPT ![m.id].status = m.ok]) = Len(items)
    OBVIOUS
  <1> QED
    BY <1>4, <1>5, <1>6

\* The calls of a message make a card each, behind those that are there.
LEMMA AddCalls ==
  ASSUME NEW s \in Seq(Stored), NEW c \in Seq(CallMessages), TakenItems(s) \in Seq(CardSet)
  PROVE  LET old == TakenItems(s)
             new == TakenItems(s \o c)
         IN  /\ new \in Seq(CardSet) /\ Len(new) = Len(old) + Len(c)
             /\ \A i \in 1..Len(old) : new[i] = old[i]
             /\ \A i \in 1..Len(c) :
                  new[Len(old)+i] = Card(c[i].id, ParseArgs(c[i].args), "pending")
  <1> DEFINE old == TakenItems(s)
             l == Len(old)
             upto(k) == TakenItems(s \o SubSeq(c, 1, k))
             T == {k \in Nat : k <= Len(c) =>
                     /\ upto(k) \in Seq(CardSet) /\ Len(upto(k)) = l + k
                     /\ \A i \in 1..l : upto(k)[i] = old[i]
                     /\ \A i \in 1..k :
                          upto(k)[l+i] = Card(c[i].id, ParseArgs(c[i].args), "pending")}
  <1>0. l \in Nat /\ old \in Seq(CardSet) /\ Len(c) \in Nat /\ \A i \in 1..Len(c) : c[i] \in CallMessages
    OBVIOUS
  <1>1. 0 \in T
    <2>1. s \o SubSeq(c, 1, 0) = s
      OBVIOUS
    <2>2. upto(0) = old
      BY ONLY <2>1
    <2> HIDE DEF upto, old
    <2> QED
      BY <1>0, <2>2
  <1>2. ASSUME NEW k \in Nat, k \in T PROVE k + 1 \in T
    <2> SUFFICES ASSUME k + 1 <= Len(c)
                 PROVE  /\ upto(k+1) \in Seq(CardSet) /\ Len(upto(k+1)) = l + (k + 1)
                        /\ \A i \in 1..l : upto(k+1)[i] = old[i]
                        /\ \A i \in 1..k+1 :
                          upto(k+1)[l+i] = Card(c[i].id, ParseArgs(c[i].args), "pending")
      OBVIOUS
    <2> DEFINE part == s \o SubSeq(c, 1, k)
               card == Card(c[k+1].id, ParseArgs(c[k+1].args), "pending")
               was == upto(k)
    <2>1. c[k+1] \in CallMessages /\ c[k+1] \in Stored
      BY <1>0 DEF Stored
    <2>2. part \in Seq(Stored) /\ s \o SubSeq(c, 1, k + 1) = Append(part, c[k+1])
      <3>1. SubSeq(c, 1, k) \in Seq(Stored) /\ SubSeq(c, 1, k + 1) = Append(SubSeq(c, 1, k), c[k+1])
        BY <1>0 DEF Stored
      <3> DEFINE d == SubSeq(c, 1, k)
      <3> HIDE DEF d
      <3>2. s \o Append(d, c[k+1]) = Append(s \o d, c[k+1])
        BY <2>1, <3>1, AppendToJoin DEF d
      <3> QED
        BY <3>1, <3>2 DEF d
    <2>3. upto(k+1) = AddMessage(was, c[k+1])
      <3> HIDE DEF part
      <3>1. TakenItems(Append(part, c[k+1])) = AddMessage(TakenItems(part), c[k+1])
        BY <2>1, <2>2, ItemsAppend
      <3> QED
        BY <2>2, <3>1 DEF part
    <2>4. AddMessage(was, c[k+1]) = Append(was, card)
      BY <2>1 DEF AddMessage, CallMessages
    <2>5. card \in CardSet
      BY <2>1, CardIs DEF CallMessages
    <2>6. /\ was \in Seq(CardSet) /\ Len(was) = l + k
          /\ \A i \in 1..l : was[i] = old[i]
          /\ \A i \in 1..k : was[l+i] = Card(c[i].id, ParseArgs(c[i].args), "pending")
      BY <1>2
    <2> DEFINE now == upto(k+1)
    <2>7. now = Append(was, card)
      BY <2>3, <2>4
    <2> HIDE DEF was, card, upto, l, now, old
    <2>8. /\ now \in Seq(CardSet) /\ Len(now) = l + k + 1
          /\ \A i \in 1..l+k : now[i] = was[i]
          /\ now[l+k+1] = card
      BY <1>0, <2>5, <2>6, <2>7
    <2>9. \A i \in 1..l : now[i] = old[i]
      BY <1>0, <2>6, <2>8
    <2>10. ASSUME NEW i \in 1..k+1 PROVE now[l+i] = Card(c[i].id, ParseArgs(c[i].args), "pending")
      <3>1. CASE i \in 1..k
        BY <1>0, <2>6, <2>8, <3>1
      <3>2. CASE i = k + 1
        BY <1>0, <2>8, <3>2 DEF card
      <3> QED
        BY <3>1, <3>2
    <2> QED
      BY <1>0, <2>8, <2>9, <2>10 DEF now
  <1> HIDE DEF T
  <1>3. Len(c) \in T
    BY <1>0, <1>1, <1>2, Induction
  <1>4. SubSeq(c, 1, Len(c)) = c
    OBVIOUS
  <1>5. upto(Len(c)) = TakenItems(s \o c)
    BY ONLY <1>4
  <1> DEFINE new == TakenItems(s \o c)
  <1> HIDE DEF upto, new
  <1>6. /\ new \in Seq(CardSet) /\ Len(new) = l + Len(c)
        /\ \A i \in 1..l : new[i] = old[i]
        /\ \A i \in 1..Len(c) : new[l+i] = Card(c[i].id, ParseArgs(c[i].args), "pending")
    BY <1>0, <1>3, <1>5 DEF T, new
  <1> QED
    BY <1>6 DEF new

-----------------------------------------------------------------------------
(***************************************************************************)
(* How many calls are stored.                                              *)
(***************************************************************************)
CallsIn(s) == {i \in DOMAIN s : s[i].role = "call"}

LEMMA CallsFinite ==
  ASSUME NEW s \in Seq(Stored)
  PROVE  IsFiniteSet(CallsIn(s)) /\ Cardinality(CallsIn(s)) \in Nat
  <1>1. CallsIn(s) \in SUBSET (1..Len(s)) /\ Len(s) \in Int
    BY DEF CallsIn
  <1>2. IsFiniteSet(1..Len(s))
    BY <1>1, FS_Interval
  <1>3. IsFiniteSet(CallsIn(s))
    BY <1>1, <1>2, FS_Subset
  <1> QED
    BY <1>3, FS_CardinalityType

LEMMA CountResult ==
  ASSUME NEW s \in Seq(Stored), NEW m \in Results
  PROVE  CallsIn(Append(s, m)) = CallsIn(s)
  <1>1. m.role # "call"
    BY DEF Results
  <1> DEFINE r == Append(s, m)
  <1>2. Len(r) = Len(s) + 1 /\ Len(s) \in Nat /\ r[Len(s)+1] = m /\ \A i \in 1..Len(s) : r[i] = s[i]
    OBVIOUS
  <1>3. DOMAIN r = 1..Len(r) /\ DOMAIN s = 1..Len(s)
    OBVIOUS
  <1> HIDE DEF r
  <1>4. CallsIn(r) = CallsIn(s)
    BY <1>1, <1>2, <1>3 DEF CallsIn
  <1> QED
    BY <1>4 DEF r

LEMMA CountCalls ==
  ASSUME NEW s \in Seq(Stored), NEW c \in Seq(CallMessages)
  PROVE  Cardinality(CallsIn(s \o c)) = Cardinality(CallsIn(s)) + Len(c)
  <1> DEFINE r == s \o c
             l == Len(s)
             more == l+1..l+Len(c)
  <1>1. /\ Len(r) = l + Len(c) /\ l \in Nat /\ Len(c) \in Nat
        /\ \A i \in 1..l : r[i] = s[i]
        /\ \A i \in 1..Len(c) : r[l+i] = c[i]
        /\ DOMAIN r = 1..Len(r) /\ DOMAIN s = 1..l
    OBVIOUS
  <1>2. \A i \in 1..Len(c) : c[i].role = "call"
    <2>1. \A i \in 1..Len(c) : c[i] \in CallMessages
      OBVIOUS
    <2> QED
      BY <2>1 DEF CallMessages
  <1> HIDE DEF r
  <1>3. \A i \in more : r[i].role = "call"
    <2> SUFFICES ASSUME NEW i \in more PROVE r[i].role = "call"
      OBVIOUS
    <2>1. i - l \in 1..Len(c) /\ l + (i - l) = i
      BY <1>1
    <2> QED
      BY <1>1, <1>2, <2>1
  <1> HIDE DEF l
  <1>4. CallsIn(r) = CallsIn(s) \cup more
    BY <1>1, <1>3 DEF CallsIn
  <1>5. CallsIn(s) \cap more = {}
    BY <1>1 DEF CallsIn
  <1>6. IsFiniteSet(more) /\ Cardinality(more) = Len(c)
    <2>1. l + 1 \in Int /\ l + Len(c) \in Int
      BY <1>1
    <2> DEFINE a == l + 1
               b == l + Len(c)
    <2> HIDE DEF a, b
    <2>2. IsFiniteSet(a..b) /\ Cardinality(a..b) = IF a > b THEN 0 ELSE b - a + 1
      BY <2>1, FS_Interval DEF a, b
    <2>3. (IF a > b THEN 0 ELSE b - a + 1) = Len(c)
      BY <1>1 DEF a, b
    <2> QED
      BY <2>2, <2>3 DEF a, b
  <1>7. IsFiniteSet(CallsIn(s)) /\ Cardinality(CallsIn(s)) \in Nat
    BY CallsFinite
  <1> HIDE DEF more
  <1>8. Cardinality(CallsIn(s) \cup more) =
          Cardinality(CallsIn(s)) + Cardinality(more) - Cardinality(CallsIn(s) \cap more)
    BY <1>6, <1>7, FS_Union
  <1>9. Cardinality({}) = 0
    BY FS_EmptySet
  <1>10. Cardinality(CallsIn(r)) = Cardinality(CallsIn(s)) + Len(c) - 0
    BY <1>4, <1>5, <1>6, <1>8, <1>9
  <1> DEFINE held == Cardinality(CallsIn(s))
  <1> HIDE DEF held
  <1>11. held + Len(c) - 0 = held + Len(c)
    BY <1>1, <1>7 DEF held
  <1> QED
    BY <1>10, <1>11 DEF r, held

-----------------------------------------------------------------------------
(***************************************************************************)
(* The live cards.  Base is the number of calls of earlier rounds,         *)
(* Announced that of the calls announced so far.                           *)
(***************************************************************************)
Base == Earlier
Announced == Earlier + answering
Shown == TakenItems(messages)

CardsType ==
  /\ calls \in Seq(Arguments)
  /\ begun \subseteq DOMAIN calls
  /\ answering \in 0..Len(calls) /\ open \in BOOLEAN /\ inOrder \in BOOLEAN
  /\ messages \in Seq(Stored)
  /\ cards \in Seq(CardSet) /\ pending \in Seq(Opened)
  /\ Base \in Nat
  /\ open => answering > 0
  /\ answering > 0 => open \/ answering < Len(calls)

\* A stored call has a card under its number; the card waits for its result as
\* long as the call is the open one or not announced yet.
StoredInv ==
  /\ Shown \in Seq(CardSet) /\ Len(Shown) = Before
  /\ \A j \in 1..Before : Shown[j].id = j
  /\ \A j \in 1..Announced : Shown[j].status = "pending" <=> open /\ j = Announced
  /\ answering > 0 => \A i \in answering+1..Len(calls) :
        Shown[Base+i] = Card(Base+i, ParseArgs(calls[i]), "pending")

\* A card that waits was opened by the arguments of a call of this round; no
\* more cards wait than calls are to be announced.
PendingInv ==
  /\ \A p \in DOMAIN pending : /\ pending[p].index \in begun
                               /\ pending[p].args = calls[pending[p].index]
                               /\ pending[p].temp < 0
  /\ \A p, q \in DOMAIN pending : p # q => pending[p].temp # pending[q].temp
  /\ answering = 0 => /\ begun = {pending[p].index : p \in DOMAIN pending}
                      /\ Len(pending) = Cardinality(begun)
  /\ answering > 0 => Len(pending) <= Len(calls) - answering

\* Each card is the one of an announced call, as it is stored, or waits for its
\* call; each call and each entry that waits has one.
Matched ==
  /\ Len(cards) = Announced + Len(pending)
  /\ \A i, j \in DOMAIN cards : cards[i].id = cards[j].id => i = j
  /\ \A i \in DOMAIN cards : cards[i].id >= -Len(cards)
  /\ \A i \in DOMAIN cards :
       \/ cards[i].id \in 1..Announced /\ cards[i] = Shown[cards[i].id]
       \/ \E p \in DOMAIN pending : cards[i].id = pending[p].temp
  /\ \A p \in DOMAIN pending : \E i \in DOMAIN cards : cards[i].id = pending[p].temp
  /\ \A j \in 1..Announced : \E i \in DOMAIN cards : cards[i].id = j

\* Arguments in the order of the calls: so are the cards, and the next call to
\* be announced is the one the first entry waits for.
InOrder ==
  /\ \A i \in 1..Announced : cards[i].id = i
  /\ \A p \in DOMAIN pending : cards[Announced+p].id = pending[p].temp
  /\ \A i \in DOMAIN calls : calls[i] # "none"
  /\ \A p, q \in DOMAIN pending : p < q => pending[p].index < pending[q].index
  /\ answering > 0 => /\ Len(pending) = Len(calls) - answering
                      /\ \A p \in DOMAIN pending : pending[p].index = answering + p

CardsInv == CardsType /\ StoredInv /\ PendingInv /\ Matched /\ (inOrder => InOrder)

LEMMA Numbers ==
  ASSUME CardsType
  PROVE  /\ Before \in Nat /\ Announced \in Nat /\ Base \in Nat /\ answering \in Nat /\ Len(calls) \in Nat
         /\ Announced = Base + answering
         /\ Before = Base + (IF answering > 0 THEN Len(calls) ELSE 0)
         /\ Before = Cardinality(CallsIn(messages))
         /\ Announced <= Before
  <1>1. Before = Cardinality(CallsIn(messages)) /\ Before \in Nat
    BY CallsFinite DEF CardsType, Before, CallsIn
  <1>2. Base \in Nat /\ answering \in 0..Len(calls) /\ Len(calls) \in Nat
    BY DEF CardsType
  <1>3. Base = Before - (IF answering > 0 THEN Len(calls) ELSE 0)
    BY DEF Base, Earlier
  <1>4. Announced = Before - (IF answering > 0 THEN Len(calls) ELSE 0) + answering
    BY DEF Announced, Earlier
  <1> QED
    BY <1>1, <1>2, <1>3, <1>4

LEMMA CardsInitially == ViewsInit => CardsInv
  <1> SUFFICES ASSUME ViewsInit PROVE CardsInv
    OBVIOUS
  <1>0. /\ calls = <<>> /\ begun = {} /\ answering = 0 /\ open = FALSE
        /\ messages = <<>> /\ cards = <<>> /\ pending = <<>> /\ inOrder = TRUE
    BY DEF ViewsInit, CardsInit
  <1>1. Before = 0
    <2>1. {m \in DOMAIN messages : messages[m].role = "call"} = {}
      BY <1>0
    <2>2. Cardinality({}) = 0
      BY FS_EmptySet
    <2> QED
      BY <2>1, <2>2 DEF Before
  <1>2. Base = 0 /\ Announced = 0
    BY <1>0, <1>1 DEF Base, Announced, Earlier
  <1>3. Shown = <<>>
    <2>1. Len(messages) = 0 /\ Len(messages) \in Nat
      BY <1>0
    <2> QED
      BY <2>1, ItemsSteps DEF Shown
  <1>4. CardsType
    <2>1. /\ <<>> \in Seq(Arguments) /\ <<>> \in Seq(Stored) /\ <<>> \in Seq(CardSet)
          /\ <<>> \in Seq(Opened) /\ Len(<<>>) = 0
      OBVIOUS
    <2>2. /\ calls \in Seq(Arguments) /\ messages \in Seq(Stored) /\ cards \in Seq(CardSet)
          /\ pending \in Seq(Opened)
      BY <1>0, <2>1
    <2>3. answering = 0 /\ answering \in 0..Len(calls)
      BY <1>0, <2>1
    <2>4. begun \subseteq DOMAIN calls /\ open \in BOOLEAN /\ inOrder \in BOOLEAN /\ ~open
      BY <1>0
    <2> QED
      BY <1>2, <2>2, <2>3, <2>4 DEF CardsType
  <1>5. StoredInv
    BY <1>0, <1>1, <1>2, <1>3 DEF StoredInv
  <1>6. PendingInv
    <2>1. Cardinality({}) = 0 /\ Len(pending) = 0 /\ DOMAIN pending = {}
      BY <1>0, FS_EmptySet
    <2> QED
      BY <1>0, <2>1 DEF PendingInv
  <1>7. Matched
    BY <1>0, <1>2 DEF Matched
  <1>8. InOrder
    BY <1>0, <1>2 DEF InOrder
  <1> QED
    BY <1>4, <1>5, <1>6, <1>7, <1>8 DEF CardsInv

\* The arguments of a further call.
LEMMA BeginStep ==
  ASSUME CardsInv, NEW args \in Arguments, Begin(args)
  PROVE  CardsInv'
  <1>0. /\ answering = 0 /\ calls' = Append(calls, args) /\ inOrder' = (inOrder /\ args # "none")
        /\ begun' = begun /\ answering' = answering /\ open' = open /\ messages' = messages
        /\ cards' = cards /\ pending' = pending
    BY DEF Begin
  <1>1. CardsType /\ StoredInv /\ PendingInv /\ Matched /\ (inOrder => InOrder)
    BY DEF CardsInv
  <1>2. /\ calls \in Seq(Arguments) /\ calls' \in Seq(Arguments) /\ Len(calls') = Len(calls) + 1
        /\ \A i \in DOMAIN calls : calls'[i] = calls[i]
        /\ DOMAIN calls = 1..Len(calls) /\ DOMAIN calls' = 1..Len(calls')
        /\ Len(calls) \in Nat /\ calls'[Len(calls)+1] = args
    BY <1>0, <1>1 DEF CardsType
  <1>3. Before' = Before /\ Shown' = Shown
    BY <1>0 DEF Before, Shown
  <1>4. Base' = Base /\ Announced' = Announced
    BY <1>0, <1>3 DEF Base, Announced, Earlier
  <1>5. CardsType'
    <2>1. begun' \subseteq DOMAIN calls'
      BY <1>0, <1>1, <1>2 DEF CardsType
    <2>2. answering' \in 0..Len(calls')
      BY <1>0, <1>2
    <2>3. inOrder' \in BOOLEAN
      BY <1>0
    <2>4. open' => answering' > 0
      BY <1>0, <1>1 DEF CardsType
    <2> QED
      BY <1>0, <1>1, <1>2, <1>4, <2>1, <2>2, <2>3, <2>4 DEF CardsType
  <1>6. StoredInv'
    BY <1>0, <1>1, <1>3, <1>4 DEF StoredInv
  <1>7. PendingInv'
    <2>1. begun \subseteq DOMAIN calls
      BY <1>1 DEF CardsType
    <2> QED
      BY <1>0, <1>1, <1>2, <2>1 DEF PendingInv
  <1>8. Matched'
    BY <1>0, <1>1, <1>3, <1>4 DEF Matched
  <1>9. inOrder' => InOrder'
    <2> SUFFICES ASSUME inOrder, args # "none" PROVE InOrder'
      BY <1>0
    <2>1. \A i \in DOMAIN calls' : calls'[i] # "none"
      <3>1. \A i \in DOMAIN calls : calls[i] # "none"
        BY <1>1 DEF InOrder
      <3> QED
        BY <1>2, <3>1
    <2> QED
      BY <1>0, <1>1, <1>4, <2>1 DEF InOrder
  <1> QED
    BY <1>5, <1>6, <1>7, <1>8, <1>9 DEF CardsInv

\* The first piece of the arguments of a call opens a card.
LEMMA PieceStep ==
  ASSUME CardsInv, NEW index \in DOMAIN calls, Piece(index)
  PROVE  CardsInv'
  <1> DEFINE temp == -1 - Len(cards)
             card == Card(temp, "nothing", "streaming")
             entry == [index |-> index, temp |-> temp, args |-> calls[index]]
             l == Len(cards)
             w == Len(pending)
             n == Announced
  <1>1. CardsType /\ StoredInv /\ PendingInv /\ Matched /\ (inOrder => InOrder)
    BY DEF CardsInv
  <1>0. /\ answering = 0 /\ index \notin begun /\ calls[index] # "none"
        /\ calls' = calls /\ begun' = begun \cup {index}
        /\ inOrder' = (inOrder /\ \A i \in begun : i < index)
        /\ answering' = answering /\ open' = open /\ messages' = messages
    BY DEF Piece
  <1>2. cards' = Append(cards, card) /\ pending' = Append(pending, entry)
    <2>1. ~ \E p \in DOMAIN pending : pending[p].index = index
      BY <1>0, <1>1 DEF PendingInv
    <2> QED
      BY <1>0, <2>1 DEF Piece, Delta
  <1>3. Before' = Before /\ Shown' = Shown
    BY <1>0 DEF Before, Shown
  <1>4. Base' = Base /\ Announced' = Announced
    BY <1>0, <1>3 DEF Base, Announced, Earlier
  <1>5. n \in Nat /\ index \in Nat /\ index \in 1..Len(calls)
    BY <1>1, Numbers DEF CardsType
  <1>6. /\ temp \in Int /\ temp < 0 /\ card \in CardSet /\ card.id = temp /\ l \in Nat
        /\ temp = -1 - l
    BY <1>1 DEF CardsType, Card, CardSet
  <1>7. entry \in Opened /\ entry.index = index /\ entry.temp = temp /\ entry.args = calls[index]
    BY <1>1, <1>5, <1>6 DEF CardsType, Opened
  <1> HIDE DEF card, entry, l, w
  <1>8. /\ cards' \in Seq(CardSet) /\ Len(cards') = l + 1 /\ cards'[l+1] = card
        /\ \A i \in 1..l : cards'[i] = cards[i] /\ cards[i] \in CardSet /\ cards[i].id \in Int
        /\ DOMAIN cards = 1..l /\ DOMAIN cards' = 1..l+1
    <2>1. cards \in Seq(CardSet)
      BY <1>1 DEF CardsType
    <2>2. /\ cards' \in Seq(CardSet) /\ Len(cards') = l + 1 /\ cards'[l+1] = card
          /\ \A i \in 1..l : cards'[i] = cards[i] /\ cards[i] \in CardSet
          /\ DOMAIN cards = 1..l /\ DOMAIN cards' = 1..l+1
      BY <1>2, <1>6, <2>1 DEF l
    <2>3. \A i \in 1..l : cards[i].id \in Int
      BY <2>2 DEF CardSet
    <2> QED
      BY <2>2, <2>3
  <1>9. /\ pending' \in Seq(Opened) /\ Len(pending') = w + 1 /\ pending'[w+1] = entry /\ w \in Nat
        /\ \A p \in 1..w : pending'[p] = pending[p] /\ pending[p] \in Opened
        /\ DOMAIN pending = 1..w /\ DOMAIN pending' = 1..w+1
    BY <1>1, <1>2, <1>7 DEF CardsType, w
  <1> HIDE DEF temp, n
  <1>10. \A p \in 1..w : pending[p].temp # temp /\ pending[p].temp < 0
    <2> SUFFICES ASSUME NEW p \in 1..w PROVE pending[p].temp # temp /\ pending[p].temp < 0
      OBVIOUS
    <2>1. pending[p].temp < 0
      BY <1>1, <1>9 DEF PendingInv
    <2>2. PICK i \in 1..l : cards[i].id = pending[p].temp
      BY <1>1, <1>8, <1>9 DEF Matched
    <2>3. cards[i].id >= -l /\ cards[i].id \in Int
      BY <1>1, <1>8 DEF Matched, l
    <2> QED
      BY <1>6, <2>1, <2>2, <2>3
  <1>11. CardsType'
    <2>1. begun' \subseteq DOMAIN calls'
      BY <1>0, <1>1 DEF CardsType
    <2>2. inOrder' \in BOOLEAN
      BY <1>0
    <2> QED
      BY <1>0, <1>1, <1>4, <1>8, <1>9, <2>1, <2>2 DEF CardsType
  <1>12. StoredInv'
    BY <1>0, <1>1, <1>3, <1>4 DEF StoredInv
  <1>13. PendingInv'
    <2>1. ASSUME NEW p \in DOMAIN pending'
          PROVE  pending'[p].index \in begun' /\ pending'[p].args = calls'[pending'[p].index]
                 /\ pending'[p].temp < 0
      <3>1. CASE p \in 1..w
        BY <1>0, <1>1, <1>9, <3>1 DEF PendingInv
      <3>2. CASE p = w + 1
        BY <1>0, <1>6, <1>7, <1>9, <3>2
      <3> QED
        BY <1>9, <2>1, <3>1, <3>2
    <2>2. ASSUME NEW p \in DOMAIN pending', NEW q \in DOMAIN pending', p # q
          PROVE  pending'[p].temp # pending'[q].temp
      <3>1. CASE p \in 1..w /\ q \in 1..w
        BY <1>1, <1>9, <2>2, <3>1 DEF PendingInv
      <3>2. CASE p = w + 1 \/ q = w + 1
        BY <1>7, <1>9, <1>10, <2>2, <3>2
      <3> QED
        BY <1>9, <2>2, <3>1, <3>2
    <2>3. begun' = {pending'[p].index : p \in DOMAIN pending'}
      <3>1. begun = {pending[p].index : p \in 1..w}
        BY <1>0, <1>1, <1>9 DEF PendingInv
      <3>2. {pending'[p].index : p \in 1..w+1} = {pending[p].index : p \in 1..w} \cup {index}
        BY <1>7, <1>9
      <3> QED
        BY <1>0, <1>9, <3>1, <3>2
    <2>4. Len(pending') = Cardinality(begun')
      <3>1. begun \in SUBSET (1..Len(calls)) /\ Len(calls) \in Int
        BY <1>1 DEF CardsType
      <3>2. IsFiniteSet(begun)
        <4>1. IsFiniteSet(1..Len(calls))
          BY <3>1, FS_Interval
        <4> QED
          BY <3>1, <4>1, FS_Subset
      <3>3. Cardinality(begun \cup {index}) = Cardinality(begun) + 1
        BY <1>0, <3>2, FS_AddElement
      <3>4. w = Cardinality(begun)
        BY <1>0, <1>1 DEF PendingInv, w
      <3> QED
        BY <1>0, <1>9, <3>3, <3>4
    <2>5. answering' = 0
      BY <1>0
    <2> QED
      BY <2>1, <2>2, <2>3, <2>4, <2>5 DEF PendingInv
  <1>14. Matched'
    <2>1. Len(cards') = Announced' + Len(pending')
      <3>1. l = n + w
        BY <1>1 DEF Matched, l, n, w
      <3> QED
        BY <1>4, <1>5, <1>6, <1>8, <1>9, <3>1 DEF n
    <2>2. ASSUME NEW i \in DOMAIN cards', NEW j \in DOMAIN cards', cards'[i].id = cards'[j].id
          PROVE  i = j
      <3>1. \A k \in 1..l : cards[k].id >= -l /\ cards[k].id # temp
        <4>1. \A k \in 1..l : cards[k].id >= -l /\ cards[k].id \in Int
          BY <1>1, <1>8 DEF Matched, l
        <4> QED
          BY <1>6, <4>1
      <3>2. CASE i \in 1..l /\ j \in 1..l
        BY <1>1, <1>8, <2>2, <3>2 DEF Matched
      <3>3. CASE i = l + 1 \/ j = l + 1
        BY <1>6, <1>8, <2>2, <3>1, <3>3
      <3> QED
        BY <1>6, <1>8, <2>2, <3>2, <3>3
    <2>3. ASSUME NEW i \in DOMAIN cards' PROVE cards'[i].id >= -Len(cards')
      <3>1. CASE i \in 1..l
        <4>1. cards[i].id >= -l /\ cards[i].id \in Int /\ cards'[i] = cards[i]
          BY <1>1, <1>8, <3>1 DEF Matched, l
        <4> QED
          BY <1>6, <1>8, <4>1
      <3>2. CASE i = l + 1
        BY <1>6, <1>8, <3>2
      <3> QED
        BY <1>6, <1>8, <2>3, <3>1, <3>2
    <2>4. ASSUME NEW i \in DOMAIN cards'
          PROVE  \/ cards'[i].id \in 1..Announced' /\ cards'[i] = Shown'[cards'[i].id]
                 \/ \E p \in DOMAIN pending' : cards'[i].id = pending'[p].temp
      <3>1. CASE i \in 1..l
        <4>1. CASE cards[i].id \in 1..Announced /\ cards[i] = Shown[cards[i].id]
          BY <1>3, <1>4, <1>8, <3>1, <4>1
        <4>2. CASE \E p \in DOMAIN pending : cards[i].id = pending[p].temp
          <5>1. PICK p \in 1..w : cards[i].id = pending[p].temp
            BY <1>9, <4>2
          <5>2. p \in DOMAIN pending' /\ pending'[p].temp = cards'[i].id
            BY <1>8, <1>9, <3>1, <5>1
          <5> QED
            BY <5>2
        <4> QED
          BY <1>1, <1>8, <3>1, <4>1, <4>2 DEF Matched
      <3>2. CASE i = l + 1
        <4>1. w + 1 \in DOMAIN pending' /\ pending'[w+1].temp = cards'[i].id
          BY <1>6, <1>7, <1>8, <1>9, <3>2
        <4> QED
          BY <4>1
      <3> QED
        BY <1>6, <1>8, <2>4, <3>1, <3>2
    <2>5. ASSUME NEW p \in DOMAIN pending' PROVE \E i \in DOMAIN cards' : cards'[i].id = pending'[p].temp
      <3>1. CASE p \in 1..w
        <4>1. PICK i \in 1..l : cards[i].id = pending[p].temp
          BY <1>1, <1>8, <1>9, <3>1 DEF Matched
        <4>2. i \in DOMAIN cards' /\ cards'[i].id = pending'[p].temp
          BY <1>6, <1>8, <1>9, <3>1, <4>1
        <4> QED
          BY <4>2
      <3>2. CASE p = w + 1
        <4>1. l + 1 \in DOMAIN cards' /\ cards'[l+1].id = pending'[p].temp
          BY <1>6, <1>7, <1>8, <1>9, <3>2
        <4> QED
          BY <4>1
      <3> QED
        BY <1>9, <2>5, <3>1, <3>2
    <2>6. ASSUME NEW j \in 1..Announced' PROVE \E i \in DOMAIN cards' : cards'[i].id = j
      <3>1. PICK i \in 1..l : cards[i].id = j
        BY <1>1, <1>4, <1>8 DEF Matched
      <3>2. i \in DOMAIN cards' /\ cards'[i].id = j
        BY <1>6, <1>8, <3>1
      <3> QED
        BY <3>2
    <2> QED
      BY <2>1, <2>2, <2>3, <2>4, <2>5, <2>6 DEF Matched
  <1>15. inOrder' => InOrder'
    <2> SUFFICES ASSUME inOrder, \A i \in begun : i < index PROVE InOrder'
      BY <1>0
    <2>0. InOrder
      BY <1>1
    <2>1. l = n + w
      BY <1>1 DEF Matched, l, n, w
    <2>2. ASSUME NEW i \in 1..Announced' PROVE cards'[i].id = i
      <3>1. i \in 1..n /\ i \in 1..l
        BY <1>4, <1>5, <1>9, <2>1 DEF n
      <3> QED
        BY <1>8, <2>0, <3>1 DEF InOrder, n
    <2>3. ASSUME NEW p \in DOMAIN pending' PROVE cards'[Announced'+p].id = pending'[p].temp
      <3>1. CASE p \in 1..w
        <4>1. n + p \in 1..l
          BY <1>5, <1>9, <2>1, <3>1
        <4>2. cards[n+p].id = pending[p].temp
          BY <1>9, <2>0, <3>1 DEF InOrder, n
        <4> QED
          BY <1>4, <1>8, <1>9, <3>1, <4>1, <4>2 DEF n
      <3>2. CASE p = w + 1
        <4>1. n + p = l + 1
          BY <1>5, <1>9, <2>1, <3>2
        <4> QED
          BY <1>4, <1>6, <1>7, <1>8, <1>9, <3>2, <4>1 DEF n
      <3> QED
        BY <1>9, <2>3, <3>1, <3>2
    <2>4. \A i \in DOMAIN calls' : calls'[i] # "none"
      BY <1>0, <2>0 DEF InOrder
    <2>5. ASSUME NEW p \in DOMAIN pending', NEW q \in DOMAIN pending', p < q
          PROVE  pending'[p].index < pending'[q].index
      <3>0. p \in 1..w
        BY <1>9, <2>5
      <3>1. CASE q \in 1..w
        BY <1>9, <2>0, <2>5, <3>0, <3>1 DEF InOrder
      <3>2. CASE q = w + 1
        <4>1. pending[p].index \in begun
          BY <1>1, <1>9, <3>0 DEF PendingInv
        <4>2. pending'[q].index = index /\ pending'[p] = pending[p]
          BY <1>7, <1>9, <3>0, <3>2
        <4> QED
          BY <4>1, <4>2
      <3> QED
        BY <1>9, <2>5, <3>1, <3>2
    <2>6. ~(answering' > 0)
      BY <1>0
    <2> QED
      BY <2>2, <2>3, <2>4, <2>5, <2>6 DEF InOrder
  <1> QED
    BY <1>11, <1>12, <1>13, <1>14, <1>15 DEF CardsInv

\* A result settles the card of the open call, stored and live.
LEMMA ResultStep ==
  ASSUME provided, CardsInv, NEW status \in {"done", "error"}, Result(status)
  PROVE  CardsInv'
  <1> DEFINE n == Announced
             m == [role |-> "tool", id |-> n, ok |-> status]
             l == Len(cards)
             over == answering = Len(calls)
  <1>1. CardsType /\ StoredInv /\ PendingInv /\ Matched /\ (inOrder => InOrder)
    BY DEF CardsInv
  <1>0. /\ open /\ open' = FALSE /\ messages' = Append(messages, m)
        /\ cards' = [i \in DOMAIN cards |->
                       IF cards[i].id = n THEN [cards[i] EXCEPT !.status = status] ELSE cards[i]]
        /\ IF over THEN calls' = <<>> /\ begun' = {} /\ answering' = 0
           ELSE calls' = calls /\ begun' = begun /\ answering' = answering
        /\ pending' = pending /\ inOrder' = inOrder
    BY DEF Result, Announced, CallId
  <1>2. /\ n \in 1..Before /\ n \in Int /\ Before \in Nat /\ Base \in Nat /\ n = Base + answering
        /\ answering > 0 /\ answering \in 0..Len(calls) /\ Len(calls) \in Nat
        /\ Before = Base + Len(calls)
    BY <1>0, <1>1, Numbers DEF CardsType
  <1>3. m \in Results /\ m \in Stored /\ m.id = n /\ m.ok = status /\ messages \in Seq(Stored)
    BY <1>1, <1>2 DEF CardsType, Results, Stored
  <1> HIDE DEF m
  <1>4. Before' = Before
    BY <1>0, <1>3, CountResult DEF Before, CallsIn
  <1>5. Announced' = n /\ Base' \in Nat /\ (~over => Base' = Base)
    <2>1. CASE over
      BY <1>0, <1>2, <1>4, <2>1 DEF Announced, Base, Earlier
    <2>2. CASE ~over
      BY <1>0, <1>2, <1>4, <2>2 DEF Announced, Base, Earlier
    <2> QED
      BY <2>1, <2>2
  <1> HIDE DEF n
  <1>6. Shown \in Seq(CardSet) /\ Len(Shown) = Before /\ \A j \in 1..Before : Shown[j].id = j
    BY <1>1 DEF StoredInv
  <1>7. /\ Shown' = [Shown EXCEPT ![n].status = status]
        /\ Shown' \in Seq(CardSet) /\ Len(Shown') = Len(Shown)
    <2>1. TakenItems(Append(messages, m)) = AddMessage(Shown, m)
      BY <1>3, ItemsAppend DEF Shown
    <2>2. m.id \in 1..Len(Shown)
      BY <1>2, <1>3, <1>6
    <2>3. /\ AddMessage(Shown, m) = [Shown EXCEPT ![m.id].status = m.ok]
          /\ AddMessage(Shown, m) \in Seq(CardSet)
          /\ Len(AddMessage(Shown, m)) = Len(Shown)
      BY <1>3, <1>6, <2>2, AddResult
    <2>4. Shown' = AddMessage(Shown, m)
      BY <1>0, <2>1 DEF Shown
    <2> HIDE DEF Shown
    <2> QED
      BY <1>3, <2>3, <2>4
  <1>8. \A j \in 1..Before : /\ Shown[j] \in CardSet /\ Shown'[j].id = j
                             /\ j # n => Shown'[j] = Shown[j]
                             /\ j = n => Shown'[j] = [Shown[j] EXCEPT !.status = status]
                                         /\ Shown'[j].status = status
    <2> SUFFICES ASSUME NEW j \in 1..Before
                 PROVE  /\ Shown[j] \in CardSet /\ Shown'[j].id = j
                        /\ j # n => Shown'[j] = Shown[j]
                        /\ j = n => Shown'[j] = [Shown[j] EXCEPT !.status = status]
                                    /\ Shown'[j].status = status
      OBVIOUS
    <2>1. Shown[j] \in CardSet /\ Shown[j].id = j /\ j \in DOMAIN Shown
      BY <1>6
    <2>2. Shown'[j] = IF j = n THEN [Shown[j] EXCEPT !.status = status] ELSE Shown[j]
      BY <1>7, <2>1
    <2> QED
      BY <2>1, <2>2 DEF CardSet
  <1>9. /\ cards \in Seq(CardSet) /\ l \in Nat /\ cards' \in Seq(CardSet) /\ Len(cards') = l
        /\ DOMAIN cards' = 1..l /\ DOMAIN cards = 1..l
        /\ \A i \in 1..l : /\ cards'[i].id = cards[i].id
                           /\ cards[i].id # n => cards'[i] = cards[i]
                           /\ cards[i].id = n => cards'[i] = [cards[i] EXCEPT !.status = status]
    <2>1. cards \in Seq(CardSet) /\ l \in Nat /\ DOMAIN cards = 1..l
      BY <1>1 DEF CardsType
    <2>2. ASSUME NEW i \in 1..l
          PROVE  /\ cards'[i] \in CardSet /\ cards'[i].id = cards[i].id
                 /\ cards[i].id # n => cards'[i] = cards[i]
                 /\ cards[i].id = n => cards'[i] = [cards[i] EXCEPT !.status = status]
      <3>1. cards[i] \in CardSet
        BY <2>1
      <3>2. cards'[i] = IF cards[i].id = n THEN [cards[i] EXCEPT !.status = status] ELSE cards[i]
        BY <1>0, <2>1
      <3>3. [cards[i] EXCEPT !.status = status] \in CardSet /\ [cards[i] EXCEPT !.status = status].id = cards[i].id
        BY <3>1 DEF CardSet
      <3> QED
        BY <3>1, <3>2, <3>3
    <2>3. cards' \in Seq(CardSet) /\ Len(cards') = l /\ DOMAIN cards' = 1..l
      <3>1. cards' = [i \in 1..l |-> cards'[i]]
        BY <1>0, <2>1
      <3>2. cards' \in [1..l -> CardSet]
        BY <2>2, <3>1
      <3> HIDE DEF l
      <3> QED
        BY <2>1, <3>2
    <2> QED
      BY <2>1, <2>2, <2>3
  <1> HIDE DEF l
  <1>10. over => pending = <<>>
    <2> SUFFICES ASSUME over PROVE pending = <<>>
      OBVIOUS
    <2>1. Len(pending) <= 0 /\ pending \in Seq(Opened)
      BY <1>1, <1>2 DEF PendingInv, CardsType
    <2> QED
      BY <2>1
  <1>11. CardsType'
    <2>1. messages' \in Seq(Stored)
      BY <1>0, <1>3
    <2>2. CASE over
      <3>1. calls' = <<>> /\ begun' = {} /\ answering' = 0
        BY <1>0, <2>2
      <3>2. <<>> \in Seq(Arguments) /\ Len(<<>>) = 0
        OBVIOUS
      <3>3. calls' \in Seq(Arguments) /\ begun' \subseteq DOMAIN calls' /\ answering' \in 0..Len(calls')
        BY <3>1, <3>2
      <3>4. cards' \in Seq(CardSet) /\ pending' \in Seq(Opened) /\ inOrder' \in BOOLEAN
        BY <1>0, <1>1, <1>9 DEF CardsType
      <3> QED
        BY <1>0, <1>5, <2>1, <3>1, <3>3, <3>4 DEF CardsType
    <2>3. CASE ~over
      <3>1. answering < Len(calls)
        BY <1>2, <2>3
      <3> QED
        BY <1>0, <1>1, <1>2, <1>5, <1>9, <2>1, <2>3, <3>1 DEF CardsType
    <2> QED
      BY <2>2, <2>3
  <1>12. StoredInv'
    <2>1. \A j \in 1..Announced' : ~ (Shown'[j].status = "pending")
      <3> SUFFICES ASSUME NEW j \in 1..n PROVE Shown'[j].status # "pending"
        BY <1>5
      <3>1. j \in 1..Before
        BY <1>2
      <3>2. j # n => Shown[j].status # "pending"
        BY <1>1 DEF StoredInv, n
      <3> QED
        BY <1>8, <3>1, <3>2
    <2>2. ASSUME answering' > 0, NEW i \in answering'+1..Len(calls')
          PROVE  Shown'[Base'+i] = Card(Base'+i, ParseArgs(calls'[i]), "pending")
      <3>1. ~over /\ answering' = answering /\ calls' = calls /\ Base' = Base
        BY <1>0, <1>5, <2>2
      <3>2. Base + i \in 1..Before /\ Base + i # n
        BY <1>2, <2>2, <3>1
      <3>3. Shown[Base+i] = Card(Base+i, ParseArgs(calls[i]), "pending")
        BY <1>1, <1>2, <2>2, <3>1 DEF StoredInv
      <3> QED
        BY <1>8, <3>1, <3>2, <3>3
    <2>3. \A j \in 1..Before' : Shown'[j].id = j
      BY <1>4, <1>8
    <2> QED
      BY <1>0, <1>4, <1>6, <1>7, <2>1, <2>2, <2>3 DEF StoredInv
  <1>13. PendingInv'
    <2>1. CASE over
      <3>1. pending' = <<>> /\ DOMAIN pending' = {} /\ Len(pending') = 0
        BY <1>0, <1>10, <2>1
      <3>2. begun' = {} /\ Cardinality({}) = 0 /\ answering' = 0
        BY <1>0, <2>1, FS_EmptySet
      <3>3. {pending'[p].index : p \in {}} = {}
        OBVIOUS
      <3> QED
        BY <3>1, <3>2, <3>3 DEF PendingInv
    <2>2. CASE ~over
      BY <1>0, <1>1, <2>2 DEF PendingInv
    <2> QED
      BY <2>1, <2>2
  <1>14. Matched'
    <2>1. Len(cards') = Announced' + Len(pending')
      BY <1>0, <1>1, <1>5, <1>9 DEF Matched, n, l
    <2>2. ASSUME NEW i \in DOMAIN cards', NEW j \in DOMAIN cards', cards'[i].id = cards'[j].id
          PROVE  i = j
      BY <1>1, <1>9, <2>2 DEF Matched
    <2>3. ASSUME NEW i \in DOMAIN cards' PROVE cards'[i].id >= -Len(cards')
      BY <1>1, <1>9, <2>3 DEF Matched, l
    <2>4. ASSUME NEW i \in DOMAIN cards'
          PROVE  \/ cards'[i].id \in 1..Announced' /\ cards'[i] = Shown'[cards'[i].id]
                 \/ \E p \in DOMAIN pending' : cards'[i].id = pending'[p].temp
      <3>1. CASE cards[i].id \in 1..Announced /\ cards[i] = Shown[cards[i].id]
        <4>1. cards[i].id \in 1..n /\ cards[i].id \in 1..Before
          BY <1>2, <3>1 DEF n
        <4>2. cards'[i] = Shown'[cards[i].id]
          <5>1. i \in 1..l
            BY <1>9, <2>4
          <5>2. CASE cards[i].id = n
            <6>1. Shown'[n] = [Shown[n] EXCEPT !.status = status]
              BY <1>2, <1>8
            <6> QED
              BY <1>9, <3>1, <5>1, <5>2, <6>1
          <5>3. CASE cards[i].id # n
            <6>1. Shown'[cards[i].id] = Shown[cards[i].id]
              BY <1>8, <4>1, <5>3
            <6> QED
              BY <1>9, <3>1, <5>1, <5>3, <6>1
          <5> QED
            BY <5>2, <5>3
        <4> QED
          BY <1>5, <1>9, <2>4, <4>1, <4>2
      <3>2. CASE \E p \in DOMAIN pending : cards[i].id = pending[p].temp
        BY <1>0, <1>9, <2>4, <3>2
      <3> QED
        BY <1>1, <1>9, <2>4, <3>1, <3>2 DEF Matched
    <2>5. ASSUME NEW p \in DOMAIN pending' PROVE \E i \in DOMAIN cards' : cards'[i].id = pending'[p].temp
      <3>1. PICK i \in DOMAIN cards : cards[i].id = pending[p].temp
        BY <1>0, <1>1, <2>5 DEF Matched
      <3> QED
        BY <1>0, <1>9, <3>1
    <2>6. ASSUME NEW j \in 1..Announced' PROVE \E i \in DOMAIN cards' : cards'[i].id = j
      <3>1. PICK i \in DOMAIN cards : cards[i].id = j
        BY <1>1, <1>5, <2>6 DEF Matched, n
      <3> QED
        BY <1>9, <3>1
    <2> QED
      BY <2>1, <2>2, <2>3, <2>4, <2>5, <2>6 DEF Matched
  <1>15. inOrder' => InOrder'
    <2> SUFFICES ASSUME inOrder PROVE InOrder'
      BY <1>0
    <2>0. InOrder
      BY <1>1
    <2>1. l = n + Len(pending) /\ Len(pending) \in Nat /\ DOMAIN pending = 1..Len(pending)
      BY <1>1 DEF Matched, l, n, CardsType
    <2>2. ASSUME NEW i \in 1..Announced' PROVE cards'[i].id = i
      <3>1. i \in 1..n /\ i \in 1..l
        BY <1>2, <1>5, <2>1
      <3> QED
        BY <1>9, <2>0, <3>1 DEF InOrder, n
    <2>3. ASSUME NEW p \in DOMAIN pending' PROVE cards'[Announced'+p].id = pending'[p].temp
      <3>1. p \in 1..Len(pending) /\ n + p \in 1..l
        BY <1>0, <1>2, <2>1
      <3> QED
        BY <1>0, <1>5, <1>9, <2>0, <2>1, <3>1 DEF InOrder, n
    <2>4. CASE over
      <3>1. DOMAIN calls' = {} /\ ~(answering' > 0)
        BY <1>0, <2>4
      <3>2. DOMAIN pending' = {}
        BY <1>0, <1>10, <2>4
      <3> QED
        BY <2>2, <2>3, <3>1, <3>2 DEF InOrder
    <2>5. CASE ~over
      BY <1>0, <2>0, <2>2, <2>3, <2>5 DEF InOrder
    <2> QED
      BY <2>4, <2>5
  <1> QED
    BY <1>11, <1>12, <1>13, <1>14, <1>15 DEF CardsInv

\* The entry at p taken out of a sequence.
LEMMA Removed ==
  ASSUME NEW S, NEW s \in Seq(S), NEW p \in 1..Len(s)
  PROVE  /\ RemoveAt(s, p) \in Seq(S) /\ Len(RemoveAt(s, p)) = Len(s) - 1
         /\ \A q \in 1..Len(s) - 1 : RemoveAt(s, p)[q] = s[IF q < p THEN q ELSE q + 1]
  <1> DEFINE a == SubSeq(s, 1, p - 1)
             b == SubSeq(s, p + 1, Len(s))
             r == a \o b
             n == Len(s)
  <1>0. n \in Nat /\ p \in 1..n
    OBVIOUS
  <1>1. a \in Seq(S) /\ Len(a) = p - 1 /\ \A q \in 1..p-1 : a[q] = s[q]
    OBVIOUS
  <1>2. b \in Seq(S) /\ Len(b) = n - p /\ \A q \in 1..n-p : b[q] = s[p+q]
    OBVIOUS
  <1>3. RemoveAt(s, p) = r
    BY DEF RemoveAt
  <1> HIDE DEF a, b, n
  <1>4. /\ r \in Seq(S) /\ Len(r) = Len(a) + Len(b)
        /\ \A q \in 1..Len(a) : r[q] = a[q]
        /\ \A q \in 1..Len(b) : r[Len(a)+q] = b[q]
    <2>1. /\ a \o b \in Seq(S) /\ Len(a \o b) = Len(a) + Len(b)
          /\ \A q \in 1..Len(a) : (a \o b)[q] = a[q]
          /\ \A q \in 1..Len(b) : (a \o b)[Len(a)+q] = b[q]
      <3>1. a \in Seq(S) /\ b \in Seq(S)
        BY <1>1, <1>2
      <3> QED
        BY ONLY <3>1, Joined
    <2> QED
      BY ONLY <2>1
  <1> HIDE DEF r
  <1>5. Len(r) = n - 1
    BY <1>0, <1>1, <1>2, <1>4
  <1>6. ASSUME NEW q \in 1..n-1 PROVE r[q] = s[IF q < p THEN q ELSE q + 1]
    <2>1. CASE q < p
      <3>1. q \in 1..p-1
        BY <1>0, <2>1
      <3> QED
        BY <1>1, <1>4, <2>1, <3>1
    <2>2. CASE ~(q < p)
      <3>1. q - (p - 1) \in 1..n-p /\ (p - 1) + (q - (p - 1)) = q /\ p + (q - (p - 1)) = q + 1
        BY <1>0, <2>2
      <3>2. r[(p - 1) + (q - (p - 1))] = s[p + (q - (p - 1))]
        BY <1>1, <1>2, <1>4, <3>1
      <3> QED
        BY <2>2, <3>1, <3>2
    <2> QED
      BY <2>1, <2>2
  <1> QED
    BY <1>3, <1>4, <1>5, <1>6 DEF n

\* Increasing indices that are all of 1..n are 1, 2, ..., n.
LEMMA CountedOut ==
  ASSUME NEW n \in Nat, NEW w \in Nat, NEW f,
         \A p \in 1..w : f[p] \in 1..n,
         \A i \in 1..n : \E p \in 1..w : f[p] = i,
         \A p, q \in 1..w : p < q => f[p] < f[q]
  PROVE  \A p \in 1..w : p <= n => f[p] = p
  <1> DEFINE T == {p \in Nat : p \in 1..w /\ p <= n => f[p] = p}
  <1>1. ASSUME NEW p \in Nat, \A q \in 0..p-1 : q \in T PROVE p \in T
    <2> SUFFICES ASSUME p \in 1..w, p <= n PROVE f[p] = p
      OBVIOUS
    <2>1. \A q \in 1..p-1 : f[q] = q
      <3> SUFFICES ASSUME NEW q \in 1..p-1 PROVE f[q] = q
        OBVIOUS
      <3>1. q \in T /\ q \in 1..w /\ q <= n
        BY <1>1
      <3> QED
        BY <3>1
    <2>2. PICK r \in 1..w : f[r] = p
      OBVIOUS
    <2>3. ~(r < p)
      <3>1. r < p => r \in 1..p-1
        OBVIOUS
      <3> QED
        BY <2>1, <2>2, <3>1
    <2>4. ~(r > p)
      <3> SUFFICES ASSUME r > p PROVE FALSE
        OBVIOUS
      <3>1. f[p] < p /\ f[p] \in 1..n
        BY <2>2
      <3> DEFINE q == f[p]
      <3>2. q \in 1..p-1 /\ q \in 1..w
        BY <3>1
      <3>3. f[q] = q
        BY <2>1, <3>2
      <3>4. f[q] < f[p]
        BY <3>2
      <3> QED
        BY <3>1, <3>3, <3>4
    <2>5. r = p
      BY <2>3, <2>4
    <2> QED
      BY <2>2, <2>5
  <1> HIDE DEF T
  <1>2. Nat \subseteq T
    BY <1>1, StrongInduction
  <1> QED
    BY <1>2 DEF T

\* The cards a reload would show, when a call is announced: the message of the
\* round is stored with the first of its calls.
LEMMA AnnounceStored ==
  ASSUME provided, CardsInv, Announce
  PROVE  /\ messages' \in Seq(Stored) /\ Base' = Base /\ Announced' = Announced + 1
         /\ Announced + 1 <= Before' /\ Before <= Before' /\ Before' \in Nat
         /\ \A j \in 1..Announced : Shown'[j] = Shown[j]
         /\ Shown'[Announced+1] =
              Card(Announced + 1, ParseArgs(calls[answering+1]), "pending")
         /\ StoredInv'
  <1> DEFINE n == Announced
             a == answering + 1
             c == [i \in DOMAIN calls |-> [role |-> "call", id |-> CallId(i), args |-> calls[i]]]
             N == Len(calls)
             b == Base
  <1>1. CardsType /\ StoredInv
    BY DEF CardsInv
  <1>0. /\ ~open /\ answering < N /\ answering' = a /\ open' = TRUE /\ calls' = calls
        /\ messages' = IF answering > 0 THEN messages ELSE messages \o c
    BY DEF Announce
  <1>2. /\ n \in Nat /\ b \in Nat /\ Before \in Nat /\ N \in Nat /\ answering \in 0..N /\ a \in 1..N
        /\ n = b + answering /\ Before = b + (IF answering > 0 THEN N ELSE 0)
        /\ calls \in Seq(Arguments) /\ messages \in Seq(Stored)
    BY <1>0, <1>1, Numbers DEF CardsType
  <1>3. /\ Shown \in Seq(CardSet) /\ Len(Shown) = Before
        /\ \A j \in 1..Before : Shown[j].id = j
        /\ \A j \in 1..n : Shown[j].status # "pending"
        /\ answering > 0 => \A i \in a..N : Shown[b+i] = Card(b+i, ParseArgs(calls[i]), "pending")
    BY <1>0, <1>1 DEF StoredInv
  <1>4. CASE answering > 0
    <2>1. messages' = messages /\ Before' = Before /\ Shown' = Shown
      BY <1>0, <1>4 DEF Before, Shown
    <2>2. Base' = b /\ Announced' = n + 1
      <3>1. a > 0 /\ Base' = Before' - (IF answering' > 0 THEN Len(calls') ELSE 0)
            /\ Announced' = Before' - (IF answering' > 0 THEN Len(calls') ELSE 0) + answering'
        BY <1>2 DEF Base, Announced, Earlier
      <3> HIDE DEF b, n
      <3> QED
        BY <1>0, <1>2, <1>4, <2>1, <3>1
    <2> HIDE DEF n, b, N
    <2>3. n + 1 <= Before /\ b + a = n + 1 /\ a \in a..N
      BY <1>0, <1>2, <1>4
    <2>4. Shown'[n+1] = Card(n + 1, ParseArgs(calls[a]), "pending")
      BY <1>3, <1>4, <2>1, <2>3
    <2>5. Shown'[n+1].status = "pending"
      BY <2>4 DEF Card
    <2>6. \A j \in 1..n+1 : Shown'[j].status = "pending" <=> j = n + 1
      BY <1>2, <1>3, <2>1, <2>5
    <2>7. \A i \in a+1..N : Shown'[b+i] = Card(b+i, ParseArgs(calls[i]), "pending")
      BY <1>2, <1>3, <1>4, <2>1
    <2>8. StoredInv'
      BY <1>0, <1>3, <2>1, <2>2, <2>6, <2>7 DEF StoredInv, N
    <2> QED
      BY <1>2, <2>1, <2>2, <2>3, <2>4, <2>8 DEF n, b, a
  <1>5. CASE answering = 0
    <2>1. messages' = messages \o c /\ n = b /\ b = Before /\ a = 1
      BY <1>0, <1>2, <1>5
    <2>2. /\ c \in Seq(CallMessages) /\ Len(c) = N
          /\ \A i \in 1..N : c[i].id = b + i /\ c[i].args = calls[i]
      <3>1. \A i \in 1..N : CallId(i) = b + i
        BY <1>2, <1>5, <2>1 DEF CallId, Earlier
      <3>2. \A i \in 1..N : calls[i] \in Arguments
        BY <1>2
      <3> HIDE DEF b
      <3>3. \A i \in 1..N : [role |-> "call", id |-> CallId(i), args |-> calls[i]] \in CallMessages
        BY <1>2, <3>1, <3>2 DEF CallMessages
      <3>4. DOMAIN calls = 1..N
        BY <1>2
      <3>5. c = [i \in 1..N |-> [role |-> "call", id |-> CallId(i), args |-> calls[i]]]
        BY <3>4
      <3> HIDE DEF c, N
      <3>6. c \in [1..N -> CallMessages]
        BY <3>3, <3>5
      <3>7. c \in Seq(CallMessages) /\ Len(c) = N
        BY <1>2, <3>6
      <3> QED
        BY <3>1, <3>5, <3>7
    <2> HIDE DEF c
    <2>3. Before' = b + N
      <3>1. Cardinality(CallsIn(messages \o c)) = Cardinality(CallsIn(messages)) + Len(c)
        BY <1>2, <2>2, CountCalls
      <3>2. Before' = Cardinality(CallsIn(messages'))  /\ Before = Cardinality(CallsIn(messages))
        BY DEF Before, CallsIn
      <3> QED
        BY <2>1, <2>2, <3>1, <3>2
    <2>4. Base' = b /\ Announced' = n + 1
      <3>1. Base' = Before' - (IF answering' > 0 THEN Len(calls') ELSE 0)
            /\ Announced' = Before' - (IF answering' > 0 THEN Len(calls') ELSE 0) + answering'
        BY DEF Base, Announced, Earlier
      <3> HIDE DEF b, n
      <3> QED
        <4>1. answering' = 1 /\ calls' = calls /\ n = b
          BY <1>0, <2>1
        <4>2. (IF answering' > 0 THEN Len(calls') ELSE 0) = N
          BY <4>1
        <4> HIDE DEF N
        <4>3. Base' = Before' - N + 0 /\ Announced' = Before' - N + 1
          BY <3>1, <4>1, <4>2
        <4>4. b \in Nat /\ N \in Nat
          BY <1>2
        <4> QED
          BY <2>3, <4>1, <4>3, <4>4
    <2> DEFINE new == Shown'
               old == Shown
    <2>5. /\ new \in Seq(CardSet) /\ Len(new) = Len(old) + N
          /\ \A i \in 1..Len(old) : new[i] = old[i]
          /\ \A i \in 1..N : new[Len(old)+i] = Card(c[i].id, ParseArgs(c[i].args), "pending")
      <3>1. TakenItems(messages) \in Seq(CardSet)
        BY <1>3 DEF Shown
      <3>2. Shown' = TakenItems(messages \o c)
        BY <2>1 DEF Shown
      <3> QED
        BY <1>2, <2>2, <3>1, <3>2, AddCalls DEF Shown
    <2>6. Len(old) = b /\ Len(new) = b + N
      BY <1>3, <2>1, <2>5
    <2> HIDE DEF new, old, n, b, N
    <2>7. \A i \in 1..N : new[b+i] = Card(b+i, ParseArgs(calls[i]), "pending")
      BY <2>2, <2>5, <2>6
    <2>8. \A j \in 1..b : new[j] = old[j] /\ old[j].id = j /\ old[j].status # "pending"
      BY <1>3, <2>1, <2>5, <2>6 DEF old
    <2>9. \A j \in 1..b+N : new[j].id = j
      <3> SUFFICES ASSUME NEW j \in 1..b+N PROVE new[j].id = j
        OBVIOUS
      <3>1. CASE j \in 1..b
        BY <2>8, <3>1
      <3>2. CASE j \notin 1..b
        <4>1. j - b \in 1..N /\ b + (j - b) = j
          BY <1>2, <3>2
        <4>2. new[j] = Card(j, ParseArgs(calls[j-b]), "pending")
          BY <2>7, <4>1
        <4> QED
          BY <4>2 DEF Card
      <3> QED
        BY <3>1, <3>2
    <2>10. new[n+1] = Card(n + 1, ParseArgs(calls[a]), "pending") /\ new[n+1].status = "pending"
      <3>1. new[n+1] = Card(n + 1, ParseArgs(calls[a]), "pending")
        BY <1>2, <2>1, <2>7
      <3> QED
        BY <3>1 DEF Card
    <2>11. \A j \in 1..n+1 : new[j].status = "pending" <=> j = n + 1
      BY <1>2, <2>1, <2>8, <2>10
    <2>12. \A i \in a+1..N : new[b+i] = Card(b+i, ParseArgs(calls[i]), "pending")
      BY <1>2, <2>7
    <2>13. StoredInv'
      BY <1>0, <2>3, <2>4, <2>5, <2>6, <2>9, <2>11, <2>12 DEF StoredInv, new, N
    <2>14. messages' \in Seq(Stored)
      <3>1. c \in Seq(Stored)
        <4>1. \A i \in 1..Len(c) : c[i] \in Stored
          BY <2>2 DEF Stored
        <4> QED
          BY <2>2, <4>1
      <3> QED
        BY <1>2, <2>1, <3>1
    <2>15. n + 1 <= b + N /\ Before <= b + N /\ b + N \in Nat
      BY <1>0, <1>2, <2>1
    <2>16. \A j \in 1..n : new[j] = old[j]
      BY <2>1, <2>8
    <2> QED
      BY <2>3, <2>4, <2>10, <2>13, <2>14, <2>15, <2>16 DEF n, b, a, new, old
  <1> QED
    BY <1>2, <1>4, <1>5

\* When the round is over no more cards wait than calls are to be announced.
LEMMA EnoughCalls ==
  ASSUME CardsInv, Announce
  PROVE  Len(pending) \in Nat /\ Len(pending) <= Len(calls) - answering
  <1>1. CardsType /\ PendingInv
    BY DEF CardsInv
  <1>2. Len(pending) \in Nat /\ Len(calls) \in Nat /\ answering \in 0..Len(calls)
    BY <1>1 DEF CardsType
  <1>3. CASE answering > 0
    BY <1>1, <1>2, <1>3 DEF PendingInv
  <1>4. CASE answering = 0
    <2> DEFINE N == Len(calls)
    <2>1. begun \in SUBSET (1..N) /\ N \in Nat /\ 1 \in Int /\ N \in Int
      BY <1>1 DEF CardsType
    <2> HIDE DEF N
    <2>2. IsFiniteSet(1..N) /\ Cardinality(1..N) = IF 1 > N THEN 0 ELSE N - 1 + 1
      BY <2>1, FS_Interval
    <2>3. Cardinality(begun) <= Cardinality(1..N)
      BY <2>1, <2>2, FS_Subset
    <2>4. Cardinality(1..N) = N
      BY <2>1, <2>2
    <2>5. Len(pending) = Cardinality(begun)
      BY <1>1, <1>4 DEF PendingInv
    <2> QED
      BY <1>2, <1>4, <2>3, <2>4, <2>5 DEF N
  <1> QED
    BY <1>2, <1>3, <1>4

\* Arguments that came in order wait in the order of the calls, all of them.
LEMMA CountedDown ==
  ASSUME CardsInv, Announce, inOrder
  PROVE  /\ Len(pending) = Len(calls) - answering
         /\ \A p \in 1..Len(pending) : pending[p].index = answering + p
  <1> DEFINE N == Len(calls)
             w == Len(pending)
             f == [p \in 1..w |-> pending[p].index]
  <1>1. CardsType /\ PendingInv /\ InOrder
    BY DEF CardsInv
  <1>2. /\ w \in Nat /\ N \in Nat /\ answering \in 0..N /\ DOMAIN pending = 1..w
        /\ DOMAIN calls = 1..N /\ begun \subseteq 1..N
    BY <1>1 DEF CardsType
  <1>3. CASE answering > 0
    BY <1>1, <1>2, <1>3 DEF InOrder
  <1>4. CASE answering = 0
    <2>1. begun = 1..N
      <3>1. \A i \in 1..N : calls[i] = "none" \/ i \in begun
        BY <1>2 DEF Announce
      <3>2. \A i \in 1..N : calls[i] # "none"
        BY <1>1, <1>2 DEF InOrder
      <3> QED
        BY <1>2, <3>1, <3>2
    <2>2. begun = {pending[p].index : p \in 1..w} /\ w = Cardinality(begun)
      BY <1>1, <1>2, <1>4 DEF PendingInv
    <2> HIDE DEF N, w
    <2>3. w = N
      <3>1. Cardinality(1..N) = IF 1 > N THEN 0 ELSE N - 1 + 1
        <4>1. 1 \in Int /\ N \in Int
          BY <1>2
        <4> QED
          BY <4>1, FS_Interval
      <3>2. Cardinality(1..N) = N
        BY <1>2, <3>1
      <3> QED
        BY <2>1, <2>2, <3>2
    <2>4. /\ \A p \in 1..w : f[p] \in 1..N
          /\ \A i \in 1..N : \E p \in 1..w : f[p] = i
      BY <2>1, <2>2
    <2>5. \A p, q \in 1..w : p < q => f[p] < f[q]
      BY <1>1, <1>2 DEF InOrder
    <2>6. \A p \in 1..w : p <= N => f[p] = p
      <3> HIDE DEF f
      <3> QED
        BY <1>2, <2>4, <2>5, CountedOut
    <2>7. \A p \in 1..w : pending[p].index = answering + p
      <3> SUFFICES ASSUME NEW p \in 1..w PROVE pending[p].index = answering + p
        OBVIOUS
      <3>1. p <= N /\ f[p] = pending[p].index /\ answering + p = p
        BY <1>2, <1>4, <2>3
      <3> QED
        BY <2>6, <3>1
    <2>8. w = N - answering
      BY <1>2, <1>4, <2>3
    <2> QED
      BY <2>7, <2>8 DEF w, N
  <1>5. answering > 0 \/ answering = 0
    BY <1>2
  <1> QED
    BY <1>3, <1>4, <1>5

\* The call that is announced.
LEMMA NextCall ==
  ASSUME provided, CardsInv, Announce
  PROVE  /\ Announced \in Nat /\ Len(calls) \in Nat /\ answering \in Nat
         /\ answering + 1 \in 1..Len(calls) /\ calls[answering+1] \in Arguments
         /\ ToolCall(Announced + 1, ParseArgs(calls[answering+1]))
  <1> DEFINE n == Announced
  <1>1. CardsType
    BY DEF CardsInv
  <1>2. /\ n \in Nat /\ Len(calls) \in Nat /\ answering \in Nat /\ answering + 1 \in 1..Len(calls)
        /\ calls[answering+1] \in Arguments /\ n = Base + answering
    <2>1. answering \in Nat /\ answering < Len(calls) /\ n \in Nat /\ n = Base + answering /\ Len(calls) \in Nat
      BY <1>1, Numbers DEF Announce
    <2>2. calls \in Seq(Arguments)
      BY <1>1 DEF CardsType
    <2> QED
      BY <2>1, <2>2
  <1>3. answering' = answering + 1
    BY DEF Announce
  <1>4. CallId(answering') = n + 1
    <2>1. CallId(answering') = Base + answering'
      BY DEF CallId, Base
    <2> QED
      BY <1>1, <1>2, <1>3, <2>1 DEF CardsType
  <1>5. ToolCall(CallId(answering'), ParseArgs(calls[answering']))
    BY DEF Announce
  <1> QED
    BY <1>2, <1>3, <1>4, <1>5

\* A call is announced and no card waits: it gets a new one.
LEMMA AnnounceNew ==
  ASSUME provided, CardsInv, Announce, pending = <<>>
  PROVE  CardsInv'
  <1> DEFINE n == Announced
             card == Card(n + 1, ParseArgs(calls[answering+1]), "pending")
             l == Len(cards)
  <1>1. CardsType /\ StoredInv /\ PendingInv /\ Matched /\ (inOrder => InOrder)
    BY DEF CardsInv
  <1>2. /\ messages' \in Seq(Stored) /\ Base' = Base /\ Announced' = n + 1
        /\ \A j \in 1..n : Shown'[j] = Shown[j]
        /\ Shown'[n+1] = card
        /\ StoredInv'
    BY AnnounceStored
  <1>3. /\ n \in Nat /\ Len(calls) \in Nat /\ answering \in Nat /\ answering + 1 \in 1..Len(calls)
        /\ calls[answering+1] \in Arguments
    BY NextCall
  <1>0. /\ answering' = answering + 1 /\ open' = TRUE /\ calls' = calls /\ begun' = begun
        /\ inOrder' = inOrder /\ pending' = pending
        /\ cards' = Append(cards, card)
    <2>1. cards' = Append(cards, card) /\ pending' = pending
      BY NextCall DEF ToolCall
    <2> QED
      BY <2>1 DEF Announce
  <1>4. card \in CardSet /\ card.id = n + 1
    <2>1. n + 1 \in Int
      BY <1>3
    <2> QED
      BY <1>3, <2>1, CardIs
  <1> HIDE DEF card
  <1>5. /\ cards \in Seq(CardSet) /\ l \in Nat /\ DOMAIN cards = 1..l
        /\ cards' \in Seq(CardSet) /\ Len(cards') = l + 1 /\ DOMAIN cards' = 1..l+1
        /\ cards'[l+1] = card /\ \A i \in 1..l : cards'[i] = cards[i]
    BY <1>0, <1>1, <1>4 DEF CardsType
  <1>6. Len(pending) = 0 /\ DOMAIN pending = {}
    OBVIOUS
  <1>7. l = n /\ \A i \in 1..l : cards[i].id \in 1..n /\ cards[i] = Shown[cards[i].id]
    <2>1. /\ l = n + Len(pending)
          /\ \A i \in DOMAIN cards :
                \/ cards[i].id \in 1..n /\ cards[i] = Shown[cards[i].id]
                \/ \E p \in DOMAIN pending : cards[i].id = pending[p].temp
      BY <1>1 DEF Matched
    <2> HIDE DEF n, l
    <2> QED
      BY <1>3, <1>5, <1>6, <2>1
  <1> HIDE DEF n, l
  <1>8. CardsType'
    <2>1. answering' \in 0..Len(calls') /\ answering' > 0
      BY <1>0, <1>3
    <2> QED
      BY <1>0, <1>1, <1>2, <1>5, <2>1 DEF CardsType
  <1>9. PendingInv'
    <2>1. Len(pending') <= Len(calls') - answering' /\ answering' # 0
      BY <1>0, <1>3, <1>6
    <2> QED
      BY <1>0, <1>6, <2>1 DEF PendingInv
  <1>10. Matched'
    <2>1. Len(cards') = Announced' + Len(pending')
      BY <1>0, <1>2, <1>3, <1>5, <1>6, <1>7
    <2>2. ASSUME NEW i \in DOMAIN cards', NEW j \in DOMAIN cards', cards'[i].id = cards'[j].id
          PROVE  i = j
      <3>1. CASE i \in 1..l /\ j \in 1..l
        BY <1>1, <1>5, <2>2, <3>1 DEF Matched
      <3>2. CASE i = l + 1 \/ j = l + 1
        BY <1>3, <1>4, <1>5, <1>7, <2>2, <3>2
      <3> QED
        BY <1>5, <2>2, <3>1, <3>2
    <2>3. ASSUME NEW i \in DOMAIN cards'
          PROVE  /\ cards'[i].id >= -Len(cards')
                 /\ cards'[i].id \in 1..Announced' /\ cards'[i] = Shown'[cards'[i].id]
      <3>1. CASE i \in 1..l
        <4>1. cards[i].id \in 1..n /\ cards[i] = Shown[cards[i].id] /\ cards'[i] = cards[i]
          BY <1>5, <1>7, <3>1
        <4>2. Shown'[cards[i].id] = Shown[cards[i].id]
          BY <1>2, <4>1
        <4> QED
          BY <1>2, <1>3, <1>5, <4>1, <4>2
      <3>2. CASE i = l + 1
        BY <1>2, <1>3, <1>4, <1>5, <3>2
      <3> QED
        BY <1>5, <2>3, <3>1, <3>2
    <2>4. ASSUME NEW j \in 1..Announced' PROVE \E i \in DOMAIN cards' : cards'[i].id = j
      <3>1. CASE j \in 1..n
        <4>1. PICK i \in 1..l : cards[i].id = j
          BY <1>1, <1>5, <3>1 DEF Matched, n
        <4>2. i \in DOMAIN cards' /\ cards'[i].id = j
          BY <1>5, <4>1
        <4> QED
          BY <4>2
      <3>2. CASE j = n + 1
        <4>1. l + 1 \in DOMAIN cards' /\ cards'[l+1].id = j
          BY <1>4, <1>5, <3>2
        <4> QED
          BY <4>1
      <3> QED
        BY <1>2, <1>3, <2>4, <3>1, <3>2
    <2>5. DOMAIN pending' = {}
      BY <1>0, <1>6
    <2> QED
      BY <2>1, <2>2, <2>3, <2>4, <2>5 DEF Matched
  <1>11. ~inOrder
    <2> SUFFICES ASSUME inOrder PROVE FALSE
      OBVIOUS
    <2>1. Len(pending) = Len(calls) - answering
      BY CountedDown
    <2> QED
      BY <1>3, <1>6, <2>1
  <1> QED
    BY <1>0, <1>2, <1>8, <1>9, <1>10, <1>11 DEF CardsInv

\* A call is announced and takes the card of an entry that waits.
LEMMA AnnounceFound ==
  ASSUME provided, CardsInv, Announce, pending # <<>>
  PROVE  CardsInv'
  <1> DEFINE n == Announced
             args == calls[answering+1]
             card == Card(n + 1, ParseArgs(args), "pending")
             l == Len(cards)
             w == Len(pending)
             same == {q \in DOMAIN pending : ParseArgs(pending[q].args) = ParseArgs(args)}
             p == IF same = {} THEN 1 ELSE Min(same)
             temp == pending[p].temp
             r(q) == IF q < p THEN q ELSE q + 1
  <1>1. CardsType /\ StoredInv /\ PendingInv /\ Matched /\ (inOrder => InOrder)
    BY DEF CardsInv
  <1>2. /\ messages' \in Seq(Stored) /\ Base' = Base /\ Announced' = n + 1
        /\ \A j \in 1..n : Shown'[j] = Shown[j]
        /\ Shown'[n+1] = card
        /\ StoredInv'
    BY AnnounceStored
  <1>3. /\ n \in Nat /\ Len(calls) \in Nat /\ answering \in Nat /\ answering + 1 \in 1..Len(calls)
        /\ args \in Arguments
    BY NextCall
  <1>4. card \in CardSet /\ card.id = n + 1
    <2>1. n + 1 \in Int
      BY <1>3
    <2> QED
      BY <1>3, <2>1, CardIs
  <1>5. /\ cards \in Seq(CardSet) /\ l \in Nat /\ DOMAIN cards = 1..l
        /\ pending \in Seq(Opened) /\ w \in Nat /\ w >= 1 /\ DOMAIN pending = 1..w
    BY <1>1 DEF CardsType
  <1>6. p \in 1..w
    <2>1. CASE same = {}
      BY <1>5, <2>1
    <2>2. CASE same # {}
      <3>1. same \in SUBSET Nat
        BY <1>5
      <3> HIDE DEF same
      <3>2. Min(same) \in same
        BY <2>2, <3>1, MinOfNats
      <3> QED
        BY <1>5, <2>2, <3>2 DEF same
    <2> QED
      BY <2>1, <2>2
  <1>0. /\ answering' = answering + 1 /\ open' = TRUE /\ calls' = calls /\ begun' = begun
        /\ inOrder' = inOrder /\ pending' = RemoveAt(pending, p)
        /\ cards' = [i \in DOMAIN cards |-> IF cards[i].id = temp THEN card ELSE cards[i]]
    <2>1. ToolCall(n + 1, ParseArgs(args))
      BY NextCall
    <2>2. cards' = PatchTool(cards, temp, card) /\ pending' = Unpaired(p)
      BY <2>1 DEF ToolCall
    <2> QED
      BY <2>2 DEF Announce, PatchTool, Unpaired
  <1> HIDE DEF card
  <1>a. inOrder => /\ w = Len(calls) - answering /\ p = 1
                   /\ \A q \in 1..w : pending[q].index = answering + q
    <2> SUFFICES ASSUME inOrder
                 PROVE  w = Len(calls) - answering /\ p = 1
                        /\ \A q \in 1..w : pending[q].index = answering + q
      OBVIOUS
    <2>1. w = Len(calls) - answering /\ \A q \in 1..w : pending[q].index = answering + q
      BY CountedDown
    <2>2. pending[1].args = args
      <3>1. 1 \in DOMAIN pending /\ pending[1].index = answering + 1
        BY <1>5, <2>1
      <3> QED
        BY <1>1, <3>1 DEF PendingInv
    <2>3. 1 \in same /\ same \in SUBSET Nat /\ \A q \in same : 1 <= q
      BY <1>5, <2>2
    <2>4. Min(same) = 1
      <3> HIDE DEF same
      <3> QED
        BY <2>3, MinIs
    <2> QED
      BY <2>1, <2>4
  <1> HIDE DEF p, same
  <1>7. /\ pending' \in Seq(Opened) /\ Len(pending') = w - 1 /\ DOMAIN pending' = 1..w-1
        /\ \A q \in 1..w-1 : pending'[q] = pending[r(q)]
    <2>1. /\ RemoveAt(pending, p) \in Seq(Opened) /\ Len(RemoveAt(pending, p)) = w - 1
          /\ \A q \in 1..w-1 : RemoveAt(pending, p)[q] = pending[r(q)]
      BY <1>5, <1>6, Removed
    <2> QED
      BY <1>0, <1>5, <2>1
  <1>8. /\ \A q \in 1..w-1 : r(q) \in 1..w /\ r(q) # p
        /\ \A q1, q2 \in 1..w-1 : q1 < q2 => r(q1) < r(q2)
        /\ \A q \in 1..w : q # p => \E k \in 1..w-1 : r(k) = q
    <2>1. /\ \A q \in 1..w-1 : r(q) \in 1..w /\ r(q) # p
          /\ \A q1, q2 \in 1..w-1 : q1 < q2 => r(q1) < r(q2)
      BY <1>5, <1>6
    <2>2. ASSUME NEW q \in 1..w, q # p PROVE \E k \in 1..w-1 : r(k) = q
      <3>1. CASE q < p
        <4>1. q \in 1..w-1 /\ r(q) = q
          BY <1>5, <1>6, <3>1
        <4> QED
          BY <4>1
      <3>2. CASE q > p
        <4>1. q - 1 \in 1..w-1 /\ r(q-1) = q
          BY <1>5, <1>6, <3>2
        <4> QED
          BY <4>1
      <3> QED
        BY <1>5, <1>6, <2>2, <3>1, <3>2
    <2> QED
      BY <2>1, <2>2
  <1>9. /\ temp < 0 /\ temp \in Int
        /\ \A q \in 1..w-1 : pending[r(q)].temp # temp
    <2>1. pending[p] \in Opened
      BY <1>5, <1>6
    <2>2. temp < 0
      BY <1>1, <1>5, <1>6 DEF PendingInv
    <2>3. ASSUME NEW q \in 1..w-1 PROVE pending[r(q)].temp # temp
      <3>1. r(q) \in DOMAIN pending /\ p \in DOMAIN pending /\ r(q) # p
        BY <1>5, <1>6, <1>8
      <3> HIDE DEF r
      <3> QED
        BY <1>1, <3>1 DEF PendingInv
    <2> QED
      BY <2>1, <2>2, <2>3 DEF Opened
  <1>10. PICK c \in 1..l : cards[c].id = temp
    BY <1>1, <1>5, <1>6 DEF Matched
  <1> HIDE DEF r, w, l, temp, args
  <1>11. /\ cards' \in Seq(CardSet) /\ Len(cards') = l /\ DOMAIN cards' = 1..l
         /\ cards'[c] = card
         /\ \A i \in 1..l : i # c => cards'[i] = cards[i] /\ cards[i].id # temp
         /\ \A i \in 1..l : cards[i].id \in Int
    <2>0. \A i \in 1..l : cards[i].id = temp <=> i = c
      BY <1>1, <1>5, <1>10 DEF Matched
    <2>1. cards' = [i \in 1..l |-> IF i = c THEN card ELSE cards[i]]
      BY <1>0, <1>5, <2>0
    <2>2. \A i \in 1..l : cards[i] \in CardSet
      BY <1>5
    <2>3. cards' \in [1..l -> CardSet]
      BY <1>4, <2>1, <2>2
    <2>4. cards' \in Seq(CardSet) /\ Len(cards') = l /\ DOMAIN cards' = 1..l
      BY <1>5, <2>3
    <2>5. \A i \in 1..l : cards[i].id \in Int
      BY <2>2 DEF CardSet
    <2> QED
      BY <2>0, <2>1, <2>4, <2>5
  <1> HIDE DEF n
  <1>12. l = n + w
    BY <1>1 DEF Matched, l, n, w
  <1>13. CardsType'
    <2>1. answering' \in 0..Len(calls') /\ answering' > 0
      BY <1>0, <1>3
    <2> QED
      BY <1>0, <1>1, <1>2, <1>7, <1>11, <2>1 DEF CardsType
  <1>14. PendingInv'
    <2>1. Len(pending') <= Len(calls') - answering' /\ answering' # 0
      <3>1. w <= Len(calls) - answering
        BY EnoughCalls DEF w
      <3> QED
        BY <1>0, <1>3, <1>5, <1>7, <3>1
    <2>2. ASSUME NEW q \in DOMAIN pending'
          PROVE  pending'[q].index \in begun' /\ pending'[q].args = calls'[pending'[q].index]
                 /\ pending'[q].temp < 0
      <3>1. r(q) \in DOMAIN pending /\ pending'[q] = pending[r(q)]
        BY <1>5, <1>7, <1>8
      <3> QED
        BY <1>0, <1>1, <3>1 DEF PendingInv
    <2>3. ASSUME NEW q1 \in DOMAIN pending', NEW q2 \in DOMAIN pending', q1 # q2
          PROVE  pending'[q1].temp # pending'[q2].temp
      <3>1. /\ r(q1) \in DOMAIN pending /\ pending'[q1] = pending[r(q1)]
            /\ r(q2) \in DOMAIN pending /\ pending'[q2] = pending[r(q2)]
        BY <1>5, <1>7, <1>8
      <3>2. r(q1) # r(q2)
        <4>1. r(q1) < r(q2) \/ r(q2) < r(q1)
          BY <1>5, <1>7, <1>8, <2>3
        <4>2. r(q1) \in Int /\ r(q2) \in Int
          BY <1>5, <3>1
        <4> QED
          BY <4>1, <4>2
      <3> QED
        BY <1>1, <3>1, <3>2 DEF PendingInv
    <2> QED
      BY <2>1, <2>2, <2>3 DEF PendingInv
  <1>15. \A i \in 1..l : cards[i].id \in 1..n \/ cards[i].id < 0
    <2> SUFFICES ASSUME NEW i \in 1..l PROVE cards[i].id \in 1..n \/ cards[i].id < 0
      OBVIOUS
    <2>1. CASE cards[i].id \in 1..Announced
      BY <2>1 DEF n
    <2>2. CASE \E q \in DOMAIN pending : cards[i].id = pending[q].temp
      BY <1>1, <2>2 DEF PendingInv
    <2> QED
      BY <1>1, <1>5, <2>1, <2>2 DEF Matched
  <1>16. Matched'
    <2>1. Len(cards') = Announced' + Len(pending')
      BY <1>2, <1>3, <1>5, <1>7, <1>11, <1>12
    <2>2. ASSUME NEW i \in DOMAIN cards', NEW j \in DOMAIN cards', cards'[i].id = cards'[j].id
          PROVE  i = j
      <3>1. CASE i # c /\ j # c
        BY <1>1, <1>5, <1>11, <2>2, <3>1 DEF Matched
      <3>2. CASE i = c /\ j # c
        BY <1>3, <1>4, <1>11, <1>15, <2>2, <3>2
      <3>3. CASE i # c /\ j = c
        BY <1>3, <1>4, <1>11, <1>15, <2>2, <3>3
      <3> QED
        BY <3>1, <3>2, <3>3
    <2>3. ASSUME NEW i \in DOMAIN cards' PROVE cards'[i].id >= -Len(cards')
      <3>1. CASE i # c
        BY <1>1, <1>5, <1>11, <2>3, <3>1 DEF Matched, l
      <3>2. CASE i = c
        BY <1>3, <1>4, <1>5, <1>11, <3>2
      <3> QED
        BY <3>1, <3>2
    <2>4. ASSUME NEW i \in DOMAIN cards'
          PROVE  \/ cards'[i].id \in 1..Announced' /\ cards'[i] = Shown'[cards'[i].id]
                 \/ \E q \in DOMAIN pending' : cards'[i].id = pending'[q].temp
      <3>1. CASE i = c
        BY <1>2, <1>3, <1>4, <1>11, <3>1
      <3>2. CASE i # c
        <4>0. i \in 1..l /\ cards'[i] = cards[i] /\ cards[i].id # temp
          BY <1>11, <2>4, <3>2
        <4>1. CASE cards[i].id \in 1..Announced /\ cards[i] = Shown[cards[i].id]
          <5>1. Shown'[cards[i].id] = Shown[cards[i].id]
            BY <1>2, <4>1 DEF n
          <5>2. cards[i].id \in 1..Announced'
            BY <1>2, <1>3, <4>1 DEF n
          <5> QED
            BY <4>0, <4>1, <5>1, <5>2
        <4>2. CASE \E q \in DOMAIN pending : cards[i].id = pending[q].temp
          <5>1. PICK q \in 1..w : cards[i].id = pending[q].temp
            BY <1>5, <4>2
          <5>2. q # p
            BY <4>0, <5>1 DEF temp
          <5>3. PICK k \in 1..w-1 : r(k) = q
            BY <1>8, <5>2
          <5>4. k \in DOMAIN pending' /\ pending'[k].temp = cards'[i].id
            BY <1>7, <4>0, <5>1, <5>3
          <5> QED
            BY <5>4
        <4> QED
          BY <1>1, <1>5, <4>0, <4>1, <4>2 DEF Matched
      <3> QED
        BY <3>1, <3>2
    <2>5. ASSUME NEW q \in DOMAIN pending' PROVE \E i \in DOMAIN cards' : cards'[i].id = pending'[q].temp
      <3>1. /\ q \in 1..w-1 /\ r(q) \in DOMAIN pending /\ pending'[q] = pending[r(q)]
            /\ pending[r(q)].temp # temp
        BY <1>5, <1>7, <1>8, <1>9
      <3>2. PICK i \in 1..l : cards[i].id = pending[r(q)].temp
        BY <1>1, <1>5, <3>1 DEF Matched
      <3>3. i # c
        BY <1>10, <3>1, <3>2
      <3>4. i \in DOMAIN cards' /\ cards'[i].id = pending'[q].temp
        BY <1>11, <3>1, <3>2, <3>3
      <3> QED
        BY <3>4
    <2>6. ASSUME NEW j \in 1..Announced' PROVE \E i \in DOMAIN cards' : cards'[i].id = j
      <3>1. CASE j \in 1..n
        <4>1. PICK i \in 1..l : cards[i].id = j
          BY <1>1, <1>5, <3>1 DEF Matched, n
        <4>2. i # c
          BY <1>9, <1>10, <3>1, <4>1
        <4>3. i \in DOMAIN cards' /\ cards'[i].id = j
          BY <1>11, <4>1, <4>2
        <4> QED
          BY <4>3
      <3>2. CASE j = n + 1
        <4>1. c \in DOMAIN cards' /\ cards'[c].id = j
          BY <1>4, <1>10, <1>11, <3>2
        <4> QED
          BY <4>1
      <3> QED
        BY <1>2, <1>3, <2>6, <3>1, <3>2
    <2> QED
      BY <2>1, <2>2, <2>3, <2>4, <2>5, <2>6 DEF Matched
  <1>17. inOrder' => InOrder'
    <2> SUFFICES ASSUME inOrder PROVE InOrder'
      BY <1>0
    <2>0. InOrder
      BY <1>1
    <2>1. \A q \in 1..w-1 : r(q) = q + 1
      BY <1>a DEF r
    <2>2. c = n + 1
      <3>1. 1 \in DOMAIN pending /\ n + 1 \in 1..l /\ p = 1
        BY <1>3, <1>5, <1>6, <1>12, <1>a
      <3>2. cards[n+1].id = temp
        BY <2>0, <3>1 DEF InOrder, n, temp
      <3> QED
        BY <1>11, <3>1, <3>2
    <2>3. ASSUME NEW i \in 1..Announced' PROVE cards'[i].id = i
      <3>1. CASE i \in 1..n
        <4>1. i \in 1..l /\ i # c
          BY <1>3, <1>5, <1>12, <2>2, <3>1
        <4> QED
          BY <1>11, <2>0, <3>1, <4>1 DEF InOrder, n
      <3>2. CASE i = n + 1
        BY <1>4, <1>11, <2>2, <3>2
      <3> QED
        BY <1>2, <1>3, <2>3, <3>1, <3>2
    <2>4. ASSUME NEW q \in DOMAIN pending' PROVE cards'[Announced'+q].id = pending'[q].temp
      <3>1. q \in 1..w-1 /\ q + 1 \in 1..w /\ pending'[q] = pending[q+1]
        BY <1>5, <1>7, <2>1
      <3>2. cards[n+(q+1)].id = pending[q+1].temp
        BY <1>5, <2>0, <3>1 DEF InOrder, n
      <3>3. n + (q + 1) \in 1..l /\ n + (q + 1) # c /\ Announced' + q = n + (q + 1)
        <4>1. q \in Nat /\ q >= 1 /\ q + 1 <= w /\ w \in Nat /\ n \in Nat
          BY <1>3, <1>5, <3>1
        <4>2. Announced' + q = n + (q + 1)
          BY <1>2, <4>1
        <4>3. n + (q + 1) \in 1..l
          BY <1>12, <4>1
        <4>4. n + (q + 1) # c
          BY <2>2, <4>1
        <4> QED
          BY <4>2, <4>3, <4>4
      <3> QED
        BY <1>11, <3>1, <3>2, <3>3
    <2>5. \A i \in DOMAIN calls' : calls'[i] # "none"
      BY <1>0, <2>0 DEF InOrder
    <2>6. ASSUME NEW q1 \in DOMAIN pending', NEW q2 \in DOMAIN pending', q1 < q2
          PROVE  pending'[q1].index < pending'[q2].index
      <3>1. /\ r(q1) \in DOMAIN pending /\ pending'[q1] = pending[r(q1)]
            /\ r(q2) \in DOMAIN pending /\ pending'[q2] = pending[r(q2)] /\ r(q1) < r(q2)
        BY <1>5, <1>7, <1>8, <2>6
      <3> QED
        BY <2>0, <3>1 DEF InOrder
    <2>7. Len(pending') = Len(calls') - answering'
      BY <1>0, <1>3, <1>5, <1>7, <1>a
    <2>8. ASSUME NEW q \in DOMAIN pending' PROVE pending'[q].index = answering' + q
      <3>1. q \in 1..w-1 /\ q + 1 \in 1..w /\ pending'[q] = pending[q+1]
        BY <1>5, <1>7, <2>1
      <3>2. pending[q+1].index = answering + (q + 1)
        BY <1>a, <3>1
      <3> QED
        BY <1>0, <1>3, <3>1, <3>2
    <2> QED
      BY <2>3, <2>4, <2>5, <2>6, <2>7, <2>8 DEF InOrder
  <1> QED
    BY <1>2, <1>13, <1>14, <1>16, <1>17 DEF CardsInv

LEMMA CardsStep ==
  ASSUME provided, CardsInv,
         [ViewsNext]_<<view, before, after, text, stream, buffer, got, cardsVars, log>>
  PROVE  provided' /\ CardsInv'
  <1>1. CASE UNCHANGED cardsVars
    <2>1. /\ calls' = calls /\ begun' = begun /\ answering' = answering /\ open' = open
          /\ messages' = messages /\ cards' = cards /\ pending' = pending /\ inOrder' = inOrder
          /\ provided' = provided
      BY <1>1 DEF cardsVars
    <2>2. Before' = Before /\ Shown' = Shown
      BY <2>1 DEF Before, Shown
    <2>3. Base' = Base /\ Announced' = Announced
      BY <2>1, <2>2 DEF Base, Announced, Earlier
    <2>4. CardsType' = CardsType /\ StoredInv' = StoredInv
      BY <2>1, <2>2, <2>3 DEF CardsType, StoredInv
    <2>5. PendingInv' = PendingInv
      BY <2>1 DEF PendingInv
    <2>6. Matched' = Matched /\ InOrder' = InOrder
      BY <2>1, <2>2, <2>3 DEF Matched, InOrder
    <2> QED
      BY <2>1, <2>4, <2>5, <2>6 DEF CardsInv
  <1>2. CASE CardsNext
    <2>1. ASSUME NEW args \in {"a", "b", "bad", "none"}, Begin(args) PROVE CardsInv'
      BY <2>1, BeginStep DEF Arguments
    <2>2. ASSUME NEW index \in DOMAIN calls, Piece(index) PROVE CardsInv'
      BY <2>2, PieceStep
    <2>3. ASSUME Announce PROVE CardsInv'
      BY <2>3, AnnounceNew, AnnounceFound
    <2>4. ASSUME NEW status \in {"done", "error"}, Result(status) PROVE CardsInv'
      BY <2>4, ResultStep
    <2> QED
      BY <1>2, <2>1, <2>2, <2>3, <2>4 DEF CardsNext
  <1> QED
    BY <1>1, <1>2 DEF ViewsNext

\* Between rounds every card is the one of its call, and none waits.
LEMMA CardsAreStored == CardsInv => CardsAgree
  <1> SUFFICES ASSUME CardsInv, calls = <<>>, provided
               PROVE  LET stored == HistoryToItems(messages)
                      IN  /\ Len(cards) = Len(stored) /\ Range(cards) = Range(stored)
                          /\ inOrder => cards = stored
    BY DEF CardsAgree
  <1> DEFINE n == Announced
             items == Shown
  <1>1. CardsType /\ StoredInv /\ PendingInv /\ Matched /\ (inOrder => InOrder)
    BY DEF CardsInv
  <1>2. answering = 0 /\ n \in Nat /\ n = Before /\ ~open
    <2>1. answering \in 0..Len(calls) /\ Len(calls) = 0 /\ (open => answering > 0)
      BY <1>1 DEF CardsType
    <2> QED
      BY <1>1, <2>1, Numbers
  <1>3. Len(pending) = 0 /\ DOMAIN pending = {}
    <2>1. begun = {}
      BY <1>1 DEF CardsType
    <2>2. Len(pending) = Cardinality({})
      BY <1>1, <1>2, <2>1 DEF PendingInv
    <2>3. Len(pending) = 0 /\ pending \in Seq(Opened)
      BY <1>1, <2>2, FS_EmptySet DEF CardsType
    <2> QED
      BY <2>3
  <1>4. items \in Seq(CardSet) /\ Len(items) = n /\ \A j \in 1..n : items[j].id = j /\ items[j].status # "pending"
    BY <1>1, <1>2 DEF StoredInv
  <1>5. /\ cards \in Seq(CardSet) /\ Len(cards) = n /\ DOMAIN cards = 1..n /\ DOMAIN items = 1..n
        /\ \A i \in 1..n : cards[i].id \in 1..n /\ cards[i] = items[cards[i].id]
        /\ \A j \in 1..n : \E i \in 1..n : cards[i].id = j
    <2>1. cards \in Seq(CardSet) /\ Len(cards) = n
      BY <1>1, <1>2, <1>3 DEF CardsType, Matched
    <2>2. DOMAIN cards = 1..n /\ DOMAIN items = 1..n
      BY <1>2, <1>4, <2>1
    <2> QED
      BY <1>1, <1>3, <2>1, <2>2 DEF Matched
  <1>6. HistoryToItems(messages) = items
    <2>1. HistoryToItems(messages) =
            [i \in DOMAIN items |->
               IF items[i].status = "pending" THEN [items[i] EXCEPT !.status = "error"] ELSE items[i]]
      BY DEF HistoryToItems, Shown
    <2> HIDE DEF items, n
    <2>2. HistoryToItems(messages) = [i \in 1..n |-> items[i]]
      BY <1>4, <1>5, <2>1
    <2>3. items = [i \in 1..n |-> items[i]]
      BY <1>4
    <2> QED
      BY <2>2, <2>3
  <1> HIDE DEF items, n
  <1>7. Range(cards) = Range(items)
    <2>1. \A x : x \in Range(cards) <=> \E i \in 1..n : x = cards[i]
      BY <1>5 DEF Range
    <2>2. \A x : x \in Range(items) <=> \E i \in 1..n : x = items[i]
      BY <1>5 DEF Range
    <2>3. ASSUME NEW i \in 1..n PROVE \E j \in 1..n : cards[j] = items[i]
      <3>1. PICK j \in 1..n : cards[j].id = i
        BY <1>5
      <3>2. cards[j] = items[i]
        BY <1>5, <3>1
      <3> QED
        BY <3>2
    <2>4. ASSUME NEW i \in 1..n PROVE \E j \in 1..n : items[j] = cards[i]
      BY <1>5
    <2> QED
      BY <2>1, <2>2, <2>3, <2>4
  <1>8. inOrder => cards = items
    <2> SUFFICES ASSUME inOrder PROVE cards = items
      OBVIOUS
    <2>1. \A i \in 1..n : cards[i].id = i
      BY <1>1 DEF InOrder, n
    <2>2. \A i \in 1..n : cards[i] = items[i]
      BY <1>5, <2>1
    <2>3. Len(cards) = Len(items) /\ \A i \in 1..Len(cards) : cards[i] = items[i]
      BY <1>4, <1>5, <2>2
    <2> QED
      BY <1>4, <1>5, <2>3, SameSequence
  <1> QED
    BY <1>4, <1>5, <1>6, <1>7, <1>8

\* Whenever no round is under way, and the provider sends ids, a page that is
\* reloaded shows the cards the live stream has made, and in their order if the
\* arguments came in the order of the calls (useHarnessChat.ts, the handler of
\* events, against items.ts, historyToItems).
THEOREM CardsAgreeHolds == ViewsSpec => []CardsAgree
  <1>1. ViewsInit => (provided => CardsInv)
    BY CardsInitially
  <1>2. /\ provided => CardsInv
        /\ [ViewsNext]_<<view, before, after, text, stream, buffer, got, cardsVars, log>>
        => (provided => CardsInv)'
    <2>1. [ViewsNext]_<<view, before, after, text, stream, buffer, got, cardsVars, log>>
            => provided' = provided
      BY DEF ViewsNext, CardsNext, cardsVars
    <2> QED
      BY <2>1, CardsStep
  <1>3. (provided => CardsInv) => CardsAgree
    BY CardsAreStored DEF CardsAgree
  <1> QED
    BY <1>1, <1>2, <1>3, PTL DEF ViewsSpec

-----------------------------------------------------------------------------
(***************************************************************************)
(* Functions that are defined by their values at places of lower rank.     *)
(***************************************************************************)
LEMMA RankInduction ==
  ASSUME NEW D, NEW N \in Nat, NEW r \in [D -> 0..N], NEW T,
         \A p \in D : (\A q \in D : r[q] < r[p] => q \in T) => p \in T
  PROVE  D \subseteq T
  <1> DEFINE R == {d \in Nat : \A p \in D : r[p] = d => p \in T}
  <1>1. ASSUME NEW d \in Nat, \A e \in 0..d-1 : e \in R PROVE d \in R
    <2> SUFFICES ASSUME NEW p \in D, r[p] = d PROVE p \in T
      OBVIOUS
    <2>1. ASSUME NEW q \in D, r[q] < r[p] PROVE q \in T
      <3>1. r[q] \in 0..d-1
        BY <2>1
      <3> QED
        BY <1>1, <3>1
    <2> QED
      BY <2>1
  <1>2. Nat \subseteq R
    <2> HIDE DEF R
    <2> QED
      BY <1>1, StrongInduction
  <1> QED
    BY <1>2

\* F computes a function from D to V: each value from those at lower ranks.
Ranked(D, V, N, r, F) ==
  /\ V # {} /\ N \in Nat /\ r \in [D -> 0..N] /\ F \in [[D -> V] -> [D -> V]]
  /\ \A f, g \in [D -> V] : \A p \in D :
       (\A q \in D : r[q] < r[p] => f[q] = g[q]) => F[f][p] = F[g][p]

LEMMA Solvable ==
  ASSUME NEW D, NEW V, NEW N, NEW r, NEW F, Ranked(D, V, N, r, F)
  PROVE  \E f \in [D -> V] : f = F[f]
  <1> USE DEF Ranked
  <1>0. PICK v \in V : TRUE
    OBVIOUS
  <1> DEFINE Settled(f, d) == \A p \in D : r[p] < d => f[p] = F[f][p]
             T == {d \in Nat : \E f \in [D -> V] : Settled(f, d)}
  <1>1. 0 \in T
    <2> DEFINE f == [p \in D |-> v]
    <2>1. f \in [D -> V]
      OBVIOUS
    <2>2. Settled(f, 0)
      OBVIOUS
    <2> HIDE DEF f, Settled
    <2> QED
      BY <2>1, <2>2
  <1>2. ASSUME NEW d \in Nat, d \in T PROVE d + 1 \in T
    <2>1. PICK f \in [D -> V] : Settled(f, d)
      BY <1>2
    <2> DEFINE g == F[f]
    <2>2. g \in [D -> V]
      OBVIOUS
    <2>3. ASSUME NEW p \in D, r[p] < d + 1 PROVE g[p] = F[g][p]
      <3>1. ASSUME NEW q \in D, r[q] < r[p] PROVE f[q] = g[q]
        <4>1. r[q] < d
          BY <2>3, <3>1
        <4> QED
          BY <2>1, <4>1
      <3> HIDE DEF g
      <3>2. F[f][p] = F[g][p]
        BY <2>2, <3>1
      <3> QED
        BY <3>2 DEF g
    <2>4. Settled(g, d + 1)
      BY <2>3
    <2> HIDE DEF g, Settled
    <2> QED
      BY <2>2, <2>4
  <1>3. PICK f \in [D -> V] : Settled(f, N + 1)
    <2> HIDE DEF T
    <2>1. Nat \subseteq T
      BY <1>1, <1>2, Induction
    <2>2. N + 1 \in T
      BY <2>1
    <2> QED
      BY <2>2 DEF T
  <1>4. \A p \in D : f[p] = F[f][p]
    <2>1. \A p \in D : r[p] < N + 1
      OBVIOUS
    <2> QED
      BY <1>3, <2>1
  <1>5. F[f] \in [D -> V]
    OBVIOUS
  <1> QED
    BY <1>4, <1>5

LEMMA MaxOfTwo ==
  ASSUME NEW x \in Int, NEW y \in Int
  PROVE  Max({x, y}) = IF x >= y THEN x ELSE y
  <1>1. \E z \in {x, y} : \A w \in {x, y} : z >= w
    OBVIOUS
  <1>2. Max({x, y}) \in {x, y} /\ \A w \in {x, y} : Max({x, y}) >= w
    BY <1>1, Zenon DEF Max
  <1> QED
    BY <1>2

-----------------------------------------------------------------------------
(***************************************************************************)
(* The table and the walk, cell by cell.                                   *)
(***************************************************************************)
LEMMA CellFacts ==
  ASSUME NEW a, Len(a) \in Nat, NEW b, Len(b) \in Nat
  PROVE  /\ \A p \in Cells(a, b) : /\ p = <<p[1], p[2]>>
                                   /\ p[1] \in 1..Len(a) + 1 /\ p[2] \in 1..Len(b) + 1
         /\ \A i \in 1..Len(a) + 1, j \in 1..Len(b) + 1 : <<i, j>> \in Cells(a, b)
  BY DEF Cells

\* A later cell has a lower rank.
Rank(a, b) == [p \in Cells(a, b) |-> Len(a) + Len(b) + 2 - p[1] - p[2]]

LEMMA RankFacts ==
  ASSUME NEW a, Len(a) \in Nat, NEW b, Len(b) \in Nat
  PROVE  /\ Rank(a, b) \in [Cells(a, b) -> 0..Len(a) + Len(b)]
         /\ \A i \in 1..Len(a), j \in 1..Len(b) :
              /\ <<i, j>> \in Cells(a, b) /\ <<i + 1, j + 1>> \in Cells(a, b)
              /\ <<i + 1, j>> \in Cells(a, b) /\ <<i, j + 1>> \in Cells(a, b)
              /\ Rank(a, b)[<<i + 1, j + 1>>] < Rank(a, b)[<<i, j>>]
              /\ Rank(a, b)[<<i + 1, j>>] < Rank(a, b)[<<i, j>>]
              /\ Rank(a, b)[<<i, j + 1>>] < Rank(a, b)[<<i, j>>]
  <1>1. \A p \in Cells(a, b) : Len(a) + Len(b) + 2 - p[1] - p[2] \in 0..Len(a) + Len(b)
    BY CellFacts
  <1>2. Rank(a, b) \in [Cells(a, b) -> 0..Len(a) + Len(b)]
    BY <1>1 DEF Rank
  <1>3. ASSUME NEW i \in 1..Len(a) + 1, NEW j \in 1..Len(b) + 1
        PROVE  /\ <<i, j>> \in Cells(a, b)
               /\ Rank(a, b)[<<i, j>>] = Len(a) + Len(b) + 2 - i - j
    <2>1. <<i, j>> \in Cells(a, b)
      BY CellFacts
    <2>2. <<i, j>>[1] = i /\ <<i, j>>[2] = j
      OBVIOUS
    <2> QED
      BY <2>1, <2>2 DEF Rank
  <1>4. ASSUME NEW i \in 1..Len(a), NEW j \in 1..Len(b)
        PROVE  /\ <<i, j>> \in Cells(a, b) /\ <<i + 1, j + 1>> \in Cells(a, b)
               /\ <<i + 1, j>> \in Cells(a, b) /\ <<i, j + 1>> \in Cells(a, b)
               /\ Rank(a, b)[<<i + 1, j + 1>>] < Rank(a, b)[<<i, j>>]
               /\ Rank(a, b)[<<i + 1, j>>] < Rank(a, b)[<<i, j>>]
               /\ Rank(a, b)[<<i, j + 1>>] < Rank(a, b)[<<i, j>>]
    <2>1. i \in 1..Len(a) + 1 /\ i + 1 \in 1..Len(a) + 1 /\ j \in 1..Len(b) + 1 /\ j + 1 \in 1..Len(b) + 1
      OBVIOUS
    <2>2. /\ Rank(a, b)[<<i, j>>] = Len(a) + Len(b) + 2 - i - j
          /\ Rank(a, b)[<<i + 1, j + 1>>] = Len(a) + Len(b) + 2 - (i + 1) - (j + 1)
          /\ Rank(a, b)[<<i + 1, j>>] = Len(a) + Len(b) + 2 - (i + 1) - j
          /\ Rank(a, b)[<<i, j + 1>>] = Len(a) + Len(b) + 2 - i - (j + 1)
          /\ <<i, j>> \in Cells(a, b) /\ <<i + 1, j + 1>> \in Cells(a, b)
          /\ <<i + 1, j>> \in Cells(a, b) /\ <<i, j + 1>> \in Cells(a, b)
      BY <1>3, <2>1
    <2>3. /\ Len(a) + Len(b) + 2 - (i + 1) - (j + 1) < Len(a) + Len(b) + 2 - i - j
          /\ Len(a) + Len(b) + 2 - (i + 1) - j < Len(a) + Len(b) + 2 - i - j
          /\ Len(a) + Len(b) + 2 - i - (j + 1) < Len(a) + Len(b) + 2 - i - j
      OBVIOUS
    <2> QED
      BY <2>2, <2>3
  <1> QED
    BY <1>2, <1>4

LEMMA TableSteps ==
  ASSUME NEW a, Len(a) \in Nat, NEW b, Len(b) \in Nat
  PROVE  /\ Table(a, b) \in [Cells(a, b) -> Nat]
         /\ \A i \in 1..Len(a) + 1, j \in 1..Len(b) + 1 :
              Table(a, b)[<<i, j>>] = Longest(a, b, Table(a, b), i, j)
  <1> DEFINE D == Cells(a, b)
             t == Table(a, b)
             N == Len(a) + Len(b)
             r == Rank(a, b)
             F == [f \in [D -> Nat] |-> [p \in D |-> Longest(a, b, f, p[1], p[2])]]
  <1>0. N \in Nat /\ r \in [D -> 0..N]
    BY RankFacts
  <1>1. ASSUME NEW f, NEW p \in D, \A q \in D : r[q] < r[p] => f[q] \in Nat
        PROVE  Longest(a, b, f, p[1], p[2]) \in Nat
    <2> DEFINE i == p[1]
               j == p[2]
    <2>1. p = <<i, j>> /\ i \in 1..Len(a) + 1 /\ j \in 1..Len(b) + 1
      BY CellFacts
    <2> HIDE DEF i, j
    <2>2. CASE i > Len(a) \/ j > Len(b)
      BY <2>2 DEF Longest, i, j
    <2>3. CASE i <= Len(a) /\ j <= Len(b)
      <3>1. i \in 1..Len(a) /\ j \in 1..Len(b)
        BY <2>1, <2>3
      <3>2. /\ f[<<i + 1, j + 1>>] \in Nat /\ f[<<i + 1, j>>] \in Nat /\ f[<<i, j + 1>>] \in Nat
        BY <1>1, <2>1, <3>1, RankFacts
      <3>3. Max({f[<<i + 1, j>>], f[<<i, j + 1>>]}) \in Nat
        BY <3>2, MaxOfTwo
      <3>4. f[<<i + 1, j + 1>>] + 1 \in Nat
        BY <3>2
      <3>5. Longest(a, b, f, i, j) = IF a[i] = b[j] THEN f[<<i + 1, j + 1>>] + 1
                                     ELSE Max({f[<<i + 1, j>>], f[<<i, j + 1>>]})
        BY <2>1, <2>3 DEF Longest
      <3> QED
        BY <3>3, <3>4, <3>5 DEF i, j
    <2> QED
      BY <2>1, <2>2, <2>3
  <1>2. ASSUME NEW f, NEW g, NEW p \in D, \A q \in D : r[q] < r[p] => f[q] = g[q]
        PROVE  Longest(a, b, f, p[1], p[2]) = Longest(a, b, g, p[1], p[2])
    <2> DEFINE i == p[1]
               j == p[2]
    <2>1. p = <<i, j>> /\ i \in 1..Len(a) + 1 /\ j \in 1..Len(b) + 1
      BY CellFacts
    <2> HIDE DEF i, j
    <2>2. CASE i > Len(a) \/ j > Len(b)
      BY <2>2 DEF Longest, i, j
    <2>3. CASE i <= Len(a) /\ j <= Len(b)
      <3>1. i \in 1..Len(a) /\ j \in 1..Len(b)
        BY <2>1, <2>3
      <3>2. /\ f[<<i + 1, j + 1>>] = g[<<i + 1, j + 1>>]
            /\ f[<<i + 1, j>>] = g[<<i + 1, j>>] /\ f[<<i, j + 1>>] = g[<<i, j + 1>>]
        BY <1>2, <2>1, <3>1, RankFacts
      <3> QED
        BY <3>2 DEF Longest, i, j
    <2> QED
      BY <2>1, <2>2, <2>3
  <1> HIDE DEF D, N, r, t
  <1>3. \E f \in [D -> Nat] : f = F[f]
    <2>1. F \in [[D -> Nat] -> [D -> Nat]]
      <3>1. ASSUME NEW f \in [D -> Nat], NEW p \in D PROVE Longest(a, b, f, p[1], p[2]) \in Nat
        BY <1>1
      <3> QED
        BY <3>1
    <2>2. ASSUME NEW f \in [D -> Nat], NEW g \in [D -> Nat], NEW p \in D,
                 \A q \in D : r[q] < r[p] => f[q] = g[q]
          PROVE  F[f][p] = F[g][p]
      BY <1>2, <2>2
    <2>3. \A f, g \in [D -> Nat] : \A p \in D :
            (\A q \in D : r[q] < r[p] => f[q] = g[q]) => F[f][p] = F[g][p]
      <3> HIDE DEF F
      <3> QED
        BY <2>2
    <2> HIDE DEF F
    <2>4. Ranked(D, Nat, N, r, F)
      BY <1>0, <2>1, <2>3 DEF Ranked
    <2> QED
      BY <2>4, Solvable
  <1>4. \E f : f = [p \in D |-> Longest(a, b, f, p[1], p[2])]
    BY <1>3
  <1>5. t = [p \in D |-> Longest(a, b, t, p[1], p[2])]
    BY <1>4, Zenon DEF Table, D, t
  <1>6. D \subseteq {p \in D : t[p] \in Nat}
    <2> DEFINE T == {p \in D : t[p] \in Nat}
    <2>1. ASSUME NEW p \in D, \A q \in D : r[q] < r[p] => q \in T PROVE p \in T
      <3>1. \A q \in D : r[q] < r[p] => t[q] \in Nat
        BY <2>1
      <3>2. Longest(a, b, t, p[1], p[2]) \in Nat
        BY <1>1, <3>1
      <3>3. t[p] = Longest(a, b, t, p[1], p[2])
        BY <1>5
      <3> QED
        BY <3>2, <3>3
    <2> HIDE DEF T
    <2>2. D \subseteq T
      BY <1>0, <2>1, RankInduction
    <2> QED
      BY <2>2 DEF T
  <1>7. t \in [D -> Nat]
    BY <1>5, <1>6
  <1>8. ASSUME NEW i \in 1..Len(a) + 1, NEW j \in 1..Len(b) + 1
        PROVE  t[<<i, j>>] = Longest(a, b, t, i, j)
    <2>1. <<i, j>> \in D /\ <<i, j>>[1] = i /\ <<i, j>>[2] = j
      BY CellFacts DEF D
    <2> QED
      BY <1>5, <2>1
  <1> QED
    BY <1>7, <1>8 DEF t, D

\* The table holds no less than the length of any common subsequence.
Bounded(a, b, i, j, most) ==
  \A k \in Nat : \A f \in [1..k -> i..Len(a)], g \in [1..k -> j..Len(b)] :
    Common(a, b, k, f, g) => k <= most

LEMMA TableBounds ==
  ASSUME NEW a, Len(a) \in Nat, NEW b, Len(b) \in Nat
  PROVE  \A i \in 1..Len(a) + 1, j \in 1..Len(b) + 1 :
           Bounded(a, b, i, j, Table(a, b)[<<i, j>>])
  <1> DEFINE D == Cells(a, b)
             t == Table(a, b)
             N == Len(a) + Len(b)
             r == Rank(a, b)
             T == {p \in D : Bounded(a, b, p[1], p[2], t[p])}
  <1>1. N \in Nat /\ r \in [D -> 0..N]
    BY RankFacts
  <1>2. ASSUME NEW i \in 1..Len(a) + 1, NEW j \in 1..Len(b) + 1,
               \A q \in D : r[q] < r[<<i, j>>] => q \in T
        PROVE  Bounded(a, b, i, j, t[<<i, j>>])
    <2> SUFFICES ASSUME NEW k \in Nat, NEW f \in [1..k -> i..Len(a)],
                        NEW g \in [1..k -> j..Len(b)], Common(a, b, k, f, g)
                 PROVE  k <= t[<<i, j>>]
      BY DEF Bounded
    <2>1. /\ t \in [D -> Nat] /\ <<i, j>> \in D
          /\ t[<<i, j>>] = Longest(a, b, t, i, j) /\ t[<<i, j>>] \in Nat
      BY TableSteps, CellFacts
    <2>2. k = 0 => k <= t[<<i, j>>]
      BY <2>1
    <2>3. ASSUME k # 0 PROVE k <= t[<<i, j>>]
      <3>1. 1 \in 1..k /\ f[1] \in i..Len(a) /\ g[1] \in j..Len(b)
        BY <2>3
      <3>2. i \in 1..Len(a) /\ j \in 1..Len(b)
        BY <3>1
      <3>3. /\ <<i + 1, j + 1>> \in T /\ <<i + 1, j>> \in T /\ <<i, j + 1>> \in T
            /\ <<i + 1, j + 1>> \in D /\ <<i + 1, j>> \in D /\ <<i, j + 1>> \in D
        BY <1>2, <3>2, RankFacts
      <3>4. /\ Bounded(a, b, i + 1, j + 1, t[<<i + 1, j + 1>>])
            /\ Bounded(a, b, i + 1, j, t[<<i + 1, j>>])
            /\ Bounded(a, b, i, j + 1, t[<<i, j + 1>>])
        BY <3>3
      <3>5. /\ t[<<i + 1, j + 1>>] \in Nat /\ t[<<i + 1, j>>] \in Nat /\ t[<<i, j + 1>>] \in Nat
        BY <2>1, <3>3
      <3> HIDE DEF T, t, r, D, N
      <3>6. /\ \A p \in 2..k : f[1] < f[p] /\ g[1] < g[p]
            /\ \A p \in 1..k : a[f[p]] = b[g[p]]
        <4>1. \A p \in 2..k : p \in 1..k /\ 1 < p
          OBVIOUS
        <4> QED
          BY <3>1, <4>1 DEF Common, Increasing
      <3>7. CASE a[i] = b[j]
        <4> DEFINE h == [p \in 1..k-1 |-> f[p+1]]
                   e == [p \in 1..k-1 |-> g[p+1]]
        <4>1. k - 1 \in Nat
          BY <2>3
        <4>2. h \in [1..k-1 -> i+1..Len(a)] /\ e \in [1..k-1 -> j+1..Len(b)]
          <5>1. ASSUME NEW p \in 1..k-1
                PROVE  f[p+1] \in i+1..Len(a) /\ g[p+1] \in j+1..Len(b)
            <6>1. p + 1 \in 2..k /\ p + 1 \in 1..k
              BY <4>1
            <6>2. f[p+1] \in i..Len(a) /\ g[p+1] \in j..Len(b) /\ f[1] < f[p+1] /\ g[1] < g[p+1]
              BY <3>6, <6>1
            <6> QED
              BY <3>1, <6>2
          <5> QED
            BY <5>1
        <4>3. Common(a, b, k - 1, h, e)
          <5>1. \A p \in 1..k-1 : p + 1 \in 1..k /\ h[p] = f[p+1] /\ e[p] = g[p+1]
            BY <4>1
          <5> HIDE DEF h, e
          <5>2. ASSUME NEW p \in 1..k-1, NEW q \in 1..k-1, p < q PROVE h[p] < h[q] /\ e[p] < e[q]
            <6>1. p + 1 \in 1..k /\ q + 1 \in 1..k /\ p + 1 < q + 1
              BY <5>1, <5>2
            <6>2. f[p+1] < f[q+1] /\ g[p+1] < g[q+1]
              BY <6>1 DEF Common, Increasing
            <6> QED
              BY <5>1, <6>2
          <5>3. \A p \in 1..k-1 : a[h[p]] = b[e[p]]
            BY <3>6, <5>1
          <5> QED
            BY <5>2, <5>3 DEF Common, Increasing
        <4> HIDE DEF h, e
        <4>4. k - 1 <= t[<<i + 1, j + 1>>]
          BY <3>4, <4>1, <4>2, <4>3 DEF Bounded
        <4>5. t[<<i, j>>] = t[<<i + 1, j + 1>>] + 1
          BY <2>1, <3>2, <3>7 DEF Longest
        <4> QED
          BY <3>5, <4>4, <4>5
      <3>8. CASE a[i] # b[j]
        <4>1. t[<<i, j>>] = Max({t[<<i + 1, j>>], t[<<i, j + 1>>]})
          BY <2>1, <3>2, <3>8 DEF Longest
        <4>2. t[<<i + 1, j>>] <= t[<<i, j>>] /\ t[<<i, j + 1>>] <= t[<<i, j>>]
          <5> DEFINE x == t[<<i + 1, j>>]
                     y == t[<<i, j + 1>>]
          <5>1. x \in Int /\ y \in Int
            BY <3>5
          <5> HIDE DEF x, y
          <5>2. Max({x, y}) = IF x >= y THEN x ELSE y
            BY <5>1, MaxOfTwo
          <5>3. x <= Max({x, y}) /\ y <= Max({x, y})
            BY <5>1, <5>2
          <5> QED
            BY <4>1, <5>3 DEF x, y
        <4>3. CASE f[1] # i
          <5>1. ASSUME NEW p \in 1..k PROVE f[p] \in i+1..Len(a)
            <6>1. p = 1 \/ p \in 2..k
              OBVIOUS
            <6>2. f[p] \in i..Len(a) /\ f[1] <= f[p]
              BY <3>1, <3>6, <6>1
            <6> QED
              BY <3>1, <4>3, <6>2
          <5>2. f \in [1..k -> i+1..Len(a)]
            BY <5>1
          <5>3. k <= t[<<i + 1, j>>]
            BY <3>4, <5>2 DEF Bounded
          <5> QED
            BY <2>1, <3>5, <4>2, <5>3
        <4>4. CASE f[1] = i
          <5>0. g[1] # j
            BY <3>1, <3>6, <3>8, <4>4
          <5>1. ASSUME NEW p \in 1..k PROVE g[p] \in j+1..Len(b)
            <6>1. p = 1 \/ p \in 2..k
              OBVIOUS
            <6>2. g[p] \in j..Len(b) /\ g[1] <= g[p]
              BY <3>1, <3>6, <6>1
            <6> QED
              BY <3>1, <5>0, <6>2
          <5>2. g \in [1..k -> j+1..Len(b)]
            BY <5>1
          <5>3. k <= t[<<i, j + 1>>]
            BY <3>4, <5>2 DEF Bounded
          <5> QED
            BY <2>1, <3>5, <4>2, <5>3
        <4> QED
          BY <4>3, <4>4
      <3> QED
        BY <3>7, <3>8
    <2> QED
      BY <2>2, <2>3
  <1>3. ASSUME NEW p \in D, \A q \in D : r[q] < r[p] => q \in T PROVE p \in T
    <2>1. p = <<p[1], p[2]>> /\ p[1] \in 1..Len(a) + 1 /\ p[2] \in 1..Len(b) + 1
      BY CellFacts
    <2>2. Bounded(a, b, p[1], p[2], t[<<p[1], p[2]>>])
      <3> HIDE DEF T, t, r, D, N
      <3>1. \A q \in D : r[q] < r[<<p[1], p[2]>>] => q \in T
        BY <1>3, <2>1
      <3> QED
        BY <1>2, <2>1, <3>1
    <2> QED
      BY <2>1, <2>2
  <1>4. D \subseteq T
    <2> HIDE DEF T, t, r, D, N
    <2> QED
      BY <1>1, <1>3, RankInduction
  <1>5. ASSUME NEW i \in 1..Len(a) + 1, NEW j \in 1..Len(b) + 1
        PROVE  Bounded(a, b, i, j, t[<<i, j>>])
    <2>1. <<i, j>> \in T /\ <<i, j>>[1] = i /\ <<i, j>>[2] = j
      BY <1>4, CellFacts
    <2> QED
      BY <2>1
  <1> QED
    BY <1>5

-----------------------------------------------------------------------------
(***************************************************************************)
(* Parts of a diff, and how they are joined.                               *)
(***************************************************************************)
DiffLines == [old : Nat, new : Nat]
Olds(d) == [k \in DOMAIN d |-> d[k].old]
News(d) == [k \in DOMAIN d |-> d[k].new]

\* The numbers lo to hi, each once and in order, with zeros between them.
Held(s, lo, hi) ==
  /\ \A k \in 1..Len(s) : s[k] = 0 \/ s[k] \in lo..hi
  /\ \A i \in lo..hi : \E k \in 1..Len(s) : s[k] = i
  /\ \A k, l \in 1..Len(s) : k < l /\ s[k] # 0 /\ s[l] # 0 => s[k] < s[l]

\* d sets the lines i to m of a against the lines j to n of b.
Part(d, a, b, i, m, j, n) ==
  /\ d \in Seq(DiffLines) /\ Held(Olds(d), i, m) /\ Held(News(d), j, n)
  /\ \A k \in 1..Len(d) : Ctx(d[k]) => a[d[k].old] = b[d[k].new]

LEMMA HeldJoin ==
  ASSUME NEW s \in Seq(Nat), NEW t \in Seq(Nat), NEW lo \in Nat \ {0}, NEW mid \in Int,
         NEW hi \in Int, lo <= mid + 1, mid <= hi, Held(s, lo, mid), Held(t, mid + 1, hi)
  PROVE  Held(s \o t, lo, hi)
  <1> DEFINE r == s \o t
             m == Len(s)
             n == Len(t)
  <1>1. /\ Len(r) = m + n /\ m \in Nat /\ n \in Nat
        /\ \A k \in 1..m : r[k] = s[k]
        /\ \A k \in 1..n : r[m+k] = t[k]
    BY Joined
  <1>2. /\ \A k \in 1..m : s[k] = 0 \/ s[k] \in lo..mid
        /\ \A i \in lo..mid : \E k \in 1..m : s[k] = i
        /\ \A k, l \in 1..m : k < l /\ s[k] # 0 /\ s[l] # 0 => s[k] < s[l]
    BY DEF Held
  <1>3. /\ \A k \in 1..n : t[k] = 0 \/ t[k] \in mid+1..hi
        /\ \A i \in mid+1..hi : \E k \in 1..n : t[k] = i
        /\ \A k, l \in 1..n : k < l /\ t[k] # 0 /\ t[l] # 0 => t[k] < t[l]
    BY DEF Held
  <1> HIDE DEF r, m, n
  <1>4. ASSUME NEW k \in 1..m+n, ~(k \in 1..m) PROVE k - m \in 1..n /\ k = m + (k - m)
    BY <1>1, <1>4
  <1>5. ASSUME NEW k \in 1..m+n PROVE r[k] = 0 \/ r[k] \in lo..hi
    <2>1. CASE k \in 1..m
      <3>1. r[k] = 0 \/ r[k] \in lo..mid
        BY <1>1, <1>2, <2>1
      <3> QED
        BY <3>1
    <2>2. CASE ~(k \in 1..m)
      <3>1. r[k] = 0 \/ r[k] \in mid+1..hi
        BY <1>1, <1>3, <1>4, <2>2
      <3> QED
        BY <3>1
    <2> QED
      BY <2>1, <2>2
  <1>6. ASSUME NEW i \in lo..hi PROVE \E k \in 1..m+n : r[k] = i
    <2>1. CASE i <= mid
      <3>1. PICK k \in 1..m : s[k] = i
        BY <1>2, <2>1
      <3>2. k \in 1..m+n /\ r[k] = i
        BY <1>1, <3>1
      <3> QED
        BY <3>2
    <2>2. CASE i > mid
      <3>0. i \in mid+1..hi
        BY <2>2
      <3>1. PICK k \in 1..n : t[k] = i
        BY <1>3, <3>0
      <3>2. m + k \in 1..m+n /\ r[m+k] = i
        BY <1>1, <3>1
      <3> QED
        BY <3>2
    <2> QED
      BY <2>1, <2>2
  <1>7. ASSUME NEW k \in 1..m+n, NEW l \in 1..m+n, k < l, r[k] # 0, r[l] # 0
        PROVE  r[k] < r[l]
    <2>1. CASE l \in 1..m
      <3>1. k \in 1..m
        BY <1>1, <1>7, <2>1
      <3> QED
        BY <1>1, <1>2, <1>7, <2>1, <3>1
    <2>2. CASE k \in 1..m /\ ~(l \in 1..m)
      <3>1. r[k] \in lo..mid
        BY <1>1, <1>2, <1>7, <2>2
      <3>2. r[l] \in mid+1..hi
        BY <1>1, <1>3, <1>4, <1>7, <2>2
      <3> QED
        BY <3>1, <3>2
    <2>3. CASE ~(k \in 1..m) /\ ~(l \in 1..m)
      <3>1. k - m \in 1..n /\ l - m \in 1..n /\ k - m < l - m
        BY <1>1, <1>4, <1>7, <2>3
      <3>2. r[k] = t[k-m] /\ r[l] = t[l-m]
        BY <1>1, <1>4, <2>3
      <3> QED
        BY <1>3, <1>7, <3>1, <3>2
    <2> QED
      BY <2>1, <2>2, <2>3
  <1>8. Held(r, lo, hi)
    BY <1>1, <1>5, <1>6, <1>7 DEF Held
  <1> QED
    BY <1>8 DEF r

LEMMA SidesOf ==
  ASSUME NEW d \in Seq(DiffLines)
  PROVE  /\ Olds(d) \in Seq(Nat) /\ News(d) \in Seq(Nat)
         /\ Len(Olds(d)) = Len(d) /\ Len(News(d)) = Len(d) /\ Len(d) \in Nat
         /\ \A k \in 1..Len(d) : /\ d[k] \in DiffLines
                                 /\ Olds(d)[k] = d[k].old /\ News(d)[k] = d[k].new
                                 /\ d[k].old \in Nat /\ d[k].new \in Nat
  <1>1. /\ DOMAIN d = 1..Len(d) /\ Len(d) \in Nat
        /\ \A k \in 1..Len(d) : d[k] \in DiffLines
    OBVIOUS
  <1>2. \A k \in 1..Len(d) : d[k].old \in Nat /\ d[k].new \in Nat
    BY <1>1 DEF DiffLines
  <1>3. Olds(d) = [k \in 1..Len(d) |-> d[k].old] /\ News(d) = [k \in 1..Len(d) |-> d[k].new]
    BY <1>1 DEF Olds, News
  <1> QED
    BY <1>1, <1>2, <1>3

LEMMA SidesJoin ==
  ASSUME NEW d \in Seq(DiffLines), NEW e \in Seq(DiffLines)
  PROVE  Olds(d \o e) = Olds(d) \o Olds(e) /\ News(d \o e) = News(d) \o News(e)
  <1> DEFINE m == Len(d)
             n == Len(e)
             r == d \o e
  <1>1. /\ r \in Seq(DiffLines) /\ Len(r) = m + n
        /\ \A k \in 1..m : r[k] = d[k]
        /\ \A k \in 1..n : r[m+k] = e[k]
    BY Joined
  <1>2. /\ m \in Nat /\ n \in Nat
        /\ Olds(d) \in Seq(Nat) /\ Olds(e) \in Seq(Nat) /\ Olds(r) \in Seq(Nat)
        /\ News(d) \in Seq(Nat) /\ News(e) \in Seq(Nat) /\ News(r) \in Seq(Nat)
        /\ Len(Olds(d)) = m /\ Len(Olds(e)) = n /\ Len(Olds(r)) = m + n
        /\ Len(News(d)) = m /\ Len(News(e)) = n /\ Len(News(r)) = m + n
        /\ \A k \in 1..m : Olds(d)[k] = d[k].old /\ News(d)[k] = d[k].new
        /\ \A k \in 1..n : Olds(e)[k] = e[k].old /\ News(e)[k] = e[k].new
        /\ \A k \in 1..m+n : Olds(r)[k] = r[k].old /\ News(r)[k] = r[k].new
    BY <1>1, SidesOf
  <1> HIDE DEF m, n, r
  <1>3. ASSUME NEW x \in Seq(Nat), NEW y \in Seq(Nat), NEW z \in Seq(Nat),
               Len(x) = m, Len(y) = n, Len(z) = m + n,
               \A k \in 1..m : z[k] = x[k], \A k \in 1..n : z[m+k] = y[k]
        PROVE  z = x \o y
    <2>1. /\ x \o y \in Seq(Nat) /\ Len(x \o y) = m + n
          /\ \A k \in 1..m : (x \o y)[k] = x[k]
          /\ \A k \in 1..n : (x \o y)[m+k] = y[k]
      BY <1>3, Joined
    <2> DEFINE w == x \o y
    <2> HIDE DEF w
    <2>2. ASSUME NEW k \in 1..m+n PROVE z[k] = w[k]
      <3>1. CASE k \in 1..m
        BY <1>3, <2>1, <3>1 DEF w
      <3>2. CASE ~(k \in 1..m)
        <4>1. k - m \in 1..n /\ k = m + (k - m)
          BY <1>2, <3>2
        <4>2. z[m+(k-m)] = y[k-m] /\ w[m+(k-m)] = y[k-m]
          BY <1>3, <2>1, <4>1 DEF w
        <4> QED
          BY <4>1, <4>2
      <3> QED
        BY <3>1, <3>2
    <2>3. w \in Seq(Nat) /\ Len(z) = Len(w) /\ \A k \in 1..Len(z) : z[k] = w[k]
      BY <1>3, <2>1, <2>2 DEF w
    <2>4. z = w
      BY <2>3, SameSequence
    <2> QED
      BY <2>4 DEF w
  <1>4. /\ \A k \in 1..m : k \in 1..m+n
        /\ \A k \in 1..n : m + k \in 1..m+n
    <2>1. m \in Nat /\ n \in Nat
      BY <1>2
    <2> QED
      BY ONLY <2>1
  <1>5. /\ \A k \in 1..m : Olds(r)[k] = Olds(d)[k] /\ News(r)[k] = News(d)[k]
        /\ \A k \in 1..n : Olds(r)[m+k] = Olds(e)[k] /\ News(r)[m+k] = News(e)[k]
    <2>1. ASSUME NEW k \in 1..m PROVE Olds(r)[k] = Olds(d)[k] /\ News(r)[k] = News(d)[k]
      BY <1>1, <1>2, <1>4
    <2>2. ASSUME NEW k \in 1..n PROVE Olds(r)[m+k] = Olds(e)[k] /\ News(r)[m+k] = News(e)[k]
      <3>1. m + k \in 1..m+n
        BY <1>4
      <3> QED
        BY <1>1, <1>2, <3>1
    <2> QED
      BY <2>1, <2>2
  <1>6. Olds(r) = Olds(d) \o Olds(e)
    BY <1>2, <1>3, <1>5
  <1>7. News(r) = News(d) \o News(e)
    BY <1>2, <1>3, <1>5
  <1> QED
    BY <1>6, <1>7 DEF r

LEMMA PartJoin ==
  ASSUME NEW a, NEW b, NEW d, NEW e, NEW i \in Nat \ {0}, NEW j \in Nat \ {0},
         NEW m \in Int, NEW n \in Int, NEW p \in Int, NEW q \in Int,
         i <= m + 1, j <= n + 1, m <= p, n <= q,
         Part(d, a, b, i, m, j, n), Part(e, a, b, m + 1, p, n + 1, q)
  PROVE  Part(d \o e, a, b, i, p, j, q)
  <1>1. /\ d \in Seq(DiffLines) /\ e \in Seq(DiffLines)
        /\ Held(Olds(d), i, m) /\ Held(Olds(e), m + 1, p)
        /\ Held(News(d), j, n) /\ Held(News(e), n + 1, q)
    BY DEF Part
  <1>2. /\ Olds(d) \in Seq(Nat) /\ Olds(e) \in Seq(Nat)
        /\ News(d) \in Seq(Nat) /\ News(e) \in Seq(Nat)
    BY <1>1, SidesOf
  <1>3. Held(Olds(d) \o Olds(e), i, p)
    BY <1>1, <1>2, HeldJoin
  <1>4. Held(News(d) \o News(e), j, q)
    BY <1>1, <1>2, HeldJoin
  <1>5. Held(Olds(d \o e), i, p) /\ Held(News(d \o e), j, q)
    BY <1>1, <1>3, <1>4, SidesJoin
  <1> DEFINE r == d \o e
  <1>6. /\ r \in Seq(DiffLines) /\ Len(r) = Len(d) + Len(e)
        /\ \A k \in 1..Len(d) : r[k] = d[k]
        /\ \A k \in 1..Len(e) : r[Len(d)+k] = e[k]
        /\ Len(d) \in Nat /\ Len(e) \in Nat
    BY <1>1, Joined
  <1> HIDE DEF r
  <1>7. ASSUME NEW k \in 1..Len(r), Ctx(r[k]) PROVE a[r[k].old] = b[r[k].new]
    <2>1. CASE k \in 1..Len(d)
      BY <1>6, <1>7, <2>1 DEF Part
    <2>2. CASE ~(k \in 1..Len(d))
      <3>1. k - Len(d) \in 1..Len(e) /\ k = Len(d) + (k - Len(d))
        BY <1>6, <2>2
      <3>2. r[k] = e[k - Len(d)]
        BY <1>6, <3>1
      <3> QED
        BY <1>7, <3>1, <3>2 DEF Part
    <2> QED
      BY <2>1, <2>2
  <1>8. Part(r, a, b, i, p, j, q)
    BY <1>5, <1>6, <1>7 DEF Part, r
  <1> QED
    BY <1>8 DEF r

LEMMA HeldRun ==
  ASSUME NEW s \in Seq(Nat), NEW i \in Nat \ {0}, NEW x \in Nat, Len(s) = x
  PROVE  /\ (\A k \in 1..x : s[k] = i + k - 1) => Held(s, i, i + x - 1)
         /\ (\A k \in 1..x : s[k] = 0) => Held(s, i, i - 1)
  <1>1. ASSUME \A k \in 1..x : s[k] = i + k - 1 PROVE Held(s, i, i + x - 1)
    <2>1. \A k \in 1..x : s[k] \in i..i+x-1
      BY <1>1
    <2>2. ASSUME NEW y \in i..i+x-1 PROVE \E k \in 1..x : s[k] = y
      <3>1. y + 1 - i \in 1..x /\ i + (y + 1 - i) - 1 = y
        OBVIOUS
      <3> QED
        BY <1>1, <3>1
    <2>3. \A k, l \in 1..x : k < l => s[k] < s[l]
      BY <1>1
    <2> QED
      BY <2>1, <2>2, <2>3 DEF Held
  <1>2. ASSUME \A k \in 1..x : s[k] = 0 PROVE Held(s, i, i - 1)
    BY <1>2 DEF Held
  <1> QED
    BY <1>1, <1>2

\* How many lines a diff calls unchanged.
Same(d) == Cardinality(Unchanged(d))

\* Runs of lines of one kind: removed, added, unchanged.
LEMMA PartOfOlds ==
  ASSUME NEW a, NEW b, NEW i \in Nat \ {0}, NEW j \in Nat \ {0}, NEW x \in Nat,
         NEW d, d = [k \in 1..x |-> Line(i + k - 1, 0)]
  PROVE  /\ Part(d, a, b, i, i + x - 1, j, j - 1)
         /\ Same(d) = 0
  <1>1. \A k \in 1..x : i + k - 1 \in Nat /\ d[k].old = i + k - 1 /\ d[k].new = 0
    BY DEF Line
  <1>2. d \in Seq(DiffLines) /\ Len(d) = x
    <2>1. \A k \in 1..x : Line(i + k - 1, 0) \in DiffLines
      BY DEF Line, DiffLines
    <2> QED
      BY <2>1
  <1>3. /\ Olds(d) \in Seq(Nat) /\ News(d) \in Seq(Nat) /\ Len(Olds(d)) = x /\ Len(News(d)) = x
        /\ \A k \in 1..x : Olds(d)[k] = i + k - 1 /\ News(d)[k] = 0
    BY <1>1, <1>2, SidesOf
  <1>4. Held(Olds(d), i, i + x - 1) /\ Held(News(d), j, j - 1)
    BY <1>3, HeldRun
  <1>5. \A k \in 1..x : ~ Ctx(d[k])
    BY <1>1 DEF Ctx
  <1>6. DOMAIN d = 1..x
    BY <1>2
  <1>7. Same(d) = 0
    <2>1. Unchanged(d) = {}
      BY <1>5, <1>6 DEF Unchanged
    <2> QED
      BY <2>1, FS_EmptySet DEF Same
  <1> QED
    BY <1>2, <1>4, <1>5, <1>7 DEF Part

LEMMA PartOfNews ==
  ASSUME NEW a, NEW b, NEW i \in Nat \ {0}, NEW j \in Nat \ {0}, NEW x \in Nat,
         NEW d, d = [k \in 1..x |-> Line(0, j + k - 1)]
  PROVE  /\ Part(d, a, b, i, i - 1, j, j + x - 1)
         /\ Same(d) = 0
  <1>1. \A k \in 1..x : j + k - 1 \in Nat /\ d[k].new = j + k - 1 /\ d[k].old = 0
    BY DEF Line
  <1>2. d \in Seq(DiffLines) /\ Len(d) = x
    <2>1. \A k \in 1..x : Line(0, j + k - 1) \in DiffLines
      BY DEF Line, DiffLines
    <2> QED
      BY <2>1
  <1>3. /\ Olds(d) \in Seq(Nat) /\ News(d) \in Seq(Nat) /\ Len(Olds(d)) = x /\ Len(News(d)) = x
        /\ \A k \in 1..x : News(d)[k] = j + k - 1 /\ Olds(d)[k] = 0
    BY <1>1, <1>2, SidesOf
  <1>4. Held(Olds(d), i, i - 1) /\ Held(News(d), j, j + x - 1)
    BY <1>3, HeldRun
  <1>5. \A k \in 1..x : ~ Ctx(d[k])
    BY <1>1 DEF Ctx
  <1>6. DOMAIN d = 1..x
    BY <1>2
  <1>7. Same(d) = 0
    <2>1. Unchanged(d) = {}
      BY <1>5, <1>6 DEF Unchanged
    <2> QED
      BY <2>1, FS_EmptySet DEF Same
  <1> QED
    BY <1>2, <1>4, <1>5, <1>7 DEF Part

EqualFrom(a, b, i, j, x) == \A k \in 1..x : a[i+k-1] = b[j+k-1]
BothFrom(d, i, j, x) == d = [k \in 1..x |-> Line(i + k - 1, j + k - 1)]

LEMMA PartOfBoth ==
  ASSUME NEW a, NEW b, NEW i \in Nat \ {0}, NEW j \in Nat \ {0}, NEW x \in Nat,
         NEW d, BothFrom(d, i, j, x), EqualFrom(a, b, i, j, x)
  PROVE  /\ Same(d) = x
         /\ Part(d, a, b, i, i + x - 1, j, j + x - 1)
  <1>1. \A k \in 1..x : /\ i + k - 1 \in Nat \ {0} /\ d[k].old = i + k - 1
                        /\ j + k - 1 \in Nat \ {0} /\ d[k].new = j + k - 1
    BY DEF Line, BothFrom
  <1>2. d \in Seq(DiffLines) /\ Len(d) = x
    <2>1. \A k \in 1..x : Line(i + k - 1, j + k - 1) \in DiffLines
      BY DEF Line, DiffLines
    <2> QED
      BY <2>1 DEF BothFrom
  <1>3. /\ Olds(d) \in Seq(Nat) /\ News(d) \in Seq(Nat) /\ Len(Olds(d)) = x /\ Len(News(d)) = x
        /\ \A k \in 1..x : Olds(d)[k] = i + k - 1 /\ News(d)[k] = j + k - 1
    BY <1>1, <1>2, SidesOf
  <1>4. Held(Olds(d), i, i + x - 1) /\ Held(News(d), j, j + x - 1)
    BY <1>3, HeldRun
  <1>5. \A k \in 1..x : Ctx(d[k]) /\ a[d[k].old] = b[d[k].new]
    BY <1>1 DEF Ctx, EqualFrom
  <1>6. DOMAIN d = 1..x
    BY <1>2
  <1>7. Same(d) = x
    <2>1. Unchanged(d) = 1..x
      BY <1>5, <1>6 DEF Unchanged
    <2> DEFINE z == 1
    <2>2. z \in Int /\ x \in Int
      OBVIOUS
    <2>3. Cardinality(z..x) = IF z > x THEN 0 ELSE x - z + 1
      <3> HIDE DEF z
      <3> QED
        BY <2>2, FS_Interval
    <2>4. Cardinality(z..x) = x
      BY <2>3
    <2> QED
      BY <2>1, <2>4 DEF Same
  <1> QED
    BY <1>2, <1>4, <1>5, <1>7 DEF Part

\* The same, for the lines i to m and j to n.
LEMMA BothIsPart ==
  ASSUME NEW a, NEW b, NEW i, i \in Nat \ {0}, NEW j, j \in Nat \ {0}, NEW x, x \in Nat,
         NEW d, BothFrom(d, i, j, x), EqualFrom(a, b, i, j, x),
         NEW m, m \in Int, m + 1 = i + x, NEW n, n \in Int, n + 1 = j + x
  PROVE  Same(d) = x /\ Part(d, a, b, i, m, j, n)
  <1>1. ASSUME NEW k \in Nat \ {0}, NEW l \in Nat \ {0}, NEW y \in Nat, NEW v,
               BothFrom(v, k, l, y), EqualFrom(a, b, k, l, y)
        PROVE  Same(v) = y /\ Part(v, a, b, k, k + y - 1, l, l + y - 1)
    BY <1>1, PartOfBoth
  <1>2. Same(d) = x /\ Part(d, a, b, i, i + x - 1, j, j + x - 1)
    BY <1>1
  <1>3. m = i + x - 1 /\ n = j + x - 1
    OBVIOUS
  <1> QED
    BY <1>2, <1>3

LEMMA SameJoin ==
  ASSUME NEW d \in Seq(DiffLines), NEW e \in Seq(DiffLines)
  PROVE  /\ Same(d) \in Nat /\ Same(e) \in Nat
         /\ Same(d \o e) = Same(d) + Same(e)
  <1> DEFINE m == Len(d)
             n == Len(e)
             r == d \o e
             P == Unchanged(d)
             Q == Unchanged(e)
             R == {k \in m+1..m+n : Ctx(r[k])}
             f == [k \in Q |-> m + k]
  <1>1. /\ r \in Seq(DiffLines) /\ Len(r) = m + n /\ m \in Nat /\ n \in Nat
        /\ \A k \in 1..m : r[k] = d[k]
        /\ \A k \in 1..n : r[m+k] = e[k]
        /\ DOMAIN d = 1..m /\ DOMAIN e = 1..n
    BY Joined
  <1>2. DOMAIN r = 1..m+n
    BY <1>1
  <1> HIDE DEF r, m, n
  <1>3. P = {k \in 1..m : Ctx(d[k])} /\ Q = {k \in 1..n : Ctx(e[k])}
    BY <1>1 DEF Unchanged
  <1>4. IsFiniteSet(P) /\ IsFiniteSet(Q) /\ IsFiniteSet(R)
    <2> HIDE DEF P, Q
    <2>1. m + 1 \in Int /\ m + n \in Int /\ 1 \in Int
      BY <1>1
    <2>2. IsFiniteSet(1..m) /\ IsFiniteSet(1..n) /\ IsFiniteSet(m+1..m+n)
      <3> DEFINE lo == m + 1
                 hi == m + n
                 one == 1
      <3>1. lo \in Int /\ hi \in Int /\ one \in Int /\ m \in Int /\ n \in Int
        BY <1>1
      <3> HIDE DEF lo, hi, one
      <3>2. IsFiniteSet(one..m) /\ IsFiniteSet(one..n) /\ IsFiniteSet(lo..hi)
        BY <3>1, FS_Interval
      <3> QED
        BY <3>2 DEF lo, hi, one
    <2>3. P \in SUBSET (1..m) /\ Q \in SUBSET (1..n) /\ R \in SUBSET (m+1..m+n)
      BY <1>3
    <2> HIDE DEF R
    <2> QED
      BY <2>2, <2>3, FS_Subset
  <1>5. f \in Bijection(Q, R)
    <2>1. ASSUME NEW k \in Q PROVE m + k \in R
      <3>1. k \in 1..n /\ Ctx(e[k])
        BY <1>3
      <3> QED
        BY <1>1, <3>1
    <2>2. ASSUME NEW k \in R PROVE \E l \in Q : f[l] = k
      <3>1. k - m \in 1..n /\ k = m + (k - m)
        BY <1>1
      <3>2. k - m \in Q
        BY <1>1, <1>3, <3>1
      <3> HIDE DEF Q, R
      <3>3. f[k - m] = k
        BY <3>1, <3>2
      <3> QED
        BY <3>2, <3>3
    <2>3. \A k, l \in Q : f[k] = f[l] => k = l
      <3>1. \A k \in Q : k \in Int
        BY <1>3
      <3> HIDE DEF Q
      <3> QED
        BY <1>1, <3>1
    <2> HIDE DEF Q, R
    <2>4. f \in [Q -> R]
      BY <2>1
    <2> HIDE DEF f
    <2> QED
      BY <2>2, <2>3, <2>4 DEF Bijection, Injection, Surjection, IsInjective
  <1>6. Cardinality(R) = Cardinality(Q)
    <2> HIDE DEF Q, R, f
    <2>1. ExistsBijection(Q, R)
      BY <1>5 DEF ExistsBijection
    <2> QED
      BY <1>4, <2>1, FS_Bijection
  <1>7. Unchanged(r) = P \cup R /\ P \cap R = {}
    <2>1. Unchanged(r) = {k \in 1..m+n : Ctx(r[k])}
      BY <1>2 DEF Unchanged
    <2>2. \A k : k \in 1..m+n <=> k \in 1..m \/ k \in m+1..m+n
      BY <1>1
    <2>3. \A k \in m+1..m+n : k \notin 1..m
      BY <1>1
    <2> QED
      BY <1>1, <1>3, <2>1, <2>2, <2>3
  <1> HIDE DEF P, Q, R, f
  <1>8. Cardinality(P \cup R) = Cardinality(P) + Cardinality(R) - Cardinality(P \cap R)
    BY <1>4, FS_Union
  <1>9. Cardinality(P \cap R) = 0
    BY <1>7, FS_EmptySet
  <1>10. Cardinality(P) \in Nat /\ Cardinality(Q) \in Nat
    BY <1>4, FS_CardinalityType
  <1>11. Cardinality(Unchanged(r)) = Cardinality(P) + Cardinality(Q)
    BY <1>6, <1>7, <1>8, <1>9, <1>10
  <1> QED
    BY <1>10, <1>11 DEF Same, P, Q, r

\* The parts of one line.
LEMMA PartOfEqualLine ==
  ASSUME NEW a, NEW b, NEW i, i \in Nat \ {0}, NEW j, j \in Nat \ {0}, a[i] = b[j],
         NEW c, c = <<Line(i, j)>>
  PROVE  Part(c, a, b, i, i, j, j) /\ Same(c) = 1
  <1> DEFINE x == 1
  <1>1. BothFrom(c, i, j, x)
    <2> DEFINE v == [k \in 1..x |-> Line(i + k - 1, j + k - 1)]
    <2>1. v[1] = Line(i, j)
      BY DEF Line
    <2>2. v = <<v[1]>>
      OBVIOUS
    <2> QED
      BY <2>1, <2>2 DEF BothFrom
  <1>2. EqualFrom(a, b, i, j, x)
    <2>1. \A k \in 1..x : i + k - 1 = i /\ j + k - 1 = j
      OBVIOUS
    <2> QED
      BY <2>1 DEF EqualFrom
  <1>3. x \in Nat /\ i + x - 1 = i /\ j + x - 1 = j /\ x = 1
    OBVIOUS
  <1> HIDE DEF x
  <1>4. ASSUME NEW n \in Nat, NEW v, BothFrom(v, i, j, n), EqualFrom(a, b, i, j, n)
        PROVE  Same(v) = n /\ Part(v, a, b, i, i + n - 1, j, j + n - 1)
    BY <1>4, PartOfBoth
  <1>5. Same(c) = x /\ Part(c, a, b, i, i + x - 1, j, j + x - 1)
    BY <1>1, <1>2, <1>3, <1>4
  <1> QED
    BY <1>3, <1>5

LEMMA PartOfLine ==
  ASSUME NEW a, NEW b, NEW i \in Nat \ {0}, NEW j \in Nat \ {0}
  PROVE  /\ Part(<<Line(i, 0)>>, a, b, i, i, j, j - 1) /\ Same(<<Line(i, 0)>>) = 0
         /\ Part(<<Line(0, j)>>, a, b, i, i - 1, j, j) /\ Same(<<Line(0, j)>>) = 0
  <1> DEFINE x == 1
             d == [k \in 1..x |-> Line(i + k - 1, 0)]
             e == [k \in 1..x |-> Line(0, j + k - 1)]
  <1>1. d = <<Line(i, 0)>>
    <2>1. d[1] = Line(i, 0)
      BY DEF Line
    <2>2. d = <<d[1]>>
      OBVIOUS
    <2> QED
      BY <2>1, <2>2
  <1>2. e = <<Line(0, j)>>
    <2>1. e[1] = Line(0, j)
      BY DEF Line
    <2>2. e = <<e[1]>>
      OBVIOUS
    <2> QED
      BY <2>1, <2>2
  <1>3. x \in Nat /\ i + x - 1 = i /\ j + x - 1 = j /\ x = 1
    OBVIOUS
  <1>4. Part(d, a, b, i, i + x - 1, j, j - 1) /\ Same(d) = 0
    <2> HIDE DEF x
    <2> QED
      BY <1>3, PartOfOlds
  <1>5. Part(e, a, b, i, i - 1, j, j + x - 1) /\ Same(e) = 0
    <2> HIDE DEF x
    <2> QED
      BY <1>3, PartOfNews
  <1> HIDE DEF d, e, x
  <1> QED
    BY <1>1, <1>2, <1>3, <1>4, <1>5

Walked(a, b) ==
  CHOOSE w : w = [p \in Cells(a, b) |-> WalkFrom(a, b, Table(a, b), w, p[1], p[2])]

LEMMA WalkSteps ==
  ASSUME NEW a, Len(a) \in Nat, NEW b, Len(b) \in Nat
  PROVE  /\ \A i \in 1..Len(a) + 1, j \in 1..Len(b) + 1 :
              Walked(a, b)[<<i, j>>] = WalkFrom(a, b, Table(a, b), Walked(a, b), i, j)
         /\ Walk(a, b) = Walked(a, b)[<<1, 1>>]
  <1> DEFINE D == Cells(a, b)
             t == Table(a, b)
             w == Walked(a, b)
             N == Len(a) + Len(b)
             r == Rank(a, b)
             V == Seq(DiffLines)
             F == [f \in [D -> V] |-> [p \in D |-> WalkFrom(a, b, t, f, p[1], p[2])]]
  <1>0. N \in Nat /\ r \in [D -> 0..N]
    BY RankFacts
  <1>1. ASSUME NEW f \in [D -> V], NEW p \in D
        PROVE  WalkFrom(a, b, t, f, p[1], p[2]) \in V
    <2> DEFINE i == p[1]
               j == p[2]
    <2>1. p = <<i, j>> /\ i \in 1..Len(a) + 1 /\ j \in 1..Len(b) + 1
      BY CellFacts
    <2> HIDE DEF i, j, t
    <2>2. CASE i > Len(a)
      <3>1. Len(b) + 1 - j \in Nat
        BY <2>1
      <3>2. \A k \in 1..Len(b) + 1 - j : Line(0, j + k - 1) \in DiffLines
        BY <2>1 DEF Line, DiffLines
      <3>3. [k \in 1..Len(b) + 1 - j |-> Line(0, j + k - 1)] \in V
        BY <3>1, <3>2
      <3> QED
        BY <2>2, <3>3 DEF WalkFrom, i, j
    <2>3. CASE i <= Len(a) /\ j > Len(b)
      <3>1. Len(a) + 1 - i \in Nat
        BY <2>1
      <3>2. \A k \in 1..Len(a) + 1 - i : Line(i + k - 1, 0) \in DiffLines
        BY <2>1 DEF Line, DiffLines
      <3>3. [k \in 1..Len(a) + 1 - i |-> Line(i + k - 1, 0)] \in V
        BY <3>1, <3>2
      <3>4. ~(i > Len(a))
        BY <2>1, <2>3
      <3> QED
        BY <2>3, <3>3, <3>4 DEF WalkFrom, i, j
    <2>4. CASE i <= Len(a) /\ j <= Len(b)
      <3>1. i \in 1..Len(a) /\ j \in 1..Len(b)
        BY <2>1, <2>4
      <3>2. f[<<i + 1, j + 1>>] \in V /\ f[<<i + 1, j>>] \in V /\ f[<<i, j + 1>>] \in V
        BY <3>1, RankFacts
      <3>3. <<Line(i, j)>> \in V /\ <<Line(i, 0)>> \in V /\ <<Line(0, j)>> \in V
        <4>1. Line(i, j) \in DiffLines /\ Line(i, 0) \in DiffLines /\ Line(0, j) \in DiffLines
          BY <2>1 DEF Line, DiffLines
        <4> HIDE DEF D
        <4> QED
          BY <4>1
      <3>4. /\ <<Line(i, j)>> \o f[<<i + 1, j + 1>>] \in V
            /\ <<Line(i, 0)>> \o f[<<i + 1, j>>] \in V
            /\ <<Line(0, j)>> \o f[<<i, j + 1>>] \in V
        BY <3>2, <3>3, Joined
      <3>5. ~(i > Len(a)) /\ ~(j > Len(b))
        BY <2>1, <2>4
      <3> HIDE DEF V
      <3> QED
        BY <3>4, <3>5, Zenon DEF WalkFrom, i, j
    <2> QED
      BY <2>1, <2>2, <2>3, <2>4
  <1>2. ASSUME NEW f, NEW g, NEW p \in D, \A q \in D : r[q] < r[p] => f[q] = g[q]
        PROVE  WalkFrom(a, b, t, f, p[1], p[2]) = WalkFrom(a, b, t, g, p[1], p[2])
    <2> DEFINE i == p[1]
               j == p[2]
    <2>1. p = <<i, j>> /\ i \in 1..Len(a) + 1 /\ j \in 1..Len(b) + 1
      BY CellFacts
    <2> HIDE DEF i, j, t
    <2>2. CASE i > Len(a) \/ j > Len(b)
      BY <2>2, Zenon DEF WalkFrom, i, j
    <2>3. CASE i <= Len(a) /\ j <= Len(b)
      <3>1. i \in 1..Len(a) /\ j \in 1..Len(b)
        BY <2>1, <2>3
      <3>2. /\ f[<<i + 1, j + 1>>] = g[<<i + 1, j + 1>>]
            /\ f[<<i + 1, j>>] = g[<<i + 1, j>>] /\ f[<<i, j + 1>>] = g[<<i, j + 1>>]
        BY <1>2, <2>1, <3>1, RankFacts
      <3> QED
        BY <3>2, Zenon DEF WalkFrom, i, j
    <2> QED
      BY <2>1, <2>2, <2>3
  <1> HIDE DEF D, N, r, t, V, w
  <1>3. \E f \in [D -> V] : f = F[f]
    <2>1. F \in [[D -> V] -> [D -> V]]
      BY <1>1
    <2>2. ASSUME NEW f \in [D -> V], NEW g \in [D -> V], NEW p \in D,
                 \A q \in D : r[q] < r[p] => f[q] = g[q]
          PROVE  F[f][p] = F[g][p]
      BY <1>2, <2>2
    <2>3. \A f, g \in [D -> V] : \A p \in D :
            (\A q \in D : r[q] < r[p] => f[q] = g[q]) => F[f][p] = F[g][p]
      <3> HIDE DEF F
      <3> QED
        BY <2>2
    <2>4. V # {}
      <3>1. <<>> \in Seq(DiffLines)
        OBVIOUS
      <3> QED
        BY <3>1 DEF V
    <2> HIDE DEF F
    <2>5. Ranked(D, V, N, r, F)
      BY <1>0, <2>1, <2>3, <2>4 DEF Ranked
    <2> QED
      BY <2>5, Solvable
  <1>4. \E f : f = [p \in D |-> WalkFrom(a, b, t, f, p[1], p[2])]
    BY <1>3
  <1>5. w = [p \in D |-> WalkFrom(a, b, t, w, p[1], p[2])]
    BY <1>4, Zenon DEF Walked, D, t, w
  <1>6. Walk(a, b) = w[<<1, 1>>]
    BY DEF Walk, Walked, w
  <1>7. ASSUME NEW i \in 1..Len(a) + 1, NEW j \in 1..Len(b) + 1
        PROVE  w[<<i, j>>] = WalkFrom(a, b, t, w, i, j)
    <2>1. <<i, j>> \in D /\ <<i, j>>[1] = i /\ <<i, j>>[2] = j
      BY CellFacts DEF D
    <2> QED
      BY <1>5, <2>1
  <1> QED
    BY <1>6, <1>7 DEF t, w

\* What the walk gives from a cell on: a diff of the rest of both sides that
\* calls as many lines unchanged as the table says.
LEMMA WalkIsDiff ==
  ASSUME NEW a, Len(a) \in Nat, NEW b, Len(b) \in Nat
  PROVE  \A i \in 1..Len(a) + 1, j \in 1..Len(b) + 1 :
           /\ Part(Walked(a, b)[<<i, j>>], a, b, i, Len(a), j, Len(b))
           /\ Same(Walked(a, b)[<<i, j>>]) = Table(a, b)[<<i, j>>]
  <1> DEFINE D == Cells(a, b)
             t == Table(a, b)
             w == Walked(a, b)
             N == Len(a) + Len(b)
             r == Rank(a, b)
             Good(i, j) == Part(w[<<i, j>>], a, b, i, Len(a), j, Len(b))
                             /\ Same(w[<<i, j>>]) = t[<<i, j>>]
             T == {p \in D : Good(p[1], p[2])}
  <1>1. N \in Nat /\ r \in [D -> 0..N]
    BY RankFacts
  <1>2. ASSUME NEW i \in 1..Len(a) + 1, NEW j \in 1..Len(b) + 1,
               \A q \in D : r[q] < r[<<i, j>>] => q \in T
        PROVE  Good(i, j)
    <2>1. /\ t \in [D -> Nat] /\ <<i, j>> \in D
          /\ t[<<i, j>>] = Longest(a, b, t, i, j) /\ t[<<i, j>>] \in Nat
          /\ w[<<i, j>>] = WalkFrom(a, b, t, w, i, j)
      BY TableSteps, CellFacts, WalkSteps
    <2>2. i \in Nat \ {0} /\ j \in Nat \ {0}
      OBVIOUS
    <2>3. CASE i > Len(a)
      <3> DEFINE x == Len(b) + 1 - j
                 d == [k \in 1..x |-> Line(0, j + k - 1)]
      <3>1. x \in Nat /\ i - 1 = Len(a) /\ j + x - 1 = Len(b)
        BY <2>3
      <3>2. w[<<i, j>>] = d
        BY <2>1, <2>3 DEF WalkFrom
      <3>3. t[<<i, j>>] = 0
        BY <2>1, <2>3 DEF Longest
      <3>4. Part(d, a, b, i, i - 1, j, j + x - 1) /\ Same(d) = 0
        <4> HIDE DEF x
        <4> QED
          BY <2>2, <3>1, PartOfNews
      <3> HIDE DEF d, x, t, w
      <3> QED
        BY <3>1, <3>2, <3>3, <3>4
    <2>4. CASE i <= Len(a) /\ j > Len(b)
      <3> DEFINE x == Len(a) + 1 - i
                 d == [k \in 1..x |-> Line(i + k - 1, 0)]
      <3>0. ~(i > Len(a))
        BY <2>4
      <3>1. x \in Nat /\ i + x - 1 = Len(a) /\ j - 1 = Len(b)
        BY <2>4
      <3>2. w[<<i, j>>] = d
        BY <2>1, <2>4, <3>0 DEF WalkFrom
      <3>3. t[<<i, j>>] = 0
        BY <2>1, <2>4 DEF Longest
      <3>4. Part(d, a, b, i, i + x - 1, j, j - 1) /\ Same(d) = 0
        <4> HIDE DEF x
        <4> QED
          BY <2>2, <3>1, PartOfOlds
      <3> HIDE DEF d, x, t, w
      <3> QED
        BY <3>1, <3>2, <3>3, <3>4
    <2>5. CASE i <= Len(a) /\ j <= Len(b)
      <3>1. i \in 1..Len(a) /\ j \in 1..Len(b) /\ ~(i > Len(a)) /\ ~(j > Len(b))
        BY <2>5
      <3>2. /\ <<i + 1, j + 1>> \in T /\ <<i + 1, j>> \in T /\ <<i, j + 1>> \in T
            /\ <<i + 1, j + 1>> \in D /\ <<i + 1, j>> \in D /\ <<i, j + 1>> \in D
        BY <1>2, <3>1, RankFacts
      <3>3. Good(i + 1, j + 1) /\ Good(i + 1, j) /\ Good(i, j + 1)
        BY <3>2
      <3>4. t[<<i + 1, j + 1>>] \in Nat /\ t[<<i + 1, j>>] \in Nat /\ t[<<i, j + 1>>] \in Nat
        BY <2>1, <3>2
      <3> HIDE DEF T, D, r, N, t, w
      <3>5. ASSUME NEW c, NEW m \in Int, NEW n \in Int, NEW v, i <= m + 1, j <= n + 1,
                   m <= Len(a), n <= Len(b), Part(c, a, b, i, m, j, n),
                   Part(v, a, b, m + 1, Len(a), n + 1, Len(b)), w[<<i, j>>] = c \o v
            PROVE  /\ Part(w[<<i, j>>], a, b, i, Len(a), j, Len(b))
                   /\ Same(w[<<i, j>>]) = Same(c) + Same(v)
        <4>1. Part(c \o v, a, b, i, Len(a), j, Len(b))
          BY <2>2, <3>5, PartJoin
        <4>2. c \in Seq(DiffLines) /\ v \in Seq(DiffLines)
          BY <3>5 DEF Part
        <4>3. Same(c \o v) = Same(c) + Same(v)
          BY <4>2, SameJoin
        <4> QED
          BY <3>5, <4>1, <4>3
      <3>6. CASE a[i] = b[j]
        <4> DEFINE c == <<Line(i, j)>>
                   v == w[<<i + 1, j + 1>>]
        <4>1. w[<<i, j>>] = c \o v
          BY <2>1, <3>1, <3>6 DEF WalkFrom
        <4>2. t[<<i, j>>] = t[<<i + 1, j + 1>>] + 1
          BY <2>1, <3>1, <3>6 DEF Longest
        <4>3. Part(c, a, b, i, i, j, j) /\ Same(c) = 1
          BY <2>2, <3>6, PartOfEqualLine
        <4>4. Part(v, a, b, i + 1, Len(a), j + 1, Len(b)) /\ Same(v) = t[<<i + 1, j + 1>>]
          BY <3>3
        <4> HIDE DEF c, v
        <4>5. i \in Int /\ j \in Int /\ i <= i + 1 /\ j <= j + 1 /\ i <= Len(a) /\ j <= Len(b)
          BY <3>1
        <4>6. Part(w[<<i, j>>], a, b, i, Len(a), j, Len(b)) /\ Same(w[<<i, j>>]) = Same(c) + Same(v)
          BY <3>5, <4>1, <4>3, <4>4, <4>5
        <4> QED
          BY <3>4, <4>2, <4>3, <4>4, <4>6
      <3>7. CASE a[i] # b[j] /\ t[<<i + 1, j>>] >= t[<<i, j + 1>>]
        <4> DEFINE c == <<Line(i, 0)>>
                   v == w[<<i + 1, j>>]
                   n == j - 1
        <4>1. w[<<i, j>>] = c \o v
          BY <2>1, <3>1, <3>7 DEF WalkFrom
        <4>2. t[<<i, j>>] = t[<<i + 1, j>>]
          <5> DEFINE x == t[<<i + 1, j>>]
                     y == t[<<i, j + 1>>]
          <5>1. t[<<i, j>>] = Max({x, y})
            BY <2>1, <3>1, <3>7 DEF Longest
          <5>2. x \in Int /\ y \in Int /\ x >= y
            BY <3>4, <3>7
          <5> HIDE DEF x, y
          <5>3. Max({x, y}) = x
            BY <5>2, MaxOfTwo
          <5> QED
            BY <5>1, <5>3 DEF x
        <4>3. Part(c, a, b, i, i, j, n) /\ Same(c) = 0
          BY <2>2, PartOfLine
        <4>4. Part(v, a, b, i + 1, Len(a), n + 1, Len(b)) /\ Same(v) = t[<<i + 1, j>>]
          <5>1. n + 1 = j
            BY <3>1
          <5> HIDE DEF n
          <5> QED
            BY <3>3, <5>1
        <4>5. i \in Int /\ n \in Int /\ i <= i + 1 /\ j <= n + 1 /\ i <= Len(a) /\ n <= Len(b)
          BY <3>1
        <4> HIDE DEF c, v, n
        <4>6. Part(w[<<i, j>>], a, b, i, Len(a), j, Len(b)) /\ Same(w[<<i, j>>]) = Same(c) + Same(v)
          BY <3>5, <4>1, <4>3, <4>4, <4>5
        <4> QED
          BY <3>4, <4>2, <4>3, <4>4, <4>6
      <3>8. CASE a[i] # b[j] /\ ~(t[<<i + 1, j>>] >= t[<<i, j + 1>>])
        <4> DEFINE c == <<Line(0, j)>>
                   v == w[<<i, j + 1>>]
                   m == i - 1
        <4>1. w[<<i, j>>] = c \o v
          BY <2>1, <3>1, <3>8 DEF WalkFrom
        <4>2. t[<<i, j>>] = t[<<i, j + 1>>]
          <5> DEFINE x == t[<<i + 1, j>>]
                     y == t[<<i, j + 1>>]
          <5>1. t[<<i, j>>] = Max({x, y})
            BY <2>1, <3>1, <3>8 DEF Longest
          <5>2. x \in Int /\ y \in Int /\ ~(x >= y)
            BY <3>4, <3>8
          <5> HIDE DEF x, y
          <5>3. Max({x, y}) = y
            BY <5>2, MaxOfTwo
          <5> QED
            BY <5>1, <5>3 DEF y
        <4>3. Part(c, a, b, i, m, j, j) /\ Same(c) = 0
          BY <2>2, PartOfLine
        <4>4. Part(v, a, b, m + 1, Len(a), j + 1, Len(b)) /\ Same(v) = t[<<i, j + 1>>]
          <5>1. m + 1 = i
            BY <3>1
          <5> HIDE DEF m
          <5> QED
            BY <3>3, <5>1
        <4>5. m \in Int /\ j \in Int /\ i <= m + 1 /\ j <= j + 1 /\ m <= Len(a) /\ j <= Len(b)
          BY <3>1
        <4> HIDE DEF c, v, m
        <4>6. Part(w[<<i, j>>], a, b, i, Len(a), j, Len(b)) /\ Same(w[<<i, j>>]) = Same(c) + Same(v)
          BY <3>5, <4>1, <4>3, <4>4, <4>5
        <4> QED
          BY <3>4, <4>2, <4>3, <4>4, <4>6
      <3> QED
        BY <3>6, <3>7, <3>8
    <2> QED
      BY <2>3, <2>4, <2>5
  <1>3. ASSUME NEW p \in D, \A q \in D : r[q] < r[p] => q \in T PROVE p \in T
    <2>1. p = <<p[1], p[2]>> /\ p[1] \in 1..Len(a) + 1 /\ p[2] \in 1..Len(b) + 1
      BY CellFacts
    <2>2. Good(p[1], p[2])
      <3> HIDE DEF T, r, D, N, Good
      <3>1. \A q \in D : r[q] < r[<<p[1], p[2]>>] => q \in T
        BY <1>3, <2>1
      <3> QED
        BY <1>2, <2>1, <3>1
    <2> HIDE DEF Good
    <2> QED
      BY <2>1, <2>2
  <1>4. D \subseteq T
    <2> HIDE DEF T, r, D, N
    <2> QED
      BY <1>1, <1>3, RankInduction
  <1>5. ASSUME NEW i \in 1..Len(a) + 1, NEW j \in 1..Len(b) + 1
        PROVE  Good(i, j)
    <2>1. <<i, j>> \in T /\ <<i, j>>[1] = i /\ <<i, j>>[2] = j
      BY <1>4, CellFacts
    <2> HIDE DEF Good
    <2> QED
      BY <2>1
  <1> QED
    BY <1>5

-----------------------------------------------------------------------------
(***************************************************************************)
(* What both texts begin and end with, and the middle between.             *)
(***************************************************************************)
LEMMA MinOfTwo ==
  ASSUME NEW x \in Int, NEW y \in Int
  PROVE  Min({x, y}) = IF x <= y THEN x ELSE y
  <1>1. \E z \in {x, y} : \A w \in {x, y} : z <= w
    OBVIOUS
  <1>2. Min({x, y}) \in {x, y} /\ \A w \in {x, y} : Min({x, y}) <= w
    BY <1>1, Zenon DEF Min
  <1> QED
    BY <1>2

LEMMA MaxOfNats ==
  ASSUME NEW T \in SUBSET Nat, T # {}, NEW n \in Nat, \A y \in T : y <= n
  PROVE  Max(T) \in T /\ \A y \in T : y <= Max(T)
  <1> DEFINE R == {x \in 0..n : n - x \in T}
  <1>1. R \in SUBSET Nat /\ R # {}
    <2>1. PICK y \in T : TRUE
      OBVIOUS
    <2>2. n - y \in 0..n /\ n - (n - y) = y
      BY <2>1
    <2>3. n - y \in R
      BY <2>1, <2>2
    <2>4. R \subseteq 0..n
      OBVIOUS
    <2> HIDE DEF R
    <2> QED
      BY <2>3, <2>4
  <1>2. PICK x \in R : \A w \in R : x <= w
    <2> HIDE DEF R
    <2> QED
      BY <1>1, LeastNatural
  <1>3. ASSUME NEW y \in T PROVE y <= n - x
    <2>1. y \in Nat /\ n - y \in 0..n /\ n - (n - y) = y
      OBVIOUS
    <2>2. n - y \in R
      BY <2>1
    <2>3. x <= n - y /\ x \in Nat
      BY <1>2, <2>2
    <2> QED
      BY <2>1, <2>3
  <1>4. \E z \in T : \A y \in T : z >= y
    <2>1. n - x \in T /\ n - x \in Nat
      BY <1>2
    <2> QED
      BY <1>3, <2>1
  <1>5. Max(T) \in T /\ \A y \in T : Max(T) >= y
    BY <1>4, Zenon DEF Max
  <1> QED
    BY <1>5

LEMMA PrefixFacts ==
  ASSUME NEW X, NEW a \in Seq(X), NEW b \in Seq(X)
  PROVE  LET p == CommonPrefix(a, b)
         IN  /\ p \in Nat /\ p <= Len(a) /\ p <= Len(b)
             /\ \A k \in 1..p : a[k] = b[k]
  <1> DEFINE n == Min({Len(a), Len(b)})
             T == {k \in 0..n : SubSeq(a, 1, k) = SubSeq(b, 1, k)}
             p == CommonPrefix(a, b)
  <1>1. n \in Nat /\ n <= Len(a) /\ n <= Len(b)
    <2>1. Len(a) \in Nat /\ Len(b) \in Nat
      OBVIOUS
    <2> DEFINE x == Len(a)
               y == Len(b)
    <2>2. x \in Nat /\ y \in Nat /\ n = Min({x, y})
      BY <2>1
    <2> HIDE DEF x, y, n
    <2>3. x \in Int /\ y \in Int
      BY <2>2
    <2>4. Min({x, y}) = IF x <= y THEN x ELSE y
      BY <2>3, MinOfTwo
    <2>5. n \in Nat /\ n <= x /\ n <= y
      BY <2>2, <2>4
    <2> QED
      BY <2>5 DEF x, y
  <1>2. p = Max(T)
    BY DEF CommonPrefix
  <1> HIDE DEF n
  <1>3. 0 \in T
    <2>1. SubSeq(a, 1, 0) = <<>> /\ SubSeq(b, 1, 0) = <<>>
      OBVIOUS
    <2> QED
      BY <1>1, <2>1
  <1>4. p \in T
    <2>0. T \subseteq 0..n
      OBVIOUS
    <2> HIDE DEF T, p
    <2>1. T \in SUBSET Nat /\ T # {} /\ \A k \in T : k <= n
      BY <1>1, <1>3, <2>0
    <2> QED
      BY <1>1, <1>2, <2>1, MaxOfNats
  <1>5. p \in 0..n /\ SubSeq(a, 1, p) = SubSeq(b, 1, p)
    BY <1>4
  <1> HIDE DEF p, T
  <1>6. p \in 0..Len(a) /\ p \in 0..Len(b)
    BY <1>1, <1>5
  <1>7. ASSUME NEW k \in 1..p PROVE a[k] = b[k]
    <2>1. SubSeq(a, 1, p)[k] = a[k] /\ SubSeq(b, 1, p)[k] = b[k]
      BY <1>6, BeginOf
    <2> QED
      BY <1>5, <2>1
  <1> QED
    BY <1>6, <1>7 DEF p

LEMMA ReverseFacts ==
  ASSUME NEW X, NEW a \in Seq(X)
  PROVE  /\ Reverse(a) \in Seq(X) /\ Len(Reverse(a)) = Len(a)
         /\ \A k \in 1..Len(a) : Reverse(a)[k] = a[Len(a) - k + 1]
  <1> DEFINE n == Len(a)
  <1>1. n \in Nat /\ \A k \in 1..n : n - k + 1 \in 1..n
    OBVIOUS
  <1>2. \A k \in 1..n : a[n - k + 1] \in X
    BY <1>1
  <1> DEFINE r == Reverse(a)
  <1>3. r = [k \in 1..n |-> a[n - k + 1]]
    BY DEF Reverse
  <1> HIDE DEF n, r
  <1>4. r \in Seq(X) /\ Len(r) = n
    BY <1>1, <1>2, <1>3
  <1>5. \A k \in 1..n : r[k] = a[n - k + 1]
    BY <1>3
  <1> QED
    BY <1>4, <1>5 DEF n, r

LEMMA SuffixFacts ==
  ASSUME NEW X, NEW a \in Seq(X), NEW b \in Seq(X)
  PROVE  LET q == CommonSuffix(a, b)
         IN  /\ q \in Nat /\ q <= Len(a) /\ q <= Len(b)
             /\ \A k \in 1..q : a[Len(a) - k + 1] = b[Len(b) - k + 1]
  <1> DEFINE q == CommonSuffix(a, b)
             x == Reverse(a)
             y == Reverse(b)
  <1>1. /\ x \in Seq(X) /\ y \in Seq(X) /\ Len(x) = Len(a) /\ Len(y) = Len(b)
        /\ \A k \in 1..Len(a) : x[k] = a[Len(a) - k + 1]
        /\ \A k \in 1..Len(b) : y[k] = b[Len(b) - k + 1]
        /\ Len(a) \in Nat /\ Len(b) \in Nat
    BY ReverseFacts
  <1>2. q = CommonPrefix(x, y)
    BY DEF CommonSuffix
  <1> HIDE DEF x, y, q
  <1>3. q \in Nat /\ q <= Len(x) /\ q <= Len(y) /\ \A k \in 1..q : x[k] = y[k]
    BY <1>1, <1>2, PrefixFacts
  <1>4. ASSUME NEW k \in 1..q PROVE a[Len(a) - k + 1] = b[Len(b) - k + 1]
    <2>1. k \in 1..Len(a) /\ k \in 1..Len(b)
      BY <1>1, <1>3
    <2>2. x[k] = a[Len(a) - k + 1]
      BY <1>1, <2>1
    <2>3. y[k] = b[Len(b) - k + 1]
      BY <1>1, <2>1
    <2>4. x[k] = y[k]
      BY <1>3
    <2> QED
      BY <2>2, <2>3, <2>4
  <1> QED
    BY <1>1, <1>3, <1>4 DEF q

LEMMA SliceFacts ==
  ASSUME NEW X, NEW a \in Seq(X), NEW m \in Nat, NEW e \in Nat, m + e <= Len(a)
  PROVE  /\ SubSeq(a, m + 1, Len(a) - e) \in Seq(X)
         /\ Len(SubSeq(a, m + 1, Len(a) - e)) = Len(a) - e - m
         /\ \A k \in 1..Len(a) - e - m : SubSeq(a, m + 1, Len(a) - e)[k] = a[m+k]
  OBVIOUS

\* The places of a common subsequence lie no lower and no higher than they must.
LEMMA IncreasingBounds ==
  ASSUME NEW k \in Nat, NEW n \in Nat, NEW f \in [1..k -> 1..n], Increasing(f, k)
  PROVE  \A p \in 1..k : p <= f[p] /\ f[p] <= n - (k - p)
  <1> DEFINE T == {p \in Nat : p \in 1..k => p <= f[p]}
             R == {p \in 1..k : f[p] <= n - (k - p)}
  <1>1. Nat \subseteq T
    <2>1. 0 \in T
      OBVIOUS
    <2>2. ASSUME NEW p \in Nat, p \in T PROVE p + 1 \in T
      <3> SUFFICES ASSUME p + 1 \in 1..k PROVE p + 1 <= f[p+1]
        OBVIOUS
      <3>1. CASE p = 0
        BY <3>1
      <3>2. CASE p # 0
        <4>1. p \in 1..k /\ p < p + 1
          BY <3>2
        <4>2. p <= f[p] /\ f[p] < f[p+1] /\ f[p] \in 1..n /\ f[p+1] \in 1..n
          BY <2>2, <4>1 DEF Increasing
        <4> QED
          BY <4>2
      <3> QED
        BY <3>1, <3>2
    <2> HIDE DEF T
    <2> QED
      BY <2>1, <2>2, Induction
  <1>2. 1..k \subseteq R
    <2>1. ASSUME NEW p \in 1..k, \A q \in p+1..k : q \in R PROVE p \in R
      <3>1. CASE p = k
        BY <3>1
      <3>2. CASE p # k
        <4>1. p + 1 \in p+1..k /\ p + 1 \in 1..k /\ p < p + 1
          BY <3>2
        <4>2. f[p+1] <= n - (k - (p + 1)) /\ f[p] < f[p+1] /\ f[p] \in 1..n /\ f[p+1] \in 1..n
          BY <2>1, <4>1 DEF Increasing
        <4> QED
          BY <4>2
      <3> QED
        BY <3>1, <3>2
    <2> HIDE DEF R
    <2> QED
      BY <2>1, Downward
  <1> QED
    BY <1>1, <1>2

\* A common subsequence is no longer than what both sides begin and end with
\* and the longest one in the middle.
LEMMA TrimBound ==
  ASSUME NEW a, NEW b, Len(a) \in Nat, Len(b) \in Nat, NEW s \in Nat, NEW e \in Nat,
         NEW c, NEW d, NEW most \in Nat, s + e <= Len(a), s + e <= Len(b),
         Len(c) = Len(a) - e - s, Len(d) = Len(b) - e - s,
         \A k \in 1..Len(a) - e - s : c[k] = a[s+k],
         \A k \in 1..Len(b) - e - s : d[k] = b[s+k],
         Bounded(c, d, 1, 1, most)
  PROVE  Bounded(a, b, 1, 1, s + most + e)
  <1> SUFFICES ASSUME NEW k \in Nat, NEW f \in [1..k -> 1..Len(a)], NEW g \in [1..k -> 1..Len(b)],
                      Common(a, b, k, f, g)
               PROVE  k <= s + most + e
    BY DEF Bounded
  <1> SUFFICES ASSUME k > s + most + e PROVE FALSE
    OBVIOUS
  <1>1. Increasing(f, k) /\ Increasing(g, k) /\ \A p \in 1..k : a[f[p]] = b[g[p]]
    BY DEF Common
  <1>2. \A p \in 1..k : /\ p <= f[p] /\ f[p] <= Len(a) - (k - p)
                        /\ p <= g[p] /\ g[p] <= Len(b) - (k - p)
    BY <1>1, IncreasingBounds
  <1> DEFINE m == k - s - e
             h == [p \in 1..m |-> f[p+s] - s]
             i == [p \in 1..m |-> g[p+s] - s]
  <1>3. m \in Nat /\ m > most
    OBVIOUS
  <1>4. ASSUME NEW p \in 1..m
        PROVE  /\ p + s \in 1..k /\ h[p] = f[p+s] - s /\ i[p] = g[p+s] - s
               /\ f[p+s] \in Int /\ g[p+s] \in Int
               /\ h[p] \in 1..Len(a)-e-s /\ i[p] \in 1..Len(b)-e-s
    <2>1. p + s \in 1..k /\ k - (p + s) >= e
      OBVIOUS
    <2>2. /\ p + s <= f[p+s] /\ f[p+s] <= Len(a) - (k - (p + s)) /\ f[p+s] \in Int
          /\ p + s <= g[p+s] /\ g[p+s] <= Len(b) - (k - (p + s)) /\ g[p+s] \in Int
      BY <1>2, <2>1
    <2>3. h[p] = f[p+s] - s /\ i[p] = g[p+s] - s
      OBVIOUS
    <2>4. f[p+s] - s \in 1..Len(a)-e-s
      BY <2>1, <2>2
    <2>5. g[p+s] - s \in 1..Len(b)-e-s
      BY <2>1, <2>2
    <2> HIDE DEF h, i, m
    <2> QED
      BY <2>1, <2>2, <2>3, <2>4, <2>5
  <1>5. h \in [1..m -> 1..Len(c)] /\ i \in [1..m -> 1..Len(d)]
    <2>1. /\ h = [p \in 1..m |-> h[p]] /\ i = [p \in 1..m |-> i[p]]
          /\ Len(c) = Len(a) - e - s /\ Len(d) = Len(b) - e - s
      OBVIOUS
    <2> HIDE DEF h, i, m
    <2> QED
      BY <1>4, <2>1
  <1> HIDE DEF h, i, m
  <1>6. Common(c, d, m, h, i)
    <2>1. ASSUME NEW p \in 1..m, NEW q \in 1..m, p < q PROVE h[p] < h[q] /\ i[p] < i[q]
      <3>1. p + s \in 1..k /\ q + s \in 1..k /\ p + s < q + s
        BY <1>4, <2>1
      <3>2. f[p+s] < f[q+s] /\ g[p+s] < g[q+s]
        BY <1>1, <3>1 DEF Increasing
      <3> QED
        BY <1>4, <3>2
    <2>2. ASSUME NEW p \in 1..m PROVE c[h[p]] = d[i[p]]
      <3>1. c[h[p]] = a[s + h[p]] /\ d[i[p]] = b[s + i[p]]
        BY <1>4
      <3>2. s + h[p] = f[p+s] /\ s + i[p] = g[p+s]
        <4>1. h[p] = f[p+s] - s /\ i[p] = g[p+s] - s /\ f[p+s] \in Int /\ g[p+s] \in Int
          BY <1>4
        <4> DEFINE y == f[p+s]
                   z == g[p+s]
        <4>2. y \in Int /\ z \in Int /\ h[p] = y - s /\ i[p] = z - s
          BY <4>1
        <4> HIDE DEF y, z
        <4>3. s \in Int
          OBVIOUS
        <4>4. s + (y - s) = y /\ s + (z - s) = z
          BY ONLY <4>2, <4>3
        <4> QED
          BY <4>2, <4>4 DEF y, z
      <3>3. a[f[p+s]] = b[g[p+s]]
        BY <1>1, <1>4
      <3> QED
        BY <3>1, <3>2, <3>3
    <2> QED
      BY <2>1, <2>2 DEF Common, Increasing
  <1>7. m <= most
    BY <1>3, <1>5, <1>6 DEF Bounded
  <1> QED
    BY <1>3, <1>7

\* The diff of the middle, and where it comes to stand.
Mid(a, b) ==
  IF Len(a) * Len(b) \in 1..MaxCells THEN Walk(a, b) ELSE Replaced(a, b)
At(s, n) == IF n = 0 THEN 0 ELSE s + n
Moved(d, s) == [k \in DOMAIN d |-> Line(At(s, d[k].old), At(s, d[k].new))]

LEMMA Products ==
  ASSUME NEW x \in Nat, NEW y \in Nat
  PROVE  /\ x * y \in Nat
         /\ x * y = 0 => x = 0 \/ y = 0
         /\ \A v \in 0..x, w \in 0..y : v * w <= x * y
  OBVIOUS

LEMMA ReplacedFacts ==
  ASSUME NEW X, NEW a \in Seq(X), NEW b \in Seq(X)
  PROVE  Part(Replaced(a, b), a, b, 1, Len(a), 1, Len(b)) /\ Same(Replaced(a, b)) = 0
  <1> DEFINE m == Len(a)
             n == Len(b)
             one == 1
             after1 == m + 1
             d == [k \in 1..m |-> Line(one + k - 1, 0)]
             e == [k \in 1..n |-> Line(0, one + k - 1)]
  <1>1. /\ m \in Nat /\ n \in Nat /\ one \in Nat \ {0} /\ after1 \in Nat \ {0}
        /\ one + m - 1 = m /\ one + n - 1 = n /\ one - 1 = 0 /\ after1 - 1 = m
        /\ DOMAIN a = 1..m /\ DOMAIN b = 1..n
    OBVIOUS
  <1>2. Replaced(a, b) = d \o e
    <2>1. \A k \in Int : one + k - 1 = k
      OBVIOUS
    <2>2. d = [k \in 1..m |-> Line(k, 0)] /\ e = [k \in 1..n |-> Line(0, k)]
      BY <2>1
    <2> HIDE DEF d, e
    <2> QED
      BY <1>1, <2>2 DEF Replaced
  <1>3. Part(d, a, b, one, one + m - 1, one, one - 1) /\ Same(d) = 0
    <2> HIDE DEF m, one
    <2> QED
      BY <1>1, PartOfOlds
  <1>4. Part(e, a, b, after1, after1 - 1, one, one + n - 1) /\ Same(e) = 0
    <2> HIDE DEF m, n, one, after1
    <2> QED
      BY <1>1, PartOfNews
  <1> DEFINE zero == 0
  <1>5. /\ Part(d, a, b, one, m, one, zero) /\ Part(e, a, b, m + 1, m, zero + 1, n)
        /\ zero \in Int /\ m \in Int /\ n \in Int /\ one <= m + 1 /\ one <= zero + 1
        /\ m <= m /\ zero <= n
    <2>1. zero + 1 = one /\ zero = one - 1
      OBVIOUS
    <2> HIDE DEF d, e, one, zero
    <2> QED
      BY <1>1, <1>3, <1>4, <2>1 DEF after1
  <1> HIDE DEF d, e, m, n, one, zero, after1
  <1>6. Part(d \o e, a, b, one, m, one, n)
    BY <1>1, <1>5, PartJoin
  <1>7. Same(d \o e) = 0
    <2>1. d \in Seq(DiffLines) /\ e \in Seq(DiffLines)
      BY <1>5 DEF Part
    <2> QED
      BY <1>3, <1>4, <2>1, SameJoin
  <1> QED
    BY <1>2, <1>6, <1>7 DEF one, m, n

LEMMA MidFacts ==
  ASSUME NEW X, NEW a \in Seq(X), NEW b \in Seq(X)
  PROVE  /\ Part(Mid(a, b), a, b, 1, Len(a), 1, Len(b))
         /\ Len(a) * Len(b) <= MaxCells => Bounded(a, b, 1, 1, Same(Mid(a, b)))
  <1> DEFINE m == Len(a)
             n == Len(b)
  <1>1. m \in Nat /\ n \in Nat /\ 1 \in 1..m+1 /\ 1 \in 1..n+1
    OBVIOUS
  <1>2. CASE m * n \in 1..MaxCells
    <2>1. Mid(a, b) = Walked(a, b)[<<1, 1>>]
      BY <1>1, <1>2, WalkSteps DEF Mid
    <2>2. /\ Part(Walked(a, b)[<<1, 1>>], a, b, 1, m, 1, n)
          /\ Same(Walked(a, b)[<<1, 1>>]) = Table(a, b)[<<1, 1>>]
      BY <1>1, WalkIsDiff
    <2>3. Bounded(a, b, 1, 1, Table(a, b)[<<1, 1>>])
      BY <1>1, TableBounds
    <2> QED
      BY <2>1, <2>2, <2>3
  <1>3. CASE ~(m * n \in 1..MaxCells)
    <2>1. Mid(a, b) = Replaced(a, b)
      BY <1>3 DEF Mid
    <2>2. Part(Replaced(a, b), a, b, 1, m, 1, n) /\ Same(Replaced(a, b)) = 0
      BY ReplacedFacts
    <2>3. ASSUME m * n <= MaxCells PROVE Bounded(a, b, 1, 1, 0)
      <3>1. m * n \in Nat /\ (m * n = 0 => m = 0 \/ n = 0)
        BY <1>1, Products
      <3>2. m = 0 \/ n = 0
        <4> DEFINE x == m * n
        <4>1. x \in Nat /\ x <= MaxCells /\ MaxCells \in Nat /\ ~(x \in 1..MaxCells)
          BY <1>3, <2>3, <3>1, DiffAssumption
        <4> HIDE DEF x
        <4>2. x = 0
          BY <4>1
        <4> QED
          BY <3>1, <4>2 DEF x
      <3> SUFFICES ASSUME NEW k \in Nat, NEW f \in [1..k -> 1..m], NEW g \in [1..k -> 1..n]
                   PROVE  k <= 0
        BY DEF Bounded
      <3> SUFFICES ASSUME k >= 1 PROVE FALSE
        OBVIOUS
      <3>3. f[1] \in 1..m /\ g[1] \in 1..n
        OBVIOUS
      <3> HIDE DEF m, n
      <3> QED
        BY <3>2, <3>3
    <2> QED
      BY <2>1, <2>2, <2>3
  <1> QED
    BY <1>2, <1>3

LEMMA HeldMoved ==
  ASSUME NEW x \in Seq(Nat), NEW y \in Seq(Nat), NEW s \in Nat, NEW n \in Nat, Len(y) = Len(x),
         \A k \in 1..Len(x) : y[k] = At(s, x[k]), Held(x, 1, n)
  PROVE  Held(y, s + 1, s + n)
  <1>1. /\ \A k \in 1..Len(x) : x[k] = 0 \/ x[k] \in 1..n
        /\ \A i \in 1..n : \E k \in 1..Len(x) : x[k] = i
        /\ \A k, l \in 1..Len(x) : k < l /\ x[k] # 0 /\ x[l] # 0 => x[k] < x[l]
    BY DEF Held
  <1>2. \A k \in 1..Len(x) : /\ x[k] \in Nat /\ y[k] = IF x[k] = 0 THEN 0 ELSE s + x[k]
    BY DEF At
  <1>3. ASSUME NEW k \in 1..Len(x) PROVE y[k] = 0 \/ y[k] \in s+1..s+n
    BY <1>1, <1>2
  <1>4. ASSUME NEW i \in s+1..s+n PROVE \E k \in 1..Len(x) : y[k] = i
    <2>1. i - s \in 1..n /\ i - s # 0 /\ s + (i - s) = i
      OBVIOUS
    <2>2. PICK k \in 1..Len(x) : x[k] = i - s
      BY <1>1, <2>1
    <2>3. y[k] = i
      BY <1>2, <2>1, <2>2
    <2> QED
      BY <2>3
  <1>5. ASSUME NEW k \in 1..Len(x), NEW l \in 1..Len(x), k < l, y[k] # 0, y[l] # 0
        PROVE  y[k] < y[l]
    <2>1. x[k] # 0 /\ x[l] # 0 /\ y[k] = s + x[k] /\ y[l] = s + x[l]
      BY <1>2, <1>5
    <2>2. x[k] < x[l]
      BY <1>1, <1>5, <2>1
    <2> QED
      BY <1>2, <2>1, <2>2
  <1> QED
    BY <1>3, <1>4, <1>5 DEF Held

\* c is the part of a of length m behind s.
Behind(c, a, s, m) == \A k \in 1..m : c[k] = a[s+k]

\* d sets c against e, which stand in a and b behind s.
Moves(d, c, e, a, b, s, m, n) ==
  Behind(c, a, s, m) /\ Behind(e, b, s, n) /\ Part(d, c, e, 1, m, 1, n)

LEMMA PartMoved ==
  ASSUME NEW a, NEW b, NEW c, NEW e, NEW d, NEW s \in Nat, NEW m \in Nat, NEW n \in Nat,
         Moves(d, c, e, a, b, s, m, n)
  PROVE  /\ Part(Moved(d, s), a, b, s + 1, s + m, s + 1, s + n)
         /\ Same(Moved(d, s)) = Same(d)
  <1> DEFINE r == Moved(d, s)
             l == Len(d)
  <1>1. /\ d \in Seq(DiffLines) /\ Held(Olds(d), 1, m) /\ Held(News(d), 1, n)
        /\ \A k \in 1..l : Ctx(d[k]) => c[d[k].old] = e[d[k].new]
    BY DEF Moves, Part
  <1>2. /\ l \in Nat /\ DOMAIN d = 1..l
        /\ \A k \in 1..l : d[k].old \in Nat /\ d[k].new \in Nat
    BY <1>1, SidesOf
  <1>3. r = [k \in 1..l |-> Line(At(s, d[k].old), At(s, d[k].new))]
    BY <1>2 DEF Moved
  <1> HIDE DEF l, r
  <1>4. ASSUME NEW k \in 1..l
        PROVE  /\ r[k].old = At(s, d[k].old) /\ r[k].new = At(s, d[k].new) /\ r[k] \in DiffLines
               /\ r[k].old = 0 <=> d[k].old = 0
               /\ r[k].new = 0 <=> d[k].new = 0
    <2>1. r[k] = Line(At(s, d[k].old), At(s, d[k].new))
      BY <1>3
    <2>2. /\ At(s, d[k].old) \in Nat /\ At(s, d[k].new) \in Nat
          /\ At(s, d[k].old) = 0 <=> d[k].old = 0
          /\ At(s, d[k].new) = 0 <=> d[k].new = 0
      BY <1>2 DEF At
    <2>3. /\ r[k].old = At(s, d[k].old) /\ r[k].new = At(s, d[k].new)
      BY <2>1 DEF Line
    <2>4. r[k] \in DiffLines
      BY <2>1, <2>2 DEF Line, DiffLines
    <2> QED
      BY <2>2, <2>3, <2>4
  <1>5. r \in Seq(DiffLines) /\ Len(r) = l /\ DOMAIN r = 1..l
    <2>1. r = [k \in 1..l |-> r[k]]
      BY <1>3
    <2> QED
      BY <1>2, <1>4, <2>1
  <1>6. /\ Olds(d) \in Seq(Nat) /\ News(d) \in Seq(Nat) /\ Olds(r) \in Seq(Nat) /\ News(r) \in Seq(Nat)
        /\ Len(Olds(d)) = l /\ Len(News(d)) = l /\ Len(Olds(r)) = l /\ Len(News(r)) = l
        /\ \A k \in 1..l : /\ Olds(d)[k] = d[k].old /\ News(d)[k] = d[k].new
                           /\ Olds(r)[k] = r[k].old /\ News(r)[k] = r[k].new
    BY <1>1, <1>5, SidesOf DEF l
  <1>7. /\ \A k \in 1..l : Olds(r)[k] = At(s, Olds(d)[k]) /\ News(r)[k] = At(s, News(d)[k])
    BY <1>4, <1>6
  <1>8. Held(Olds(r), s + 1, s + m)
    BY <1>1, <1>6, <1>7, HeldMoved
  <1>9. Held(News(r), s + 1, s + n)
    BY <1>1, <1>6, <1>7, HeldMoved
  <1>10. \A k \in 1..l : Ctx(r[k]) <=> Ctx(d[k])
    BY <1>4 DEF Ctx
  <1>11. ASSUME NEW k \in 1..l, Ctx(r[k]) PROVE a[r[k].old] = b[r[k].new]
    <2>1. Ctx(d[k]) /\ d[k].old # 0 /\ d[k].new # 0
      BY <1>10, <1>11 DEF Ctx
    <2>2. r[k].old = s + d[k].old /\ r[k].new = s + d[k].new
      BY <1>4, <2>1 DEF At
    <2>3. d[k].old \in 1..m /\ d[k].new \in 1..n
      BY <1>1, <1>6, <2>1 DEF Held
    <2>4. c[d[k].old] = e[d[k].new]
      BY <1>1, <2>1
    <2> QED
      BY <2>2, <2>3, <2>4 DEF Moves, Behind
  <1>12. Part(r, a, b, s + 1, s + m, s + 1, s + n)
    BY <1>5, <1>8, <1>9, <1>11 DEF Part
  <1>13. Unchanged(r) = Unchanged(d)
    BY <1>2, <1>5, <1>10 DEF Unchanged
  <1> QED
    BY <1>12, <1>13 DEF Same, r

LEMMA LineDiffFacts ==
  ASSUME NEW X, NEW a \in Seq(X), NEW b \in Seq(X)
  PROVE  /\ Part(LineDiff(a, b), a, b, 1, Len(a), 1, Len(b))
         /\ Len(a) * Len(b) <= MaxCells => Bounded(a, b, 1, 1, Same(LineDiff(a, b)))
  <1> DEFINE m     == Len(a)
             n     == Len(b)
             start == CommonPrefix(a, b)
             restA == SubSeq(a, start + 1, Len(a))
             restB == SubSeq(b, start + 1, Len(b))
             tail  == CommonSuffix(restA, restB)
             midA  == SubSeq(a, start + 1, Len(a) - tail)
             midB  == SubSeq(b, start + 1, Len(b) - tail)
             mid   == Mid(midA, midB)
             head  == [i \in 1..start |-> Line(i, i)]
             body  == Moved(mid, start)
             foot  == [k \in 1..tail |-> Line(Len(a) - tail + k, Len(b) - tail + k)]
             x     == m - tail - start
             y     == n - tail - start
             one   == 1
             endA  == m - tail
             endB  == n - tail
  <1>1. LineDiff(a, b) = (head \o body) \o foot
    BY DEF LineDiff, Moved, Mid, At
  <1>2. /\ m \in Nat /\ n \in Nat /\ start \in Nat /\ start <= m /\ start <= n
        /\ \A k \in 1..start : a[k] = b[k]
    <2>1. m \in Nat /\ n \in Nat
      OBVIOUS
    <2> QED
      BY <2>1, PrefixFacts
  <1>3. /\ restA \in Seq(X) /\ Len(restA) = m - start
        /\ restB \in Seq(X) /\ Len(restB) = n - start
        /\ \A k \in 1..m - start : restA[k] = a[start+k]
        /\ \A k \in 1..n - start : restB[k] = b[start+k]
    <2>1. restA = From(a, start) /\ restB = From(b, start)
      BY DEF From
    <2>2. start \in 0..Len(a) /\ start \in 0..Len(b)
      BY <1>2
    <2> HIDE DEF start, restA, restB
    <2> QED
      BY <2>1, <2>2, EndOf
  <1>4. /\ tail \in Nat /\ tail <= m - start /\ tail <= n - start
        /\ \A k \in 1..tail : a[m - k + 1] = b[n - k + 1]
    <2> HIDE DEF restA, restB
    <2>0. tail = CommonSuffix(restA, restB)
      OBVIOUS
    <2> HIDE DEF tail, start, m, n, midA, midB, mid, head, body, foot, x, y, endA, endB, one
    <2>1. /\ tail \in Nat /\ tail <= Len(restA) /\ tail <= Len(restB)
          /\ \A k \in 1..tail : restA[Len(restA) - k + 1] = restB[Len(restB) - k + 1]
      <3>1. restA \in Seq(X) /\ restB \in Seq(X)
        BY <1>3
      <3> QED
        BY <2>0, <3>1, SuffixFacts
    <2>2. ASSUME NEW k \in 1..tail PROVE a[m - k + 1] = b[n - k + 1]
      <3>1. /\ m - start - k + 1 \in 1..m - start /\ start + (m - start - k + 1) = m - k + 1
            /\ n - start - k + 1 \in 1..n - start /\ start + (n - start - k + 1) = n - k + 1
        BY <1>2, <1>3, <2>1
      <3>2. restA[m - start - k + 1] = a[m - k + 1] /\ restB[n - start - k + 1] = b[n - k + 1]
        BY <1>3, <3>1
      <3>3. restA[m - start - k + 1] = restB[n - start - k + 1]
        BY <1>3, <2>1
      <3> QED
        BY <3>2, <3>3
    <2> QED
      BY <1>3, <2>1, <2>2
  <1> HIDE DEF restA, restB, tail, start
  <1>5. /\ x \in Nat /\ y \in Nat /\ x \in 0..m /\ y \in 0..n
        /\ start + x = endA /\ start + y = endB
        /\ endA \in Nat /\ endB \in Nat /\ start <= endA /\ start <= endB
        /\ endA <= m /\ endB <= n /\ endA + tail = m /\ endB + tail = n
    BY <1>2, <1>4
  <1>6. /\ midA \in Seq(X) /\ Len(midA) = x /\ midB \in Seq(X) /\ Len(midB) = y
        /\ \A k \in 1..x : midA[k] = a[start+k]
        /\ \A k \in 1..y : midB[k] = b[start+k]
    <2>1. start + tail <= Len(a) /\ start + tail <= Len(b)
      BY <1>2, <1>4
    <2>2. /\ midA \in Seq(X) /\ Len(midA) = Len(a) - tail - start
          /\ \A k \in 1..Len(a) - tail - start : midA[k] = a[start+k]
      <3> HIDE DEF m, n, x, y, endA, endB, head, foot, body, mid, midB
      <3> QED
        BY <1>2, <1>4, <2>1, SliceFacts
    <2>3. /\ midB \in Seq(X) /\ Len(midB) = Len(b) - tail - start
          /\ \A k \in 1..Len(b) - tail - start : midB[k] = b[start+k]
      <3> HIDE DEF m, n, x, y, endA, endB, head, foot, body, mid, midA
      <3> QED
        BY <1>2, <1>4, <2>1, SliceFacts
    <2> HIDE DEF midA, midB
    <2> QED
      BY <2>2, <2>3
  <1> HIDE DEF midA, midB
  <1>7. /\ Part(mid, midA, midB, 1, x, 1, y)
        /\ x * y <= MaxCells => Bounded(midA, midB, 1, 1, Same(mid))
    <2> HIDE DEF x, y
    <2> QED
      BY <1>6, MidFacts
  <1> HIDE DEF mid
  <1>8. Part(body, a, b, start + 1, endA, start + 1, endB) /\ Same(body) = Same(mid)
    <2> HIDE DEF m, n, x, y, endA, endB, body
    <2>0. Behind(midA, a, start, x) /\ Behind(midB, b, start, y)
      BY <1>6 DEF Behind
    <2>1. Moves(mid, midA, midB, a, b, start, x, y)
      BY <1>7, <2>0 DEF Moves
    <2>2. /\ Part(Moved(mid, start), a, b, start + 1, start + x, start + 1, start + y)
          /\ Same(Moved(mid, start)) = Same(mid)
      BY <1>2, <1>5, <2>1, PartMoved
    <2> QED
      BY <1>5, <2>2 DEF body
  <1>9. Same(head) = start /\ Part(head, a, b, one, start, one, start)
    <2>1. \A k \in Int : one + k - 1 = k
      OBVIOUS
    <2>2. head = [k \in 1..start |-> Line(one + k - 1, one + k - 1)]
      BY <2>1
    <2>3. \A k \in 1..start : a[one+k-1] = b[one+k-1]
      BY <1>2, <2>1
    <2>4. one \in Nat \ {0} /\ start + 1 = one + start /\ start \in Int
      BY <1>2
    <2> HIDE DEF head, one, m, n
    <2>5. BothFrom(head, one, one, start) /\ EqualFrom(a, b, one, one, start)
      BY <2>2, <2>3 DEF BothFrom, EqualFrom
    <2> QED
      BY <1>2, <2>4, <2>5, BothIsPart
  <1>10. Same(foot) = tail /\ Part(foot, a, b, endA + 1, m, endB + 1, n)
    <2> DEFINE i == endA + 1
               j == endB + 1
    <2>1. /\ i \in Nat \ {0} /\ j \in Nat \ {0} /\ m + 1 = i + tail /\ n + 1 = j + tail
          /\ m \in Int /\ n \in Int
      BY <1>4, <1>5
    <2>2. foot = [k \in 1..tail |-> Line(i + k - 1, j + k - 1)]
      <3>1. \A k \in 1..tail : Len(a) - tail + k = i + k - 1 /\ Len(b) - tail + k = j + k - 1
        BY <1>2, <1>4
      <3> HIDE DEF i, j
      <3> QED
        BY <3>1
    <2>3. ASSUME NEW k \in 1..tail PROVE a[i+k-1] = b[j+k-1]
      <3> DEFINE l == tail + 1 - k
      <3>1. l \in 1..tail /\ m - l + 1 = i + k - 1 /\ n - l + 1 = j + k - 1
        BY <1>2, <1>4
      <3> HIDE DEF l, i, j, m, n
      <3>2. a[m - l + 1] = b[n - l + 1]
        BY <1>4, <3>1
      <3> QED
        BY <3>1, <3>2
    <2> HIDE DEF foot, i, j
    <2>4. BothFrom(foot, i, j, tail) /\ EqualFrom(a, b, i, j, tail)
      BY <2>2, <2>3 DEF BothFrom, EqualFrom
    <2> HIDE DEF m, n
    <2>5. Same(foot) = tail /\ Part(foot, a, b, i, m, j, n)
      BY <1>4, <2>1, <2>4, BothIsPart
    <2> QED
      BY <2>1, <2>5 DEF i, j
  <1> DEFINE r == head \o body
             d == r \o foot
  <1>11. /\ one \in Nat \ {0} /\ start \in Int /\ endA \in Int /\ endB \in Int
         /\ m \in Int /\ n \in Int /\ one <= start + 1 /\ one <= endA + 1 /\ one <= endB + 1
    BY <1>2, <1>5
  <1> HIDE DEF head, body, foot, one, x, y, m, n, endA, endB
  <1>12. Part(r, a, b, one, endA, one, endB)
    BY <1>5, <1>8, <1>9, <1>11, PartJoin
  <1>13. Part(d, a, b, one, m, one, n)
    <2> HIDE DEF r
    <2> QED
      BY <1>5, <1>10, <1>11, <1>12, PartJoin
  <1>14. Same(d) = start + Same(mid) + tail /\ Same(mid) \in Nat
    <2>1. head \in Seq(DiffLines) /\ body \in Seq(DiffLines) /\ foot \in Seq(DiffLines)
          /\ r \in Seq(DiffLines)
      BY <1>8, <1>9, <1>10, <1>12 DEF Part
    <2>2. Same(r) = Same(head) + Same(body) /\ Same(body) \in Nat
      BY <2>1, SameJoin
    <2>3. Same(d) = Same(r) + Same(foot)
      <3> HIDE DEF r
      <3> QED
        BY <2>1, SameJoin
    <2> HIDE DEF r, d
    <2> QED
      BY <1>8, <1>9, <1>10, <2>2, <2>3
  <1>15. ASSUME m * n <= MaxCells PROVE Bounded(a, b, 1, 1, Same(d))
    <2>1. x * y <= m * n /\ x * y \in Nat /\ m * n \in Nat
      BY <1>2, <1>5, Products
    <2>2. x * y <= MaxCells
      <3> DEFINE v == x * y
                 w == m * n
      <3>1. v <= w /\ v \in Nat /\ w \in Nat /\ w <= MaxCells /\ MaxCells \in Nat
        BY <1>15, <2>1, DiffAssumption
      <3> HIDE DEF v, w
      <3>2. v <= MaxCells
        BY <3>1
      <3> QED
        BY <3>2 DEF v
    <2>3. Bounded(midA, midB, 1, 1, Same(mid))
      BY <1>7, <2>2
    <2>4. Bounded(a, b, 1, 1, start + Same(mid) + tail)
      <3>1. /\ Len(a) \in Nat /\ Len(b) \in Nat /\ start + tail <= Len(a) /\ start + tail <= Len(b)
            /\ Len(midA) = Len(a) - tail - start /\ Len(midB) = Len(b) - tail - start
            /\ \A k \in 1..Len(a) - tail - start : midA[k] = a[start+k]
            /\ \A k \in 1..Len(b) - tail - start : midB[k] = b[start+k]
        <4>1. m = Len(a) /\ n = Len(b) /\ x = m - tail - start /\ y = n - tail - start
          BY DEF x, y, m, n
        <4>2. start + tail <= m /\ start + tail <= n
          BY <1>2, <1>4
        <4> QED
          BY <1>2, <1>6, <4>1, <4>2
      <3> QED
        BY <1>2, <1>4, <1>14, <2>3, <3>1, TrimBound
    <2> HIDE DEF d
    <2> QED
      BY <1>14, <2>4
  <1> HIDE DEF d
  <1>16. LineDiff(a, b) = d
    BY <1>1 DEF d, r
  <1> QED
    BY <1>13, <1>15, <1>16 DEF m, n, one

-----------------------------------------------------------------------------
(***************************************************************************)
(* A diff that is a part from the first line to the last is aligned, and   *)
(* what bounds all common subsequences bounds the longest.                 *)
(***************************************************************************)
LEMMA HeldCounts ==
  ASSUME NEW s \in Seq(Nat), NEW n \in Nat, Held(s, 1, n)
  PROVE  Counts(s, n)
  <1>1. DOMAIN s = 1..Len(s)
    OBVIOUS
  <1>2. \A k \in 1..Len(s) : s[k] \in 0..n
    BY DEF Held
  <1> QED
    BY <1>1, <1>2 DEF Held, Counts

LEMMA PartAligned ==
  ASSUME NEW X, NEW a \in Seq(X), NEW b \in Seq(X), NEW d, Part(d, a, b, 1, Len(a), 1, Len(b))
  PROVE  Aligned(a, b, d)
  <1>1. /\ d \in Seq(DiffLines) /\ Held(Olds(d), 1, Len(a)) /\ Held(News(d), 1, Len(b))
        /\ \A k \in 1..Len(d) : Ctx(d[k]) => a[d[k].old] = b[d[k].new]
    BY DEF Part
  <1>2. Olds(d) \in Seq(Nat) /\ News(d) \in Seq(Nat) /\ DOMAIN d = 1..Len(d)
        /\ Len(a) \in Nat /\ Len(b) \in Nat
    BY <1>1, SidesOf
  <1>3. Counts(Olds(d), Len(a)) /\ Counts(News(d), Len(b))
    BY <1>1, <1>2, HeldCounts
  <1> QED
    BY <1>1, <1>2, <1>3 DEF Aligned, Olds, News

LEMMA BoundedNone ==
  ASSUME NEW X, NEW a \in Seq(X), NEW b \in Seq(X), NEW most, Bounded(a, b, 1, 1, most)
  PROVE  NoneLonger(a, b, most)
  <1> DEFINE x == Len(a)
             y == Len(b)
  <1>1. x \in Int /\ y \in Int /\ DOMAIN a = 1..x /\ DOMAIN b = 1..y
    OBVIOUS
  <1>2. Min({x, y}) \in Int
    <2> HIDE DEF x, y
    <2> QED
      BY <1>1, MinOfTwo
  <1> SUFFICES ASSUME NEW k \in 0..Min({x, y}),
                      NEW f \in [1..k -> DOMAIN a], NEW g \in [1..k -> DOMAIN b],
                      Common(a, b, k, f, g)
               PROVE  k <= most
    BY DEF NoneLonger
  <1>3. k \in Nat /\ f \in [1..k -> 1..Len(a)] /\ g \in [1..k -> 1..Len(b)]
    BY <1>1, <1>2
  <1> QED
    BY <1>3 DEF Bounded

-----------------------------------------------------------------------------
(***************************************************************************)
(* The hunks of a diff: what the scan has closed, and what is open.        *)
(***************************************************************************)
Scan(lines) ==
  LET scan[i \in 0..Len(lines)] ==
        IF i = 0 THEN [hunks |-> <<>>, current |-> {}, open |-> FALSE, trailing |-> 0]
        ELSE AddLine(lines, scan[i - 1], i)
  IN  scan

ScanStart == [hunks |-> <<>>, current |-> {}, open |-> FALSE, trailing |-> 0]

LEMMA ScanSteps ==
  ASSUME NEW d, Len(d) \in Nat
  PROVE  /\ Scan(d)[0] = ScanStart
         /\ \A k \in 1..Len(d) : Scan(d)[k] = AddLine(d, Scan(d)[k-1], k)
         /\ DiffHunks(d) = Flush(Scan(d)[Len(d)]).hunks
  <1> DEFINE Builds(f, m) == f = [k \in 0..m |-> IF k = 0 THEN ScanStart ELSE AddLine(d, f[k-1], k)]
             T == {m \in Nat : \E f : Builds(f, m)}
             n == Len(d)
             scan == Scan(d)
  <1>1. 0 \in T
    <2>1. Builds([k \in 0..0 |-> ScanStart], 0)
      OBVIOUS
    <2> QED
      BY <2>1
  <1>2. ASSUME NEW m \in Nat, m \in T PROVE m + 1 \in T
    <2>1. PICK f : Builds(f, m)
      BY <1>2
    <2> DEFINE g == [k \in 0..m+1 |-> IF k \in 0..m THEN f[k] ELSE AddLine(d, f[k-1], k)]
    <2>2. ASSUME NEW k \in 0..m+1
          PROVE  g[k] = IF k = 0 THEN ScanStart ELSE AddLine(d, g[k-1], k)
      <3>1. CASE k \in 0..m
        <4>1. g[k] = f[k]
          BY <3>1
        <4>2. k # 0 => g[k-1] = f[k-1]
          <5> SUFFICES ASSUME k # 0 PROVE g[k-1] = f[k-1]
            OBVIOUS
          <5>1. k - 1 \in 0..m /\ k - 1 \in 0..m+1
            BY <3>1
          <5> QED
            BY <5>1
        <4>3. f[k] = IF k = 0 THEN ScanStart ELSE AddLine(d, f[k-1], k)
          BY <2>1, <3>1
        <4> HIDE DEF g
        <4> QED
          BY <4>1, <4>2, <4>3
      <3>2. CASE k = m + 1
        <4>1. k # 0 /\ k \notin 0..m /\ k - 1 \in 0..m /\ k - 1 \in 0..m+1
          BY <3>2
        <4>2. g[k-1] = f[k-1]
          BY <4>1
        <4>3. g[k] = AddLine(d, f[k-1], k)
          BY <4>1
        <4> HIDE DEF g
        <4> QED
          BY <4>1, <4>2, <4>3
      <3> QED
        BY <3>1, <3>2
    <2>3. g = [k \in 0..m+1 |-> g[k]]
      OBVIOUS
    <2>4. Builds(g, m + 1)
      <3> HIDE DEF g
      <3> QED
        BY <2>2, <2>3
    <2> HIDE DEF g, Builds
    <2> QED
      BY <2>4
  <1>3. n \in T
    <2>1. Nat \subseteq T
      <3> HIDE DEF T
      <3> QED
        BY <1>1, <1>2, Induction
    <2> QED
      BY <2>1
  <1>4. Builds(scan, n)
    <2>1. PICK f : Builds(f, n)
      BY <1>3
    <2>2. scan = CHOOSE h : Builds(h, n)
      BY DEF Scan, ScanStart
    <2> HIDE DEF Builds, scan
    <2> QED
      BY <2>1, <2>2
  <1>5. DiffHunks(d) = Flush(scan[n]).hunks
    BY DEF DiffHunks, Scan
  <1>6. scan[0] = ScanStart /\ \A k \in 1..n : scan[k] = AddLine(d, scan[k-1], k)
    <2> HIDE DEF scan, n
    <2>1. n \in Nat
      BY DEF n
    <2> QED
      BY <1>4, <2>1
  <1> QED
    BY <1>5, <1>6
-----------------------------------------------------------------------------
Scans == [hunks : Seq(SUBSET Nat), current : SUBSET Nat, open : BOOLEAN, trailing : Nat]

\* A change at c reaches k.
Near(c, k) == c - Context <= k /\ k <= c + Context

\* What the changes of the first i lines reach.
Reached(d, i) == {k \in 1..Len(d) : \E c \in 1..i : Changed(d, c) /\ Near(c, k)}

Covered(s) == {x \in Nat : \E h \in 1..Len(s) : x \in s[h]}

\* Runs of positions, with a gap between one and the next.
Runs(s) ==
  /\ \A h \in 1..Len(s) : \E lo, hi \in Nat \ {0} : lo <= hi /\ s[h] = lo..hi
  /\ \A h \in 2..Len(s) : \A x \in s[h-1], y \in s[h] : x + 1 < y

\* Nothing before the line i + 1 is in reach of a later change.
Closed(d, s, i) ==
  /\ \A c \in 1..i : Changed(d, c) => c + Context < i
  /\ Covered(s.hunks) = Reached(d, i)
  /\ \A x \in Covered(s.hunks), c \in i+1..Len(d) : Changed(d, c) => x + 1 < c - Context

\* The open hunk goes from lo to i, and l is the last change in it.
Open(d, s, i, lo, l) ==
  /\ s.current = lo..i
  /\ \A x \in Covered(s.hunks) : x + 1 < lo
  /\ Covered(s.hunks) \cup lo..i = Reached(d, Len(d)) \cap 1..i
  /\ Changed(d, l) /\ \A c \in l+1..i : ~Changed(d, c)
  /\ s.trailing = IF i - l < Context THEN i - l ELSE Context

ScanInv(d, s, i) ==
  /\ s \in Scans /\ Runs(s.hunks)
  /\ ~s.open => Closed(d, s, i)
  /\ s.open => \E lo, l \in 1..i : Open(d, s, i, lo, l)

LEMMA RunsAppend ==
  ASSUME NEW s \in Seq(SUBSET Nat), Runs(s), NEW lo \in Nat \ {0}, NEW hi \in Nat, lo <= hi,
         \A x \in Covered(s) : x + 1 < lo
  PROVE  LET t == Append(s, lo..hi)
         IN  /\ t \in Seq(SUBSET Nat) /\ Runs(t) /\ Covered(t) = Covered(s) \cup lo..hi
  <1> DEFINE r == lo..hi
             t == Append(s, r)
             n == Len(s)
  <1>1. r \in SUBSET Nat /\ hi \in Nat \ {0}
    OBVIOUS
  <1>2. n \in Nat /\ \A h \in 1..n : s[h] \in SUBSET Nat
    OBVIOUS
  <1>3. t \in Seq(SUBSET Nat) /\ Len(t) = n + 1 /\ t[n+1] = r /\ \A h \in 1..n : t[h] = s[h]
    <2> HIDE DEF r
    <2> QED
      BY <1>1
  <1> HIDE DEF t, n
  <1>4. Covered(t) = Covered(s) \cup r
    <2>1. ASSUME NEW x \in Covered(t) PROVE x \in Covered(s) \cup r
      <3>1. PICK h \in 1..n+1 : x \in t[h]
        BY <1>3 DEF Covered
      <3>2. CASE h \in 1..n
        BY <1>3, <3>1, <3>2 DEF Covered, n
      <3>3. CASE h = n + 1
        BY <1>3, <3>1, <3>3
      <3> QED
        BY <1>2, <3>2, <3>3
    <2>2. ASSUME NEW x \in Covered(s) PROVE x \in Covered(t)
      <3>1. PICK h \in 1..n : x \in s[h] /\ x \in Nat
        BY DEF Covered, n
      <3>2. h \in 1..n+1 /\ t[h] = s[h]
        BY <1>2, <1>3
      <3> QED
        BY <1>3, <3>1, <3>2 DEF Covered
    <2>3. ASSUME NEW x \in r PROVE x \in Covered(t)
      <3>1. n + 1 \in 1..n+1 /\ x \in t[n+1] /\ x \in Nat
        BY <1>1, <1>2, <1>3
      <3> QED
        BY <1>3, <3>1 DEF Covered
    <2> HIDE DEF r
    <2> QED
      BY <2>1, <2>2, <2>3
  <1>5. \A h \in 1..n : \E l, u \in Nat \ {0} : l <= u /\ s[h] = l..u
    BY DEF Runs, n
  <1>6. \A h \in 2..n : \A x \in s[h-1], y \in s[h] : x + 1 < y
    BY DEF Runs, n
  <1>7. ASSUME NEW h \in 1..n+1 PROVE \E l, u \in Nat \ {0} : l <= u /\ t[h] = l..u
    <2>1. CASE h \in 1..n
      BY <1>3, <1>5, <2>1
    <2>2. CASE h = n + 1
      BY <1>1, <1>3, <2>2
    <2> QED
      BY <1>2, <2>1, <2>2
  <1>8. ASSUME NEW h \in 2..n+1, NEW x \in t[h-1], NEW y \in t[h] PROVE x + 1 < y
    <2>1. h - 1 \in 1..n /\ t[h-1] = s[h-1]
      BY <1>2, <1>3
    <2>2. CASE h \in 2..n
      <3>1. t[h] = s[h]
        BY <1>3, <2>2
      <3> QED
        BY <1>6, <2>1, <2>2, <3>1
    <2>3. CASE h = n + 1
      <3>1. x \in s[h-1] /\ x \in Nat
        BY <1>2, <2>1
      <3>2. x \in Covered(s)
        BY <2>1, <3>1 DEF Covered, n
      <3>3. y \in lo..hi
        BY <1>3, <2>3
      <3>4. x + 1 < lo /\ lo <= y
        BY <3>2, <3>3
      <3> QED
        BY <3>1, <3>3, <3>4
    <2> QED
      BY <1>2, <2>2, <2>3
  <1>9. Runs(t)
    BY <1>3, <1>7, <1>8 DEF Runs
  <1> QED
    BY <1>3, <1>4, <1>9 DEF t

LEMMA ScanStarts ==
  ASSUME NEW d, Len(d) \in Nat
  PROVE  ScanInv(d, ScanStart, 0)
  <1> DEFINE none == <<>>
  <1>1. none \in Seq(SUBSET Nat) /\ Len(none) = 0
    OBVIOUS
  <1>2. /\ ScanStart.hunks = none /\ ScanStart.open = FALSE
        /\ ScanStart \in Scans
    BY <1>1 DEF ScanStart, Scans
  <1> HIDE DEF none
  <1>3. Covered(none) = {} /\ Runs(none)
    BY <1>1 DEF Covered, Runs
  <1>4. Reached(d, 0) = {}
    BY DEF Reached
  <1>5. Closed(d, ScanStart, 0)
    BY <1>2, <1>3, <1>4 DEF Closed
  <1> QED
    BY <1>2, <1>3, <1>5 DEF ScanInv
-----------------------------------------------------------------------------
\* One line more.
LEMMA ReachedMore ==
  ASSUME NEW d, Len(d) \in Nat, NEW i \in 1..Len(d)
  PROVE  /\ ~Changed(d, i) => Reached(d, i) = Reached(d, i - 1)
         /\ \A c \in 1..Len(d), k \in 1..Len(d) :
              Changed(d, c) /\ Near(c, k) => k \in Reached(d, Len(d))
         /\ \A k \in Reached(d, i - 1) :
              /\ k \in 1..Len(d) /\ k \in Reached(d, Len(d))
              /\ \E c \in 1..i-1 : Changed(d, c) /\ Near(c, k)
         /\ \A k \in Reached(d, Len(d)) :
              k \in 1..Len(d) /\ \E c \in 1..Len(d) : Changed(d, c) /\ Near(c, k)
         /\ \A c \in 1..i-1, k \in 1..Len(d) :
              Changed(d, c) /\ Near(c, k) => k \in Reached(d, i - 1)
  <1>1. ASSUME ~Changed(d, i) PROVE Reached(d, i) = Reached(d, i - 1)
    <2>1. \A c \in 1..i : Changed(d, c) <=> c \in 1..i-1 /\ Changed(d, c)
      BY <1>1
    <2> QED
      BY <2>1 DEF Reached
  <1> QED
    BY <1>1 DEF Reached

\* A change that opens a hunk.
LEMMA ScanOpens ==
  ASSUME NEW d, Len(d) \in Nat, NEW i \in 1..Len(d), NEW s, ScanInv(d, s, i - 1),
         Changed(d, i), ~s.open
  PROVE  ScanInv(d, AddLine(d, s, i), i)
  <1> DEFINE n == Len(d)
             C == Context
             t == AddLine(d, s, i)
             lo == Max({1, i - C})
  <1>0. C \in Nat /\ n \in Nat /\ i \in Nat
    BY DiffAssumption
  <1>1. /\ lo \in 1..i /\ lo >= i - C /\ lo \in Int /\ (lo = 1 \/ lo = i - C)
    <2> DEFINE z == i - C
    <2>1. z \in Int /\ z <= i
      BY <1>0
    <2> HIDE DEF z
    <2>2. Max({1, z}) = IF 1 >= z THEN 1 ELSE z
      BY <2>1, MaxOfTwo
    <2>3. lo = IF 1 >= z THEN 1 ELSE z
      BY <2>2 DEF z
    <2> HIDE DEF lo
    <2>4. lo \in 1..i /\ lo >= z /\ (lo = 1 \/ lo = z)
      BY <1>0, <2>1, <2>3
    <2> QED
      BY <2>4 DEF z
  <1> HIDE DEF lo
  <1>2. s \in Scans /\ Runs(s.hunks) /\ Closed(d, s, i - 1)
    BY DEF ScanInv
  <1>3. t = [s EXCEPT !.open = TRUE, !.trailing = 0, !.current = lo..i]
    BY DEF AddLine, lo
  <1>4. /\ t \in Scans /\ t.hunks = s.hunks /\ t.open /\ t.trailing = 0 /\ t.current = lo..i
    <2>1. lo..i \in SUBSET Nat
      BY <1>1
    <2> HIDE DEF t
    <2> QED
      BY <1>2, <1>3, <2>1 DEF Scans
  <1> HIDE DEF t
  <1>5. /\ \A c \in 1..i-1 : Changed(d, c) => c + C < i - 1
        /\ Covered(s.hunks) = Reached(d, i - 1)
        /\ \A x \in Covered(s.hunks) : x + 1 < i - C
    <2>1. i \in (i - 1) + 1..n
      BY <1>0
    <2> QED
      BY <1>2, <2>1 DEF Closed
  <1>6. \A x \in Covered(t.hunks) : x + 1 < lo
    <2>1. Covered(t.hunks) = Covered(s.hunks) /\ Covered(s.hunks) \subseteq Nat
      BY <1>4 DEF Covered
    <2> QED
      BY <1>0, <1>1, <1>5, <2>1
  <1>7. ASSUME NEW k \in Reached(d, i - 1) PROVE k \in Reached(d, n) /\ k \in 1..i
    <2>1. k \in Reached(d, n) /\ k \in 1..n
      BY ReachedMore
    <2>2. PICK c \in 1..i-1 : Changed(d, c) /\ Near(c, k)
      BY ReachedMore
    <2>3. c + C < i - 1 /\ k <= c + C
      BY <1>5, <2>2 DEF Near
    <2> QED
      BY <1>0, <2>1, <2>3
  <1>8. ASSUME NEW k \in lo..i PROVE k \in Reached(d, n) /\ k \in 1..i
    <2>1. k \in 1..i /\ Near(i, k)
      BY <1>0, <1>1 DEF Near
    <2>2. k \in 1..n
      BY <1>0, <2>1
    <2> QED
      BY <2>1, <2>2, ReachedMore
  <1>9. ASSUME NEW k \in Reached(d, n), k \in 1..i PROVE k \in Reached(d, i - 1) \cup lo..i
    <2>1. PICK c \in 1..n : Changed(d, c) /\ Near(c, k)
      BY ReachedMore
    <2>2. CASE c < i
      <3>1. c \in 1..i-1 /\ k \in 1..n
        BY <1>0, <1>9, <2>2
      <3> QED
        BY <2>1, <3>1, ReachedMore
    <2>3. CASE c >= i
      <3>1. k >= i - C
        BY <1>0, <1>9, <2>1, <2>3 DEF Near
      <3> QED
        BY <1>0, <1>1, <1>9, <3>1
    <2> QED
      BY <1>0, <2>2, <2>3
  <1>10. Covered(t.hunks) \cup lo..i = Reached(d, n) \cap 1..i
    BY <1>4, <1>5, <1>7, <1>8, <1>9
  <1>11. t.trailing = IF i - i < C THEN i - i ELSE C
    BY <1>0, <1>4
  <1>12. Open(d, t, i, lo, i)
    <2>1. \A c \in i+1..i : ~Changed(d, c)
      BY <1>0
    <2> QED
      BY <1>4, <1>6, <1>10, <1>11, <2>1 DEF Open
  <1>13. i \in 1..i
    BY <1>0
  <1> QED
    BY <1>1, <1>2, <1>4, <1>12, <1>13 DEF ScanInv, t

\* A line that an open hunk takes: a change, or one in reach of a change.
LEMMA ScanTakes ==
  ASSUME NEW d, Len(d) \in Nat, NEW i \in 1..Len(d), NEW s \in Scans, Runs(s.hunks),
         NEW lo \in 1..i-1, NEW l \in 1..i-1, Open(d, s, i - 1, lo, l),
         NEW trailing \in Nat, NEW last \in 1..i, i \in Reached(d, Len(d)),
         Changed(d, last), \A c \in last+1..i : ~Changed(d, c),
         trailing = IF i - last < Context THEN i - last ELSE Context
  PROVE  LET t == [s EXCEPT !.open = TRUE, !.current = @ \cup {i}, !.trailing = trailing]
         IN  ScanInv(d, t, i)
  <1> DEFINE n == Len(d)
             t == [s EXCEPT !.open = TRUE, !.current = @ \cup {i}, !.trailing = trailing]
             R == Reached(d, n)
  <1>0. n \in Nat /\ i \in Nat /\ lo \in Nat /\ lo \in 1..i
    OBVIOUS
  <1>1. /\ s.current = lo..i-1
        /\ \A x \in Covered(s.hunks) : x + 1 < lo
        /\ Covered(s.hunks) \cup lo..i-1 = R \cap 1..i-1
    BY DEF Open
  <1>2. lo..i = lo..i-1 \cup {i} /\ 1..i = 1..i-1 \cup {i} /\ lo..i \in SUBSET Nat
    BY <1>0
  <1>3. t.hunks = s.hunks /\ t.open /\ t.current = lo..i /\ t.trailing = trailing /\ t \in Scans
    BY <1>1, <1>2 DEF Scans
  <1> HIDE DEF t
  <1>4. Covered(t.hunks) \cup lo..i = R \cap 1..i
    <2> HIDE DEF R
    <2>1. i \in R
      BY DEF R
    <2> QED
      BY <1>1, <1>2, <1>3, <2>1
  <1>5. Open(d, t, i, lo, last)
    BY <1>1, <1>3, <1>4 DEF Open
  <1> QED
    BY <1>0, <1>3, <1>5 DEF ScanInv, t

\* An unchanged line beyond the reach of every change.
LEMMA ScanCloses ==
  ASSUME NEW d, Len(d) \in Nat, NEW i \in 1..Len(d), NEW s \in Scans, Runs(s.hunks),
         NEW lo \in 1..i-1, NEW l \in 1..i-1, Open(d, s, i - 1, lo, l), s.open,
         s.trailing >= Context, \A k \in i..i + Context : ~Changed(d, k)
  PROVE  ScanInv(d, Flush(s), i)
  <1> DEFINE n == Len(d)
             C == Context
             R == Reached(d, n)
             t == Flush(s)
  <1>0. /\ n \in Nat /\ i \in Nat /\ lo \in Nat \ {0} /\ i - 1 \in Nat /\ lo <= i - 1 /\ l \in Nat
        /\ C \in Nat /\ 1 <= lo
    BY DiffAssumption
  <1>1. /\ s.current = lo..i-1
        /\ \A x \in Covered(s.hunks) : x + 1 < lo
        /\ Covered(s.hunks) \cup lo..i-1 = R \cap 1..i-1
        /\ Changed(d, l) /\ \A c \in l+1..i-1 : ~Changed(d, c)
        /\ s.trailing = IF i - 1 - l < C THEN i - 1 - l ELSE C
    BY DEF Open
  <1>2. s.hunks \in Seq(SUBSET Nat)
    BY DEF Scans
  <1>3. t.hunks = Append(s.hunks, lo..i-1) /\ t.open = FALSE /\ t.current = s.current /\ t.trailing = s.trailing
    BY <1>1 DEF Flush, Scans
  <1>4. t \in Scans
    <2>1. Append(s.hunks, lo..i-1) \in Seq(SUBSET Nat)
      BY <1>0, <1>1, <1>2, RunsAppend
    <2>2. t = [hunks |-> Append(s.hunks, lo..i-1), current |-> s.current, open |-> FALSE,
               trailing |-> s.trailing]
      BY <1>1 DEF Flush, Scans
    <2> HIDE DEF t
    <2> QED
      BY <2>1, <2>2 DEF Scans
  <1> HIDE DEF t
  <1>5. Runs(t.hunks) /\ Covered(t.hunks) = R \cap 1..i-1
    <2>1. Runs(t.hunks) /\ Covered(t.hunks) = Covered(s.hunks) \cup lo..i-1
      BY <1>0, <1>1, <1>2, <1>3, RunsAppend
    <2> QED
      BY <1>1, <2>1
  <1>6. l + C <= i - 1
    BY <1>0, <1>1
  <1>7. ASSUME NEW c \in 1..n, Changed(d, c) PROVE c <= l \/ c > i + C
    <2>1. ~(c \in l+1..i-1) /\ ~(c \in i..i+C)
      BY <1>1, <1>7
    <2> QED
      BY <1>0, <2>1
  <1>8. ASSUME NEW c \in 1..i, Changed(d, c) PROVE c + C < i
    <2>1. c \in 1..n
      BY <1>0
    <2> QED
      BY <1>0, <1>6, <1>7, <1>8, <2>1
  <1>9. R \cap 1..i-1 = Reached(d, i)
    <2>1. ASSUME NEW k \in R, k \in 1..i-1 PROVE k \in Reached(d, i)
      <3>1. PICK c \in 1..n : Changed(d, c) /\ c - C <= k /\ k <= c + C
        BY DEF Reached, Near
      <3>2. c <= i
        BY <1>0, <1>6, <1>7, <2>1, <3>1
      <3>3. c \in 1..i /\ k \in 1..n /\ Near(c, k)
        BY <1>0, <2>1, <3>1, <3>2 DEF Near
      <3> QED
        BY <3>1, <3>3 DEF Reached
    <2>2. ASSUME NEW k \in Reached(d, i) PROVE k \in R /\ k \in 1..i-1
      <3>1. k \in 1..n /\ \E c \in 1..i : Changed(d, c) /\ Near(c, k)
        BY DEF Reached
      <3>2. PICK c \in 1..i : Changed(d, c) /\ Near(c, k)
        BY <3>1
      <3>3. c \in 1..n /\ k <= c + C /\ c + C < i
        BY <1>0, <1>8, <3>2 DEF Near
      <3>4. k \in R
        BY <3>1, <3>2, <3>3 DEF Reached
      <3> QED
        BY <1>0, <3>1, <3>3, <3>4
    <2> HIDE DEF R
    <2> QED
      BY <2>1, <2>2
  <1>10. ASSUME NEW x \in Covered(t.hunks), NEW c \in i+1..n, Changed(d, c)
         PROVE  x + 1 < c - C
    <2>1. x \in 1..i-1
      BY <1>5
    <2>2. c \in 1..n /\ c > i + C
      BY <1>0, <1>6, <1>7, <1>10
    <2> QED
      BY <1>0, <2>1, <2>2
  <1>11. Closed(d, t, i)
    BY <1>5, <1>8, <1>9, <1>10 DEF Closed
  <1> QED
    BY <1>3, <1>4, <1>5, <1>11 DEF ScanInv, t

LEMMA ScanStep ==
  ASSUME NEW d, Len(d) \in Nat, DOMAIN d = 1..Len(d), NEW i \in 1..Len(d), NEW s,
         ScanInv(d, s, i - 1)
  PROVE  ScanInv(d, AddLine(d, s, i), i)
  <1> DEFINE n == Len(d)
             C == Context
             R == Reached(d, n)
  <1>0. /\ C \in Nat /\ n \in Nat /\ i \in Nat /\ s \in Scans /\ Runs(s.hunks)
        /\ s.open \in BOOLEAN /\ s.trailing \in Nat
    BY DiffAssumption DEF ScanInv, Scans
  <1>1. CASE Changed(d, i) /\ ~s.open
    BY <1>1, ScanOpens
  <1>2. CASE ~Changed(d, i) /\ ~s.open
    <2>1. AddLine(d, s, i) = s
      BY <1>2 DEF AddLine
    <2>2. Closed(d, s, i - 1)
      BY <1>2 DEF ScanInv
    <2>3. Reached(d, i) = Reached(d, i - 1)
      BY <1>2, ReachedMore
    <2>4. \A c \in 1..i : Changed(d, c) => c + C < i
      <3>1. \A c \in 1..i-1 : Changed(d, c) => c + C < i - 1
        BY <2>2 DEF Closed
      <3>2. \A c \in 1..i : c = i \/ c \in 1..i-1
        BY <1>0
      <3> QED
        BY <1>0, <1>2, <3>1, <3>2
    <2>5. \A x \in Covered(s.hunks), c \in i+1..n : Changed(d, c) => x + 1 < c - C
      <3>1. \A x \in Covered(s.hunks), c \in (i - 1) + 1..n : Changed(d, c) => x + 1 < c - C
        BY <2>2 DEF Closed
      <3>2. \A c \in i+1..n : c \in (i - 1) + 1..n
        BY <1>0
      <3> QED
        BY <3>1, <3>2
    <2>6. Closed(d, s, i)
      BY <2>2, <2>3, <2>4, <2>5 DEF Closed
    <2> QED
      BY <1>0, <1>2, <2>1, <2>6 DEF ScanInv
  <1>3. CASE s.open
    <2>1. PICK lo \in 1..i-1, l \in 1..i-1 : Open(d, s, i - 1, lo, l)
      BY <1>3 DEF ScanInv
    <2>2. /\ Changed(d, l) /\ \A c \in l+1..i-1 : ~Changed(d, c)
          /\ s.trailing = IF i - 1 - l < C THEN i - 1 - l ELSE C
      BY <2>1 DEF Open
    <2>3. s.current \in SUBSET Nat
      BY <1>0 DEF Scans
    <2> DEFINE with(x) == [s EXCEPT !.open = TRUE, !.current = @ \cup {i}, !.trailing = x]
    <2>4. CASE Changed(d, i)
      <3> DEFINE zero == 0
      <3>1. AddLine(d, s, i) = with(zero)
        BY <1>0, <1>3, <2>4 DEF AddLine, Scans
      <3>2. /\ i \in R /\ i \in 1..i /\ \A c \in i+1..i : ~Changed(d, c)
            /\ zero \in Nat /\ zero = IF i - i < C THEN i - i ELSE C
        <4>1. Near(i, i) /\ i \in 1..n
          BY <1>0 DEF Near
        <4> QED
          BY <1>0, <2>4, <4>1, ReachedMore
      <3> HIDE DEF zero
      <3>3. ScanInv(d, with(zero), i)
        BY <1>0, <2>1, <2>4, <3>2, ScanTakes
      <3> QED
        BY <3>1, <3>3
    <2>5. CASE ~Changed(d, i) /\ s.trailing < C
      <3>1. AddLine(d, s, i) = with(s.trailing + 1)
        BY <1>0, <1>3, <2>5 DEF AddLine, Scans
      <3>2. s.trailing = i - 1 - l /\ s.trailing + 1 = i - l /\ i - l <= C /\ l \in 1..i /\ l \in 1..n
        BY <1>0, <2>2, <2>5
      <3>3. i \in R
        <4>1. Near(l, i) /\ i \in 1..n
          BY <1>0, <3>2 DEF Near
        <4> QED
          BY <2>2, <3>2, <4>1, ReachedMore
      <3>4. \A c \in l+1..i : ~Changed(d, c)
        <4>1. \A c \in l+1..i : c = i \/ c \in l+1..i-1
          BY <1>0
        <4> QED
          BY <2>2, <2>5, <4>1
      <3>5. s.trailing + 1 \in Nat /\ s.trailing + 1 = IF i - l < C THEN i - l ELSE C
        BY <1>0, <3>2
      <3>6. ScanInv(d, with(s.trailing + 1), i)
        BY <1>0, <2>1, <2>2, <3>2, <3>3, <3>4, <3>5, ScanTakes
      <3> QED
        BY <3>1, <3>6
    <2>6. CASE ~Changed(d, i) /\ s.trailing >= C /\ \E k \in i+1..i+C : Changed(d, k)
      <3>1. AddLine(d, s, i) = with(s.trailing)
        <4>1. AddLine(d, s, i) = [s EXCEPT !.current = @ \cup {i}]
          BY <1>0, <1>3, <2>6 DEF AddLine
        <4>2. s = [s EXCEPT !.open = TRUE, !.trailing = s.trailing]
          BY <1>0, <1>3 DEF Scans
        <4> QED
          BY <1>0, <4>1, <4>2 DEF Scans
      <3>2. s.trailing = C /\ i - 1 - l >= C /\ l \in 1..i
        BY <1>0, <2>2, <2>6
      <3>3. i \in R
        <4>1. PICK k \in i+1..i+C : Changed(d, k)
          BY <2>6
        <4>2. Near(k, i) /\ i \in 1..n /\ k \in 1..n
          BY <1>0, <4>1 DEF Near, Changed
        <4> QED
          BY <4>1, <4>2, ReachedMore
      <3>4. \A c \in l+1..i : ~Changed(d, c)
        <4>1. \A c \in l+1..i : c = i \/ c \in l+1..i-1
          BY <1>0
        <4> QED
          BY <2>2, <2>6, <4>1
      <3>5. s.trailing = IF i - l < C THEN i - l ELSE C
        BY <1>0, <3>2
      <3>6. ScanInv(d, with(s.trailing), i)
        BY <1>0, <2>1, <2>2, <3>2, <3>3, <3>4, <3>5, ScanTakes
      <3> QED
        BY <3>1, <3>6
    <2>7. CASE ~Changed(d, i) /\ s.trailing >= C /\ ~ \E k \in i+1..i+C : Changed(d, k)
      <3>1. AddLine(d, s, i) = Flush(s)
        BY <1>0, <1>3, <2>7 DEF AddLine
      <3>2. \A k \in i..i+C : ~Changed(d, k)
        <4>1. \A k \in i..i+C : k = i \/ k \in i+1..i+C
          BY <1>0
        <4> QED
          BY <2>7, <4>1
      <3> QED
        BY <1>0, <1>3, <2>1, <2>7, <3>1, <3>2, ScanCloses
    <2> QED
      BY <1>0, <2>4, <2>5, <2>6, <2>7
  <1> QED
    BY <1>0, <1>1, <1>2, <1>3

LEMMA EndsOfRun ==
  ASSUME NEW lo \in Int, NEW hi \in Int, lo <= hi
  PROVE  Min(lo..hi) = lo /\ Max(lo..hi) = hi
  <1> DEFINE T == lo..hi
  <1>1. lo \in T /\ hi \in T /\ \A x \in T : lo <= x /\ x <= hi /\ x \in Int
    OBVIOUS
  <1> HIDE DEF T
  <1>2. Min(T) \in T /\ \A x \in T : Min(T) <= x
    BY <1>1, Zenon DEF Min
  <1>3. Max(T) \in T /\ \A x \in T : Max(T) >= x
    <2>1. \E x \in T : \A y \in T : x >= y
      BY <1>1
    <2> QED
      BY <2>1, Zenon DEF Max
  <1> DEFINE u == Min(T)
             v == Max(T)
  <1>4. u \in Int /\ lo <= u /\ u <= lo /\ v \in Int /\ v >= hi /\ v <= hi
    BY <1>1, <1>2, <1>3
  <1> HIDE DEF u, v
  <1>5. u = lo /\ v = hi
    BY <1>4
  <1> QED
    BY <1>5 DEF T, u, v

LEMMA HunksGrouped ==
  ASSUME NEW d, Len(d) \in Nat, DOMAIN d = 1..Len(d)
  PROVE  Grouped(d, DiffHunks(d))
  <1> DEFINE n == Len(d)
             C == Context
             scan == Scan(d)
             T == {k \in Nat : k <= n => ScanInv(d, scan[k], k)}
             hunks == DiffHunks(d)
  <1>0. /\ n \in Nat /\ C \in Nat
        /\ scan[0] = ScanStart
        /\ \A k \in 1..n : scan[k] = AddLine(d, scan[k-1], k)
        /\ hunks = Flush(scan[n]).hunks
    BY DiffAssumption, ScanSteps
  <1> HIDE DEF scan, hunks
  <1>1. 0 \in T
    BY <1>0, ScanStarts
  <1>2. ASSUME NEW k \in Nat, k \in T PROVE k + 1 \in T
    <2> SUFFICES ASSUME k + 1 <= n PROVE ScanInv(d, scan[k+1], k + 1)
      OBVIOUS
    <2> DEFINE i == k + 1
    <2>1. i \in 1..n /\ i - 1 = k /\ k <= n
      BY <1>0
    <2>2. scan[i] = AddLine(d, scan[i-1], i) /\ ScanInv(d, scan[i-1], i - 1)
      BY <1>0, <1>2, <2>1
    <2> HIDE DEF i
    <2>3. ScanInv(d, scan[i], i)
      BY <2>1, <2>2, ScanStep
    <2> QED
      BY <2>3 DEF i
  <1>3. ScanInv(d, scan[n], n)
    <2>1. Nat \subseteq T
      <3> HIDE DEF T
      <3> QED
        BY <1>1, <1>2, Induction
    <2> QED
      BY <1>0, <2>1
  <1> DEFINE s == scan[n]
             R == Reached(d, n)
  <1>4. hunks \in Seq(SUBSET Nat) /\ Runs(hunks) /\ Covered(hunks) = R
    <2>1. s \in Scans /\ Runs(s.hunks) /\ s.hunks \in Seq(SUBSET Nat) /\ s.open \in BOOLEAN
      BY <1>3 DEF ScanInv, Scans
    <2>2. CASE ~s.open
      <3>1. hunks = s.hunks
        BY <1>0, <2>2 DEF Flush
      <3>2. Covered(s.hunks) = R
        BY <1>3, <2>2 DEF ScanInv, Closed
      <3> QED
        BY <2>1, <3>1, <3>2
    <2>3. CASE s.open
      <3>1. PICK lo \in 1..n, l \in 1..n : Open(d, s, n, lo, l)
        BY <1>3, <2>3 DEF ScanInv
      <3>2. /\ s.current = lo..n /\ \A x \in Covered(s.hunks) : x + 1 < lo
            /\ Covered(s.hunks) \cup lo..n = R \cap 1..n
        BY <3>1 DEF Open
      <3>3. hunks = Append(s.hunks, lo..n)
        <4>1. Flush(s).hunks = Append(s.hunks, s.current)
          BY <2>1, <2>3 DEF Flush, Scans
        <4> QED
          BY <1>0, <3>2, <4>1
      <3>4. lo \in Nat \ {0} /\ lo <= n
        BY <1>0
      <3>5. hunks \in Seq(SUBSET Nat) /\ Runs(hunks) /\ Covered(hunks) = Covered(s.hunks) \cup lo..n
        <4> HIDE DEF n, s
        <4> QED
          BY <1>0, <2>1, <3>2, <3>3, <3>4, RunsAppend
      <3>6. R \cap 1..n = R
        BY DEF Reached
      <3> QED
        BY <3>2, <3>5, <3>6
    <2> QED
      BY <2>1, <2>2, <2>3
  <1>5. R = InReach(d)
    <2>1. \A i, k \in 1..n : Near(k, i) <=> i - k \in -C..C
      BY <1>0 DEF Near
    <2>2. DOMAIN d = 1..n
      OBVIOUS
    <2> QED
      BY <2>1, <2>2 DEF Reached, InReach
  <1>6. /\ DOMAIN hunks = 1..Len(hunks) /\ Len(hunks) \in Nat
        /\ \A h \in 1..Len(hunks) : hunks[h] \in SUBSET Nat
    BY <1>4
  <1>7. UNION Range(hunks) = Covered(hunks)
    <2>1. Range(hunks) = {hunks[h] : h \in 1..Len(hunks)}
      BY <1>6 DEF Range
    <2>2. ASSUME NEW x \in UNION Range(hunks) PROVE x \in Covered(hunks)
      <3>1. PICK h \in 1..Len(hunks) : x \in hunks[h]
        BY <2>1
      <3> QED
        BY <1>6, <3>1 DEF Covered
    <2>3. ASSUME NEW x \in Covered(hunks) PROVE x \in UNION Range(hunks)
      <3>1. PICK h \in 1..Len(hunks) : x \in hunks[h]
        BY DEF Covered
      <3> QED
        BY <2>1, <3>1
    <2> QED
      BY <2>2, <2>3
  <1>8. /\ \A h \in 1..Len(hunks) : \E lo, hi \in Nat \ {0} : lo <= hi /\ hunks[h] = lo..hi
        /\ \A h \in 2..Len(hunks) : \A x \in hunks[h-1], y \in hunks[h] : x + 1 < y
    BY <1>4 DEF Runs
  <1>9. ASSUME NEW h \in 1..Len(hunks)
        PROVE  /\ hunks[h] # {} /\ hunks[h] = Min(hunks[h])..Max(hunks[h])
               /\ Min(hunks[h]) \in hunks[h] /\ Max(hunks[h]) \in hunks[h]
               /\ Min(hunks[h]) \in Nat /\ Max(hunks[h]) \in Nat
    <2>1. PICK lo \in Nat \ {0}, hi \in Nat \ {0} : lo <= hi /\ hunks[h] = lo..hi
      BY <1>8
    <2>2. Min(lo..hi) = lo /\ Max(lo..hi) = hi
      BY <2>1, EndsOfRun
    <2>3. lo \in lo..hi /\ hi \in lo..hi
      BY <2>1
    <2> QED
      BY <2>1, <2>2, <2>3
  <1>10. ASSUME NEW h \in 1..Len(hunks), h > 1 PROVE Min(hunks[h]) > Max(hunks[h - 1]) + 1
    <2>1. h \in 2..Len(hunks) /\ h - 1 \in 1..Len(hunks)
      BY <1>6, <1>10
    <2>2. Min(hunks[h]) \in hunks[h] /\ Min(hunks[h]) \in Nat
      BY <1>9
    <2>3. Max(hunks[h-1]) \in hunks[h-1] /\ Max(hunks[h-1]) \in Nat
      BY <1>9, <2>1
    <2> QED
      BY <1>8, <2>1, <2>2, <2>3
  <1> QED
    BY <1>4, <1>5, <1>6, <1>7, <1>9, <1>10 DEF Grouped, hunks

-----------------------------------------------------------------------------
(***************************************************************************)
(* The theorem.                                                            *)
(***************************************************************************)
DiffType == before \in Seq(Text) /\ after \in Seq(Text)

LEMMA DiffStep ==
  ASSUME DiffType,
         [ViewsNext]_<<view, before, after, text, stream, buffer, got, cardsVars, log>>
  PROVE  DiffType'
  <1>1. CASE UNCHANGED <<before, after>>
    BY <1>1 DEF DiffType
  <1>2. CASE \E line \in Text : Edit(line)
    <2>1. PICK line \in Text : Edit(line)
      BY <1>2
    <2>2. Append(before, line) \in Seq(Text) /\ Append(after, line) \in Seq(Text)
      BY DEF DiffType
    <2> QED
      BY <2>1, <2>2 DEF DiffType, Edit
  <1> QED
    BY <1>1, <1>2 DEF ViewsNext

LEMMA DiffIsExact == DiffType => DiffExact
  <1> SUFFICES ASSUME before \in Seq(Text), after \in Seq(Text) PROVE DiffExact
    BY DEF DiffType
  <1> DEFINE d == LineDiff(before, after)
  <1>1. /\ Part(d, before, after, 1, Len(before), 1, Len(after))
        /\ Len(before) * Len(after) <= MaxCells => Bounded(before, after, 1, 1, Same(d))
    BY LineDiffFacts
  <1> HIDE DEF d
  <1>2. Aligned(before, after, d)
    BY <1>1, PartAligned
  <1>3. Len(before) * Len(after) <= MaxCells =>
          NoneLonger(before, after, Cardinality(Unchanged(d)))
    BY <1>1, BoundedNone DEF Same
  <1>4. Grouped(d, DiffHunks(d))
    <2>1. d \in Seq(DiffLines)
      BY <1>1 DEF Part
    <2>2. Len(d) \in Nat /\ DOMAIN d = 1..Len(d)
      BY <2>1
    <2> QED
      BY <2>2, HunksGrouped
  <1> QED
    BY <1>2, <1>3, <1>4 DEF DiffExact, d

\* The diff of the file viewer sets every line of both texts once and in order,
\* with as many lines unchanged as can be below the limit of the table, and its
\* hunks are the changes with their context, no line of it twice, and no two
\* of them touch (diff.ts, lineDiff and diffHunks).
THEOREM DiffExactHolds == ViewsSpec => []DiffExact
  <1>1. ViewsInit => DiffType
    BY DEF ViewsInit, DiffType
  <1> QED
    BY <1>1, DiffStep, DiffIsExact, PTL DEF ViewsSpec
==============================================================================
