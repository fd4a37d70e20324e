--------------------------- MODULE HistoryProofs ---------------------------
(***************************************************************************)
(* Proofs about the repair of a transcript, History.tla.                   *)
(*                                                                         *)
(* The library's induction theorems take an operator, which no prover here *)
(* can instantiate: Induction below is stated of a set of numbers instead, *)
(* and proved from its least counterexample.                               *)
(***************************************************************************)
EXTENDS History, SequenceTheorems, NaturalsInduction, WellFoundedInduction, TLAPS

LEMMA LeastNatural ==
  ASSUME NEW T \in SUBSET Nat, T # {}
  PROVE  \E x \in T : \A y \in T : x <= y
  <1> DEFINE R == OpToRel(<, Nat)
  <1>1. \A x, y \in Nat : y < x => <<y, x>> \in R
    BY DEF OpToRel
  <1>2. PICK x \in T : \A y \in T : ~ (<<y, x>> \in R)
    BY WFMin, NatLessThanWellFounded
  <1>3. \A y \in T : x \in Nat /\ y \in Nat /\ ~ (y < x)
    BY <1>1, <1>2
  <1> HIDE DEF R
  <1> QED
    BY <1>3

LEMMA Induction ==
  ASSUME NEW T, 0 \in T, \A n \in Nat : n \in T => n + 1 \in T
  PROVE  Nat \subseteq T
  <1> SUFFICES ASSUME Nat \ T # {} PROVE FALSE
    OBVIOUS
  <1>1. PICK x \in Nat \ T : \A y \in Nat \ T : x <= y
    <2>1. Nat \ T \in SUBSET Nat
      OBVIOUS
    <2> QED
      BY <2>1, LeastNatural
  <1>2. x # 0 /\ x - 1 \in Nat
    OBVIOUS
  <1>3. x - 1 \in T
    BY <1>1, <1>2
  <1>4. (x - 1) + 1 = x
    OBVIOUS
  <1> QED
    BY <1>2, <1>3, <1>4

-----------------------------------------------------------------------------
LEMMA FlattenFunction ==
  ASSUME NEW B, Len(B) \in Nat, NEW n \in Nat
  PROVE  \E f : f = [i \in 1..n |-> IF i = 1 THEN B[i] ELSE f[i-1] \o B[i]]
  <1> DEFINE Joins(f, m) == f = [i \in 1..m |-> IF i = 1 THEN B[i] ELSE f[i-1] \o B[i]]
             T == {m \in Nat : \E f : Joins(f, m)}
  <1>1. 0 \in T
    <2>1. Joins([i \in 1..0 |-> B[i]], 0)
      OBVIOUS
    <2> QED
      BY <2>1
  <1>2. ASSUME NEW m \in Nat, m \in T PROVE m + 1 \in T
    <2>1. PICK f : Joins(f, m)
      BY <1>2
    <2> DEFINE g == [i \in 1..m+1 |-> IF i \in 1..m THEN f[i]
                                      ELSE IF i = 1 THEN B[i] ELSE f[i-1] \o B[i]]
    <2>2. ASSUME NEW i \in 1..m+1
          PROVE  g[i] = IF i = 1 THEN B[i] ELSE g[i-1] \o B[i]
      <3>1. CASE i \in 1..m
        <4>1. g[i] = f[i] /\ (i # 1 => g[i-1] = f[i-1])
          BY <3>1
        <4>2. f[i] = IF i = 1 THEN B[i] ELSE f[i-1] \o B[i]
          BY <2>1, <3>1
        <4> QED
          BY <4>1, <4>2
      <3>2. CASE i = m + 1
        BY <3>2
      <3> QED
        BY <3>1, <3>2
    <2>3. Joins(g, m + 1)
      BY <2>2
    <2> HIDE DEF g, Joins
    <2> QED
      BY <2>3
  <1> HIDE DEF T
  <1>3. n \in T
    BY <1>1, <1>2, Induction
  <1> QED
    BY <1>3 DEF T

LEMMA FlattenJoins ==
  ASSUME NEW B, Len(B) \in Nat, Len(B) # 0
  PROVE  \E f : /\ f[1] = B[1]
                /\ \A i \in 2..Len(B) : f[i] = f[i-1] \o B[i]
                /\ FlattenSeq(B) = f[Len(B)]
  <1> DEFINE f == CHOOSE f : f = [i \in 1..Len(B) |-> IF i = 1 THEN B[i] ELSE f[i-1] \o B[i]]
  <1>1. f = [i \in 1..Len(B) |-> IF i = 1 THEN B[i] ELSE f[i-1] \o B[i]]
    BY FlattenFunction
  <1>2. FlattenSeq(B) = f[Len(B)]
    BY DEF FlattenSeq
  <1> HIDE DEF f
  <1>3. f[1] = B[1]
    BY <1>1
  <1>4. ASSUME NEW i \in 2..Len(B) PROVE f[i] = f[i-1] \o B[i]
    <2>1. i \in 1..Len(B) /\ i # 1
      OBVIOUS
    <2> QED
      BY <1>1, <2>1
  <1> QED
    BY <1>2, <1>3, <1>4

LEMMA FlattenEmpty == FlattenSeq(<<>>) = <<>>
  BY DEF FlattenSeq

LEMMA FlattenAppend ==
  ASSUME NEW S, NEW B \in Seq(Seq(S)), NEW s \in Seq(S)
  PROVE  /\ FlattenSeq(B) \in Seq(S)
         /\ FlattenSeq(Append(B, s)) = FlattenSeq(B) \o s
  <1> DEFINE C == Append(B, s)
  <1>0. C \in Seq(Seq(S)) /\ Len(C) = Len(B) + 1 /\ C[Len(C)] = s
        /\ Len(B) \in Nat /\ \A i \in 1..Len(B) : C[i] = B[i] /\ B[i] \in Seq(S)
    OBVIOUS
  <1> HIDE DEF C
  <1>1. PICK g : g[1] = C[1] /\ (\A i \in 2..Len(C) : g[i] = g[i-1] \o C[i])
                 /\ FlattenSeq(C) = g[Len(C)]
    <2>1. Len(C) \in Nat /\ Len(C) # 0
      BY <1>0
    <2> QED
      BY <2>1, FlattenJoins
  <1>2. CASE B = <<>>
    <2>1. Len(C) = 1 /\ C[1] = s
      BY <1>0, <1>2
    <2>2. FlattenSeq(C) = s /\ FlattenSeq(B) = <<>>
      BY <1>1, <1>2, <2>1, FlattenEmpty
    <2>3. <<>> \in Seq(S) /\ <<>> \o s = s
      OBVIOUS
    <2> QED
      BY <2>2, <2>3 DEF C
  <1>3. CASE B # <<>>
    <2>0. Len(B) # 0
      BY <1>3
    <2>1. PICK f : f[1] = B[1] /\ (\A i \in 2..Len(B) : f[i] = f[i-1] \o B[i])
                   /\ FlattenSeq(B) = f[Len(B)]
      BY <1>0, <2>0, FlattenJoins
    <2> DEFINE T == {m \in Nat : m + 1 <= Len(B) => f[m+1] = g[m+1] /\ f[m+1] \in Seq(S)}
    <2>2. 0 \in T
      BY <1>0, <1>1, <2>0, <2>1
    <2>3. ASSUME NEW m \in Nat, m \in T PROVE m + 1 \in T
      <3> SUFFICES ASSUME m + 2 <= Len(B)
                   PROVE  f[m+2] = g[m+2] /\ f[m+2] \in Seq(S)
        OBVIOUS
      <3>1. f[m+1] = g[m+1] /\ f[m+1] \in Seq(S)
        BY <2>3, <1>0
      <3>2. m + 2 \in 2..Len(B) /\ m + 2 \in 2..Len(C) /\ (m + 2) - 1 = m + 1
        BY <1>0
      <3>3. f[m+2] = f[m+1] \o B[m+2] /\ g[m+2] = g[m+1] \o C[m+2]
        BY <3>2, <2>1, <1>1
      <3>4. C[m+2] = B[m+2] /\ B[m+2] \in Seq(S)
        BY <3>2, <1>0
      <3> QED
        BY <3>1, <3>3, <3>4
    <2> HIDE DEF T
    <2>4a. Len(B) - 1 \in Nat
      BY <2>0, <1>0
    <2>4b. Nat \subseteq T
      BY <2>2, <2>3, Induction
    <2>4. Len(B) - 1 \in T
      BY <2>4a, <2>4b
    <2>5. f[Len(B)] = g[Len(B)] /\ f[Len(B)] \in Seq(S)
      BY <2>4, <1>0 DEF T
    <2>6. g[Len(C)] = g[Len(B)] \o s
      <3>1. Len(C) \in 2..Len(C) /\ Len(C) - 1 = Len(B)
        BY <1>0, <2>0
      <3>2. g[Len(C)] = g[Len(C) - 1] \o C[Len(C)]
        BY <1>1, <3>1
      <3> QED
        BY <3>1, <3>2, <1>0
    <2> QED
      BY <1>1, <2>1, <2>5, <2>6 DEF C
  <1> QED
    BY <1>2, <1>3

LEMMA SubSeqStep ==
  ASSUME NEW S, NEW s \in Seq(S), NEW m \in Nat, m + 1 <= Len(s)
  PROVE  SubSeq(s, 1, m + 1) = Append(SubSeq(s, 1, m), s[m+1])
  OBVIOUS

\* Flattening one block more appends that block.
LEMMA FlattenStep ==
  ASSUME NEW S, NEW B \in Seq(Seq(S)), NEW n \in 0..Len(B)
  PROVE  /\ FlattenSeq(SubSeq(B, 1, n)) \in Seq(S)
         /\ n = 0 => FlattenSeq(SubSeq(B, 1, n)) = <<>>
         /\ n = Len(B) => SubSeq(B, 1, n) = B
         /\ n < Len(B) => FlattenSeq(SubSeq(B, 1, n + 1))
                            = FlattenSeq(SubSeq(B, 1, n)) \o B[n+1]
  <1>1. SubSeq(B, 1, n) \in Seq(Seq(S))
    OBVIOUS
  <1>2. FlattenSeq(SubSeq(B, 1, n)) \in Seq(S)
    <2>1. <<>> \in Seq(S)
      OBVIOUS
    <2> QED
      BY <1>1, <2>1, FlattenAppend
  <1>3. n = 0 => FlattenSeq(SubSeq(B, 1, n)) = <<>>
    <2>1. n = 0 => SubSeq(B, 1, n) = <<>>
      OBVIOUS
    <2> QED
      BY <2>1, FlattenEmpty
  <1>4. n = Len(B) => SubSeq(B, 1, n) = B
    OBVIOUS
  <1>5. n < Len(B) => FlattenSeq(SubSeq(B, 1, n + 1))
                       = FlattenSeq(SubSeq(B, 1, n)) \o B[n+1]
    <2> SUFFICES ASSUME n < Len(B)
                 PROVE  FlattenSeq(SubSeq(B, 1, n + 1))
                          = FlattenSeq(SubSeq(B, 1, n)) \o B[n+1]
      OBVIOUS
    <2>1. SubSeq(B, 1, n + 1) = Append(SubSeq(B, 1, n), B[n+1]) /\ B[n+1] \in Seq(S)
      OBVIOUS
    <2> QED
      BY <1>1, <2>1, FlattenAppend
  <1> QED
    BY <1>2, <1>3, <1>4, <1>5

-----------------------------------------------------------------------------
(***************************************************************************)
(* NormalizedToolCalls.                                                    *)
(***************************************************************************)
\* The shape of a call, and what the repair makes of it.
IsCall(call) == call = [id |-> call.id, name |-> call.name]
IsNamed(call) == call.id # NoId /\ call.name # ""

WithId(calls, position, k) ==
  IF calls[k].id = NoId
  THEN [calls[k] EXCEPT !.id = <<"call", position, k - 1>>]
  ELSE calls[k]

\* What call k adds to the calls normalised before it.
Normal1(calls, position, before, k) ==
  IF calls[k].name = "" THEN before
  ELSE Append(before, WithId(calls, position, k))

LEMMA NormalFunction ==
  ASSUME NEW msg, NEW calls, calls = msg.calls, NEW position, Len(calls) \in Nat
  PROVE  \E normal :
           /\ normal[0] = <<>>
           /\ \A k \in 1..Len(calls) :
                normal[k] = Normal1(calls, position, normal[k-1], k)
           /\ NormalizedToolCalls(msg, position) = normal[Len(calls)]
  <1> DEFINE Builds(f, m) ==
               f = [k \in 0..m |->
                     IF k = 0 THEN <<>>
                     ELSE Normal1(calls, position, f[k-1], k)]
             T == {m \in Nat : \E f : Builds(f, m)}
             normal == CHOOSE f : Builds(f, Len(calls))
  <1>1. 0 \in T
    <2>1. Builds([k \in 0..0 |-> <<>>], 0)
      OBVIOUS
    <2> QED
      BY <2>1
  <1>2. ASSUME NEW m \in Nat, m \in T PROVE m + 1 \in T
    <2>1. PICK f : Builds(f, m)
      BY <1>2
    <2> DEFINE g == [k \in 0..m+1 |->
                      IF k \in 0..m THEN f[k]
                      ELSE Normal1(calls, position, f[k-1], k)]
    <2>2. ASSUME NEW k \in 0..m+1
          PROVE  g[k] = IF k = 0 THEN <<>>
                        ELSE Normal1(calls, position, g[k-1], k)
      <3>1. CASE k \in 0..m
        <4>1. g[k] = f[k]
          BY <3>1
        <4>2. k # 0 => g[k-1] = f[k-1]
          <5> SUFFICES ASSUME k # 0 PROVE g[k-1] = f[k-1]
            OBVIOUS
          <5>1. k - 1 \in 0..m /\ k - 1 \in 0..m+1
            BY <3>1
          <5> QED
            BY <5>1
        <4>3. f[k] = IF k = 0 THEN <<>>
                     ELSE Normal1(calls, position, f[k-1], k)
          BY <2>1, <3>1
        <4> HIDE DEF g
        <4> QED
          BY <4>1, <4>2, <4>3
      <3>2. CASE k = m + 1
        <4>1. k # 0 /\ k \notin 0..m /\ k - 1 \in 0..m /\ k - 1 \in 0..m+1
          BY <3>2
        <4>2. g[k-1] = f[k-1]
          BY <4>1
        <4>3. g[k] = Normal1(calls, position, f[k-1], k)
          BY <4>1
        <4> HIDE DEF g
        <4> QED
          BY <4>1, <4>2, <4>3
      <3> QED
        BY <3>1, <3>2
    <2>3. Builds(g, m + 1)
      BY <2>2
    <2> HIDE DEF g, Builds
    <2> QED
      BY <2>3
  <1>3. Builds(normal, Len(calls))
    <2> HIDE DEF Builds, T
    <2>1. Len(calls) \in T
      <3>1. Nat \subseteq T
        BY <1>1, <1>2, Induction
      <3> QED
        BY <3>1
    <2> QED
      BY <2>1 DEF T
  <1>4. NormalizedToolCalls(msg, position) = normal[Len(calls)]
    BY DEF NormalizedToolCalls, Normal1, WithId
  <1> HIDE DEF normal
  <1>5. normal[0] = <<>>
    <2>1. 0 \in 0..Len(calls)
      OBVIOUS
    <2> QED
      BY <1>3, <2>1
  <1>6. ASSUME NEW k \in 1..Len(calls)
        PROVE  normal[k] = Normal1(calls, position, normal[k-1], k)
    <2>1. k \in 0..Len(calls) /\ k # 0
      OBVIOUS
    <2> QED
      BY <1>3, <2>1
  <1> QED
    BY <1>4, <1>5, <1>6

LEMMA CallsOfAMessage ==
  ASSUME NEW msg, IsMessage(msg), msg.role = "assistant"
  PROVE  /\ msg = [role |-> "assistant", content |-> msg.content, calls |-> msg.calls]
         /\ msg.calls \in Seq({msg.calls[i] : i \in DOMAIN msg.calls})
         /\ Len(msg.calls) \in Nat /\ DOMAIN msg.calls = 1..Len(msg.calls)
         /\ \A k \in DOMAIN msg.calls : IsCall(msg.calls[k])
  <1>1. msg.calls \in Seq({msg.calls[i] : i \in DOMAIN msg.calls})
    BY DEF IsMessage, IsSequence
  <1>2. msg = [role |-> "assistant", content |-> msg.content, calls |-> msg.calls]
    BY DEF IsMessage, Assistant
  <1>3. \A k \in DOMAIN msg.calls : IsCall(msg.calls[k])
    BY DEF IsMessage, IsCall
  <1>4. Len(msg.calls) \in Nat /\ DOMAIN msg.calls = 1..Len(msg.calls)
    BY <1>1
  <1> QED
    BY <1>1, <1>2, <1>3, <1>4

\* What NormalizedToolCalls returns: named calls, each with an id.
LEMMA NormalCalls ==
  ASSUME NEW msg, NEW calls, calls = msg.calls, NEW position,
         IsMessage(msg), msg.role = "assistant"
  PROVE  LET normalised == NormalizedToolCalls(msg, position)
         IN  /\ IsSequence(normalised)
             /\ \A k \in DOMAIN normalised :
                  IsCall(normalised[k]) /\ IsNamed(normalised[k])
  <1> DEFINE G == {WithId(calls, position, k) :
                     k \in {j \in DOMAIN calls : calls[j].name # ""}}
  <1>0. /\ Len(calls) \in Nat /\ DOMAIN calls = 1..Len(calls)
        /\ \A k \in DOMAIN calls : IsCall(calls[k])
    BY CallsOfAMessage
  <1>1. ASSUME NEW c \in G
        PROVE  IsCall(c) /\ IsNamed(c)
    <2>1. PICK k \in DOMAIN calls :
            calls[k].name # "" /\ c = WithId(calls, position, k)
      OBVIOUS
    <2> DEFINE call == calls[k]
    <2>2. call = [id |-> call.id, name |-> call.name] /\ call.name # ""
      BY <1>0, <2>1 DEF IsCall
    <2>3. CASE call.id = NoId
      <3>1. c = [call EXCEPT !.id = <<"call", position, k - 1>>]
        BY <2>1, <2>3 DEF WithId
      <3>2. c = [id |-> <<"call", position, k - 1>>, name |-> call.name]
        BY <2>2, <3>1
      <3>3. <<"call", position, k - 1>> # NoId
        BY DEF NoId
      <3> QED
        BY <2>2, <3>2, <3>3 DEF IsCall, IsNamed
    <2>4. CASE call.id # NoId
      <3>1. c = call
        BY <2>1, <2>4 DEF WithId
      <3> QED
        BY <2>2, <2>4, <3>1 DEF IsCall, IsNamed
    <2> QED
      BY <2>3, <2>4
  <1>2. ASSUME NEW before \in Seq(G), NEW k \in DOMAIN calls
        PROVE  Normal1(calls, position, before, k) \in Seq(G)
    <2>1. CASE calls[k].name = ""
      BY <2>1 DEF Normal1
    <2>2. CASE calls[k].name # ""
      <3>1. WithId(calls, position, k) \in G
        BY <2>2
      <3>2. Normal1(calls, position, before, k) = Append(before, WithId(calls, position, k))
        BY <2>2 DEF Normal1
      <3> HIDE DEF G
      <3> QED
        BY <3>1, <3>2
    <2> QED
      BY <2>1, <2>2
  <1> HIDE DEF G
  <1>3. Len(calls) \in Nat
    BY <1>0
  <1>4. PICK normal :
          /\ normal[0] = <<>>
          /\ \A k \in 1..Len(calls) :
               normal[k] = Normal1(calls, position, normal[k-1], k)
          /\ NormalizedToolCalls(msg, position) = normal[Len(calls)]
    BY <1>3, NormalFunction
  <1> DEFINE T == {m \in Nat : m <= Len(calls) => normal[m] \in Seq(G)}
  <1>5. 0 \in T
    <2>1. <<>> \in Seq(G)
      OBVIOUS
    <2> QED
      BY <1>4, <2>1
  <1>6. ASSUME NEW m \in Nat, m \in T PROVE m + 1 \in T
    <2> SUFFICES ASSUME m + 1 <= Len(calls)
                 PROVE  normal[m+1] \in Seq(G)
      OBVIOUS
    <2>1. m + 1 \in 1..Len(calls) /\ (m + 1) - 1 = m /\ m <= Len(calls)
      BY <1>3
    <2>2. normal[m+1] = Normal1(calls, position, normal[m], m + 1)
      BY <1>4, <2>1
    <2>3. normal[m] \in Seq(G)
      BY <1>6, <2>1
    <2>4. m + 1 \in DOMAIN calls
      BY <1>0, <2>1
    <2> QED
      BY <1>2, <2>2, <2>3, <2>4
  <1>7. Len(calls) \in T
    <2> HIDE DEF T
    <2>1. Nat \subseteq T
      BY <1>5, <1>6, Induction
    <2> QED
      BY <1>3, <2>1
  <1> DEFINE result == NormalizedToolCalls(msg, position)
  <1>8. result \in Seq(G)
    <2>1. normal[Len(calls)] \in Seq(G)
      BY <1>3, <1>7
    <2> QED
      BY <1>4, <2>1
  <1> HIDE DEF result
  <1>9. IsSequence(result)
    BY <1>8 DEF IsSequence
  <1>10. \A k \in DOMAIN result : result[k] \in G
    BY <1>8
  <1> QED
    BY <1>1, <1>9, <1>10 DEF result

\* Calls that already have names and ids are left as they are.
LEMMA NormalUnchanged ==
  ASSUME NEW msg, NEW calls, calls = msg.calls, NEW position,
         IsMessage(msg), msg.role = "assistant",
         \A k \in DOMAIN calls :
           IsNamed(calls[k])
  PROVE  NormalizedToolCalls(msg, position) = calls
  <1> DEFINE S == {calls[i] : i \in DOMAIN calls}
  <1>0. /\ Len(calls) \in Nat /\ DOMAIN calls = 1..Len(calls)
        /\ calls \in Seq(S)
    BY CallsOfAMessage
  <1> HIDE DEF S
  <1>1. Len(calls) \in Nat
    BY <1>0
  <1>2. PICK normal :
          /\ normal[0] = <<>>
          /\ \A k \in 1..Len(calls) :
               normal[k] = Normal1(calls, position, normal[k-1], k)
          /\ NormalizedToolCalls(msg, position) = normal[Len(calls)]
    BY <1>1, NormalFunction
  <1> DEFINE T == {m \in Nat : m <= Len(calls) => normal[m] = SubSeq(calls, 1, m)}
  <1>3. 0 \in T
    <2>1. SubSeq(calls, 1, 0) = <<>>
      BY <1>0
    <2> QED
      BY <1>2, <2>1
  <1>4. ASSUME NEW m \in Nat, m \in T PROVE m + 1 \in T
    <2> SUFFICES ASSUME m + 1 <= Len(calls)
                 PROVE  normal[m+1] = SubSeq(calls, 1, m + 1)
      OBVIOUS
    <2>1. m + 1 \in 1..Len(calls) /\ (m + 1) - 1 = m
      BY <1>0
    <2>2. normal[m+1] = Normal1(calls, position, normal[m], m + 1)
      BY <1>2, <2>1
    <2>3. normal[m] = SubSeq(calls, 1, m)
      BY <1>4, <2>1, <1>0
    <2>4. normal[m+1] = Append(normal[m], calls[m+1])
      BY <1>0, <2>1, <2>2 DEF Normal1, WithId, IsNamed
    <2>5. SubSeq(calls, 1, m + 1) = Append(SubSeq(calls, 1, m), calls[m+1])
      BY <1>0, SubSeqStep
    <2> QED
      BY <2>3, <2>4, <2>5
  <1>5. Len(calls) \in T
    <2> HIDE DEF T
    <2>1. Nat \subseteq T
      BY <1>3, <1>4, Induction
    <2> QED
      BY <1>0, <2>1
  <1>6. SubSeq(calls, 1, Len(calls)) = calls
    BY <1>0
  <1> QED
    BY <1>0, <1>2, <1>5, <1>6

-----------------------------------------------------------------------------
(***************************************************************************)
(* Messages, and the answer a call gets.                                   *)
(***************************************************************************)
IsTool(msg)        == msg.role = "tool"
HasId(msg, id)     == msg.id = id
SameId(call, other) == call.id = other.id
Answers(msg, call) == msg.role = "tool" /\ msg.id = call.id
Says(msg) ==
  /\ msg.role = "user" => ~IsEmptyContent(msg)
  /\ msg.role = "assistant" => msg.calls # <<>> \/ ~IsEmptyContent(msg)

LEMMA TranscriptElements ==
  ASSUME NEW h, IsTranscript(h)
  PROVE  /\ h \in Seq({h[i] : i \in DOMAIN h})
         /\ Len(h) \in Nat /\ DOMAIN h = 1..Len(h)
         /\ \A i \in DOMAIN h : IsMessage(h[i])
  <1>1. h \in Seq({h[i] : i \in DOMAIN h})
    BY DEF IsTranscript, IsSequence
  <1> QED
    BY <1>1 DEF IsTranscript

LEMMA CallsOfMessage ==
  ASSUME NEW msg, IsMessage(msg)
  PROVE  /\ CallsOf(msg) \in Seq({CallsOf(msg)[i] : i \in DOMAIN CallsOf(msg)})
         /\ Len(CallsOf(msg)) \in Nat /\ DOMAIN CallsOf(msg) = 1..Len(CallsOf(msg))
         /\ IsTool(msg) => CallsOf(msg) = <<>>
  <1>1. CallsOf(msg) \in Seq({CallsOf(msg)[i] : i \in DOMAIN CallsOf(msg)})
    <2>1. CASE msg.role = "assistant"
      BY <2>1, CallsOfAMessage DEF CallsOf
    <2>2. CASE msg.role # "assistant"
      BY <2>2 DEF CallsOf
    <2> QED
      BY <2>1, <2>2
  <1>2. IsTool(msg) => CallsOf(msg) = <<>>
    BY DEF IsTool, CallsOf
  <1> QED
    BY <1>1, <1>2

LEMMA MinOfNats ==
  ASSUME NEW T \in SUBSET Nat, T # {}
  PROVE  Min(T) \in T /\ \A y \in T : Min(T) <= y
  <1>1. \E x \in T : \A y \in T : x <= y
    BY LeastNatural
  <1> QED
    BY <1>1 DEF Min

Found(h, i, id) == {j \in RunAfter(h, i) : h[j].id = id}

\* The answer to a call is a tool message with its id.
LEMMA AnswerIsAnswer ==
  ASSUME NEW h, IsTranscript(h), NEW i \in DOMAIN h, NEW id
  PROVE  LET answer == AnswerTo(h, i, id)
         IN  IsMessage(answer) /\ IsTool(answer) /\ HasId(answer, id)
  <1> DEFINE found == Found(h, i, id)
  <1>0. /\ Len(h) \in Nat /\ DOMAIN h = 1..Len(h) /\ i \in Nat
        /\ \A j \in DOMAIN h : IsMessage(h[j])
    <2>1. Len(h) \in Nat /\ DOMAIN h = 1..Len(h) /\ \A j \in DOMAIN h : IsMessage(h[j])
      BY TranscriptElements
    <2> QED
      BY <2>1
  <1>1. CASE found = {}
    <2>1. AnswerTo(h, i, id) = ToolResult(id, Interrupted)
      BY <1>1 DEF AnswerTo, Found
    <2>2. ToolResult(id, Interrupted).role = "tool" /\ ToolResult(id, Interrupted).id = id
          /\ ToolResult(id, Interrupted).body = Interrupted
      BY DEF ToolResult
    <2>3. IsMessage(ToolResult(id, Interrupted))
      BY <2>2 DEF IsMessage
    <2> QED
      BY <2>1, <2>2, <2>3 DEF IsTool, HasId
  <1>2. CASE found # {}
    <2>1. AnswerTo(h, i, id) = h[Min(found)]
      BY <1>2 DEF AnswerTo, Found
    <2>2. found \in SUBSET Nat
      BY <1>0 DEF Found, RunAfter
    <2>3. Min(found) \in found
      BY <1>2, <2>2, MinOfNats
    <2>4. Min(found) \in i+1..Len(h) /\ h[Min(found)].id = id
          /\ \A k \in i+1..Min(found) : h[k].role = "tool"
      BY <2>3 DEF Found, RunAfter
    <2>5. Min(found) \in i+1..Min(found) /\ Min(found) \in DOMAIN h
      <3>1. Min(found) \in Nat /\ Min(found) \in i+1..Len(h)
        BY <2>2, <2>3, <2>4
      <3> HIDE DEF found
      <3> QED
        BY <1>0, <3>1
    <2>6. h[Min(found)].role = "tool"
      BY <2>4, <2>5
    <2> QED
      BY <1>0, <2>1, <2>4, <2>5, <2>6 DEF IsTool, HasId
  <1> QED
    BY <1>1, <1>2

-----------------------------------------------------------------------------
(***************************************************************************)
(* What the repair leaves: a transcript in which every call is named and   *)
(* identified and followed by its result, two calls of one identifier get  *)
(* one result, nothing is empty and no result stands alone.                *)
(***************************************************************************)
Paired(s, i, k) ==
  /\ i + k <= Len(s)
  /\ IsNamed(CallsOf(s[i])[k])
  /\ Answers(s[i+k], CallsOf(s[i])[k])

OneAnswer(s, i, k, l) ==
  SameId(CallsOf(s[i])[k], CallsOf(s[i])[l]) => s[i+k] = s[i+l]

Canonical(s) ==
  /\ IsTranscript(s)
  /\ \A i \in DOMAIN s : Says(s[i])
  /\ \A i \in DOMAIN s : \A k \in DOMAIN CallsOf(s[i]) : Paired(s, i, k)
  /\ \A i \in DOMAIN s : \A k, l \in DOMAIN CallsOf(s[i]) : OneAnswer(s, i, k, l)
  /\ \A j \in DOMAIN s : IsTool(s[j]) =>
       \E i \in 1..j-1 : j <= i + Len(CallsOf(s[i]))

LEMMA CanonicalIsReplayable ==
  ASSUME NEW s, Canonical(s)
  PROVE  Replayable(s)
  <1>1. \A i \in DOMAIN s :
          /\ s[i].role = "user" => ~IsEmptyContent(s[i])
          /\ s[i].role = "assistant" => s[i].calls # <<>> \/ ~IsEmptyContent(s[i])
    BY DEF Canonical, Says
  <1>2. ASSUME NEW i \in DOMAIN s, NEW k \in DOMAIN CallsOf(s[i])
        PROVE  /\ i + k <= Len(s)
               /\ s[i+k].role = "tool"
               /\ s[i+k].id = s[i].calls[k].id
               /\ s[i].calls[k].name # ""
    <2>1. CallsOf(s[i]) = s[i].calls
      BY DEF CallsOf
    <2>2. Paired(s, i, k)
      BY DEF Canonical
    <2>3. IsNamed(s[i].calls[k]) /\ Answers(s[i+k], s[i].calls[k]) /\ i + k <= Len(s)
      BY <2>1, <2>2 DEF Paired
    <2> QED
      BY <2>3 DEF IsNamed, Answers
  <1>3. ASSUME NEW j \in DOMAIN s, s[j].role = "tool"
        PROVE  \E i \in 1..j-1 : j <= i + Len(CallsOf(s[i]))
    BY <1>3 DEF Canonical, IsTool
  <1> QED
    BY <1>1, <1>2, <1>3 DEF Replayable

LEMMA TranscriptConcat ==
  ASSUME NEW s, NEW t, IsTranscript(s), IsTranscript(t)
  PROVE  IsTranscript(s \o t)
  <1> DEFINE S == {s[i] : i \in DOMAIN s} \cup {t[i] : i \in DOMAIN t}
             r == s \o t
  <1>1. s \in Seq(S) /\ t \in Seq(S)
    <2>1. s \in Seq({s[i] : i \in DOMAIN s}) /\ t \in Seq({t[i] : i \in DOMAIN t})
      BY TranscriptElements
    <2> QED
      BY <2>1
  <1>2. \A x \in S : IsMessage(x)
    BY DEF IsTranscript
  <1> HIDE DEF S
  <1>3. r \in Seq(S)
    BY <1>1
  <1> HIDE DEF r
  <1>4. r \in Seq({r[i] : i \in DOMAIN r}) /\ \A i \in DOMAIN r : r[i] \in S
    BY <1>3
  <1>5. IsTranscript(r)
    BY <1>2, <1>4 DEF IsTranscript, IsSequence
  <1> QED
    BY <1>5 DEF r

LEMMA CanonicalConcat ==
  ASSUME NEW s, NEW t, Canonical(s), Canonical(t)
  PROVE  Canonical(s \o t)
  <1> DEFINE S == {s[i] : i \in DOMAIN s} \cup {t[i] : i \in DOMAIN t}
             r == s \o t
  <1>0. IsTranscript(s) /\ IsTranscript(t)
    BY DEF Canonical
  <1>1. s \in Seq(S) /\ t \in Seq(S)
    <2>1. s \in Seq({s[i] : i \in DOMAIN s}) /\ t \in Seq({t[i] : i \in DOMAIN t})
      BY <1>0, TranscriptElements
    <2> QED
      BY <2>1
  <1> HIDE DEF S
  <1>2. /\ Len(s) \in Nat /\ Len(t) \in Nat /\ Len(r) = Len(s) + Len(t)
        /\ DOMAIN s = 1..Len(s) /\ DOMAIN t = 1..Len(t) /\ DOMAIN r = 1..Len(r)
    BY <1>1
  <1>3. /\ \A i \in DOMAIN s : i \in DOMAIN r /\ r[i] = s[i]
        /\ \A i \in DOMAIN t : Len(s) + i \in DOMAIN r /\ r[Len(s)+i] = t[i]
    BY <1>1
  <1>4. \A i \in DOMAIN r : i \in DOMAIN s \/ \E m \in DOMAIN t : i = Len(s) + m
    <2> SUFFICES ASSUME NEW i \in DOMAIN r, i \notin DOMAIN s
                 PROVE  \E m \in DOMAIN t : i = Len(s) + m
      OBVIOUS
    <2>1. i - Len(s) \in DOMAIN t /\ i = Len(s) + (i - Len(s))
      BY <1>2
    <2> QED
      BY <2>1
  <1> HIDE DEF r
  <1>5. /\ \A i \in DOMAIN s : Len(CallsOf(s[i])) \in Nat
                                /\ DOMAIN CallsOf(s[i]) = 1..Len(CallsOf(s[i]))
        /\ \A i \in DOMAIN t : Len(CallsOf(t[i])) \in Nat
                                /\ DOMAIN CallsOf(t[i]) = 1..Len(CallsOf(t[i]))
    BY <1>0, TranscriptElements, CallsOfMessage
  <1>6. ASSUME NEW i \in DOMAIN s, NEW k \in DOMAIN CallsOf(s[i])
        PROVE  Paired(r, i, k) /\ r[i+k] = s[i+k]
    <2>1. Paired(s, i, k)
      BY DEF Canonical
    <2>2. k \in Nat /\ k >= 1
      BY <1>5
    <2>3. i + k \in DOMAIN s
      <3>1. i + k <= Len(s)
        BY <2>1 DEF Paired
      <3> QED
        BY <1>2, <2>2, <3>1
    <2>4. r[i] = s[i] /\ r[i+k] = s[i+k] /\ i + k <= Len(r)
      BY <1>2, <1>3, <2>3
    <2> QED
      BY <2>1, <2>4 DEF Paired
  <1>7. ASSUME NEW i \in DOMAIN t, NEW k \in DOMAIN CallsOf(t[i])
        PROVE  Paired(r, Len(s) + i, k) /\ r[Len(s)+i+k] = t[i+k]
    <2>1. Paired(t, i, k)
      BY DEF Canonical
    <2>2. k \in Nat /\ k >= 1
      BY <1>5
    <2>3. i + k \in DOMAIN t
      <3>1. i + k <= Len(t)
        BY <2>1 DEF Paired
      <3> QED
        BY <1>2, <2>2, <3>1
    <2>4. Len(s) + i + k = Len(s) + (i + k) /\ Len(s) + (i + k) <= Len(r)
      BY <1>2, <2>2, <2>3
    <2>5. r[Len(s)+i] = t[i] /\ r[Len(s)+i+k] = t[i+k]
      BY <1>3, <2>3, <2>4
    <2>6. Len(s) + i + k <= Len(r)
      BY <2>4
    <2> QED
      BY <2>1, <2>5, <2>6 DEF Paired
  <1>8. IsTranscript(r)
    BY <1>0, TranscriptConcat DEF r
  <1>9. \A i \in DOMAIN r : Says(r[i])
    BY <1>3, <1>4 DEF Canonical
  <1>10. ASSUME NEW i \in DOMAIN r, NEW k \in DOMAIN CallsOf(r[i]), NEW l \in DOMAIN CallsOf(r[i])
         PROVE  Paired(r, i, k) /\ OneAnswer(r, i, k, l)
    <2>1. CASE i \in DOMAIN s
      <3>1. r[i] = s[i]
        BY <1>3, <2>1
      <3>2. Paired(r, i, k) /\ r[i+k] = s[i+k] /\ r[i+l] = s[i+l]
        BY <1>6, <2>1, <3>1
      <3>3. OneAnswer(s, i, k, l)
        BY <2>1, <3>1 DEF Canonical
      <3> QED
        BY <3>1, <3>2, <3>3 DEF OneAnswer
    <2>2. CASE \E m \in DOMAIN t : i = Len(s) + m
      <3> PICK m \in DOMAIN t : i = Len(s) + m
        BY <2>2
      <3>1. r[i] = t[m]
        BY <1>3
      <3>2. Paired(r, i, k) /\ r[i+k] = t[m+k] /\ r[i+l] = t[m+l]
        BY <1>7, <3>1
      <3>3. OneAnswer(t, m, k, l)
        BY <3>1 DEF Canonical
      <3> QED
        BY <3>1, <3>2, <3>3 DEF OneAnswer
    <2> QED
      BY <1>4, <2>1, <2>2
  <1>11. ASSUME NEW j \in DOMAIN r, IsTool(r[j])
         PROVE  \E i \in 1..j-1 : j <= i + Len(CallsOf(r[i]))
    <2>1. CASE j \in DOMAIN s
      <3>1. IsTool(s[j])
        BY <1>3, <1>11, <2>1
      <3>2. PICK i \in 1..j-1 : j <= i + Len(CallsOf(s[i]))
        BY <2>1, <3>1 DEF Canonical
      <3>3. i \in DOMAIN s
        BY <1>2, <2>1
      <3> QED
        BY <1>3, <3>2, <3>3
    <2>2. CASE \E m \in DOMAIN t : j = Len(s) + m
      <3> PICK m \in DOMAIN t : j = Len(s) + m
        BY <2>2
      <3>1. IsTool(t[m])
        BY <1>3, <1>11
      <3>2. PICK i \in 1..m-1 : m <= i + Len(CallsOf(t[i]))
        BY <3>1 DEF Canonical
      <3>3. i \in DOMAIN t
        BY <1>2
      <3>4. r[Len(s)+i] = t[i] /\ Len(s) + i \in 1..j-1
        BY <1>2, <1>3, <3>3
      <3>5. j <= (Len(s) + i) + Len(CallsOf(t[i]))
        BY <1>2, <1>5, <3>2, <3>3
      <3> QED
        BY <3>4, <3>5
    <2> QED
      BY <1>4, <2>1, <2>2
  <1>12. Canonical(r)
    BY <1>8, <1>9, <1>10, <1>11 DEF Canonical
  <1> QED
    BY <1>12 DEF r

LEMMA Roles ==
  ASSUME NEW msg, IsMessage(msg)
  PROVE  \/ msg.role = "user" \/ msg.role = "assistant" \/ IsTool(msg)
  BY DEF IsMessage, IsTool

WithCalls(msg, calls) == [msg EXCEPT !.calls = calls]

LEMMA MessageWithCalls ==
  ASSUME NEW msg, IsMessage(msg), msg.role = "assistant",
         NEW calls, IsSequence(calls), \A k \in DOMAIN calls : IsCall(calls[k])
  PROVE  /\ IsMessage(WithCalls(msg, calls)) /\ ~ IsTool(WithCalls(msg, calls))
         /\ CallsOf(WithCalls(msg, calls)) = calls
         /\ WithCalls(msg, calls).role = "assistant"
         /\ WithCalls(msg, calls).content = msg.content
         /\ WithCalls(msg, calls).calls = calls
         /\ calls = msg.calls => WithCalls(msg, calls) = msg
  <1> DEFINE new == WithCalls(msg, calls)
  <1>1. msg = [role |-> "assistant", content |-> msg.content, calls |-> msg.calls]
    BY CallsOfAMessage
  <1>2. new = [role |-> "assistant", content |-> msg.content, calls |-> calls]
    BY <1>1 DEF WithCalls
  <1>3. new.role = "assistant" /\ new.content = msg.content /\ new.calls = calls
    BY <1>2
  <1> HIDE DEF new
  <1>4. \A k \in DOMAIN calls : calls[k] = [id |-> calls[k].id, name |-> calls[k].name]
    BY DEF IsCall
  <1>5. new = Assistant(new.content, new.calls)
    BY <1>2, <1>3 DEF Assistant
  <1>6. IsMessage(new)
    BY <1>3, <1>4, <1>5 DEF IsMessage
  <1>7. ~ IsTool(new) /\ CallsOf(new) = calls
    BY <1>3 DEF IsTool, CallsOf
  <1>8. calls = msg.calls => new = msg
    BY <1>1, <1>2
  <1> QED
    BY <1>3, <1>6, <1>7, <1>8 DEF new

NewCalls(h, i) == NormalizedToolCalls(h[i], i - 1)
AnswersOf(h, i) == [k \in DOMAIN NewCalls(h, i) |-> AnswerTo(h, i, NewCalls(h, i)[k].id)]

LEMMA RepairedCases ==
  ASSUME NEW h, NEW i
  PROVE  /\ IsTool(h[i]) => Repaired(h, i) = <<>>
         /\ h[i].role = "user" =>
              Repaired(h, i) = IF IsEmptyContent(h[i]) THEN <<>> ELSE <<h[i]>>
         /\ h[i].role = "assistant" /\ NewCalls(h, i) # <<>> =>
              Repaired(h, i) = <<WithCalls(h[i], NewCalls(h, i))>> \o AnswersOf(h, i)
         /\ h[i].role = "assistant" /\ NewCalls(h, i) = <<>> =>
              Repaired(h, i) = IF IsEmptyContent(h[i]) THEN <<>>
                               ELSE <<WithCalls(h[i], <<>>)>>
  <1>1. ASSUME IsTool(h[i]) PROVE Repaired(h, i) = <<>>
    BY <1>1 DEF Repaired, IsTool
  <1>2. ASSUME h[i].role = "user"
        PROVE  Repaired(h, i) = IF IsEmptyContent(h[i]) THEN <<>> ELSE <<h[i]>>
    BY <1>2 DEF Repaired
  <1>3. ASSUME h[i].role = "assistant", NewCalls(h, i) # <<>>
        PROVE  Repaired(h, i) = <<WithCalls(h[i], NewCalls(h, i))>> \o AnswersOf(h, i)
    BY <1>3 DEF Repaired, WithCalls, AnswersOf, NewCalls
  <1>4. ASSUME h[i].role = "assistant", NewCalls(h, i) = <<>>
        PROVE  Repaired(h, i) = IF IsEmptyContent(h[i]) THEN <<>>
                               ELSE <<WithCalls(h[i], <<>>)>>
    BY <1>4 DEF Repaired, WithCalls, NewCalls
  <1> QED
    BY <1>1, <1>2, <1>3, <1>4

LEMMA CanonicalEmpty == Canonical(<<>>)
  <1>1. IsTranscript(<<>>)
    BY DEF IsTranscript, IsSequence
  <1> QED
    BY <1>1 DEF Canonical

LEMMA CanonicalSingle ==
  ASSUME NEW msg, IsMessage(msg), ~ IsTool(msg), CallsOf(msg) = <<>>, Says(msg)
  PROVE  Canonical(<<msg>>)
  <1>1. IsTranscript(<<msg>>)
    BY DEF IsTranscript, IsSequence
  <1>2. \A i \in DOMAIN <<msg>> : <<msg>>[i] = msg
    OBVIOUS
  <1> DEFINE s == <<msg>>
  <1> HIDE DEF s
  <1>3. IsTranscript(s) /\ \A i \in DOMAIN s : s[i] = msg
    BY <1>1, <1>2 DEF s
  <1>4. Canonical(s)
    BY <1>3 DEF Canonical
  <1> QED
    BY <1>4 DEF s

LEMMA CanonicalAnswered ==
  ASSUME NEW h, IsTranscript(h), NEW i \in DOMAIN h,
         h[i].role = "assistant", NewCalls(h, i) # <<>>
  PROVE  Canonical(<<WithCalls(h[i], NewCalls(h, i))>> \o AnswersOf(h, i))
  <1> DEFINE calls == NewCalls(h, i)
             head == WithCalls(h[i], calls)
             answers == AnswersOf(h, i)
             r == <<head>> \o answers
  <1>0. IsMessage(h[i])
    BY TranscriptElements
  <1>1. /\ IsSequence(calls)
        /\ \A k \in DOMAIN calls : IsCall(calls[k]) /\ IsNamed(calls[k])
    BY <1>0, NormalCalls DEF NewCalls
  <1>2. Len(calls) \in Nat /\ DOMAIN calls = 1..Len(calls)
    BY <1>1 DEF IsSequence
  <1>3. /\ IsMessage(head) /\ ~ IsTool(head) /\ CallsOf(head) = calls
        /\ head.role = "assistant" /\ head.calls = calls
    BY <1>0, <1>1, MessageWithCalls
  <1>4. Says(head)
    BY <1>3 DEF Says
  <1>5. \A k \in DOMAIN calls : answers[k] = AnswerTo(h, i, calls[k].id)
    BY DEF AnswersOf
  <1>6. \A k \in DOMAIN calls :
          IsMessage(answers[k]) /\ IsTool(answers[k]) /\ Answers(answers[k], calls[k])
    BY <1>5, AnswerIsAnswer DEF Answers, IsTool, HasId
  <1>7. \A k, l \in DOMAIN calls : SameId(calls[k], calls[l]) => answers[k] = answers[l]
    BY <1>5 DEF SameId
  <1>8. DOMAIN answers = DOMAIN calls
    BY DEF AnswersOf
  <1> DEFINE S == {head} \cup {answers[k] : k \in DOMAIN answers}
  <1> HIDE DEF calls, head, answers
  <1>9. answers \in Seq(S) /\ Len(answers) = Len(calls)
    <2>1. answers = [k \in 1..Len(calls) |-> answers[k]]
      BY <1>2, <1>8 DEF answers, AnswersOf, calls
    <2>2. \A k \in 1..Len(calls) : answers[k] \in S
      BY <1>2, <1>8
    <2> HIDE DEF S
    <2> QED
      BY <1>2, <2>1, <2>2
  <1>10. head \in S
    OBVIOUS
  <1>11. \A x \in S : IsMessage(x)
    BY <1>3, <1>6, <1>8
  <1> HIDE DEF S
  <1>12. /\ r \in Seq(S) /\ Len(r) = 1 + Len(calls) /\ DOMAIN r = 1..Len(r)
         /\ r[1] = head
         /\ \A k \in DOMAIN calls : r[1+k] = answers[k]
    BY <1>2, <1>9, <1>10
  <1>13. \A j \in DOMAIN r : j = 1 \/ \E k \in DOMAIN calls : j = 1 + k
    <2> SUFFICES ASSUME NEW j \in DOMAIN r, j # 1
                 PROVE  \E k \in DOMAIN calls : j = 1 + k
      OBVIOUS
    <2>1. j - 1 \in DOMAIN calls /\ j = 1 + (j - 1)
      BY <1>2, <1>12
    <2> QED
      BY <2>1
  <1> HIDE DEF r
  <1>14. IsTranscript(r)
    <2>1. \A j \in DOMAIN r : r[j] \in S
      BY <1>12
    <2>2. r \in Seq({r[j] : j \in DOMAIN r})
      BY <1>12
    <2> QED
      BY <1>11, <2>1, <2>2 DEF IsTranscript, IsSequence
  <1>15. \A k \in DOMAIN calls : CallsOf(r[1+k]) = <<>> /\ IsTool(r[1+k])
    BY <1>6, <1>12, CallsOfMessage
  <1>16. \A j \in DOMAIN r : Says(r[j])
    <2>1. \A k \in DOMAIN calls : Says(answers[k])
      BY <1>6 DEF Says, IsTool
    <2> QED
      BY <1>4, <1>12, <1>13, <2>1
  <1>17. ASSUME NEW j \in DOMAIN r, NEW k \in DOMAIN CallsOf(r[j]), NEW l \in DOMAIN CallsOf(r[j])
         PROVE  Paired(r, j, k) /\ OneAnswer(r, j, k, l)
    <2>1. j = 1 /\ CallsOf(r[j]) = calls
      <3>1. CallsOf(r[j]) # <<>>
        OBVIOUS
      <3> QED
        BY <1>3, <1>12, <1>13, <1>15, <3>1
    <2>2. k \in DOMAIN calls /\ l \in DOMAIN calls /\ 1 + k <= Len(r)
      BY <2>1, <1>2, <1>12
    <2>3. r[j+k] = answers[k] /\ r[j+l] = answers[l]
      BY <1>12, <2>1, <2>2
    <2> QED
      BY <1>1, <1>6, <1>7, <2>1, <2>2, <2>3 DEF Paired, OneAnswer
  <1>18. ASSUME NEW j \in DOMAIN r, IsTool(r[j])
         PROVE  \E m \in 1..j-1 : j <= m + Len(CallsOf(r[m]))
    <2>1. PICK k \in DOMAIN calls : j = 1 + k
      BY <1>3, <1>12, <1>13, <1>18
    <2>2. 1 \in 1..j-1 /\ j <= 1 + Len(calls)
      BY <1>2, <2>1
    <2> QED
      BY <1>3, <1>12, <2>2
  <1>19. Canonical(r)
    BY <1>14, <1>16, <1>17, <1>18 DEF Canonical
  <1> QED
    BY <1>19 DEF r, head, answers, calls

LEMMA CanonicalBlock ==
  ASSUME NEW h, IsTranscript(h), NEW i \in DOMAIN h
  PROVE  Canonical(Repaired(h, i))
  <1> DEFINE msg == h[i]
  <1>0. IsMessage(msg)
    BY TranscriptElements
  <1>1. CASE IsTool(msg)
    BY <1>1, RepairedCases, CanonicalEmpty
  <1>2. CASE msg.role = "user"
    <2>1. CASE IsEmptyContent(msg)
      BY <1>2, <2>1, RepairedCases, CanonicalEmpty
    <2>2. CASE ~ IsEmptyContent(msg)
      <3>1. Repaired(h, i) = <<msg>>
        BY <1>2, <2>2, RepairedCases
      <3>2. ~ IsTool(msg) /\ CallsOf(msg) = <<>> /\ Says(msg)
        BY <1>2, <2>2 DEF IsTool, CallsOf, Says
      <3> QED
        BY <1>0, <3>1, <3>2, CanonicalSingle
    <2> QED
      BY <2>1, <2>2
  <1>3. CASE msg.role = "assistant"
    <2>1. CASE NewCalls(h, i) # <<>>
      BY <1>3, <2>1, RepairedCases, CanonicalAnswered
    <2>2. CASE NewCalls(h, i) = <<>> /\ IsEmptyContent(msg)
      BY <1>3, <2>2, RepairedCases, CanonicalEmpty
    <2>3. CASE NewCalls(h, i) = <<>> /\ ~ IsEmptyContent(msg)
      <3> DEFINE new == WithCalls(msg, <<>>)
      <3>1. Repaired(h, i) = <<new>>
        BY <1>3, <2>3, RepairedCases
      <3>2. IsSequence(<<>>) /\ \A k \in DOMAIN <<>> : IsCall(<<>>[k])
        BY DEF IsSequence
      <3>3. /\ IsMessage(new) /\ ~ IsTool(new) /\ CallsOf(new) = <<>>
            /\ new.role = "assistant" /\ new.content = msg.content
        BY <1>0, <1>3, <3>2, MessageWithCalls
      <3>4. Says(new)
        BY <2>3, <3>3 DEF Says, IsEmptyContent
      <3> QED
        BY <3>1, <3>3, <3>4, CanonicalSingle
    <2> QED
      BY <2>1, <2>2, <2>3
  <1> QED
    BY <1>0, <1>1, <1>2, <1>3, Roles

-----------------------------------------------------------------------------
(***************************************************************************)
(* The repaired transcript, block by block.                                *)
(***************************************************************************)
RepairedBlocks(h)   == [i \in DOMAIN h |-> Repaired(h, i)]
Messages(h) == UNION {{Repaired(h, i)[k] : k \in DOMAIN Repaired(h, i)} : i \in DOMAIN h}
Upto(h, n)  == FlattenSeq(SubSeq(RepairedBlocks(h), 1, n))

LEMMA RepairedMessages ==
  ASSUME NEW h, IsTranscript(h), NEW i \in DOMAIN h
  PROVE  Repaired(h, i) \in Seq(Messages(h))
  <1> DEFINE b == Repaired(h, i)
  <1>1. IsTranscript(b)
    BY CanonicalBlock DEF Canonical
  <1>2. {b[k] : k \in DOMAIN b} \subseteq Messages(h)
    BY DEF Messages
  <1> HIDE DEF b
  <1>3. b \in Seq({b[k] : k \in DOMAIN b})
    BY <1>1 DEF IsTranscript, IsSequence
  <1>4. b \in Seq(Messages(h))
    BY <1>2, <1>3
  <1> QED
    BY <1>4 DEF b

LEMMA BlocksOfATranscript ==
  ASSUME NEW h, IsTranscript(h)
  PROVE  /\ RepairedBlocks(h) \in Seq(Seq(Messages(h)))
         /\ Len(RepairedBlocks(h)) = Len(h)
         /\ \A i \in DOMAIN h : RepairedBlocks(h)[i] = Repaired(h, i)
  <1>0. Len(h) \in Nat /\ DOMAIN h = 1..Len(h)
    BY TranscriptElements
  <1>1. \A i \in DOMAIN h : Repaired(h, i) \in Seq(Messages(h))
    BY RepairedMessages
  <1>2. RepairedBlocks(h) = [i \in 1..Len(h) |-> Repaired(h, i)]
    BY <1>0 DEF RepairedBlocks
  <1>3. \A i \in 1..Len(h) : Repaired(h, i) \in Seq(Messages(h))
    BY <1>0, <1>1
  <1>4. RepairedBlocks(h) \in Seq(Seq(Messages(h))) /\ Len(RepairedBlocks(h)) = Len(h)
    BY <1>0, <1>2, <1>3
  <1> QED
    BY <1>0, <1>2, <1>4

LEMMA UptoSteps ==
  ASSUME NEW h, IsTranscript(h)
  PROVE  /\ Upto(h, 0) = <<>>
         /\ Upto(h, Len(h)) = SanitizeHistory(h)
         /\ \A n \in 0..Len(h) : Upto(h, n) \in Seq(Messages(h))
         /\ \A n \in Nat : n + 1 <= Len(h) =>
              Upto(h, n + 1) = Upto(h, n) \o Repaired(h, n + 1)
  <1>0. Len(h) \in Nat /\ DOMAIN h = 1..Len(h)
    BY TranscriptElements
  <1> DEFINE B == RepairedBlocks(h)
             S == Messages(h)
  <1>1. B \in Seq(Seq(S)) /\ Len(B) = Len(h) /\ \A i \in DOMAIN h : B[i] = Repaired(h, i)
    BY BlocksOfATranscript
  <1>2. SanitizeHistory(h) = FlattenSeq(B)
    BY DEF SanitizeHistory, RepairedBlocks
  <1> HIDE DEF B, S
  <1>3. 0 \in 0..Len(B) /\ Len(B) \in 0..Len(B)
    BY <1>0, <1>1
  <1>4. FlattenSeq(SubSeq(B, 1, 0)) = <<>>
    BY <1>1, <1>3, FlattenStep
  <1>5. FlattenSeq(SubSeq(B, 1, Len(B))) = FlattenSeq(B)
    BY <1>1, <1>3, FlattenStep
  <1>6. \A n \in 0..Len(B) : FlattenSeq(SubSeq(B, 1, n)) \in Seq(S)
    BY <1>1, FlattenStep
  <1>7. ASSUME NEW n \in Nat, n + 1 <= Len(h)
        PROVE  FlattenSeq(SubSeq(B, 1, n + 1)) = FlattenSeq(SubSeq(B, 1, n)) \o Repaired(h, n + 1)
    <2>1. n \in 0..Len(B) /\ n < Len(B) /\ n + 1 \in DOMAIN h
      BY <1>0, <1>1, <1>7
    <2>2. FlattenSeq(SubSeq(B, 1, n + 1)) = FlattenSeq(SubSeq(B, 1, n)) \o B[n+1]
      BY <1>1, <2>1, FlattenStep
    <2> QED
      BY <1>1, <2>1, <2>2
  <1> QED
    BY <1>1, <1>2, <1>4, <1>5, <1>6, <1>7 DEF Upto, B, S

LEMMA SanitizedIsCanonical ==
  ASSUME NEW h, IsTranscript(h)
  PROVE  Canonical(SanitizeHistory(h))
  <1>0. Len(h) \in Nat /\ DOMAIN h = 1..Len(h)
    BY TranscriptElements
  <1> DEFINE T == {n \in Nat : n <= Len(h) => Canonical(Upto(h, n))}
  <1>1. 0 \in T
    BY UptoSteps, CanonicalEmpty
  <1>2. ASSUME NEW n \in Nat, n \in T PROVE n + 1 \in T
    <2> SUFFICES ASSUME n + 1 <= Len(h) PROVE Canonical(Upto(h, n + 1))
      OBVIOUS
    <2>1. n <= Len(h) /\ n + 1 \in DOMAIN h
      BY <1>0
    <2>2. Canonical(Upto(h, n)) /\ Canonical(Repaired(h, n + 1))
      BY <1>2, <2>1, CanonicalBlock
    <2>3. Upto(h, n + 1) = Upto(h, n) \o Repaired(h, n + 1)
      BY UptoSteps
    <2> QED
      BY <2>2, <2>3, CanonicalConcat
  <1>3. Len(h) \in T
    <2> HIDE DEF T
    <2>1. Nat \subseteq T
      BY <1>1, <1>2, Induction
    <2> QED
      BY <1>0, <2>1
  <1>4. Canonical(Upto(h, Len(h)))
    BY <1>0, <1>3
  <1> QED
    BY <1>4, UptoSteps

\* Whatever list of messages is repaired, a provider accepts the result: each
\* call has its one result behind it, and nothing is empty (sanitize_history).
THEOREM SanitizedIsReplayable ==
  ASSUME NEW h, IsTranscript(h)
  PROVE  Replayable(SanitizeHistory(h)) /\ IsTranscript(SanitizeHistory(h))
  <1>1. Canonical(SanitizeHistory(h))
    BY SanitizedIsCanonical
  <1>2. IsTranscript(SanitizeHistory(h))
    BY <1>1 DEF Canonical
  <1> QED
    BY <1>1, <1>2, CanonicalIsReplayable

-----------------------------------------------------------------------------
(***************************************************************************)
(* A canonical transcript is its own repair.                               *)
(***************************************************************************)
LEMMA SameSequence ==
  ASSUME NEW S, NEW s \in Seq(S), NEW t \in Seq(S), Len(s) = Len(t),
         \A i \in 1..Len(s) : s[i] = t[i]
  PROVE  s = t
  BY SeqEqual

LEMMA JoinedSubSeqs ==
  ASSUME NEW S, NEW s \in Seq(S), NEW n \in Nat, NEW e \in n+1..Len(s)
  PROVE  SubSeq(s, 1, n) \o SubSeq(s, n + 1, e) = SubSeq(s, 1, e)
  OBVIOUS

LEMMA AnswerFixed ==
  ASSUME NEW s, Canonical(s), NEW i \in DOMAIN s, s[i].role = "assistant",
         NEW k \in DOMAIN CallsOf(s[i])
  PROVE  AnswerTo(s, i, CallsOf(s[i])[k].id) = s[i+k]
  <1> DEFINE calls == CallsOf(s[i])
             id == calls[k].id
             found == Found(s, i, id)
  <1>0. IsTranscript(s)
    BY DEF Canonical
  <1>1. Len(s) \in Nat /\ DOMAIN s = 1..Len(s) /\ IsMessage(s[i])
    BY <1>0, TranscriptElements
  <1>2. Len(calls) \in Nat /\ DOMAIN calls = 1..Len(calls)
    BY <1>1, CallsOfMessage
  <1>3. \A l \in DOMAIN calls :
          i + l <= Len(s) /\ Answers(s[i+l], calls[l]) /\ OneAnswer(s, i, k, l)
    BY DEF Canonical, Paired
  <1> HIDE DEF calls, id
  <1>4. i + k \in found
    <2>1. i + k \in i+1..Len(s)
      BY <1>1, <1>2, <1>3 DEF calls
    <2>2. ASSUME NEW j \in i+1..i+k PROVE s[j].role = "tool"
      <3>1. j - i \in DOMAIN calls /\ i + (j - i) = j
        BY <1>1, <1>2, <2>2 DEF calls
      <3>2. Answers(s[i+(j-i)], calls[j-i])
        BY <1>3, <3>1
      <3> QED
        BY <3>1, <3>2 DEF Answers
    <2>3. s[i+k].id = id
      BY <1>3 DEF Answers, id, calls
    <2> QED
      BY <2>1, <2>2, <2>3 DEF Found, RunAfter
  <1>5. found \in SUBSET Nat
    BY <1>1 DEF Found, RunAfter
  <1> DEFINE m == Min(found)
  <1>6. m \in found /\ m <= i + k
    BY <1>4, <1>5, MinOfNats
  <1>7. m \in Nat /\ m >= i + 1 /\ s[m].id = id
    BY <1>1, <1>5, <1>6 DEF Found, RunAfter
  <1>8. AnswerTo(s, i, id) = s[m]
    BY <1>4 DEF AnswerTo, Found
  <1> HIDE DEF m, found
  <1>9. m - i \in DOMAIN calls /\ i + (m - i) = m
    BY <1>1, <1>2, <1>6, <1>7 DEF calls
  <1>10. SameId(calls[k], calls[m-i])
    <2>1. s[m].id = calls[m-i].id
      BY <1>3, <1>9 DEF Answers
    <2> QED
      BY <1>7, <2>1 DEF SameId, id
  <1>11. s[i+k] = s[m]
    BY <1>3, <1>9, <1>10 DEF OneAnswer, calls
  <1> QED
    BY <1>8, <1>11 DEF id, calls

LEMMA BlockFixed ==
  ASSUME NEW s, Canonical(s), NEW i \in DOMAIN s, ~ IsTool(s[i])
  PROVE  /\ i + Len(CallsOf(s[i])) \in i..Len(s)
         /\ Repaired(s, i) = SubSeq(s, i, i + Len(CallsOf(s[i])))
         /\ \A j \in i+1..i+Len(CallsOf(s[i])) : IsTool(s[j])
  <1> DEFINE S == {s[j] : j \in DOMAIN s}
             msg == s[i]
             calls == CallsOf(msg)
  <1>0. IsTranscript(s)
    BY DEF Canonical
  <1>1. Len(s) \in Nat /\ DOMAIN s = 1..Len(s) /\ IsMessage(msg) /\ s \in Seq(S)
    BY <1>0, TranscriptElements
  <1>2. Len(calls) \in Nat /\ DOMAIN calls = 1..Len(calls)
    BY <1>1, CallsOfMessage
  <1>3. /\ Says(msg)
        /\ \A k \in DOMAIN calls : Paired(s, i, k)
    BY DEF Canonical
  <1>4. msg.role = "user" \/ msg.role = "assistant"
    BY <1>1, Roles
  <1>5. \A k \in DOMAIN calls : IsNamed(calls[k]) /\ IsTool(s[i+k]) /\ i + k <= Len(s)
    BY <1>3 DEF Paired, Answers, IsTool
  <1> HIDE DEF S
  <1>6. CASE calls = <<>>
    <2>1. Repaired(s, i) = <<msg>>
      <3>1. CASE msg.role = "user"
        BY <1>3, <3>1, RepairedCases DEF Says
      <3>2. CASE msg.role = "assistant"
        <4>1. msg.calls = <<>> /\ ~ IsEmptyContent(msg)
          BY <1>3, <1>6, <3>2 DEF Says, CallsOf
        <4>2. \A k \in DOMAIN msg.calls : IsNamed(msg.calls[k])
          BY <4>1
        <4>3. NewCalls(s, i) = <<>>
          BY <1>1, <3>2, <4>1, <4>2, NormalUnchanged DEF NewCalls
        <4>4. IsSequence(<<>>) /\ \A k \in DOMAIN <<>> : IsCall(<<>>[k])
          BY DEF IsSequence
        <4>5. WithCalls(msg, <<>>) = msg
          BY <1>1, <3>2, <4>1, <4>4, MessageWithCalls
        <4> QED
          BY <3>2, <4>1, <4>3, <4>5, RepairedCases
      <3> QED
        BY <1>4, <3>1, <3>2
    <2> HIDE DEF msg
    <2>2. SubSeq(s, i, i) = <<s[i]>> /\ i \in i..Len(s)
      <3> DEFINE q == SubSeq(s, i, i)
      <3>1. q \in Seq(S) /\ Len(q) = 1 /\ q[1] = s[i] /\ i \in i..Len(s)
        BY <1>1
      <3>2. <<s[i]>> \in Seq(S) /\ Len(<<s[i]>>) = 1 /\ <<s[i]>>[1] = s[i]
        BY <1>1 DEF S
      <3> HIDE DEF q
      <3>3. q = <<s[i]>>
        BY <3>1, <3>2, SameSequence
      <3> QED
        BY <3>1, <3>3 DEF q
    <2>3. Len(calls) = 0 /\ 1..0 = {}
      BY <1>6
    <2>4. i + Len(calls) = i /\ i+1..i = {}
      BY <1>1, <2>3
    <2> HIDE DEF calls
    <2>5. /\ i + Len(calls) \in i..Len(s)
          /\ Repaired(s, i) = SubSeq(s, i, i + Len(calls))
          /\ \A j \in i+1..i+Len(calls) : IsTool(s[j])
      BY <2>1, <2>2, <2>4 DEF msg
    <2> QED
      BY <2>5 DEF calls, msg
  <1>7. CASE calls # <<>>
    <2>1. msg.role = "assistant" /\ msg.calls = calls
      BY <1>7 DEF CallsOf
    <2>2. NewCalls(s, i) = calls
      BY <1>1, <1>5, <2>1, NormalUnchanged DEF NewCalls
    <2>3. WithCalls(msg, calls) = msg
      <3>1. IsSequence(calls) /\ \A k \in DOMAIN calls : IsCall(calls[k])
        BY <1>1, <2>1, CallsOfAMessage DEF IsSequence
      <3> QED
        BY <1>1, <2>1, <3>1, MessageWithCalls
    <2>4. Repaired(s, i) = <<msg>> \o AnswersOf(s, i)
      BY <1>7, <2>1, <2>2, <2>3, RepairedCases
    <2>5. AnswersOf(s, i) = [k \in DOMAIN calls |-> AnswerTo(s, i, calls[k].id)]
      BY <2>2 DEF AnswersOf
    <2>6. \A k \in DOMAIN calls : AnswerTo(s, i, calls[k].id) = s[i+k]
      BY <2>1, AnswerFixed
    <2>7. AnswersOf(s, i) = [k \in DOMAIN calls |-> s[i+k]]
      BY <2>5, <2>6
    <2> HIDE DEF calls
    <2>8. AnswersOf(s, i) = [k \in 1..Len(calls) |-> s[i+k]]
      BY <1>2, <2>7
    <2>9. i + Len(calls) \in i+1..Len(s)
      <3>1. Len(calls) \in DOMAIN calls
        BY <1>2, <1>7
      <3> QED
        BY <1>1, <1>2, <1>5, <3>1
    <2> DEFINE answers == [k \in 1..Len(calls) |-> s[i+k]]
    <2> HIDE DEF msg
    <2>10. answers \in Seq(S) /\ Len(answers) = Len(calls)
      <3>1. \A k \in 1..Len(calls) : s[i+k] \in S
        BY <1>1, <1>2, <2>9
      <3> QED
        BY <1>2, <3>1
    <2>11. <<s[i]>> \o answers = SubSeq(s, i, i + Len(calls))
      <3> DEFINE r == <<s[i]>> \o answers
                 q == SubSeq(s, i, i + Len(calls))
      <3>1. s[i] \in S
        BY <1>1
      <3>2. r \in Seq(S) /\ Len(r) = 1 + Len(calls)
            /\ \A j \in 1..1+Len(calls) : r[j] = s[i+j-1]
        BY <1>1, <1>2, <2>9, <2>10, <3>1
      <3>3. q \in Seq(S) /\ Len(q) = 1 + Len(calls)
            /\ \A j \in 1..1+Len(calls) : q[j] = s[i+j-1]
        BY <1>1, <1>2, <2>9
      <3> HIDE DEF r, q
      <3>4. r = q
        BY <3>2, <3>3, SameSequence
      <3> QED
        BY <3>4 DEF r, q
    <2>12. \A j \in i+1..i+Len(calls) : IsTool(s[j])
      <3> SUFFICES ASSUME NEW j \in i+1..i+Len(calls) PROVE IsTool(s[j])
        OBVIOUS
      <3>1. j - i \in DOMAIN calls /\ i + (j - i) = j
        BY <1>1, <1>2
      <3> QED
        BY <1>5, <3>1
    <2>13. Repaired(s, i) = SubSeq(s, i, i + Len(calls))
      BY <2>4, <2>8, <2>11 DEF msg
    <2>14. i + Len(calls) \in i..Len(s)
      <3> HIDE DEF answers
      <3> QED
        BY <1>1, <2>9
    <2> QED
      BY <2>12, <2>13, <2>14 DEF calls, msg
  <1> QED
    BY <1>6, <1>7

\* The first n blocks of a canonical transcript are its first e messages.
Covers(s, n, e) ==
  /\ e \in n..Len(s)
  /\ Upto(s, n) = SubSeq(s, 1, e)
  /\ \A j \in n+1..e : IsTool(s[j])
  /\ \A i \in 1..n : i + Len(CallsOf(s[i])) <= e

LEMMA CanonicalIsFixed ==
  ASSUME NEW s, Canonical(s)
  PROVE  SanitizeHistory(s) = s
  <1> DEFINE S == {s[j] : j \in DOMAIN s}
             T == {n \in Nat : n <= Len(s) => \E e : Covers(s, n, e)}
  <1>0. IsTranscript(s)
    BY DEF Canonical
  <1>1. Len(s) \in Nat /\ DOMAIN s = 1..Len(s) /\ s \in Seq(S)
    BY <1>0, TranscriptElements
  <1>2. \A i \in DOMAIN s : Len(CallsOf(s[i])) \in Nat
    BY <1>0, TranscriptElements, CallsOfMessage
  <1> HIDE DEF S
  <1>3. 0 \in T
    <2>1. Upto(s, 0) = <<>> /\ SubSeq(s, 1, 0) = <<>>
      BY <1>0, <1>1, UptoSteps
    <2>2. 0 \in 0..Len(s) /\ 0+1..0 = {} /\ 1..0 = {}
      BY <1>1
    <2>3. Covers(s, 0, 0)
      BY <2>1, <2>2 DEF Covers
    <2> QED
      BY <2>3
  <1>4. ASSUME NEW n \in Nat, n \in T PROVE n + 1 \in T
    <2> SUFFICES ASSUME n + 1 <= Len(s) PROVE \E e : Covers(s, n + 1, e)
      OBVIOUS
    <2>1. n + 1 \in DOMAIN s /\ n <= Len(s)
      BY <1>1
    <2>2. PICK e : Covers(s, n, e)
      BY <1>4, <2>1
    <2>3. /\ e \in n..Len(s) /\ Upto(s, n) = SubSeq(s, 1, e)
          /\ \A j \in n+1..e : IsTool(s[j])
          /\ \A i \in 1..n : i + Len(CallsOf(s[i])) <= e
      BY <2>2 DEF Covers
    <2>4. Upto(s, n + 1) = Upto(s, n) \o Repaired(s, n + 1)
      BY <1>0, UptoSteps
    <2>5. CASE IsTool(s[n+1])
      <3>1. Repaired(s, n + 1) = <<>>
        BY <2>5, RepairedCases
      <3>2. PICK i \in 1..(n+1)-1 : n + 1 <= i + Len(CallsOf(s[i]))
        BY <2>1, <2>5 DEF Canonical
      <3>3. i \in 1..n /\ i \in DOMAIN s
        BY <1>1, <2>1
      <3>4. e \in n+1..Len(s)
        <4>1. i + Len(CallsOf(s[i])) <= e /\ Len(CallsOf(s[i])) \in Nat
          BY <1>2, <2>3, <3>3
        <4> QED
          BY <1>1, <2>3, <3>2, <3>3, <4>1
      <3>5. Upto(s, n + 1) = SubSeq(s, 1, e)
        <4>1. SubSeq(s, 1, e) \o <<>> = SubSeq(s, 1, e)
          BY <1>1, <2>3
        <4> QED
          BY <2>3, <2>4, <3>1, <4>1
      <3>6. CallsOf(s[n+1]) = <<>>
        BY <1>0, <2>1, <2>5, TranscriptElements, CallsOfMessage
      <3>7. \A k \in 1..n+1 : k + Len(CallsOf(s[k])) <= e
        <4> SUFFICES ASSUME NEW k \in 1..n+1 PROVE k + Len(CallsOf(s[k])) <= e
          OBVIOUS
        <4>1. CASE k \in 1..n
          BY <2>3, <4>1
        <4>2. CASE k = n + 1
          <5>1. Len(CallsOf(s[k])) = 0
            BY <3>6, <4>2
          <5> QED
            BY <1>1, <3>4, <4>2, <5>1
        <4> QED
          BY <4>1, <4>2
      <3>8. \A j \in (n+1)+1..e : IsTool(s[j])
        BY <2>3
      <3> QED
        BY <3>4, <3>5, <3>7, <3>8 DEF Covers
    <2>6. CASE ~ IsTool(s[n+1])
      <3> DEFINE d == (n + 1) + Len(CallsOf(s[n+1]))
      <3>1. e = n
        <4> SUFFICES ASSUME e # n PROVE FALSE
          OBVIOUS
        <4>1. n + 1 \in n+1..e
          BY <1>1, <2>3
        <4> QED
          BY <2>3, <2>6, <4>1
      <3>2. /\ d \in n+1..Len(s)
            /\ Repaired(s, n + 1) = SubSeq(s, n + 1, d)
            /\ \A j \in (n+1)+1..d : IsTool(s[j])
        BY <2>1, <2>6, BlockFixed
      <3> HIDE DEF d
      <3>3. Upto(s, n + 1) = SubSeq(s, 1, d)
        <4>1. SubSeq(s, 1, n) \o SubSeq(s, n + 1, d) = SubSeq(s, 1, d)
          BY <1>1, <3>2, JoinedSubSeqs
        <4> QED
          BY <2>3, <2>4, <3>1, <3>2, <4>1
      <3>4. \A k \in 1..n+1 : k + Len(CallsOf(s[k])) <= d
        <4> SUFFICES ASSUME NEW k \in 1..n+1 PROVE k + Len(CallsOf(s[k])) <= d
          OBVIOUS
        <4>1. CASE k \in 1..n
          <5>1. k + Len(CallsOf(s[k])) <= n
            BY <2>3, <3>1, <4>1
          <5>2. k \in DOMAIN s
            BY <1>1, <2>1, <4>1
          <5> QED
            BY <1>1, <1>2, <3>2, <5>1, <5>2
        <4>2. CASE k = n + 1
          BY <1>1, <1>2, <2>1, <4>2 DEF d
        <4> QED
          BY <4>1, <4>2
      <3> QED
        BY <3>2, <3>3, <3>4 DEF Covers
    <2> QED
      BY <2>5, <2>6
  <1>5. Len(s) \in T
    <2> HIDE DEF T
    <2>1. Nat \subseteq T
      BY <1>3, <1>4, Induction
    <2> QED
      BY <1>1, <2>1
  <1>6. PICK e : Covers(s, Len(s), e)
    BY <1>1, <1>5
  <1>7. e = Len(s) /\ Upto(s, Len(s)) = SubSeq(s, 1, e)
    <2>1. e \in Len(s)..Len(s) /\ Upto(s, Len(s)) = SubSeq(s, 1, e)
      BY <1>6 DEF Covers
    <2>2. Len(s)..Len(s) = {Len(s)}
      BY <1>1
    <2> QED
      BY <2>1, <2>2
  <1>8. SubSeq(s, 1, Len(s)) = s
    BY <1>1
  <1> QED
    BY <1>0, <1>7, <1>8, UptoSteps

\* A repaired transcript is left alone when it is loaded, saved or fitted and so
\* repaired again (sanitize_history runs on each of these paths).
THEOREM SanitizeIdempotent ==
  ASSUME NEW h, IsTranscript(h)
  PROVE  SanitizeHistory(SanitizeHistory(h)) = SanitizeHistory(h)
  BY SanitizedIsCanonical, CanonicalIsFixed

-----------------------------------------------------------------------------
(***************************************************************************)
(* Repairing a longer transcript keeps what repairing the shorter one gave.*)
(***************************************************************************)
KeptAs(msg, later) ==
  \/ later = msg
  \/ /\ msg.role = "tool" /\ msg.body = Interrupted
     /\ later.role = "tool" /\ later.id = msg.id

Extends(h, g) == Len(h) <= Len(g) /\ \A j \in DOMAIN h : g[j] = h[j]

LEMMA KeepsElements ==
  ASSUME NEW s, NEW t
  PROVE  Keeps(s, t) <=> Len(s) <= Len(t) /\ \A i \in DOMAIN s : KeptAs(s[i], t[i])
  BY DEF Keeps, KeptAs

LEMMA KeepsRefl ==
  ASSUME NEW s, IsTranscript(s)
  PROVE  Keeps(s, s)
  <1>1. Len(s) \in Nat
    BY TranscriptElements
  <1> QED
    BY <1>1 DEF Keeps

LEMMA KeepsConcat ==
  ASSUME NEW S, NEW a \in Seq(S), NEW b \in Seq(S), NEW c \in Seq(S), NEW d \in Seq(S),
         Len(a) = Len(b), Keeps(a, b), Keeps(c, d)
  PROVE  Keeps(a \o c, b \o d)
  <1>1. /\ Len(a \o c) = Len(a) + Len(c) /\ Len(b \o d) = Len(b) + Len(d)
        /\ Len(a) \in Nat /\ Len(c) \in Nat /\ Len(d) \in Nat
        /\ DOMAIN (a \o c) = 1..Len(a)+Len(c)
    OBVIOUS
  <1>2. Len(c) <= Len(d)
    BY DEF Keeps
  <1>3. ASSUME NEW i \in DOMAIN (a \o c) PROVE KeptAs((a \o c)[i], (b \o d)[i])
    <2>1. CASE i <= Len(a)
      <3>1. (a \o c)[i] = a[i] /\ (b \o d)[i] = b[i] /\ i \in DOMAIN a
        BY <1>1, <2>1
      <3> QED
        BY <3>1, KeepsElements
    <2>2. CASE i > Len(a)
      <3>1. /\ (a \o c)[i] = c[i - Len(a)] /\ (b \o d)[i] = d[i - Len(a)]
            /\ i - Len(a) \in DOMAIN c
        BY <1>1, <1>2, <2>2
      <3> QED
        BY <3>1, KeepsElements
    <2>3. i <= Len(a) \/ i > Len(a)
      BY <1>1
    <2> QED
      BY <2>1, <2>2, <2>3
  <1>4. Len(a \o c) <= Len(b \o d)
    BY <1>1, <1>2
  <1> QED
    BY <1>3, <1>4, KeepsElements

LEMMA KeepsMore ==
  ASSUME NEW S, NEW a \in Seq(S), NEW b \in Seq(S), NEW d \in Seq(S), Keeps(a, b)
  PROVE  Keeps(a, b \o d)
  <1>1. /\ Len(b \o d) = Len(b) + Len(d) /\ Len(a) \in Nat /\ Len(b) \in Nat /\ Len(d) \in Nat
        /\ DOMAIN a = 1..Len(a)
    OBVIOUS
  <1>2. Len(a) <= Len(b)
    BY DEF Keeps
  <1>3. ASSUME NEW i \in DOMAIN a PROVE KeptAs(a[i], (b \o d)[i])
    <2>1. (b \o d)[i] = b[i]
      BY <1>1, <1>2
    <2> QED
      BY <2>1, KeepsElements
  <1>4. Len(a) <= Len(b \o d)
    BY <1>1, <1>2
  <1> QED
    BY <1>3, <1>4, KeepsElements

\* The results found for a call: those of the shorter transcript, and more.
LEMMA FoundInLonger ==
  ASSUME NEW h, NEW g, IsTranscript(h), IsTranscript(g), Extends(h, g),
         NEW i \in DOMAIN h, NEW id
  PROVE  Found(h, i, id) = Found(g, i, id) \cap 1..Len(h)
  <1>1. /\ Len(h) \in Nat /\ DOMAIN h = 1..Len(h) /\ Len(g) \in Nat
        /\ Len(h) <= Len(g) /\ \A j \in DOMAIN h : g[j] = h[j]
    BY TranscriptElements DEF Extends
  <1>2. ASSUME NEW j \in i+1..Len(h)
        PROVE  j \in Found(h, i, id) <=> j \in Found(g, i, id)
    <2>1. j \in i+1..Len(g) /\ j \in DOMAIN h /\ \A k \in i+1..j : k \in DOMAIN h
      BY <1>1
    <2>2. h[j] = g[j] /\ \A k \in i+1..j : h[k] = g[k]
      BY <1>1, <2>1
    <2> QED
      BY <2>1, <2>2 DEF Found, RunAfter
  <1>3. Found(h, i, id) \subseteq i+1..Len(h) /\ Found(g, i, id) \subseteq i+1..Len(g)
    BY DEF Found, RunAfter
  <1>4. \A j \in Found(g, i, id) \cap 1..Len(h) : j \in i+1..Len(h)
    BY <1>1, <1>3
  <1>5. i+1..Len(h) \subseteq 1..Len(h)
    BY <1>1
  <1> QED
    BY <1>2, <1>3, <1>4, <1>5

LEMMA AnswerKept ==
  ASSUME NEW h, NEW g, IsTranscript(h), IsTranscript(g), Extends(h, g),
         NEW i \in DOMAIN h, NEW id
  PROVE  KeptAs(AnswerTo(h, i, id), AnswerTo(g, i, id))
  <1>1. /\ Len(h) \in Nat /\ DOMAIN h = 1..Len(h) /\ Len(g) \in Nat
        /\ Len(h) <= Len(g) /\ DOMAIN g = 1..Len(g)
        /\ \A j \in DOMAIN h : g[j] = h[j]
    BY TranscriptElements DEF Extends
  <1> DEFINE before == Found(h, i, id)
             after == Found(g, i, id)
  <1>2. before = after \cap 1..Len(h)
    BY FoundInLonger
  <1>3. CASE before = {}
    <2>1. AnswerTo(h, i, id) = ToolResult(id, Interrupted)
      BY <1>3 DEF AnswerTo, Found
    <2>2. i \in DOMAIN g
      BY <1>1
    <2>3. IsTool(AnswerTo(g, i, id)) /\ HasId(AnswerTo(g, i, id), id)
      BY <2>2, AnswerIsAnswer
    <2>4. /\ ToolResult(id, Interrupted).role = "tool"
          /\ ToolResult(id, Interrupted).body = Interrupted
          /\ ToolResult(id, Interrupted).id = id
      BY DEF ToolResult
    <2> QED
      BY <2>1, <2>3, <2>4 DEF KeptAs, IsTool, HasId
  <1>4. CASE before # {}
    <2>1. after \in SUBSET Nat /\ before \in SUBSET Nat /\ after # {}
      BY <1>1, <1>2, <1>4 DEF Found, RunAfter
    <2>2. /\ AnswerTo(h, i, id) = h[Min(before)]
          /\ AnswerTo(g, i, id) = g[Min(after)]
      BY <1>4, <2>1 DEF AnswerTo, Found
    <2> DEFINE m == Min(before)
               n == Min(after)
    <2> HIDE DEF before, after
    <2>3. m \in before /\ (\A y \in before : m <= y) /\ n \in after /\ \A y \in after : n <= y
      BY <1>4, <2>1, MinOfNats
    <2> HIDE DEF m, n
    <2>4. m \in Nat /\ n \in Nat /\ m \in 1..Len(h) /\ n <= m
      BY <1>2, <2>1, <2>3
    <2>5. n \in before
      <3>1. n \in 1..Len(h)
        <4>1. n \in i+1..Len(g) /\ i \in 1..Len(h)
          BY <1>1, <2>3 DEF after, Found, RunAfter
        <4> QED
          BY <1>1, <2>4, <4>1
      <3> QED
        BY <1>2, <2>3, <3>1
    <2>6. m = n
      BY <2>3, <2>4, <2>5
    <2>7. h[m] = g[n]
      BY <1>1, <2>4, <2>6
    <2> QED
      BY <2>2, <2>7 DEF KeptAs, m, n
  <1> QED
    BY <1>3, <1>4

LEMMA BlockKept ==
  ASSUME NEW h, NEW g, IsTranscript(h), IsTranscript(g), Extends(h, g),
         NEW i \in DOMAIN h
  PROVE  /\ Len(Repaired(h, i)) = Len(Repaired(g, i))
         /\ Keeps(Repaired(h, i), Repaired(g, i))
  <1>1. g[i] = h[i] /\ i \in DOMAIN g /\ IsMessage(h[i])
    <2>1. Len(h) \in Nat /\ DOMAIN h = 1..Len(h) /\ Len(g) \in Nat /\ DOMAIN g = 1..Len(g)
          /\ \A j \in DOMAIN h : IsMessage(h[j])
      BY TranscriptElements
    <2>2. g[i] = h[i] /\ Len(h) <= Len(g)
      BY DEF Extends
    <2>3. i \in 1..Len(g)
      BY <2>1, <2>2
    <2> QED
      BY <2>1, <2>2, <2>3
  <1>2. NewCalls(g, i) = NewCalls(h, i)
    BY <1>1 DEF NewCalls
  <1>3. CASE h[i].role = "assistant" /\ NewCalls(h, i) # <<>>
    <2> DEFINE calls == NewCalls(h, i)
               head == WithCalls(h[i], calls)
               before == AnswersOf(h, i)
               after == AnswersOf(g, i)
               S == {head} \cup {before[k] : k \in DOMAIN calls} \cup {after[k] : k \in DOMAIN calls}
    <2>1. Repaired(h, i) = <<head>> \o before /\ Repaired(g, i) = <<head>> \o after
      BY <1>1, <1>2, <1>3, RepairedCases
    <2>2. IsSequence(calls)
      BY <1>1, <1>3, NormalCalls DEF NewCalls
    <2>3. Len(calls) \in Nat /\ DOMAIN calls = 1..Len(calls)
      BY <2>2 DEF IsSequence
    <2>4. \A k \in DOMAIN calls : KeptAs(before[k], after[k])
      BY <1>2, AnswerKept DEF AnswersOf
    <2>5. /\ before = [k \in DOMAIN calls |-> before[k]]
          /\ after = [k \in DOMAIN calls |-> after[k]]
      BY <1>2 DEF AnswersOf
    <2>6. head \in S /\ \A k \in DOMAIN calls : before[k] \in S /\ after[k] \in S
      OBVIOUS
    <2> HIDE DEF calls, head, before, after, S
    <2>7. before \in Seq(S) /\ after \in Seq(S) /\ Len(before) = Len(calls) /\ Len(after) = Len(calls)
      BY <2>3, <2>5, <2>6
    <2>8. Keeps(before, after)
      <3>1. DOMAIN before = DOMAIN calls
        BY <2>5
      <3>2. Len(before) <= Len(after)
        BY <2>3, <2>7
      <3> QED
        BY <2>4, <3>1, <3>2, KeepsElements
    <2>9. Keeps(<<head>>, <<head>>) /\ <<head>> \in Seq(S) /\ Len(<<head>>) = 1
      BY <2>6 DEF Keeps
    <2>10. Keeps(<<head>> \o before, <<head>> \o after)
      BY <2>7, <2>8, <2>9, KeepsConcat
    <2>11. Len(<<head>> \o before) = Len(<<head>> \o after)
      BY <2>6, <2>7
    <2> QED
      BY <2>1, <2>10, <2>11
  <1>4. CASE ~ (h[i].role = "assistant" /\ NewCalls(h, i) # <<>>)
    <2>1. Repaired(h, i) = Repaired(g, i)
      <3>1. CASE IsTool(h[i])
        BY <1>1, <3>1, RepairedCases
      <3>2. CASE h[i].role = "user"
        BY <1>1, <3>2, RepairedCases
      <3>3. CASE h[i].role = "assistant"
        BY <1>1, <1>2, <1>4, <3>3, RepairedCases
      <3> QED
        BY <1>1, <3>1, <3>2, <3>3, Roles
    <2>2. IsTranscript(Repaired(h, i))
      BY CanonicalBlock DEF Canonical
    <2> QED
      BY <2>1, <2>2, KeepsRefl
  <1> QED
    BY <1>3, <1>4

LEMMA UptoKept ==
  ASSUME NEW h, NEW g, IsTranscript(h), IsTranscript(g), Extends(h, g)
  PROVE  /\ Len(SanitizeHistory(h)) = Len(Upto(g, Len(h)))
         /\ Keeps(SanitizeHistory(h), Upto(g, Len(h)))
  <1>0. /\ Len(h) \in Nat /\ DOMAIN h = 1..Len(h) /\ Len(g) \in Nat /\ Len(h) <= Len(g)
    BY TranscriptElements DEF Extends
  <1> DEFINE S == Messages(h) \cup Messages(g)
             Kept(n) == /\ Len(Upto(h, n)) = Len(Upto(g, n))
                        /\ Keeps(Upto(h, n), Upto(g, n))
             T == {n \in Nat : n <= Len(h) => Kept(n)}
  <1>1. 0 \in T
    <2>1. Upto(h, 0) = <<>> /\ Upto(g, 0) = <<>>
      BY UptoSteps
    <2>2. Keeps(<<>>, <<>>)
      BY DEF Keeps
    <2> QED
      BY <2>1, <2>2
  <1>2. ASSUME NEW n \in Nat, n \in T PROVE n + 1 \in T
    <2> SUFFICES ASSUME n + 1 <= Len(h) PROVE Kept(n + 1)
      OBVIOUS
    <2>1. n <= Len(h) /\ n + 1 \in DOMAIN h /\ n + 1 <= Len(g)
          /\ n \in 0..Len(h) /\ n \in 0..Len(g) /\ n + 1 \in DOMAIN g
      <3>1. DOMAIN g = 1..Len(g)
        BY TranscriptElements
      <3> QED
        BY <1>0, <3>1
    <2>2. Len(Upto(h, n)) = Len(Upto(g, n)) /\ Keeps(Upto(h, n), Upto(g, n))
      BY <1>2, <2>1
    <2>3. /\ Upto(h, n + 1) = Upto(h, n) \o Repaired(h, n + 1)
          /\ Upto(g, n + 1) = Upto(g, n) \o Repaired(g, n + 1)
      BY <2>1, UptoSteps
    <2>4. /\ Len(Repaired(h, n + 1)) = Len(Repaired(g, n + 1))
          /\ Keeps(Repaired(h, n + 1), Repaired(g, n + 1))
      BY <2>1, BlockKept
    <2>5. Upto(h, n) \in Seq(S) /\ Upto(g, n) \in Seq(S)
      <3>1. Upto(h, n) \in Seq(Messages(h)) /\ Upto(g, n) \in Seq(Messages(g))
        BY <2>1, UptoSteps
      <3> QED
        BY <3>1
    <2>6. Repaired(h, n + 1) \in Seq(S) /\ Repaired(g, n + 1) \in Seq(S)
      <3>1. Repaired(h, n + 1) \in Seq(Messages(h)) /\ Repaired(g, n + 1) \in Seq(Messages(g))
        BY <2>1, RepairedMessages
      <3> QED
        BY <3>1
    <2> HIDE DEF S
    <2>7. Keeps(Upto(h, n + 1), Upto(g, n + 1))
      BY <2>2, <2>3, <2>4, <2>5, <2>6, KeepsConcat
    <2>8. Len(Upto(h, n + 1)) = Len(Upto(g, n + 1))
      BY <2>2, <2>3, <2>4, <2>5, <2>6
    <2> QED
      BY <2>7, <2>8
  <1>3. Len(h) \in T
    <2> HIDE DEF T
    <2>1. Nat \subseteq T
      BY <1>1, <1>2, Induction
    <2> QED
      BY <1>0, <2>1
  <1>4. Kept(Len(h))
    BY <1>0, <1>3
  <1> QED
    BY <1>4, UptoSteps

\* A longer transcript is repaired into one that keeps what its beginning was
\* repaired into: no message is lost, and only a stub may become a result.
THEOREM SanitizeKeeps ==
  ASSUME NEW h, NEW g, IsTranscript(h), IsTranscript(g), Extends(h, g)
  PROVE  Keeps(SanitizeHistory(h), SanitizeHistory(g))
  <1>0. /\ Len(h) \in Nat /\ Len(g) \in Nat /\ Len(h) <= Len(g) /\ DOMAIN g = 1..Len(g)
    BY TranscriptElements DEF Extends
  <1> DEFINE S == Messages(h) \cup Messages(g)
             T == {d \in Nat : Len(h) + d <= Len(g) =>
                                 Keeps(SanitizeHistory(h), Upto(g, Len(h) + d))}
  <1>1. SanitizeHistory(h) \in Seq(S)
    <2>1. Len(h) \in 0..Len(h)
      BY <1>0
    <2>2. SanitizeHistory(h) \in Seq(Messages(h))
      BY <2>1, UptoSteps
    <2> QED
      BY <2>2
  <1>2. 0 \in T
    BY <1>0, UptoKept
  <1>3. ASSUME NEW d \in Nat, d \in T PROVE d + 1 \in T
    <2> DEFINE n == Len(h) + d
    <2> SUFFICES ASSUME Len(h) + (d + 1) <= Len(g)
                 PROVE  Keeps(SanitizeHistory(h), Upto(g, Len(h) + (d + 1)))
      OBVIOUS
    <2>1. n \in Nat /\ n + 1 <= Len(g) /\ n <= Len(g) /\ n \in 0..Len(g) /\ n + 1 \in DOMAIN g
          /\ Len(h) + (d + 1) = n + 1
      BY <1>0
    <2>2. Keeps(SanitizeHistory(h), Upto(g, n))
      BY <1>3, <2>1
    <2> HIDE DEF n
    <2>3. Upto(g, n + 1) = Upto(g, n) \o Repaired(g, n + 1)
      BY <2>1, UptoSteps
    <2>4. Upto(g, n) \in Seq(S) /\ Repaired(g, n + 1) \in Seq(S)
      <3>1. Upto(g, n) \in Seq(Messages(g)) /\ Repaired(g, n + 1) \in Seq(Messages(g))
        BY <2>1, UptoSteps, RepairedMessages
      <3> QED
        BY <3>1
    <2> HIDE DEF S
    <2>5. Keeps(SanitizeHistory(h), Upto(g, n + 1))
      BY <1>1, <2>2, <2>3, <2>4, KeepsMore
    <2> QED
      BY <2>1, <2>5
  <1>4. Len(g) - Len(h) \in T
    <2> HIDE DEF T
    <2>1. Nat \subseteq T
      BY <1>2, <1>3, Induction
    <2> QED
      BY <1>0, <2>1
  <1>5. Len(g) - Len(h) \in Nat /\ Len(h) + (Len(g) - Len(h)) = Len(g)
    BY <1>0
  <1>6. Keeps(SanitizeHistory(h), Upto(g, Len(h) + (Len(g) - Len(h))))
    <2> HIDE DEF S
    <2> QED
      BY <1>0, <1>4, <1>5
  <1> QED
    BY <1>5, <1>6, UptoSteps

-----------------------------------------------------------------------------
(***************************************************************************)
(* Repairing a transcript with one more message that is no tool's.         *)
(***************************************************************************)
LEMMA TranscriptAppend ==
  ASSUME NEW h, IsTranscript(h), NEW msg, IsMessage(msg)
  PROVE  /\ IsTranscript(Append(h, msg))
         /\ Len(Append(h, msg)) = Len(h) + 1
         /\ Append(h, msg)[Len(h)+1] = msg
         /\ Extends(h, Append(h, msg))
  <1> DEFINE S == {h[i] : i \in DOMAIN h} \cup {msg}
             r == Append(h, msg)
  <1>1. h \in Seq(S)
    <2>1. h \in Seq({h[i] : i \in DOMAIN h})
      BY TranscriptElements
    <2> QED
      BY <2>1
  <1>2. msg \in S /\ \A x \in S : IsMessage(x)
    BY DEF IsTranscript
  <1> HIDE DEF S
  <1>3. /\ r \in Seq(S) /\ Len(r) = Len(h) + 1 /\ r[Len(h)+1] = msg
        /\ Len(h) \in Nat /\ \A j \in DOMAIN h : r[j] = h[j]
    BY <1>1, <1>2
  <1> HIDE DEF r
  <1>4. r \in Seq({r[i] : i \in DOMAIN r}) /\ \A i \in DOMAIN r : r[i] \in S
    BY <1>3
  <1>5. IsTranscript(r)
    BY <1>2, <1>4 DEF IsTranscript, IsSequence
  <1>6. Extends(h, r)
    BY <1>3 DEF Extends
  <1> QED
    BY <1>3, <1>5, <1>6 DEF r

\* A message that is no tool's changes no block before it.
LEMMA BlockSame ==
  ASSUME NEW h, IsTranscript(h), NEW msg, IsMessage(msg), ~ IsTool(msg),
         NEW i \in DOMAIN h
  PROVE  Repaired(Append(h, msg), i) = Repaired(h, i)
  <1> DEFINE g == Append(h, msg)
  <1>1. IsTranscript(g) /\ Len(g) = Len(h) + 1 /\ g[Len(h)+1] = msg /\ Extends(h, g)
    BY TranscriptAppend
  <1> HIDE DEF g
  <1>2. /\ Len(h) \in Nat /\ DOMAIN h = 1..Len(h) /\ IsMessage(h[i])
        /\ \A j \in DOMAIN h : g[j] = h[j]
    BY <1>1, TranscriptElements DEF Extends
  <1>3. NewCalls(g, i) = NewCalls(h, i)
    BY <1>2 DEF NewCalls
  <1>4. ASSUME NEW id PROVE AnswerTo(g, i, id) = AnswerTo(h, i, id)
    <2>1. Found(h, i, id) = Found(g, i, id) \cap 1..Len(h)
      BY <1>1, FoundInLonger
    <2>2. ASSUME NEW j \in Found(g, i, id) PROVE j \in 1..Len(h)
      <3>1. j \in i+1..Len(h)+1 /\ \A k \in i+1..j : g[k].role = "tool"
        BY <1>1 DEF Found, RunAfter
      <3>2. j # Len(h) + 1
        <4> SUFFICES ASSUME j = Len(h) + 1 PROVE FALSE
          OBVIOUS
        <4>1. j \in i+1..j
          BY <1>2, <3>1
        <4> QED
          BY <1>1, <3>1, <4>1 DEF IsTool
      <3> QED
        BY <1>2, <3>1, <3>2
    <2>3. Found(g, i, id) = Found(h, i, id)
      BY <2>1, <2>2
    <2> DEFINE found == Found(h, i, id)
    <2>4. CASE found = {}
      BY <2>3, <2>4 DEF AnswerTo, Found
    <2>5. CASE found # {}
      <3>1. AnswerTo(g, i, id) = g[Min(found)] /\ AnswerTo(h, i, id) = h[Min(found)]
        BY <2>3, <2>5 DEF AnswerTo, Found
      <3>2. found \in SUBSET Nat /\ found \subseteq DOMAIN h
        BY <1>2, <2>1
      <3>3. Min(found) \in DOMAIN h
        BY <2>5, <3>2, MinOfNats
      <3> QED
        BY <1>2, <3>1, <3>3
    <2> QED
      BY <2>4, <2>5
  <1>5. AnswersOf(g, i) = AnswersOf(h, i)
    BY <1>3, <1>4 DEF AnswersOf
  <1>6. g[i] = h[i]
    BY <1>2
  <1>7. Repaired(g, i) = Repaired(h, i)
    <2>1. CASE IsTool(h[i])
      BY <1>6, <2>1, RepairedCases
    <2>2. CASE h[i].role = "user"
      BY <1>6, <2>2, RepairedCases
    <2>3. CASE h[i].role = "assistant"
      BY <1>3, <1>5, <1>6, <2>3, RepairedCases
    <2> QED
      BY <1>2, <2>1, <2>2, <2>3, Roles
  <1> QED
    BY <1>7 DEF g

LEMMA SanitizeAppend ==
  ASSUME NEW h, IsTranscript(h), NEW msg, IsMessage(msg), ~ IsTool(msg)
  PROVE  SanitizeHistory(Append(h, msg))
           = SanitizeHistory(h) \o Repaired(Append(h, msg), Len(h) + 1)
  <1> DEFINE g == Append(h, msg)
  <1>1. IsTranscript(g) /\ Len(g) = Len(h) + 1
    BY TranscriptAppend
  <1>2. Len(h) \in Nat /\ DOMAIN h = 1..Len(h)
    BY TranscriptElements
  <1>3. \A i \in DOMAIN h : Repaired(g, i) = Repaired(h, i)
    BY BlockSame
  <1> HIDE DEF g
  <1> DEFINE T == {n \in Nat : n <= Len(h) => Upto(g, n) = Upto(h, n)}
  <1>4. 0 \in T
    BY <1>1, UptoSteps
  <1>5. ASSUME NEW n \in Nat, n \in T PROVE n + 1 \in T
    <2> SUFFICES ASSUME n + 1 <= Len(h) PROVE Upto(g, n + 1) = Upto(h, n + 1)
      OBVIOUS
    <2>1. n <= Len(h) /\ n + 1 \in DOMAIN h /\ n + 1 <= Len(g)
      BY <1>1, <1>2
    <2>2. Upto(g, n + 1) = Upto(g, n) \o Repaired(g, n + 1)
      BY <1>1, <2>1, UptoSteps
    <2>3. Upto(h, n + 1) = Upto(h, n) \o Repaired(h, n + 1)
      BY UptoSteps
    <2> QED
      BY <1>3, <1>5, <2>1, <2>2, <2>3
  <1>6. Len(h) \in T
    <2> HIDE DEF T
    <2>1. Nat \subseteq T
      BY <1>4, <1>5, Induction
    <2> QED
      BY <1>2, <2>1
  <1>7. Upto(g, Len(h)) = SanitizeHistory(h)
    BY <1>2, <1>6, UptoSteps
  <1>8. SanitizeHistory(g) = Upto(g, Len(h)) \o Repaired(g, Len(h) + 1)
    <2>1. Upto(g, Len(h) + 1) = Upto(g, Len(h)) \o Repaired(g, Len(h) + 1)
      <3>1. Len(h) + 1 <= Len(g)
        BY <1>1, <1>2
      <3> QED
        BY <1>1, <1>2, <3>1, UptoSteps
    <2> QED
      BY <1>1, <2>1, UptoSteps
  <1> QED
    BY <1>7, <1>8 DEF g

-----------------------------------------------------------------------------
(***************************************************************************)
(* The end of a transcript.                                                *)
(***************************************************************************)
\* All but the first m messages.
From(h, m) == SubSeq(h, m + 1, Len(h))

LEMMA FromElements ==
  ASSUME NEW h, IsTranscript(h), NEW m \in 0..Len(h)
  PROVE  /\ IsTranscript(From(h, m)) /\ Len(From(h, m)) = Len(h) - m
         /\ Len(h) - m \in Nat /\ DOMAIN From(h, m) = 1..(Len(h) - m)
         /\ \A i \in 1..(Len(h) - m) : From(h, m)[i] = h[m+i] /\ m + i \in DOMAIN h
  <1> DEFINE g == SubSeq(h, m + 1, Len(h))
             S == {h[i] : i \in DOMAIN h}
  <1>1. h \in Seq(S) /\ Len(h) \in Nat /\ DOMAIN h = 1..Len(h) /\ \A x \in S : IsMessage(x)
    BY TranscriptElements
  <1> HIDE DEF S
  <1>2. \A i \in m+1..Len(h) : h[i] \in S
    BY <1>1
  <1>3. m \in Nat /\ m + 1 \in Int /\ Len(h) \in Int /\ Len(h) - m \in Nat
        /\ Len(h) - (m + 1) + 1 = Len(h) - m
    BY <1>1
  <1>4. /\ g \in Seq(S)
        /\ Len(g) = IF m + 1 <= Len(h) THEN Len(h) - (m + 1) + 1 ELSE 0
        /\ \A i \in 1..(Len(h) - (m + 1) + 1) : g[i] = h[(m + 1) + i - 1]
    BY <1>2, <1>3, SubSeqProperties
  <1> HIDE DEF g
  <1>5. Len(g) = Len(h) - m /\ DOMAIN g = 1..(Len(h) - m)
    <2>1. Len(h) \in Nat
      BY <1>1
    <2>2. ~ (m + 1 <= Len(h)) => Len(h) = m
      BY <2>1
    <2>3. Len(g) = Len(h) - m
      <3>1. CASE m + 1 <= Len(h)
        BY <1>3, <1>4, <3>1
      <3>2. CASE ~ (m + 1 <= Len(h))
        <4>1. Len(h) = m /\ Len(g) = 0
          BY <1>4, <2>2, <3>2
        <4>2. m - m = 0
          OBVIOUS
        <4> QED
          BY <4>1, <4>2
      <3> QED
        BY <3>1, <3>2
    <2>4. DOMAIN g = 1..Len(g)
      BY <1>4
    <2> QED
      BY <2>3, <2>4
  <1>6. \A i \in 1..(Len(h) - m) : g[i] = h[m+i] /\ m + i \in DOMAIN h
    <2>1. \A i \in 1..(Len(h) - m) : (m + 1) + i - 1 = m + i /\ m + i \in 1..Len(h)
      BY <1>1
    <2> QED
      BY <1>1, <1>3, <1>4, <2>1
  <1>7. IsTranscript(g)
    <2>1. g \in Seq({g[i] : i \in DOMAIN g}) /\ \A i \in DOMAIN g : g[i] \in S
      BY <1>4
    <2> QED
      BY <1>1, <2>1 DEF IsTranscript, IsSequence
  <1> QED
    BY <1>3, <1>5, <1>6, <1>7 DEF From, g

\* The repair of a message looks at what follows it alone.
LEMMA AnswerInFrom ==
  ASSUME NEW h, IsTranscript(h), NEW m \in 0..Len(h), NEW i \in 1..(Len(h) - m), NEW id
  PROVE  AnswerTo(From(h, m), i, id) = AnswerTo(h, m + i, id)
  <1> DEFINE g == From(h, m)
  <1>1. /\ Len(g) = Len(h) - m /\ Len(h) \in Nat /\ m \in Nat
        /\ \A j \in 1..(Len(h) - m) : g[j] = h[m+j]
    BY FromElements, TranscriptElements
  <1> HIDE DEF g
  <1>2. ASSUME NEW j \in i+1..Len(g)
        PROVE  j \in Found(g, i, id) <=> m + j \in Found(h, m + i, id)
    <2>1. m + j \in m+i+1..Len(h) /\ j \in 1..(Len(h) - m) /\ g[j] = h[m+j]
      BY <1>1
    <2>2. (\A k \in i+1..j : g[k].role = "tool")
            <=> \A k \in m+i+1..m+j : h[k].role = "tool"
      <3>1. ASSUME NEW k \in i+1..j PROVE m + k \in m+i+1..m+j /\ g[k] = h[m+k]
        BY <1>1, <2>1
      <3>2. ASSUME NEW k \in m+i+1..m+j
            PROVE  k - m \in i+1..j /\ g[k-m] = h[k]
        <4>1. k - m \in i+1..j /\ m + (k - m) = k /\ k - m \in 1..(Len(h) - m)
          BY <1>1, <2>1
        <4> QED
          BY <1>1, <4>1
      <3> QED
        BY <3>1, <3>2
    <2> QED
      BY <2>1, <2>2 DEF Found, RunAfter
  <1> DEFINE here == Found(g, i, id)
             there == Found(h, m + i, id)
  <1>3. here \subseteq i+1..Len(g) /\ there \subseteq m+i+1..Len(h)
    BY DEF Found, RunAfter
  <1>4. \A j \in there : j - m \in here /\ m + (j - m) = j
    <2>1. \A j \in there : j - m \in i+1..Len(g) /\ m + (j - m) = j
      BY <1>1, <1>3
    <2> QED
      BY <1>2, <2>1
  <1>5. \A j \in here : m + j \in there
    BY <1>2, <1>3
  <1>6. here \in SUBSET Nat /\ there \in SUBSET Nat
    BY <1>1, <1>3
  <1>7. CASE here = {}
    <2>1. there = {}
      BY <1>4, <1>7
    <2> QED
      BY <1>7, <2>1 DEF AnswerTo, Found, g
  <1>8. CASE here # {}
    <2>1. there # {}
      BY <1>5, <1>8
    <2>2. AnswerTo(g, i, id) = g[Min(here)] /\ AnswerTo(h, m + i, id) = h[Min(there)]
      BY <1>8, <2>1 DEF AnswerTo, Found
    <2> DEFINE a == Min(here)
               b == Min(there)
    <2> HIDE DEF here, there
    <2>3. /\ a \in here /\ (\A y \in here : a <= y)
          /\ b \in there /\ (\A y \in there : b <= y)
      BY <1>6, <1>8, <2>1, MinOfNats
    <2> HIDE DEF a, b
    <2>4. m + a = b
      <3>1. b <= m + a /\ a <= b - m /\ a \in Nat /\ b \in Nat
        BY <1>4, <1>5, <1>6, <2>3
      <3> QED
        BY <1>1, <3>1
    <2>5. a \in 1..(Len(h) - m)
      BY <1>1, <1>3, <2>3 DEF here
    <2> QED
      BY <1>1, <2>2, <2>4, <2>5 DEF a, b, g
  <1> QED
    BY <1>7, <1>8

\* In a canonical transcript a block of the end is a block of the whole.
LEMMA BlockInFrom ==
  ASSUME NEW h, Canonical(h), NEW m \in 0..Len(h), NEW i \in 1..(Len(h) - m)
  PROVE  Repaired(From(h, m), i) = Repaired(h, m + i)
  <1> DEFINE g == From(h, m)
  <1>0. IsTranscript(h)
    BY DEF Canonical
  <1>1. g[i] = h[m+i] /\ m + i \in DOMAIN h
    BY <1>0, FromElements
  <1>2. \A id : AnswerTo(g, i, id) = AnswerTo(h, m + i, id)
    BY <1>0, AnswerInFrom
  <1> HIDE DEF g
  <1>3. IsMessage(h[m+i])
    BY <1>0, <1>1, TranscriptElements
  <1>4. ASSUME h[m+i].role = "assistant"
        PROVE  NewCalls(g, i) = NewCalls(h, m + i)
    <2>1. \A k \in DOMAIN CallsOf(h[m+i]) : IsNamed(CallsOf(h[m+i])[k])
      BY <1>1 DEF Canonical, Paired
    <2>2. CallsOf(h[m+i]) = h[m+i].calls
      BY <1>4 DEF CallsOf
    <2> QED
      BY <1>1, <1>3, <1>4, <2>1, <2>2, NormalUnchanged DEF NewCalls
  <1>5. h[m+i].role = "assistant" => AnswersOf(g, i) = AnswersOf(h, m + i)
    BY <1>2, <1>4 DEF AnswersOf
  <1>6. Repaired(g, i) = Repaired(h, m + i)
    <2>1. CASE IsTool(h[m+i])
      BY <1>1, <2>1, RepairedCases
    <2>2. CASE h[m+i].role = "user"
      BY <1>1, <2>2, RepairedCases
    <2>3. CASE h[m+i].role = "assistant"
      BY <1>1, <1>4, <1>5, <2>3, RepairedCases
    <2> QED
      BY <1>3, <2>1, <2>2, <2>3, Roles
  <1> QED
    BY <1>6 DEF g

\* The end of a canonical transcript is canonical, unless it starts among the
\* results of a round.
LEMMA CanonicalFrom ==
  ASSUME NEW h, Canonical(h), NEW m \in 0..Len(h), m = Len(h) \/ ~ IsTool(h[m+1])
  PROVE  Canonical(From(h, m))
  <1> DEFINE g == From(h, m)
  <1>0. IsTranscript(h)
    BY DEF Canonical
  <1>1. /\ IsTranscript(g) /\ Len(g) = Len(h) - m /\ DOMAIN g = 1..(Len(h) - m)
        /\ \A i \in 1..(Len(h) - m) : g[i] = h[m+i] /\ m + i \in DOMAIN h
        /\ Len(h) \in Nat /\ m \in Nat /\ DOMAIN h = 1..Len(h)
    BY <1>0, FromElements, TranscriptElements
  <1> HIDE DEF g
  <1>2. \A i \in DOMAIN g : Says(g[i])
    BY <1>1 DEF Canonical
  <1>3. ASSUME NEW i \in DOMAIN g, NEW k \in DOMAIN CallsOf(g[i]), NEW l \in DOMAIN CallsOf(g[i])
        PROVE  Paired(g, i, k) /\ OneAnswer(g, i, k, l)
    <2>1. g[i] = h[m+i] /\ m + i \in DOMAIN h
      BY <1>1
    <2>2. /\ Paired(h, m + i, k) /\ Paired(h, m + i, l) /\ OneAnswer(h, m + i, k, l)
      BY <2>1 DEF Canonical
    <2>3. k \in Nat /\ k >= 1 /\ l \in Nat /\ l >= 1
      <3>1. DOMAIN CallsOf(h[m+i]) = 1..Len(CallsOf(h[m+i])) /\ Len(CallsOf(h[m+i])) \in Nat
        BY <1>0, <2>1, TranscriptElements, CallsOfMessage
      <3> QED
        BY <2>1, <3>1
    <2>4. m + i + k <= Len(h) /\ m + i + l <= Len(h)
      BY <2>2 DEF Paired
    <2>5. /\ i + k \in 1..(Len(h) - m) /\ i + l \in 1..(Len(h) - m)
          /\ m + (i + k) = m + i + k /\ m + (i + l) = m + i + l
      BY <1>1, <2>3, <2>4
    <2>6. g[i+k] = h[m+i+k] /\ g[i+l] = h[m+i+l] /\ i + k <= Len(g)
      BY <1>1, <2>5
    <2> QED
      BY <2>1, <2>2, <2>6 DEF Paired, OneAnswer
  <1>4. ASSUME NEW j \in DOMAIN g, IsTool(g[j])
        PROVE  \E i \in 1..j-1 : j <= i + Len(CallsOf(g[i]))
    <2>1. g[j] = h[m+j] /\ m + j \in DOMAIN h /\ j \in 1..(Len(h) - m)
      BY <1>1
    <2>2. PICK i \in 1..m+j-1 : m + j <= i + Len(CallsOf(h[i]))
      BY <1>4, <2>1 DEF Canonical
    <2>3. i \in DOMAIN h /\ i \in Nat
      BY <1>1, <2>1
    <2>4. DOMAIN CallsOf(h[i]) = 1..Len(CallsOf(h[i])) /\ Len(CallsOf(h[i])) \in Nat
      BY <1>0, <2>3, TranscriptElements, CallsOfMessage
    <2>5. i > m
      <3> SUFFICES ASSUME i <= m PROVE FALSE
        BY <1>1, <2>3
      <3>1. m + 1 - i \in DOMAIN CallsOf(h[i]) /\ i + (m + 1 - i) = m + 1 /\ m # Len(h)
        BY <1>1, <2>1, <2>2, <2>3, <2>4
      <3>2. Paired(h, i, m + 1 - i)
        BY <2>3, <3>1 DEF Canonical
      <3>3. IsTool(h[m+1])
        BY <3>1, <3>2 DEF Paired, Answers, IsTool
      <3> QED
        BY <3>1, <3>3
    <2>6. i - m \in 1..j-1 /\ i - m \in 1..(Len(h) - m) /\ m + (i - m) = i
      BY <1>1, <2>1, <2>3, <2>5
    <2>7. g[i-m] = h[i]
      BY <1>1, <2>6
    <2>8. j <= (i - m) + Len(CallsOf(g[i-m]))
      BY <1>1, <2>1, <2>2, <2>3, <2>4, <2>7
    <2> QED
      BY <2>6, <2>8
  <1>5. Canonical(g)
    BY <1>1, <1>2, <1>3, <1>4 DEF Canonical
  <1> QED
    BY <1>5 DEF g

\* The message the end of h starts with once the results at its start are gone.
FirstFrom(h, m) == Min({p \in m..Len(h) : p = Len(h) \/ ~ IsTool(h[p+1])})

LEMMA FirstFromIsFirst ==
  ASSUME NEW h, IsTranscript(h), NEW m \in 0..Len(h)
  PROVE  LET p == FirstFrom(h, m)
         IN  /\ p \in m..Len(h) /\ p \in 0..Len(h)
             /\ p = Len(h) \/ ~ IsTool(h[p+1])
             /\ \A j \in m+1..p : IsTool(h[j])
             /\ \A n \in m..Len(h) : n = Len(h) \/ ~ IsTool(h[n+1]) => p <= n
  <1> DEFINE T == {p \in m..Len(h) : p = Len(h) \/ ~ IsTool(h[p+1])}
             p == Min(T)
  <1>1. Len(h) \in Nat /\ m \in Nat
    BY TranscriptElements
  <1>2. T \in SUBSET Nat /\ T # {}
    <2>1. Len(h) \in T
      BY <1>1
    <2> QED
      BY <1>1, <2>1
  <1>3. p \in T /\ \A y \in T : p <= y
    <2> HIDE DEF T
    <2> QED
      BY <1>2, MinOfNats
  <1> HIDE DEF p
  <1>4. p \in m..Len(h) /\ p \in Nat /\ p \in 0..Len(h)
    BY <1>1, <1>3
  <1>5. ASSUME NEW j \in m+1..p PROVE IsTool(h[j])
    <2>1. j - 1 \in m..Len(h) /\ j - 1 < p /\ j - 1 # Len(h) /\ (j - 1) + 1 = j
      BY <1>1, <1>4
    <2>2. j - 1 \notin T
      <3> SUFFICES ASSUME j - 1 \in T PROVE FALSE
        OBVIOUS
      <3>1. p <= j - 1
        BY <1>3
      <3> QED
        BY <1>1, <1>4, <2>1, <3>1
    <2> QED
      BY <2>1, <2>2
  <1> QED
    BY <1>3, <1>4, <1>5 DEF p, FirstFrom

\* The repair of the end of a repaired transcript, wherever it was cut, is that
\* end without the results at its start, whose calls are gone: nothing else is
\* changed, and no stub is made up (sanitize_history in _drop_oldest).
THEOREM SanitizeCut ==
  ASSUME NEW h, Canonical(h), NEW m \in 0..Len(h)
  PROVE  /\ SanitizeHistory(From(h, m)) = From(h, FirstFrom(h, m))
         /\ Canonical(From(h, FirstFrom(h, m)))
  <1> DEFINE p == FirstFrom(h, m)
             g == From(h, m)
             q == From(h, p)
             d == p - m
  <1>0. IsTranscript(h) /\ Len(h) \in Nat /\ m \in Nat
    BY TranscriptElements DEF Canonical
  <1>1. /\ p \in m..Len(h) /\ p \in 0..Len(h)
        /\ p = Len(h) \/ ~ IsTool(h[p+1])
        /\ \A j \in m+1..p : IsTool(h[j])
    BY <1>0, FirstFromIsFirst
  <1> HIDE DEF p
  <1>2. Canonical(q) /\ SanitizeHistory(q) = q
    BY <1>1, CanonicalFrom, CanonicalIsFixed
  <1>3. /\ IsTranscript(g) /\ Len(g) = Len(h) - m
        /\ IsTranscript(q) /\ Len(q) = Len(h) - p
        /\ \A i \in 1..(Len(h) - m) : g[i] = h[m+i]
    BY <1>0, <1>1, FromElements
  <1>4. p \in Nat /\ d \in 0..Len(g) /\ d + Len(q) = Len(g) /\ Len(q) \in Nat /\ d \in Nat
    BY <1>0, <1>1, <1>3
  <1>5. \A i \in 1..Len(q) : Repaired(g, d + i) = Repaired(q, i)
    <2> SUFFICES ASSUME NEW i \in 1..Len(q) PROVE Repaired(g, d + i) = Repaired(q, i)
      OBVIOUS
    <2>1. d + i \in 1..(Len(h) - m) /\ i \in 1..(Len(h) - p) /\ m + (d + i) = p + i
      BY <1>0, <1>3, <1>4
    <2>2. Repaired(g, d + i) = Repaired(h, m + (d + i))
      BY <2>1, BlockInFrom
    <2>3. Repaired(q, i) = Repaired(h, p + i)
      BY <1>1, <2>1, BlockInFrom
    <2> QED
      BY <2>1, <2>2, <2>3
  <1>6. \A i \in 1..d : Repaired(g, i) = <<>>
    <2> SUFFICES ASSUME NEW i \in 1..d PROVE Repaired(g, i) = <<>>
      OBVIOUS
    <2>1. i \in 1..(Len(h) - m) /\ m + i \in m+1..p
      BY <1>0, <1>1, <1>4
    <2>2. IsTool(g[i])
      BY <1>1, <1>3, <2>1
    <2> QED
      BY <2>2, RepairedCases
  <1> HIDE DEF g, q, d
  <1>7. Upto(g, d) = <<>>
    <2> DEFINE T == {n \in Nat : n <= d => Upto(g, n) = <<>>}
    <2>1. 0 \in T
      BY <1>3, UptoSteps
    <2>2. ASSUME NEW n \in Nat, n \in T PROVE n + 1 \in T
      <3> SUFFICES ASSUME n + 1 <= d PROVE Upto(g, n + 1) = <<>>
        OBVIOUS
      <3>1. n <= d /\ n + 1 \in 1..d /\ n + 1 <= Len(g)
        BY <1>4
      <3>2. Upto(g, n + 1) = Upto(g, n) \o Repaired(g, n + 1)
        BY <1>3, <3>1, UptoSteps
      <3>3. Upto(g, n) = <<>> /\ Repaired(g, n + 1) = <<>>
        BY <1>6, <2>2, <3>1
      <3> QED
        BY <3>2, <3>3
    <2> HIDE DEF T
    <2>3. Nat \subseteq T
      BY <2>1, <2>2, Induction
    <2>4. d \in T
      BY <1>4, <2>3
    <2> QED
      BY <1>4, <2>4 DEF T
  <1>8. Upto(g, d + Len(q)) = Upto(q, Len(q))
    <2> DEFINE T == {n \in Nat : n <= Len(q) => Upto(g, d + n) = Upto(q, n)}
    <2>1. 0 \in T
      <3>1. Upto(q, 0) = <<>> /\ d + 0 = d
        BY <1>3, <1>4, UptoSteps
      <3> QED
        BY <1>7, <3>1
    <2>2. ASSUME NEW n \in Nat, n \in T PROVE n + 1 \in T
      <3> SUFFICES ASSUME n + 1 <= Len(q) PROVE Upto(g, d + (n + 1)) = Upto(q, n + 1)
        OBVIOUS
      <3>1. /\ n <= Len(q) /\ n + 1 \in 1..Len(q) /\ d + n \in Nat
            /\ (d + n) + 1 <= Len(g) /\ (d + n) + 1 = d + (n + 1)
        BY <1>4
      <3>2. Upto(g, (d + n) + 1) = Upto(g, d + n) \o Repaired(g, (d + n) + 1)
        BY <1>3, <3>1, UptoSteps
      <3>3. Upto(q, n + 1) = Upto(q, n) \o Repaired(q, n + 1)
        BY <1>3, <3>1, UptoSteps
      <3>4. Upto(g, d + n) = Upto(q, n) /\ Repaired(g, (d + n) + 1) = Repaired(q, n + 1)
        BY <1>5, <2>2, <3>1
      <3> QED
        BY <3>1, <3>2, <3>3, <3>4
    <2> HIDE DEF T
    <2>3. Nat \subseteq T
      BY <2>1, <2>2, Induction
    <2>4. Len(q) \in T
      BY <1>4, <2>3
    <2> QED
      BY <1>4, <2>4 DEF T
  <1>9. SanitizeHistory(g) = q
    <2>1. Upto(g, Len(g)) = SanitizeHistory(g) /\ Upto(q, Len(q)) = SanitizeHistory(q)
      BY <1>3, UptoSteps
    <2> QED
      BY <1>2, <1>4, <1>8, <2>1
  <1> QED
    BY <1>2, <1>9 DEF g, q, p
====
