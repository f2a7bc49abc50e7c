-------------------------- MODULE TranscriptProofs --------------------------
(***************************************************************************)
(* Proofs about Transcript, for any calls, batches and bounds.             *)
(***************************************************************************)
EXTENDS Transcript, FiniteSetTheorems, SequenceTheorems, WellFoundedInduction, TLAPS

-----------------------------------------------------------------------------
(* Sequences put together of others                                        *)

LEMMA LeastOf ==
  ASSUME NEW S \in SUBSET Nat, S # {}
  PROVE  \E x \in S : \A y \in S : x <= y
<1>1. \E x \in S : \A y \in S : ~ (<<y, x>> \in OpToRel(<, Nat))
  BY NatLessThanWellFounded, WFMin
<1>2. PICK x \in S : \A y \in S : ~ (<<y, x>> \in OpToRel(<, Nat))
  BY <1>1
<1>3. ASSUME NEW y \in S PROVE x <= y
  <2>1. ~ (y < x)
    BY <1>2 DEF OpToRel
  <2> QED BY <2>1
<1> QED BY <1>3

\* The recursive function of FlattenSeq is well-defined ...
LEMMA FlattenDefined ==
  ASSUME NEW S, NEW g \in Seq(Seq(S)), NEW n \in 1..Len(g)
  PROVE  \E fl : fl = [i \in 1..n |-> IF i = 1 THEN g[i] ELSE fl[i-1] \o g[i]]
<1> DEFINE Rest(i, f) == IF i = 1 THEN g[i] ELSE f[i-1] \o g[i]
           Ok(m) == \E fl : fl = [i \in 1..m |-> Rest(i, fl)]
           Bad == {m \in 1..Len(g) : ~Ok(m)}
<1>0. Len(g) \in Nat
  BY LenProperties
<1>1. Ok(1)
  <2>1. [i \in 1..1 |-> g[1]] = [i \in 1..1 |-> Rest(i, [j \in 1..1 |-> g[1]])]
    OBVIOUS
  <2> QED BY <2>1
<1>2. ASSUME NEW m \in 2..Len(g), Ok(m - 1) PROVE Ok(m)
  <2>1. PICK f : f = [i \in 1..m-1 |-> Rest(i, f)]
    BY <1>2
  <2> DEFINE h == [i \in 1..m |-> IF i = m THEN Rest(m, f) ELSE f[i]]
  <2>2. \A i \in 1..m : h[i] = Rest(i, h)
    <3> SUFFICES ASSUME NEW i \in 1..m PROVE h[i] = Rest(i, h)
      OBVIOUS
    <3>1. i # 1 => i - 1 \in 1..m-1
      OBVIOUS
    <3>2. i # 1 => h[i-1] = f[i-1]
      BY <3>1
    <3>3. Rest(i, h) = Rest(i, f)
      <4> HIDE DEF h
      <4> QED BY <3>2, Zenon
    <3>4. CASE i = m
      BY <3>3, <3>4
    <3>5. CASE i # m
      <4>1. i \in 1..m-1
        BY <3>5
      <4>2. f[i] = Rest(i, f)
        BY <2>1, <4>1, Zenon
      <4>3. h[i] = f[i]
        BY <3>5
      <4> QED BY <3>3, <4>2, <4>3
    <3> QED BY <3>4, <3>5
  <2>3. h = [i \in 1..m |-> Rest(i, h)]
    BY <2>2
  <2> QED BY <2>3
<1>3. Bad = {}
  <2> SUFFICES ASSUME Bad # {} PROVE FALSE
    OBVIOUS
  <2> HIDE DEF Ok
  <2>1. Bad \in SUBSET Nat
    BY <1>0
  <2> HIDE DEF Bad
  <2>2. PICK m \in Bad : \A j \in Bad : m <= j
    BY <2>1, LeastOf
  <2>3. m \in 2..Len(g) /\ m - 1 \in 1..Len(g)
    BY <1>0, <1>1, <2>2 DEF Bad
  <2>4. m - 1 \notin Bad
    BY <2>2, <2>3
  <2>5. Ok(m)
    BY <1>2, <2>3, <2>4 DEF Bad
  <2> QED BY <2>2, <2>5 DEF Bad
<1> HIDE DEF Bad
<1>4. Ok(n)
  BY <1>3 DEF Bad
<1> QED BY <1>4

\* ... and its last value is the sequence.
LEMMA FlattenIs ==
  ASSUME NEW S, NEW g \in Seq(Seq(S)), g # <<>>
  PROVE  \E fl : /\ fl = [i \in 1..Len(g) |-> IF i = 1 THEN g[i] ELSE fl[i-1] \o g[i]]
                 /\ FlattenSeq(g) = fl[Len(g)]
<1>1. Len(g) # 0 /\ Len(g) \in 1..Len(g)
  BY LenProperties, EmptySeq
<1> DEFINE F == CHOOSE fl : fl = [i \in 1..Len(g) |-> IF i = 1 THEN g[i] ELSE fl[i-1] \o g[i]]
<1>2. FlattenSeq(g) = F[Len(g)]
  BY <1>1, Zenon DEF FlattenSeq
<1>3. \E fl : fl = [i \in 1..Len(g) |-> IF i = 1 THEN g[i] ELSE fl[i-1] \o g[i]]
  BY <1>1, FlattenDefined
<1>4. F = [i \in 1..Len(g) |-> IF i = 1 THEN g[i] ELSE F[i-1] \o g[i]]
  BY <1>3, Zenon
<1> HIDE DEF F
<1> QED BY <1>2, <1>4

\* Where the pieces of g begin.
LEMMA StartsDefined ==
  ASSUME NEW S, NEW g \in Seq(Seq(S)), NEW n \in 0..Len(g)
  PROVE  \E at \in [0..n -> Nat] : /\ at[0] = 0
                                   /\ \A i \in 1..n : at[i] = at[i-1] + Len(g[i])
<1> DEFINE Ok(m) == \E at \in [0..m -> Nat] : /\ at[0] = 0
                                              /\ \A i \in 1..m : at[i] = at[i-1] + Len(g[i])
           Bad == {m \in 0..Len(g) : ~Ok(m)}
<1>0. Len(g) \in Nat /\ \A i \in 1..Len(g) : Len(g[i]) \in Nat
  BY LenProperties, ElementOfSeq
<1>1. Ok(0)
  <2> DEFINE h == [i \in 0..0 |-> 0]
  <2>1. h \in [0..0 -> Nat] /\ h[0] = 0
    OBVIOUS
  <2>2. \A i \in 1..0 : h[i] = h[i-1] + Len(g[i])
    OBVIOUS
  <2> HIDE DEF h
  <2> QED BY <2>1, <2>2
<1>2. ASSUME NEW m \in 1..Len(g), Ok(m - 1) PROVE Ok(m)
  <2>1. PICK f \in [0..m-1 -> Nat] : /\ f[0] = 0
                                     /\ \A i \in 1..m-1 : f[i] = f[i-1] + Len(g[i])
    BY <1>2
  <2> DEFINE h == [i \in 0..m |-> IF i = m THEN f[m-1] + Len(g[m]) ELSE f[i]]
  <2>2. h \in [0..m -> Nat]
    BY <1>0, <2>1
  <2>3. h[0] = 0
    BY <2>1
  <2>4. ASSUME NEW i \in 1..m PROVE h[i] = h[i-1] + Len(g[i])
    <3>1. h[i-1] = f[i-1]
      OBVIOUS
    <3>2. CASE i = m
      BY <3>1, <3>2
    <3>3. CASE i # m
      BY <2>1, <3>1, <3>3
    <3> QED BY <3>2, <3>3
  <2> QED BY <2>2, <2>3, <2>4
<1>3. Bad = {}
  <2> SUFFICES ASSUME Bad # {} PROVE FALSE
    OBVIOUS
  <2> HIDE DEF Ok
  <2>1. Bad \in SUBSET Nat
    BY <1>0
  <2> HIDE DEF Bad
  <2>2. PICK m \in Bad : \A j \in Bad : m <= j
    BY <2>1, LeastOf
  <2>3. m \in 1..Len(g) /\ m - 1 \in 0..Len(g)
    BY <1>0, <1>1, <2>2 DEF Bad
  <2>4. m - 1 \notin Bad
    BY <2>2, <2>3
  <2>5. Ok(m)
    BY <1>2, <2>3, <2>4 DEF Bad
  <2> QED BY <2>2, <2>5 DEF Bad
<1> HIDE DEF Bad
<1>4. Ok(n)
  BY <1>3 DEF Bad
<1> QED BY <1>4

\* The i-th piece of g begins after at[i-1] others.
Starts(g, at) ==
  /\ at \in [0..Len(g) -> Nat] /\ at[0] = 0
  /\ \A i \in 1..Len(g) : at[i] = at[i-1] + Len(g[i])

\* w is the pieces of g, one after the other.
Laid(g, w, at) ==
  /\ Starts(g, at)
  /\ Len(w) = at[Len(g)]
  /\ \A i \in 1..Len(g) : \A k \in 1..Len(g[i]) : w[at[i-1] + k] = g[i][k]

LEMMA PiecesTyped ==
  ASSUME NEW S, NEW g \in Seq(Seq(S))
  PROVE  /\ Len(g) \in Nat
         /\ \A i \in 1..Len(g) : g[i] \in Seq(S) /\ Len(g[i]) \in Nat
BY LenProperties, ElementOfSeq

LEMMA StartsInOrder ==
  ASSUME NEW S, NEW g \in Seq(Seq(S)), NEW at, Starts(g, at),
         NEW i \in 0..Len(g), NEW j \in i..Len(g)
  PROVE  at[i] <= at[j]
<1>0. Len(g) \in Nat /\ \A m \in 1..Len(g) : Len(g[m]) \in Nat
  BY PiecesTyped
<1>1. \A m \in 0..Len(g) : at[m] \in Nat
  BY DEF Starts
<1> DEFINE Low == {m \in i..Len(g) : at[m] < at[i]}
<1>2. Low = {}
  <2> SUFFICES ASSUME Low # {} PROVE FALSE
    OBVIOUS
  <2>1. Low \in SUBSET Nat
    BY <1>0
  <2>2. PICK m \in Low : \A n \in Low : m <= n
    <3> HIDE DEF Low
    <3> QED BY <2>1, LeastOf
  <2>3. m \in i..Len(g) /\ at[m] < at[i] /\ m # i
    BY <1>0, <1>1, <2>2
  <2>4. m - 1 \in i..Len(g) /\ m \in 1..Len(g) /\ m - 1 \in 0..Len(g)
    BY <1>0, <2>3
  <2>5. at[m] = at[m-1] + Len(g[m])
    BY <2>4 DEF Starts
  <2>6. m - 1 \notin Low
    <3> HIDE DEF Low
    <3> QED BY <1>0, <2>1, <2>2, <2>4
  <2>7. at[m-1] >= at[i] /\ at[m-1] \in Nat /\ at[i] \in Nat /\ at[m] \in Nat
    BY <1>0, <1>1, <2>4, <2>6, SMTT(40)
  <2>8. Len(g[m]) \in Nat
    BY <1>0, <2>4
  <2> HIDE DEF Low
  <2> QED BY <2>3, <2>5, <2>7, <2>8
<1> QED BY <1>0, <1>1, <1>2

LEMMA ConcatAt ==
  ASSUME NEW S, NEW a \in Seq(S), NEW b \in Seq(S)
  PROVE  /\ a \o b \in Seq(S) /\ Len(a) \in Nat /\ Len(b) \in Nat
         /\ Len(a \o b) = Len(a) + Len(b)
         /\ \A p \in 1..Len(a) : (a \o b)[p] = a[p]
         /\ \A p \in 1..Len(b) : (a \o b)[Len(a) + p] = b[p]
<1>1. Len(a) \in Nat /\ Len(b) \in Nat
  BY LenProperties
<1> QED BY <1>1, ConcatProperties

LEMMA Flattened ==
  ASSUME NEW S, NEW g \in Seq(Seq(S))
  PROVE  FlattenSeq(g) \in Seq(S) /\ \E at : Laid(g, FlattenSeq(g), at)
<1>0. /\ Len(g) \in Nat /\ Len(g) \in 0..Len(g)
      /\ \A i \in 1..Len(g) : g[i] \in Seq(S) /\ Len(g[i]) \in Nat
  BY PiecesTyped
<1>1. PICK at : Starts(g, at)
  BY <1>0, StartsDefined DEF Starts
<1>2. CASE g = <<>>
  <2>1. Len(g) = 0 /\ FlattenSeq(g) = <<>>
    BY <1>2 DEF FlattenSeq
  <2>2. Laid(g, <<>>, at)
    BY <1>1, <2>1 DEF Laid, Starts
  <2> QED BY <2>1, <2>2
<1>3. CASE g # <<>>
  <2>0. Len(g) \in 1..Len(g)
    BY <1>0, <1>3, EmptySeq
  <2>1. PICK fl : /\ fl = [i \in 1..Len(g) |-> IF i = 1 THEN g[i] ELSE fl[i-1] \o g[i]]
                  /\ FlattenSeq(g) = fl[Len(g)]
    BY <1>3, FlattenIs
  <2>2. \A i \in 1..Len(g) : fl[i] = IF i = 1 THEN g[i] ELSE fl[i-1] \o g[i]
    BY <2>1, Zenon
  <2>3. FlattenSeq(g) = fl[Len(g)]
    BY <2>1
  <2> DEFINE Ok(n) == /\ fl[n] \in Seq(S) /\ Len(fl[n]) = at[n]
                      /\ \A i \in 1..n : \A k \in 1..Len(g[i]) : fl[n][at[i-1] + k] = g[i][k]
             Bad == {n \in 1..Len(g) : ~Ok(n)}
  <2>4. Ok(1)
    <3>1. fl[1] = g[1]
      BY <2>0, <2>2
    <3>2. at[1] = Len(g[1]) /\ at[0] = 0
      BY <1>0, <1>1, <2>0 DEF Starts
    <3> QED BY <1>0, <2>0, <3>1, <3>2
  <2>5. ASSUME NEW n \in 2..Len(g), Ok(n - 1) PROVE Ok(n)
    <3>0. n \in 1..Len(g) /\ n - 1 \in 1..Len(g) /\ n # 1 /\ g[n] \in Seq(S)
      BY <1>0
    <3>1. fl[n] = fl[n-1] \o g[n]
      BY <2>2, <3>0
    <3>2. fl[n-1] \in Seq(S) /\ Len(fl[n-1]) = at[n-1] /\ at[n] = at[n-1] + Len(g[n])
      BY <1>1, <2>5, <3>0 DEF Starts
    <3>3. /\ fl[n] \in Seq(S) /\ Len(fl[n]) = Len(fl[n-1]) + Len(g[n])
          /\ \A p \in 1..Len(fl[n-1]) : fl[n][p] = fl[n-1][p]
          /\ \A p \in 1..Len(g[n]) : fl[n][Len(fl[n-1]) + p] = g[n][p]
      <4>1. PICK a : a = fl[n-1]
        OBVIOUS
      <4>2. PICK b : b = g[n]
        OBVIOUS
      <4>3. /\ a \o b \in Seq(S) /\ Len(a \o b) = Len(a) + Len(b)
            /\ \A p \in 1..Len(a) : (a \o b)[p] = a[p]
            /\ \A p \in 1..Len(b) : (a \o b)[Len(a) + p] = b[p]
        <5>1. a \in Seq(S) /\ b \in Seq(S)
          BY <3>0, <3>2, <4>1, <4>2
        <5> QED BY <5>1, ConcatAt
      <4> QED BY <3>1, <4>1, <4>2, <4>3, Zenon
    <3>4. ASSUME NEW i \in 1..n, NEW k \in 1..Len(g[i]) PROVE fl[n][at[i-1] + k] = g[i][k]
      <4>1. CASE i = n
        BY <3>2, <3>3, <4>1
      <4>2. CASE i # n
        <5>1. i \in 1..n-1 /\ i \in 1..Len(g) /\ i - 1 \in 0..Len(g)
          BY <1>0, <4>2
        <5>2. fl[n-1][at[i-1] + k] = g[i][k]
          BY <2>5, <5>1
        <5>3. at[i] = at[i-1] + Len(g[i]) /\ at[i-1] \in Nat /\ Len(g[i]) \in Nat
          BY <1>0, <1>1, <5>1 DEF Starts
        <5>4. at[i] <= at[n-1] /\ at[n-1] \in Nat
          <6>1. i \in 0..Len(g) /\ n - 1 \in i..Len(g) /\ n - 1 \in 0..Len(g)
            BY <1>0, <5>1
          <6> QED BY <1>1, <6>1, StartsInOrder DEF Starts
        <5>5. at[i-1] + k \in 1..at[n-1]
          BY <5>3, <5>4, SMTT(40)
        <5> QED BY <3>2, <3>3, <5>2, <5>5
      <4> QED BY <4>1, <4>2
    <3> HIDE DEF Ok
    <3> QED BY <3>2, <3>3, <3>4 DEF Ok
  <2>6. Bad = {}
    <3> SUFFICES ASSUME Bad # {} PROVE FALSE
      OBVIOUS
    <3> HIDE DEF Ok
    <3>1. Bad \in SUBSET Nat
      BY <1>0
    <3> HIDE DEF Bad
    <3>2. PICK n \in Bad : \A j \in Bad : n <= j
      BY <3>1, LeastOf
    <3>3. n \in 2..Len(g) /\ n - 1 \in 1..Len(g)
      BY <1>0, <2>4, <3>2 DEF Bad
    <3>4. n - 1 \notin Bad
      BY <3>2, <3>3
    <3>5. Ok(n)
      BY <2>5, <3>3, <3>4 DEF Bad
    <3> QED BY <3>2, <3>5 DEF Bad
  <2> HIDE DEF Ok
  <2>7. Ok(Len(g))
    BY <2>0, <2>6
  <2>8. Laid(g, FlattenSeq(g), at) /\ FlattenSeq(g) \in Seq(S)
    BY <1>1, <2>3, <2>7 DEF Ok, Laid
  <2> QED BY <2>8
<1> QED BY <1>2, <1>3

\* The pieces fill the sequence.
LEMMA LaidFull ==
  ASSUME NEW S, NEW g \in Seq(Seq(S)), NEW w, NEW at, Laid(g, w, at),
         NEW p \in 1..Len(w)
  PROVE  \E i \in 1..Len(g) : \E k \in 1..Len(g[i]) : p = at[i-1] + k
<1>0. Len(g) \in Nat /\ \A m \in 1..Len(g) : Len(g[m]) \in Nat
  BY PiecesTyped
<1>1. at[0] = 0 /\ Len(w) = at[Len(g)] /\ \A m \in 0..Len(g) : at[m] \in Nat
  BY DEF Laid, Starts
<1> DEFINE Past == {m \in 0..Len(g) : p <= at[m]}
<1>2. Past \in SUBSET Nat /\ Len(g) \in Past
  BY <1>0, <1>1
<1>3. PICK m \in Past : \A n \in Past : m <= n
  <2> HIDE DEF Past
  <2> QED BY <1>2, LeastOf
<1>4. m # 0 /\ m \in 1..Len(g) /\ m - 1 \in 0..Len(g) /\ p <= at[m]
  BY <1>0, <1>1, <1>3
<1>5. m - 1 \notin Past
  <2> HIDE DEF Past
  <2> QED BY <1>0, <1>2, <1>3, <1>4
<1>6. at[m] = at[m-1] + Len(g[m]) /\ at[m-1] \in Nat
  BY <1>1, <1>4 DEF Laid, Starts
<1>7. p - at[m-1] \in 1..Len(g[m]) /\ p = at[m-1] + (p - at[m-1])
  BY <1>0, <1>1, <1>4, <1>5, <1>6, SMTT(40)
<1> QED BY <1>4, <1>7

\* Place p is in a piece.
In(g, at, p) == \E i \in 1..Len(g) : \E k \in 1..Len(g[i]) : p = at[i-1] + k

LEMMA LaidIn ==
  ASSUME NEW S, NEW g \in Seq(Seq(S)), NEW w, NEW at, Laid(g, w, at)
  PROVE  \A p \in 1..Len(w) : In(g, at, p)
<1> SUFFICES ASSUME NEW p \in 1..Len(w) PROVE In(g, at, p)
  OBVIOUS
<1>1. \E i \in 1..Len(g) : \E k \in 1..Len(g[i]) : p = at[i-1] + k
  BY LaidFull, SMTT(40)
<1> QED BY <1>1, Zenon DEF In

(***************************************************************************)
(* Messages left out of a sequence                                         *)
(***************************************************************************)

\* w is s without what is not in I; at[i] of the first i messages are left.
Left(s, I, w, at) ==
  /\ at \in [0..Len(s) -> Nat] /\ at[0] = 0 /\ Len(w) = at[Len(s)]
  /\ \A i \in 1..Len(s) : at[i] = at[i-1] + (IF i \in I THEN 1 ELSE 0)
  /\ \A i \in 1..Len(s) : i \in I => at[i] \in 1..Len(w) /\ w[at[i]] = s[i]
  /\ \A p \in 1..Len(w) : \E i \in 1..Len(s) : i \in I /\ p = at[i]
  /\ \A i \in 0..Len(s) : \A j \in i..Len(s) : at[i] <= at[j]

LEMMA OnlyMade ==
  ASSUME NEW s \in Seq(Message), NEW I
  PROVE  Only(s, I) \in Seq(Message) /\ \E at : Left(s, I, Only(s, I), at)
<1> DEFINE g == [i \in DOMAIN s |-> IF i \in I THEN <<s[i]>> ELSE <<>>]
<1>1. Len(s) \in Nat /\ DOMAIN s = 1..Len(s) /\ \A i \in 1..Len(s) : s[i] \in Message
  BY LenProperties, ElementOfSeq
<1>2. g \in Seq(Seq(Message)) /\ Len(g) = Len(s)
  BY <1>1
<1>3. \A i \in 1..Len(s) : /\ i \in I => g[i] = <<s[i]>> /\ Len(g[i]) = 1 /\ g[i][1] = s[i]
                           /\ i \notin I => Len(g[i]) = 0
  BY <1>1
<1>4. Only(s, I) = FlattenSeq(g)
  BY DEF Only
<1> HIDE DEF g
<1>5. PICK at : Laid(g, FlattenSeq(g), at)
  BY <1>2, Flattened
<1>6. FlattenSeq(g) \in Seq(Message)
  BY <1>2, Flattened
<1>7. PICK w : w = FlattenSeq(g)
  OBVIOUS
<1>8. Laid(g, w, at)
  BY <1>5, <1>7
<1>9. at \in [0..Len(s) -> Nat] /\ at[0] = 0 /\ Len(w) = at[Len(s)]
  BY <1>2, <1>8 DEF Laid, Starts
<1>10. \A i \in 1..Len(s) : at[i] = at[i-1] + (IF i \in I THEN 1 ELSE 0)
  BY <1>2, <1>3, <1>8 DEF Laid, Starts
<1>11. \A i \in 0..Len(s) : \A j \in i..Len(s) : at[i] <= at[j]
  BY <1>2, <1>8, StartsInOrder DEF Laid
<1>12. ASSUME NEW i \in 1..Len(s), i \in I PROVE at[i] \in 1..Len(w) /\ w[at[i]] = s[i]
  <2>1. w[at[i-1] + 1] = g[i][1] /\ g[i][1] = s[i]
    BY <1>2, <1>3, <1>8, <1>12 DEF Laid
  <2>2. at[i] = at[i-1] + 1 /\ at[i] \in Nat /\ at[i-1] \in Nat
    BY <1>1, <1>9, <1>10, <1>12
  <2>3. at[i] <= at[Len(s)]
    BY <1>1, <1>11
  <2> QED BY <1>9, <2>1, <2>2, <2>3
<1>13. ASSUME NEW p \in 1..Len(w) PROVE \E i \in 1..Len(s) : i \in I /\ p = at[i]
  <2>1. PICK i \in 1..Len(g) : \E k \in 1..Len(g[i]) : p = at[i-1] + k
    BY <1>2, <1>8, LaidFull
  <2>2. PICK k \in 1..Len(g[i]) : p = at[i-1] + k
    BY <2>1
  <2>3. i \in 1..Len(s)
    BY <1>2
  <2>4. CASE i \in I
    <3>1. Len(g[i]) = 1
      BY <1>3, <2>3, <2>4, Zenon
    <3>2. k = 1
      BY <3>1
    <3> QED BY <1>10, <2>2, <2>3, <2>4, <3>2
  <2>5. CASE i \notin I
    BY <1>3, <2>3, <2>5
  <2> QED BY <2>4, <2>5
<1>14. Left(s, I, w, at)
  BY <1>9, <1>10, <1>11, <1>12, <1>13 DEF Left
<1> QED BY <1>4, <1>6, <1>7, <1>14

\* What is left is what was in I.
Selected(s, I, w) ==
  /\ w \in Seq(Message)
  /\ \A p \in 1..Len(w) : \E i \in 1..Len(s) : i \in I /\ w[p] = s[i]
  /\ \A i \in 1..Len(s) : i \in I => \E p \in 1..Len(w) : w[p] = s[i]

LEMMA OnlyMembers ==
  ASSUME NEW s \in Seq(Message), NEW I
  PROVE  Selected(s, I, Only(s, I))
<1>1. PICK w : w = Only(s, I)
  OBVIOUS
<1>2. PICK at : Left(s, I, w, at)
  BY <1>1, OnlyMade
<1>3. ASSUME NEW p \in 1..Len(w) PROVE \E i \in 1..Len(s) : i \in I /\ w[p] = s[i]
  <2>1. PICK i \in 1..Len(s) : i \in I /\ p = at[i]
    BY <1>2, Zenon DEF Left
  <2>2. w[at[i]] = s[i]
    BY <1>2, <2>1, Zenon DEF Left
  <2> QED BY <2>1, <2>2, Zenon
<1>4. ASSUME NEW i \in 1..Len(s), i \in I PROVE \E p \in 1..Len(w) : w[p] = s[i]
  BY <1>2, <1>4 DEF Left
<1>5. w \in Seq(Message)
  BY <1>1, OnlyMade
<1>6. Selected(s, I, w)
  BY <1>3, <1>4, <1>5 DEF Selected
<1> QED BY <1>1, <1>6

\* A first or last message that is left is the first or last one left.
Ends(s, I, w) ==
  /\ 1 \in I => w # <<>> /\ w[1] = s[1]
  /\ Len(s) \in I => w # <<>> /\ w[Len(w)] = s[Len(s)]

LEMMA OnlyEnds ==
  ASSUME NEW s \in Seq(Message), NEW I, s # <<>>
  PROVE  Ends(s, I, Only(s, I))
<1>1. PICK w : w = Only(s, I)
  OBVIOUS
<1>2. PICK at : Left(s, I, w, at)
  BY <1>1, OnlyMade
<1>3. Len(s) \in 1..Len(s) /\ 1 \in 1..Len(s) /\ Len(<<>>) = 0
  BY EmptySeq
<1>4. ASSUME 1 \in I PROVE w # <<>> /\ w[1] = s[1]
  <2>1. at[1] = 1 /\ at[1] \in 1..Len(w) /\ w[at[1]] = s[1]
    BY <1>2, <1>3, <1>4 DEF Left
  <2> QED BY <1>3, <2>1
<1>5. ASSUME Len(s) \in I PROVE w # <<>> /\ w[Len(w)] = s[Len(s)]
  <2>1. at[Len(s)] = Len(w) /\ at[Len(s)] \in 1..Len(w) /\ w[at[Len(s)]] = s[Len(s)]
    BY <1>2, <1>3, <1>5 DEF Left
  <2> QED BY <1>3, <2>1
<1>6. Ends(s, I, w)
  BY <1>4, <1>5 DEF Ends
<1> QED BY <1>1, <1>6

-----------------------------------------------------------------------------
(* What a sequence tells of, and how it begins                             *)

LEMMA OfOnly ==
  ASSUME NEW s \in Seq(Message), NEW I
  PROVE  Of(Only(s, I)) = UNION {s[i].of : i \in {j \in 1..Len(s) : j \in I}}
<1>1. PICK w : w = Only(s, I)
  OBVIOUS
<1>2. Selected(s, I, w)
  BY <1>1, OnlyMembers
<1>3. DOMAIN w = 1..Len(w)
  BY <1>2, LenProperties DEF Selected
<1>4. ASSUME NEW e \in Of(w) PROVE \E i \in 1..Len(s) : i \in I /\ e \in s[i].of
  <2>1. PICK p \in 1..Len(w) : e \in w[p].of
    BY <1>3 DEF Of
  <2>2. PICK i \in 1..Len(s) : i \in I /\ w[p] = s[i]
    BY <1>2 DEF Selected
  <2> QED BY <2>1, <2>2
<1>5. ASSUME NEW i \in 1..Len(s), i \in I, NEW e \in s[i].of PROVE e \in Of(w)
  <2>1. PICK p \in 1..Len(w) : w[p] = s[i]
    BY <1>2, <1>5 DEF Selected
  <2> QED BY <1>3, <2>1 DEF Of
<1> QED BY <1>1, <1>4, <1>5

Joined(a, b, c) ==
  /\ c \in Seq(Message) /\ Len(a) \in Nat /\ Len(b) \in Nat
  /\ Len(c) = Len(a) + Len(b)
  /\ \A p \in 1..Len(a) : c[p] = a[p]
  /\ \A p \in 1..Len(b) : c[Len(a) + p] = b[p]

LEMMA JoinedIs ==
  ASSUME NEW a \in Seq(Message), NEW b \in Seq(Message)
  PROVE  Joined(a, b, a \o b)
BY ConcatAt DEF Joined

LEMMA OfConcat ==
  ASSUME NEW a \in Seq(Message), NEW b \in Seq(Message)
  PROVE  a \o b \in Seq(Message) /\ Of(a \o b) = Of(a) \cup Of(b)
<1>1. PICK c : c = a \o b
  OBVIOUS
<1>2. /\ c \in Seq(Message) /\ Len(a) \in Nat /\ Len(b) \in Nat
      /\ Len(c) = Len(a) + Len(b)
      /\ \A p \in 1..Len(a) : c[p] = a[p]
      /\ \A p \in 1..Len(b) : c[Len(a) + p] = b[p]
  BY <1>1, ConcatAt
<1>3. DOMAIN a = 1..Len(a) /\ DOMAIN b = 1..Len(b) /\ DOMAIN c = 1..Len(c)
  BY <1>2, LenProperties
<1>4. ASSUME NEW e \in Of(c) PROVE e \in Of(a) \cup Of(b)
  <2>1. PICK p \in 1..Len(c) : e \in c[p].of
    BY <1>3 DEF Of
  <2>2. CASE p <= Len(a)
    BY <1>2, <1>3, <2>1, <2>2, SMTT(40) DEF Of
  <2>3. CASE ~(p <= Len(a))
    <3>1. p - Len(a) \in 1..Len(b) /\ p = Len(a) + (p - Len(a))
      BY <1>2, <2>3
    <3>2. c[p] = b[p - Len(a)]
      BY <1>2, <3>1
    <3> QED BY <1>3, <2>1, <3>1, <3>2 DEF Of
  <2> QED BY <2>2, <2>3
<1>5. ASSUME NEW e \in Of(a) PROVE e \in Of(c)
  <2>1. PICK p \in 1..Len(a) : e \in a[p].of
    BY <1>3 DEF Of
  <2>2. p \in 1..Len(c) /\ c[p] = a[p]
    BY <1>2
  <2> QED BY <1>3, <2>1, <2>2 DEF Of
<1>6. ASSUME NEW e \in Of(b) PROVE e \in Of(c)
  <2>1. PICK p \in 1..Len(b) : e \in b[p].of
    BY <1>3 DEF Of
  <2>2. Len(a) + p \in 1..Len(c) /\ c[Len(a) + p] = b[p]
    BY <1>2
  <2> QED BY <1>3, <2>1, <2>2 DEF Of
<1>7. Of(c) = Of(a) \cup Of(b)
  BY <1>4, <1>5, <1>6
<1> QED BY <1>1, <1>2, <1>7

LEMMA OfTyped == ASSUME NEW s \in Seq(Message) PROVE Of(s) \subseteq Events
<1>1. DOMAIN s = 1..Len(s) /\ \A i \in 1..Len(s) : s[i] \in Message
  BY LenProperties, ElementOfSeq
<1> QED BY <1>1 DEF Of, Message

LEMMA OfOne ==
  ASSUME NEW m \in Message
  PROVE  <<m>> \in Seq(Message) /\ Of(<<m>>) = m.of /\ Len(<<m>>) = 1 /\ <<m>>[1] = m
BY DEF Of

LEMMA OfAppend ==
  ASSUME NEW s \in Seq(Message), NEW m \in Message
  PROVE  Append(s, m) \in Seq(Message) /\ Of(Append(s, m)) = Of(s) \cup m.of
<1>1. Append(s, m) = s \o <<m>>
  BY AppendIsConcat
<1>2. <<m>> \in Seq(Message) /\ Of(<<m>>) = m.of
  BY OfOne
<1>3. s \o <<m>> \in Seq(Message) /\ Of(s \o <<m>>) = Of(s) \cup Of(<<m>>)
  BY <1>2, OfConcat, Zenon
<1> QED BY <1>1, <1>2, <1>3, Zenon

LEMMA MessagesTyped ==
  ASSUME NEW of \in SUBSET Events
  PROVE  /\ System(of) \in Message
         /\ \A ids \in SUBSET Ids : \A text \in BOOLEAN : User(ids, text, of) \in Message
         /\ \A ids \in SUBSET Ids : Assistant(ids, of) \in Message
BY DEF Message, System, User, Assistant

\* The leading messages are the system's, the next one is not.
LEMMA LeadingIs ==
  ASSUME NEW s \in Seq(Message)
  PROVE  /\ Leading(s) \in 0..Len(s)
         /\ \A i \in 1..Leading(s) : s[i].role = "system"
         /\ Leading(s) < Len(s) => s[Leading(s) + 1].role # "system"
<1> DEFINE I == {i \in 1..Len(s) : s[i].role # "system"}
           first == IF I # {} THEN CHOOSE x \in I : \A y \in I : x <= y ELSE 0
<1>1. Leading(s) = IF first = 0 THEN Len(s) ELSE first - 1
  BY DEF Leading, SelectInSeq, Min
<1>2. Len(s) \in Nat
  BY LenProperties
<1>3. CASE I = {}
  BY <1>1, <1>2, <1>3
<1>4. CASE I # {}
  <2>1. I \in SUBSET Nat
    BY <1>2
  <2>2. \E x \in I : \A y \in I : x <= y
    <3> HIDE DEF I
    <3> QED BY <1>4, <2>1, LeastOf
  <2>3. first \in I /\ \A y \in I : first <= y
    <3> HIDE DEF I
    <3> QED BY <1>4, <2>2
  <2> HIDE DEF first
  <2>4. first \in 1..Len(s) /\ s[first].role # "system"
    BY <2>3
  <2>5. Leading(s) = first - 1
    BY <1>1, <2>4
  <2>6. ASSUME NEW i \in 1..Leading(s) PROVE s[i].role = "system"
    <3>1. i \in 1..Len(s) /\ i < first
      BY <1>2, <2>4, <2>5
    <3>2. i \notin I
      <4> HIDE DEF I
      <4> QED BY <2>1, <2>3, <2>4, <3>1
    <3> QED BY <3>1, <3>2
  <2> QED BY <1>2, <2>4, <2>5, <2>6
<1> QED BY <1>3, <1>4

\* ... and no other number is like that.
LEMMA LeadingIf ==
  ASSUME NEW s \in Seq(Message), NEW n \in 0..Len(s),
         \A i \in 1..n : s[i].role = "system",
         n < Len(s) => s[n+1].role # "system"
  PROVE  Leading(s) = n
<1>1. /\ Leading(s) \in 0..Len(s) /\ Len(s) \in Nat
      /\ \A i \in 1..Leading(s) : s[i].role = "system"
      /\ Leading(s) < Len(s) => s[Leading(s) + 1].role # "system"
  BY LeadingIs, LenProperties
<1>2. ~(Leading(s) < n)
  BY <1>1
<1>3. ~(n < Leading(s))
  BY <1>1
<1> QED BY <1>1, <1>2, <1>3

-----------------------------------------------------------------------------
(* How many messages go                                                    *)

\* There is a k-th one from the end.
LEMMA FromTheEnd ==
  ASSUME NEW n \in Nat, NEW U \in SUBSET (1..n), NEW k \in Nat, Cardinality(U) > k
  PROVE  \E i \in U : Cardinality({j \in U : j > i}) = k
<1> DEFINE After(m) == {j \in U : j > m}
           Small == {m \in 0..n : Cardinality(After(m)) <= k}
<1>11. \A j \in U : j \in Nat /\ 1 <= j /\ j <= n
  OBVIOUS
<1>0. IsFiniteSet(U) /\ \A m \in Nat : IsFiniteSet(After(m)) /\ Cardinality(After(m)) \in Nat
  <2>1. IsFiniteSet(1..n)
    BY FS_Interval
  <2>2. ASSUME NEW T \in SUBSET U PROVE IsFiniteSet(T) /\ Cardinality(T) \in Nat
    <3>1. IsFiniteSet(T)
      BY <2>1, FS_Subset
    <3> QED BY <3>1, FS_CardinalityType
  <2>3. \A m \in Nat : After(m) \in SUBSET U
    OBVIOUS
  <2> HIDE DEF After
  <2> QED BY <2>2, <2>3
<1>1. n \in Small
  <2>1. ASSUME NEW j \in U PROVE ~(j > n)
    BY <1>11
  <2>2. After(n) = {}
    BY <2>1
  <2> QED BY <2>2, FS_EmptySet
<1>2. PICK m \in Small : \A j \in Small : m <= j
  <2>1. Small \in SUBSET Nat
    OBVIOUS
  <2> HIDE DEF Small
  <2> QED BY <1>1, <2>1, LeastOf
<1>3. m # 0
  <2>1. ASSUME NEW j \in U PROVE j > 0
    BY <1>11
  <2>2. After(0) = U
    BY <2>1
  <2> QED BY <1>0, <1>2, <2>2, FS_CardinalityType, SMTT(40)
<1>4. m - 1 \in 0..n /\ m \in Nat /\ m - 1 \in Nat
  BY <1>2, <1>3
<1>5. m - 1 \notin Small
  BY <1>2, <1>4
<1>6. Cardinality(After(m-1)) > k
  <2>1. ~(Cardinality(After(m-1)) <= k)
    BY <1>4, <1>5, Zenon
  <2>2. Cardinality(After(m-1)) \in Nat
    BY <1>0, <1>4
  <2> HIDE DEF After
  <2> QED BY <2>1, <2>2
<1>7. \A j \in U : j > m-1 <=> (j > m \/ j = m)
  BY <1>11, <1>4
<1>8. m \in U
  <2> SUFFICES ASSUME m \notin U PROVE FALSE
    OBVIOUS
  <2>1. After(m-1) = After(m)
    BY <1>7
  <2> QED BY <1>0, <1>2, <1>4, <1>6, <2>1
<1>12. After(m-1) = After(m) \cup {m} /\ m \notin After(m)
  <2>1. After(m-1) = After(m) \cup {m}
    BY <1>7, <1>8
  <2>2. ~(m > m)
    BY <1>4
  <2> QED BY <2>1, <2>2
<1>9. Cardinality(After(m-1)) = Cardinality(After(m)) + 1
  <2> HIDE DEF After
  <2> QED BY <1>0, <1>4, <1>12, FS_AddElement
<1>10. Cardinality(After(m)) = k
  BY <1>0, <1>2, <1>4, <1>6, <1>9
<1> QED BY <1>8, <1>10

LEMMA KeepStartIs ==
  ASSUME NEW s \in Seq(Message)
  PROVE  LET users == {i \in DOMAIN s : s[i].role = "user"} IN
         /\ users \subseteq 1..Len(s) /\ IsFiniteSet(users) /\ Cardinality(users) \in Nat
         /\ keep_start(s) \in 1..Len(s) + 1
         /\ Cardinality(users) > TailTurns =>
              /\ keep_start(s) \in users
              /\ Cardinality({j \in users : j > keep_start(s)}) = TailTurns - 1
<1> DEFINE users == {i \in DOMAIN s : s[i].role = "user"}
<1>0. TailTurns \in Nat \ {0} /\ Len(s) \in Nat
  BY ParametersAssumption, LenProperties
<1>1. users \subseteq 1..Len(s)
  BY LenProperties
<1>2. IsFiniteSet(users) /\ Cardinality(users) \in Nat
  <2>1. IsFiniteSet(1..Len(s))
    BY <1>0, FS_Interval
  <2> HIDE DEF users
  <2> QED BY <1>1, <2>1, FS_Subset, FS_CardinalityType
<1>3. keep_start(s) = IF Cardinality(users) <= TailTurns THEN Len(s) + 1
        ELSE CHOOSE i \in users : Cardinality({j \in users : j > i}) = TailTurns - 1
  BY DEF keep_start
<1> HIDE DEF users
<1>4. CASE Cardinality(users) <= TailTurns
  <2>1. keep_start(s) \in 1..Len(s) + 1 /\ ~(Cardinality(users) > TailTurns)
    BY <1>0, <1>2, <1>3, <1>4
  <2> QED BY <1>1, <1>2, <2>1 DEF users
<1>5. CASE ~(Cardinality(users) <= TailTurns)
  <2>1. \E i \in users : Cardinality({j \in users : j > i}) = TailTurns - 1
    <3>1. PICK k \in Nat : k = TailTurns - 1
      BY <1>0
    <3>2. PICK n \in Nat : n = Len(s)
      BY <1>0
    <3>3. users \in SUBSET (1..n) /\ Cardinality(users) > k
      BY <1>0, <1>1, <1>2, <1>5, <3>1, <3>2
    <3>4. \E i \in users : Cardinality({j \in users : j > i}) = k
      BY <3>3, FromTheEnd
    <3> QED BY <3>1, <3>4
  <2>2. /\ keep_start(s) \in users
        /\ Cardinality({j \in users : j > keep_start(s)}) = TailTurns - 1
    BY <1>3, <1>5, <2>1
  <2>3. keep_start(s) \in 1..Len(s) + 1
    <3>1. keep_start(s) \in 1..Len(s)
      BY <1>1, <2>2
    <3> QED BY <1>0, <3>1
  <2> QED BY <1>1, <1>2, <2>2, <2>3 DEF users
<1> QED BY <1>4, <1>5

-----------------------------------------------------------------------------
(* What a compression makes of a vector                                    *)

\* m is o, perhaps without some of its blocks.
Less(m, o) ==
  /\ m.role = o.role
  /\ m.uses \subseteq o.uses /\ m.results \subseteq o.results

Trimmed(s, t) ==
  /\ t \in Seq(Message) /\ Len(t) = Len(s)
  /\ \A i \in 1..Len(s) : Less(t[i], s[i])
  /\ \A i \in 1..Len(s) : s[i].text => t[i].of = s[i].of
  /\ \A i \in 1..Len(s) : i <= Leading(s) \/ i > trim_end(s) => t[i] = s[i]

LEMMA SeqTyped ==
  ASSUME NEW s \in Seq(Message)
  PROVE  /\ Len(s) \in Nat /\ DOMAIN s = 1..Len(s)
         /\ \A i \in 1..Len(s) :
              /\ s[i] \in Message /\ s[i].role \in {"system", "user", "assistant"}
              /\ s[i].uses \in SUBSET Ids /\ s[i].results \in SUBSET Ids
              /\ s[i].text \in BOOLEAN /\ s[i].of \in SUBSET Events
<1>1. Len(s) \in Nat /\ DOMAIN s = 1..Len(s) /\ \A i \in 1..Len(s) : s[i] \in Message
  BY LenProperties, ElementOfSeq
<1> QED BY <1>1 DEF Message

LEMMA CutIs ==
  ASSUME NEW m \in Message, NEW gone
  PROVE  /\ Cut(m, gone) \in Message /\ Less(Cut(m, gone), m)
         /\ m.text => Cut(m, gone).of = m.of
         /\ gone = {} => Cut(m, gone) = m
<1>1. PICK u \in SUBSET Ids : u = m.uses \ gone
  BY DEF Message
<1>2. PICK r \in SUBSET Ids : r = m.results \ gone
  BY DEF Message
<1>3. \E lost : /\ Cut(m, gone) = [m EXCEPT !.uses = u, !.results = r,
                                               !.of = IF m.text THEN @ ELSE @ \ lost]
                /\ gone = {} => lost = {}
  <2>1. PICK lost : lost = {x[1] : x \in gone} \ {x[1] : x \in (m.uses \cup m.results) \ gone}
    OBVIOUS
  <2>2. Cut(m, gone) = [m EXCEPT !.uses = u, !.results = r,
                                 !.of = IF m.text THEN @ ELSE @ \ lost]
    BY <1>1, <1>2, <2>1, Zenon DEF Cut
  <2>3. gone = {} => lost = {}
    BY <2>1, Zenon
  <2> QED BY <2>2, <2>3
<1>4. PICK lost : /\ Cut(m, gone) = [m EXCEPT !.uses = u, !.results = r,
                                               !.of = IF m.text THEN @ ELSE @ \ lost]
                  /\ gone = {} => lost = {}
  BY <1>3
<1>5. PICK o \in SUBSET Events : o = IF m.text THEN m.of ELSE m.of \ lost
  BY DEF Message
<1>6. PICK c : c = Cut(m, gone)
  OBVIOUS
<1>7. c = [m EXCEPT !.uses = u, !.results = r, !.of = o]
  BY <1>4, <1>5, <1>6
<1>8. /\ c \in Message /\ c.role = m.role /\ c.uses = u /\ c.results = r /\ c.of = o
      /\ c.text = m.text
  BY <1>7 DEF Message
<1>9. gone = {} => u = m.uses /\ r = m.results /\ o = m.of
  <2>1. gone = {} => u = m.uses /\ r = m.results
    BY <1>1, <1>2
  <2>2. gone = {} => o = m.of
    BY <1>4, <1>5
  <2> QED BY <2>1, <2>2
<1>10. gone = {} => c = m
  BY <1>7, <1>9 DEF Message
<1>11. u \subseteq m.uses /\ r \subseteq m.results
  BY <1>1, <1>2
<1> QED BY <1>5, <1>6, <1>8, <1>10, <1>11 DEF Less

LEMMA TrimsAre ==
  ASSUME NEW s \in Seq(Message), NEW t \in Trims(s)
  PROVE  Trimmed(s, t)
<1> DEFINE old == Leading(s) + 1 .. trim_end(s)
           over == {{f[k] : k \in 1..MaxTrimmed} : f \in [1..MaxTrimmed -> old]}
           some == UNION {SUBSET {b \in Blocks(s) : b[1] \in I} : I \in over}
           from(i, gone) == {b[2] : b \in {g \in gone : g[1] = i}}
<1>1. PICK gone \in {{}} \cup some : t = [i \in DOMAIN s |-> Cut(s[i], from(i, gone))]
  BY DEF Trims
<1>2. Len(s) \in Nat /\ DOMAIN s = 1..Len(s) /\ \A i \in 1..Len(s) : s[i] \in Message
  BY SeqTyped
<1>3. \A b \in gone : b[1] \in old
  <2>1. CASE gone = {}
    BY <2>1
  <2>2. CASE gone \in some
    <3>1. PICK I \in over : gone \in SUBSET {b \in Blocks(s) : b[1] \in I}
      BY <2>2
    <3>2. PICK f \in [1..MaxTrimmed -> old] : I = {f[k] : k \in 1..MaxTrimmed}
      BY <3>1
    <3> HIDE DEF old
    <3>3. I \subseteq old
      BY <3>2
    <3> QED BY <3>1, <3>3
  <2> QED BY <2>1, <2>2
<1>4. ASSUME NEW i \in 1..Len(s) PROVE t[i] = Cut(s[i], from(i, gone)) /\ s[i] \in Message
  <2> HIDE DEF from
  <2> QED BY <1>1, <1>2
<1>5. ASSUME NEW i \in 1..Len(s)
      PROVE  t[i] \in Message /\ Less(t[i], s[i]) /\ (s[i].text => t[i].of = s[i].of)
  <2> HIDE DEF from
  <2> QED BY <1>4, CutIs
<1>6. ASSUME NEW i \in 1..Len(s), i <= Leading(s) \/ i > trim_end(s)
      PROVE  t[i] = s[i]
  <2>1. i \notin old
    BY <1>2, <1>6, LeadingIs DEF trim_end
  <2>2. from(i, gone) = {}
    <3> HIDE DEF old
    <3> QED BY <1>3, <2>1
  <2> HIDE DEF from
  <2> QED BY <1>4, <2>2, CutIs
<1>7. t \in Seq(Message) /\ Len(t) = Len(s)
  <2> HIDE DEF from
  <2>1. t = [i \in 1..Len(s) |-> t[i]]
    BY <1>1, <1>2
  <2> QED BY <1>2, <1>5, <2>1
<1> QED BY <1>5, <1>6, <1>7 DEF Trimmed

LEMMA TrimmedLeading ==
  ASSUME NEW s \in Seq(Message), NEW t, Trimmed(s, t)
  PROVE  Leading(t) = Leading(s)
<1>1. t \in Seq(Message) /\ Len(t) = Len(s) /\ \A i \in 1..Len(s) : t[i].role = s[i].role
  BY DEF Trimmed, Less
<1>2. /\ Leading(s) \in 0..Len(s) /\ Len(s) \in Nat
      /\ \A i \in 1..Leading(s) : s[i].role = "system"
      /\ Leading(s) < Len(s) => s[Leading(s) + 1].role # "system"
  BY LeadingIs, SeqTyped
<1>3. /\ Leading(s) \in 0..Len(t)
      /\ \A i \in 1..Leading(s) : t[i].role = "system"
      /\ Leading(s) < Len(t) => t[Leading(s) + 1].role # "system"
  BY <1>1, <1>2
<1> QED BY <1>1, <1>3, LeadingIf

\* n messages are dropped after the leading ones; the first one after them
\* may be left without its blocks.
Dropped(t, n, d) ==
  /\ d \in Seq(Message) /\ Len(d) = Len(t) - n
  /\ \A i \in 1..Leading(t) : d[i] = t[i]
  /\ \A i \in Leading(t) + 1 .. Len(d) : Less(d[i], t[i + n]) /\ d[i].of = t[i + n].of
  /\ \A i \in Leading(t) + 1 .. Len(d) : i # Leading(t) + 1 \/ n = 0 => d[i] = t[i + n]

LEMMA DropIs ==
  ASSUME NEW t \in Seq(Message), NEW n \in Nat, n + Leading(t) <= Len(t)
  PROVE  Dropped(t, n, Drop(t, n))
<1> DEFINE lead == Leading(t)
<1>1. Len(t) \in Nat /\ lead \in Nat /\ lead <= Len(t) /\ \A i \in 1..Len(t) : t[i] \in Message
  BY LeadingIs, SeqTyped
<1> HIDE DEF lead
<1>2. PICK a : a = SubSeq(t, 1, lead)
  OBVIOUS
<1>3. PICK b : b = SubSeq(t, lead + n + 1, Len(t))
  OBVIOUS
<1>4. n + lead <= Len(t)
  BY DEF lead
<1>5. a \in Seq(Message) /\ Len(a) = lead /\ \A i \in 1..lead : a[i] = t[i]
  BY <1>1, <1>2
<1>6. /\ b \in Seq(Message) /\ Len(b) = Len(t) - (lead + n)
      /\ \A i \in 1..Len(b) : b[i] = t[lead + n + i]
  BY <1>1, <1>3, <1>4
<1>7. PICK rest : rest = a \o b
  OBVIOUS
<1>8. /\ rest \in Seq(Message) /\ Len(rest) = Len(a) + Len(b)
      /\ \A p \in 1..Len(a) : rest[p] = a[p]
      /\ \A p \in 1..Len(b) : rest[Len(a) + p] = b[p]
  <2>1. Joined(a, b, rest)
    BY <1>5, <1>6, <1>7, JoinedIs
  <2> QED BY <2>1 DEF Joined
<1>9. Len(rest) = Len(t) - n /\ \A i \in 1..lead : rest[i] = t[i]
  <2>1. Len(rest) = Len(t) - n
    BY <1>1, <1>4, <1>5, <1>6, <1>8
  <2>2. \A i \in 1..lead : i \in 1..Len(a) /\ a[i] = t[i]
    BY <1>5, Zenon
  <2>3. \A i \in 1..lead : rest[i] = t[i]
    BY <1>8, <2>2, Zenon
  <2> QED BY <2>1, <2>3
<1>10. ASSUME NEW i \in lead + 1 .. Len(rest) PROVE rest[i] = t[i + n]
  <2>1. i - lead \in 1..Len(b) /\ i = Len(a) + (i - lead) /\ lead + n + (i - lead) = i + n
    BY <1>1, <1>4, <1>5, <1>6, <1>8
  <2>2. rest[Len(a) + (i - lead)] = b[i - lead] /\ b[i - lead] = t[lead + n + (i - lead)]
    BY <1>6, <1>8, <2>1
  <2> QED BY <2>1, <2>2
<1>11. Drop(t, n) = IF n = 0 \/ lead = Len(rest) THEN rest
                    ELSE [rest EXCEPT ![lead + 1] = sanitize_leading_message(@)]
  BY <1>2, <1>3, <1>7 DEF Drop, lead
<1>12. PICK d : d = Drop(t, n)
  OBVIOUS
<1>13. ASSUME NEW i \in 1..Len(rest) PROVE rest[i] \in Message /\ Less(rest[i], rest[i])
  BY <1>8, SeqTyped DEF Less
<1>14. CASE n = 0 \/ lead = Len(rest)
  <2>1. d = rest
    BY <1>11, <1>12, <1>14
  <2>2. \A i \in lead + 1 .. Len(rest) : i \in 1..Len(rest)
    BY <1>1
  <2>3. \A i \in lead + 1 .. Len(rest) : Less(rest[i], t[i + n]) /\ rest[i].of = t[i + n].of
    BY <1>10, <1>13, <2>2
  <2> QED BY <1>8, <1>9, <1>10, <1>12, <2>1, <2>3 DEF Dropped, lead
<1>15. CASE ~(n = 0 \/ lead = Len(rest))
  <2>1. d = [rest EXCEPT ![lead + 1] = sanitize_leading_message(rest[lead + 1])]
    BY <1>11, <1>12, <1>15
  <2>2. lead + 1 \in 1..Len(rest) /\ Len(rest) \in Nat
    BY <1>1, <1>4, <1>9, <1>15
  <2>3. /\ sanitize_leading_message(rest[lead + 1]) \in Message
        /\ Less(sanitize_leading_message(rest[lead + 1]), rest[lead + 1])
        /\ sanitize_leading_message(rest[lead + 1]).of = rest[lead + 1].of
    BY <1>13, <2>2 DEF Message, Less, sanitize_leading_message
  <2>4. /\ d \in Seq(Message) /\ Len(d) = Len(rest)
        /\ d[lead + 1] = sanitize_leading_message(rest[lead + 1])
        /\ \A i \in 1..Len(rest) : i # lead + 1 => d[i] = rest[i]
    <3>1. PICK m : m = sanitize_leading_message(rest[lead + 1])
      OBVIOUS
    <3>2. d = [rest EXCEPT ![lead + 1] = m] /\ m \in Message
      BY <2>1, <2>3, <3>1
    <3>3. PICK l : l = lead + 1
      OBVIOUS
    <3>4. /\ d \in Seq(Message) /\ Len(d) = Len(rest) /\ d[l] = m
          /\ \A i \in 1..Len(rest) : i # l => d[i] = rest[i]
      BY <1>8, <2>2, <3>2, <3>3, ExceptSeq
    <3> QED BY <3>1, <3>3, <3>4
  <2>5. \A i \in 1..lead : d[i] = rest[i]
    BY <1>1, <2>2, <2>4
  <2>6. ASSUME NEW i \in lead + 1 .. Len(rest)
        PROVE  Less(d[i], t[i + n]) /\ d[i].of = t[i + n].of
    <3>1. i \in 1..Len(rest)
      BY <1>1
    <3>2. Less(d[i], rest[i]) /\ d[i].of = rest[i].of
      BY <1>13, <2>3, <2>4, <3>1
    <3> QED BY <1>10, <3>2
  <2>7. ASSUME NEW i \in lead + 1 .. Len(rest), i # lead + 1 PROVE d[i] = t[i + n]
    <3>1. i \in 1..Len(rest)
      BY <1>1
    <3> QED BY <1>10, <2>4, <2>7, <3>1
  <2> QED BY <1>9, <1>12, <1>15, <2>4, <2>5, <2>6, <2>7 DEF Dropped, lead
<1> QED BY <1>14, <1>15

\* The calls the message before the i-th declares.
Declared(s, i) == IF i > 1 /\ s[i - 1].role = "assistant" THEN s[i - 1].uses ELSE {}

Repaired(d, r) ==
  /\ r \in Seq(Message) /\ Len(r) = Len(d)
  /\ \A i \in 1..Len(d) : Less(r[i], d[i]) /\ r[i].of = d[i].of
  /\ \A i \in 1..Len(d) : d[i].role # "user" => r[i] = d[i]
  /\ \A i \in 1..Len(d) : d[i].role = "user" =>
       r[i].results = d[i].results \cap Declared(d, i) /\ Declared(r, i) = Declared(d, i)

LEMMA RepairIs ==
  ASSUME NEW d \in Seq(Message)
  PROVE  Repaired(d, repair_orphaned_tool_results(d))
<1>1. PICK r : r = repair_orphaned_tool_results(d)
  OBVIOUS
<1>2. Len(d) \in Nat /\ DOMAIN d = 1..Len(d) /\ \A i \in 1..Len(d) : d[i] \in Message
  BY SeqTyped
<1>3. r = [i \in DOMAIN d |-> IF d[i].role # "user" THEN d[i]
             ELSE [d[i] EXCEPT !.results = @ \cap Declared(d, i),
                               !.text = @ \/ ~(d[i].results \subseteq Declared(d, i))]]
  BY <1>1, Zenon DEF repair_orphaned_tool_results, Declared
<1>4. ASSUME NEW i \in 1..Len(d), d[i].role # "user" PROVE r[i] = d[i]
  BY <1>2, <1>3, <1>4
<1>5. ASSUME NEW i \in 1..Len(d), d[i].role = "user"
      PROVE  /\ r[i] \in Message /\ Less(r[i], d[i]) /\ r[i].of = d[i].of
             /\ r[i].results = d[i].results \cap Declared(d, i)
  <2>1. PICK v : v = Declared(d, i)
    OBVIOUS
  <2>2. r[i] = [d[i] EXCEPT !.results = @ \cap v, !.text = @ \/ ~(d[i].results \subseteq v)]
    BY <1>2, <1>3, <1>5, <2>1
  <2>3. d[i] \in Message
    BY <1>2
  <2>4. r[i] = [role |-> d[i].role, uses |-> d[i].uses, results |-> d[i].results \cap v,
                text |-> (d[i].text \/ ~(d[i].results \subseteq v)), of |-> d[i].of]
    BY <2>2, <2>3 DEF Message
  <2>5. (d[i].text \/ ~(d[i].results \subseteq v)) \in BOOLEAN
    OBVIOUS
  <2>6. d[i].results \cap v \in SUBSET Ids /\ d[i].results \cap v \subseteq d[i].results
    BY <2>3 DEF Message
  <2>7. r[i] \in Message
    <3>1. PICK b \in BOOLEAN : b = (d[i].text \/ ~(d[i].results \subseteq v))
      BY <2>5
    <3>2. PICK w \in SUBSET Ids : w = d[i].results \cap v
      BY <2>6
    <3>3. r[i] = [role |-> d[i].role, uses |-> d[i].uses, results |-> w,
                  text |-> b, of |-> d[i].of]
      BY <2>4, <3>1, <3>2, Zenon
    <3> QED BY <2>3, <3>3 DEF Message
  <2>8. Less(r[i], d[i]) /\ r[i].of = d[i].of /\ r[i].results = d[i].results \cap v
    BY <2>4, <2>6 DEF Less
  <2> QED BY <2>1, <2>7, <2>8
<1>6. \A i \in 1..Len(d) : r[i] \in Message /\ Less(r[i], d[i]) /\ r[i].of = d[i].of
  BY <1>2, <1>4, <1>5 DEF Less
<1>7. r \in Seq(Message) /\ Len(r) = Len(d)
  <2>1. r = [i \in 1..Len(d) |-> r[i]]
    BY <1>2, <1>3
  <2> QED BY <1>2, <1>6, <2>1
<1>8. ASSUME NEW i \in 1..Len(d) PROVE Declared(r, i) = Declared(d, i)
  <2>1. CASE i > 1 /\ d[i - 1].role = "assistant"
    <3>1. i - 1 \in 1..Len(d)
      BY <1>2, <2>1
    <3>2. r[i - 1] = d[i - 1]
      BY <1>4, <2>1, <3>1
    <3> QED BY <2>1, <3>2 DEF Declared
  <2>2. CASE ~(i > 1)
    BY <2>2 DEF Declared
  <2>3. CASE i > 1 /\ d[i - 1].role # "assistant"
    <3>1. i - 1 \in 1..Len(d)
      BY <1>2, <2>3
    <3>2. r[i - 1].role = d[i - 1].role
      BY <1>6, <3>1 DEF Less
    <3> QED BY <2>3, <3>2 DEF Declared
  <2> QED BY <2>1, <2>2, <2>3
<1>9. Repaired(d, r)
  BY <1>4, <1>5, <1>6, <1>7, <1>8 DEF Repaired
<1> QED BY <1>1, <1>9

\* Compression drops messages after the leading ones, keeps the first of the
\* tail and min_messages.
LEMMA CutsAre ==
  ASSUME NEW s \in Seq(Message), NEW n \in Cuts(s)
  PROVE  /\ n \in Nat /\ n + Leading(s) <= Len(s)
         /\ n + Leading(s) < keep_start(s) \/ n = 0
         /\ n # 0 => n + Leading(s) + MinMessages <= Len(s)
<1> DEFINE spare == IF Len(s) > Leading(s) + MinMessages
                    THEN Len(s) - Leading(s) - MinMessages ELSE 0
           room == keep_start(s) - 1 - Leading(s)
<1>1. n \in 0 .. (IF spare < room THEN spare ELSE room)
  BY DEF Cuts
<1>2. Len(s) \in Nat /\ Leading(s) \in Nat /\ Leading(s) <= Len(s) /\ MinMessages \in Nat
  BY SeqTyped, LeadingIs, ParametersAssumption
<1>3. keep_start(s) \in Nat
  <2>1. keep_start(s) \in 1..Len(s) + 1
    BY KeepStartIs
  <2> QED BY <1>2, <2>1
<1> QED BY <1>1, <1>2, <1>3

Compressed(s, t, n) ==
  /\ n \in Nat /\ n + Leading(s) <= Len(s)
  /\ n + Leading(s) < keep_start(s) \/ n = 0
  /\ n # 0 => n + Leading(s) + MinMessages <= Len(s)
  /\ t \in Seq(Message) /\ Len(t) = Len(s) - n
  /\ \A i \in 1..Leading(s) : t[i] = s[i]
  /\ \A i \in Leading(s) + 1 .. Len(t) : /\ Less(t[i], s[i + n])
                                         /\ Says(s, i + n) => t[i].of = s[i + n].of
  /\ \A i \in 1..Len(t) : t[i].role = "user" => t[i].results \subseteq Declared(t, i)

\* The last message, and the one before it, are as they were.
Latest(s, t) ==
  LET last == Len(s) IN
  last > 1 /\ s[last].role = "user" /\ s[last - 1].role = "assistant" =>
    t[Len(t)].role = "user" /\ t[Len(t)].results = s[last].results \cap s[last - 1].uses

LEMMA CompressedIs ==
  ASSUME NEW s \in Seq(Message), NEW r \in compress_messages(s)
  PROVE  /\ Compressed(s, r.msgs, r.removed)
         /\ MinMessages >= 3 => Latest(s, r.msgs)
<1>1. PICK t \in Trims(s), n \in Cuts(s) :
        r = [msgs |-> repair_orphaned_tool_results(Drop(t, n)), removed |-> n]
  BY DEF compress_messages
<1>2. Trimmed(s, t)
  BY TrimsAre
<1>3. Leading(t) = Leading(s) /\ t \in Seq(Message) /\ Len(t) = Len(s)
  BY <1>2, TrimmedLeading DEF Trimmed
<1>4. /\ n \in Nat /\ n + Leading(s) <= Len(s)
      /\ n + Leading(s) < keep_start(s) \/ n = 0
      /\ n # 0 => n + Leading(s) + MinMessages <= Len(s)
  BY CutsAre
<1>5. PICK d : d = Drop(t, n)
  OBVIOUS
<1>6. Dropped(t, n, d)
  BY <1>3, <1>4, <1>5, DropIs
<1>7. d \in Seq(Message) /\ Len(d) = Len(s) - n
  BY <1>3, <1>6 DEF Dropped
<1>8. PICK u : u = repair_orphaned_tool_results(d)
  OBVIOUS
<1>9. Repaired(d, u)
  BY <1>7, <1>8, RepairIs
<1>10. r.msgs = u /\ r.removed = n
  BY <1>1, <1>5, <1>8
<1>11. /\ Len(s) \in Nat /\ Leading(s) \in Nat /\ Leading(s) <= Len(s) /\ MinMessages \in Nat
       /\ \A i \in 1..Leading(s) : s[i].role = "system"
  BY SeqTyped, LeadingIs, ParametersAssumption
<1>12. u \in Seq(Message) /\ Len(u) = Len(s) - n
  BY <1>7, <1>9 DEF Repaired
<1>13. ASSUME NEW i \in 1..Leading(s) PROVE u[i] = s[i]
  <2>1. i \in 1..Len(s) /\ i \in 1..Len(d)
    BY <1>4, <1>7, <1>11
  <2>2. t[i] = s[i] /\ d[i] = t[i]
    BY <1>2, <1>3, <1>6, <2>1 DEF Trimmed, Dropped
  <2>3. u[i] = d[i]
    BY <1>9, <1>11, <2>1, <2>2 DEF Repaired
  <2> QED BY <2>2, <2>3
<1>14. ASSUME NEW i \in Leading(s) + 1 .. Len(u)
       PROVE  Less(u[i], s[i + n]) /\ (Says(s, i + n) => u[i].of = s[i + n].of)
  <2>1. i \in 1..Len(d) /\ i + n \in 1..Len(s)
    BY <1>4, <1>7, <1>11, <1>12
  <2>2. Less(d[i], t[i + n]) /\ d[i].of = t[i + n].of
    BY <1>3, <1>6, <1>7, <1>12 DEF Dropped
  <2>3. Less(t[i + n], s[i + n]) /\ (Says(s, i + n) => t[i + n].of = s[i + n].of)
    BY <1>2, <2>1 DEF Trimmed, Says
  <2>4. Less(u[i], d[i]) /\ u[i].of = d[i].of
    BY <1>9, <2>1 DEF Repaired
  <2> QED BY <2>2, <2>3, <2>4 DEF Less
<1>15. ASSUME NEW i \in 1..Len(u), u[i].role = "user" PROVE u[i].results \subseteq Declared(u, i)
  <2>1. i \in 1..Len(d)
    BY <1>7, <1>12
  <2>2. d[i].role = "user"
    BY <1>9, <1>15, <2>1 DEF Repaired, Less
  <2> QED BY <1>9, <2>1, <2>2 DEF Repaired
<1>16. Compressed(s, u, n)
  BY <1>4, <1>12, <1>13, <1>14, <1>15 DEF Compressed
<1>17. ASSUME MinMessages >= 3, Len(s) > 1, s[Len(s)].role = "user", s[Len(s) - 1].role = "assistant"
       PROVE  u[Len(u)].role = "user" /\ u[Len(u)].results = s[Len(s)].results \cap s[Len(s) - 1].uses
  <2>1. PICK l : l = Len(s)
    OBVIOUS
  <2>2. l \in Nat /\ l > 1 /\ l \in 1..Len(s) /\ l - 1 \in 1..Len(s) /\ l = Len(s)
    BY <1>11, <1>17, <2>1
  <2>3. t[l] = s[l] /\ t[l - 1] = s[l - 1]
    BY <1>2, <2>2 DEF Trimmed, trim_end
  <2>4. Leading(s) < l - 1
    BY <1>11, <1>17, <2>2
  <2>5. n = 0 \/ l - n - 1 > Leading(s) + 1
    BY <1>4, <1>11, <1>17, <2>2
  <2>6. /\ l - n \in Leading(s) + 1 .. Len(d) /\ l - n - 1 \in Leading(s) + 1 .. Len(d)
        /\ l - n + n = l /\ l - n - 1 + n = l - 1
    <3>1. PICK a \in Nat : a = Leading(s)
      BY <1>11
    <3>2. PICK e : e = Len(d)
      OBVIOUS
    <3>3. e = l - n /\ n \in Nat /\ l \in Nat /\ a < l - 1 /\ (n = 0 \/ l - n - 1 > a + 1)
      BY <1>4, <1>7, <2>2, <2>4, <2>5, <3>1, <3>2
    <3>4. /\ l - n \in a + 1 .. e /\ l - n - 1 \in a + 1 .. e
          /\ l - n + n = l /\ l - n - 1 + n = l - 1
      BY ONLY <3>3
    <3> QED BY <3>1, <3>2, <3>4
  <2>7. d[l - n] = t[l] /\ d[l - n - 1] = t[l - 1]
    <3>1. ASSUME NEW i \in Leading(s) + 1 .. Len(d), i # Leading(s) + 1 \/ n = 0
          PROVE  d[i] = t[i + n]
      BY <1>3, <1>6, <3>1 DEF Dropped
    <3>2. l - n # Leading(s) + 1 \/ n = 0
      BY <1>4, <1>11, <2>2, <2>5
    <3>3. l - n - 1 # Leading(s) + 1 \/ n = 0
      BY <1>4, <1>11, <2>2, <2>5
    <3>4. d[l - n] = t[l - n + n]
      BY <2>6, <3>1, <3>2
    <3>5. d[l - n - 1] = t[l - n - 1 + n]
      BY <2>6, <3>1, <3>3
    <3> QED BY <2>6, <3>4, <3>5
  <2>8. PICK k : k = l - n
    OBVIOUS
  <2>9. k \in 1..Len(d) /\ k > 1 /\ k = Len(u) /\ d[k] = s[l] /\ d[k - 1] = s[l - 1]
    BY <1>4, <1>7, <1>11, <1>12, <2>2, <2>3, <2>4, <2>6, <2>7, <2>8, SMTT(40)
  <2>10. Declared(d, k) = s[l - 1].uses
    BY <1>17, <2>1, <2>9 DEF Declared
  <2>11. d[k].role = "user" /\ d[k].results = s[l].results
    BY <1>17, <2>1, <2>9
  <2>12. u[k].role = "user" /\ u[k].results = d[k].results \cap Declared(d, k)
    BY <1>9, <2>9, <2>11 DEF Repaired, Less
  <2> QED BY <2>1, <2>9, <2>10, <2>11, <2>12
<1> QED BY <1>10, <1>16, <1>17 DEF Latest

-----------------------------------------------------------------------------
(* The shape of a vector and of the log                                    *)

\* Calls are an assistant's, results a user's.
Made(m) ==
  /\ m.role # "assistant" => m.uses = {}
  /\ m.role # "user" => m.results = {}
Proper(s) == \A i \in 1..Len(s) : Made(s[i])

\* A vector begins with the system prompt.
Begun(s) == s # <<>> /\ s[1] = System({})

\* System messages come first.
Orderly(s) == \A i \in 2..Len(s) : s[i].role = "system" => s[i - 1].role = "system"

LEMMA MadeLess ==
  ASSUME NEW m, NEW o, Less(m, o), Made(o)
  PROVE  Made(m)
<1>1. m.role = o.role /\ m.uses \subseteq o.uses /\ m.results \subseteq o.results
  BY DEF Less
<1> QED BY <1>1 DEF Made

LEMMA MadeOnes ==
  ASSUME NEW of
  PROVE  /\ Made(System(of))
         /\ \A ids, text : Made(User(ids, text, of))
         /\ \A ids : Made(Assistant(ids, of))
<1>1. Made(System(of))
  BY DEF Made, System
<1>2. ASSUME NEW ids, NEW text PROVE Made(User(ids, text, of))
  BY DEF Made, User
<1>3. ASSUME NEW ids PROVE Made(Assistant(ids, of))
  BY DEF Made, Assistant
<1> QED BY <1>1, <1>2, <1>3

LEMMA ProperOne ==
  ASSUME NEW m \in Message, Made(m)
  PROVE  <<m>> \in Seq(Message) /\ Proper(<<m>>)
<1>1. <<m>> \in Seq(Message) /\ Len(<<m>>) = 1 /\ <<m>>[1] = m
  BY OfOne
<1>2. \A i \in 1..Len(<<m>>) : <<m>>[i] = m
  BY <1>1
<1> QED BY <1>1, <1>2 DEF Proper

LEMMA ProperConcat ==
  ASSUME NEW a \in Seq(Message), NEW b \in Seq(Message), Proper(a), Proper(b)
  PROVE  a \o b \in Seq(Message) /\ Proper(a \o b)
<1>1. PICK c : c = a \o b
  OBVIOUS
<1>2. Joined(a, b, c)
  BY <1>1, JoinedIs
<1>3. /\ c \in Seq(Message) /\ Len(a) \in Nat /\ Len(b) \in Nat
      /\ Len(c) = Len(a) + Len(b)
      /\ \A p \in 1..Len(a) : c[p] = a[p]
      /\ \A p \in 1..Len(b) : c[Len(a) + p] = b[p]
  BY <1>2 DEF Joined
<1>4. ASSUME NEW i \in 1..Len(c) PROVE Made(c[i])
  <2>1. CASE i <= Len(a)
    <3>1. i \in 1..Len(a)
      BY <1>3, <2>1
    <3> QED BY <1>3, <3>1 DEF Proper
  <2>2. CASE ~(i <= Len(a))
    <3>1. i - Len(a) \in 1..Len(b) /\ Len(a) + (i - Len(a)) = i
      BY <1>3, <2>2
    <3>2. c[i] = b[i - Len(a)]
      BY <1>3, <3>1
    <3> QED BY <3>1, <3>2 DEF Proper
  <2> QED BY <2>1, <2>2
<1> QED BY <1>1, <1>3, <1>4 DEF Proper

LEMMA ProperOnly ==
  ASSUME NEW s \in Seq(Message), NEW I, Proper(s)
  PROVE  Only(s, I) \in Seq(Message) /\ Proper(Only(s, I))
<1>1. PICK w : w = Only(s, I)
  OBVIOUS
<1>2. Selected(s, I, w)
  BY <1>1, OnlyMembers
<1>3. w \in Seq(Message) /\ \A p \in 1..Len(w) : \E i \in 1..Len(s) : w[p] = s[i]
  BY <1>2 DEF Selected
<1>4. Proper(w)
  BY <1>3 DEF Proper
<1> QED BY <1>1, <1>3, <1>4

LEMMA BegunConcat ==
  ASSUME NEW a \in Seq(Message), NEW b \in Seq(Message), Begun(a)
  PROVE  Begun(a \o b)
<1>1. PICK c : c = a \o b
  OBVIOUS
<1>2. Joined(a, b, c)
  BY <1>1, JoinedIs
<1>3. a # <<>> /\ a[1] = System({})
  BY DEF Begun
<1>4. 1 \in 1..Len(a) /\ Len(a) \in Nat /\ Len(b) \in Nat
  BY <1>3, SeqTyped
<1>5. c \in Seq(Message) /\ c[1] = a[1] /\ Len(c) = Len(a) + Len(b)
  BY <1>2, <1>4 DEF Joined
<1>6. c # <<>>
  BY <1>4, <1>5
<1> QED BY <1>1, <1>3, <1>5, <1>6 DEF Begun

\* The system prompt is one of the leading messages.
LEMMA BegunLeads ==
  ASSUME NEW s \in Seq(Message), Begun(s)
  PROVE  1 <= Leading(s) /\ 1 \in 1..Len(s) /\ s[1].role = "system"
<1>1. s # <<>> /\ s[1] = System({})
  BY DEF Begun
<1>2. 1 \in 1..Len(s) /\ Len(s) \in Nat
  BY <1>1, SeqTyped
<1>3. s[1].role = "system"
  BY <1>1 DEF System
<1>4. Leading(s) \in 0..Len(s) /\ (Leading(s) < Len(s) => s[Leading(s) + 1].role # "system")
  BY LeadingIs
<1>5. Leading(s) # 0
  <2> SUFFICES ASSUME Leading(s) = 0 PROVE FALSE
    OBVIOUS
  <2>1. s[0 + 1].role # "system"
    BY <1>2, <1>4
  <2> QED BY <1>3, <2>1
<1> QED BY <1>2, <1>3, <1>4, <1>5

\* A summary goes after the leading messages.
Inserted(s, of, w) ==
  /\ w \in Seq(Message) /\ Len(w) = Len(s) + 1
  /\ \A i \in 1..Leading(s) : w[i] = s[i]
  /\ w[Leading(s) + 1] = System(of)
  /\ \A i \in Leading(s) + 1 .. Len(s) : w[i + 1] = s[i]

LEMMA InsertSummaryIs ==
  ASSUME NEW s \in Seq(Message), NEW of \in SUBSET Events
  PROVE  Inserted(s, of, InsertSummary(s, of))
<1>1. PICK l : l = Leading(s)
  OBVIOUS
<1>2. /\ l \in Nat /\ Len(s) \in Nat /\ l <= Len(s)
      /\ \A i \in 1..Len(s) : s[i] \in Message
  BY <1>1, LeadingIs, SeqTyped
<1>3. PICK m : m = System(of)
  OBVIOUS
<1>4. m \in Message
  BY <1>3, MessagesTyped
<1>5. PICK a : a = SubSeq(s, 1, (l + 1) - 1)
  OBVIOUS
<1>6. PICK b : b = SubSeq(s, l + 1, Len(s))
  OBVIOUS
<1>7. a \in Seq(Message) /\ Len(a) = l /\ \A i \in 1..l : a[i] = s[i]
  BY <1>2, <1>5
<1>8. b \in Seq(Message) /\ Len(b) = Len(s) - l /\ \A i \in 1..Len(b) : b[i] = s[l + i]
  BY <1>2, <1>6
<1>9. PICK c : c = a \o <<m>>
  OBVIOUS
<1>10. PICK w : w = c \o b
  OBVIOUS
<1>11. <<m>> \in Seq(Message) /\ Len(<<m>>) = 1 /\ <<m>>[1] = m
  BY <1>4, OfOne
<1>12. Joined(a, <<m>>, c)
  BY <1>7, <1>9, <1>11, JoinedIs
<1>13. /\ c \in Seq(Message) /\ Len(c) = l + 1 /\ c[l + 1] = m
       /\ \A i \in 1..l : c[i] = s[i]
  BY <1>2, <1>7, <1>11, <1>12 DEF Joined
<1>14. Joined(c, b, w)
  BY <1>8, <1>10, <1>13, JoinedIs
<1>15. /\ w \in Seq(Message) /\ Len(w) = Len(c) + Len(b)
       /\ \A p \in 1..Len(c) : w[p] = c[p]
       /\ \A p \in 1..Len(b) : w[Len(c) + p] = b[p]
  BY <1>14 DEF Joined
<1>16. w[l + 1] = m /\ \A i \in 1..l : w[i] = s[i]
  BY <1>2, <1>13, <1>15
<1>17. ASSUME NEW i \in l + 1 .. Len(s) PROVE w[i + 1] = s[i]
  <2>1. i - l \in 1..Len(b) /\ Len(c) + (i - l) = i + 1 /\ l + (i - l) = i
    BY <1>2, <1>8, <1>13
  <2>2. w[Len(c) + (i - l)] = b[i - l] /\ b[i - l] = s[l + (i - l)]
    BY <1>8, <1>15, <2>1
  <2> QED BY <2>1, <2>2
<1>18. Len(w) = Len(s) + 1
  BY <1>2, <1>8, <1>13, <1>15
<1>19. w = InsertSummary(s, of)
  <2>1. InsertSummary(s, of) = (SubSeq(s, 1, (l + 1) - 1) \o <<m>>) \o SubSeq(s, l + 1, Len(s))
    <3>1. InsertSummary(s, of) = InsertAt(s, l + 1, m)
      BY <1>1, <1>3 DEF InsertSummary
    <3>2. InsertAt(s, l + 1, m) = (SubSeq(s, 1, (l + 1) - 1) \o <<m>>) \o SubSeq(s, l + 1, Len(s))
      BY Zenon DEF InsertAt
    <3> QED BY <3>1, <3>2, Zenon
  <2>2. w = (SubSeq(s, 1, (l + 1) - 1) \o <<m>>) \o SubSeq(s, l + 1, Len(s))
    BY <1>5, <1>6, <1>9, <1>10, Zenon
  <2> QED BY <2>1, <2>2
<1> QED BY <1>1, <1>3, <1>15, <1>16, <1>17, <1>18, <1>19, Zenon DEF Inserted

LEMMA InsertSummaryKeeps ==
  ASSUME NEW s \in Seq(Message), NEW of \in SUBSET Events,
         NEW w, w = InsertSummary(s, of)
  PROVE  /\ w \in Seq(Message) /\ Of(w) = Of(s) \cup of
         /\ Proper(s) => Proper(w)
         /\ Begun(s) => Begun(w)
         /\ w[Len(w)] = s[Len(s)] \/ Leading(s) = Len(s)
<1>1. PICK l : l = Leading(s)
  OBVIOUS
<1>2. Inserted(s, of, w)
  BY InsertSummaryIs
<1>3. /\ w \in Seq(Message) /\ Len(w) = Len(s) + 1
      /\ \A i \in 1..l : w[i] = s[i]
      /\ w[l + 1] = System(of)
      /\ \A i \in l + 1 .. Len(s) : w[i + 1] = s[i]
  BY <1>1, <1>2 DEF Inserted
<1>4. /\ l \in Nat /\ Len(s) \in Nat /\ l <= Len(s)
      /\ DOMAIN s = 1..Len(s) /\ DOMAIN w = 1..Len(w)
  BY <1>1, <1>3, LeadingIs, SeqTyped
<1>5. ASSUME NEW i \in 1..Len(w)
      PROVE  w[i] = System(of) \/ \E j \in 1..Len(s) : w[i] = s[j]
  <2>1. CASE i <= l
    BY <1>3, <1>4, <2>1
  <2>2. CASE i = l + 1
    BY <1>3, <2>2
  <2>3. CASE i > l + 1
    <3>1. i - 1 \in l + 1 .. Len(s) /\ i - 1 + 1 = i /\ i - 1 \in 1..Len(s)
      BY <1>3, <1>4, <2>3
    <3>2. w[i] = s[i - 1]
      BY <1>3, <3>1
    <3> QED BY <3>1, <3>2
  <2> QED BY <1>3, <1>4, <2>1, <2>2, <2>3
<1>6. l + 1 \in 1..Len(w)
  BY <1>3, <1>4
<1>7. ASSUME NEW j \in 1..Len(s) PROVE \E i \in 1..Len(w) : w[i] = s[j]
  <2>1. CASE j <= l
    <3>1. j \in 1..l /\ j \in 1..Len(w)
      BY <1>3, <1>4, <2>1
    <3> QED BY <1>3, <3>1
  <2>2. CASE ~(j <= l)
    <3>1. j \in l + 1 .. Len(s) /\ j + 1 \in 1..Len(w)
      BY <1>3, <1>4, <2>2
    <3> QED BY <1>3, <3>1
  <2> QED BY <2>1, <2>2
<1>8. System(of).of = of
  BY DEF System
<1>9. Of(w) = Of(s) \cup of
  <2>1. Of(w) \subseteq Of(s) \cup of
    <3>1. ASSUME NEW i \in 1..Len(w) PROVE w[i].of \subseteq Of(s) \cup of
      <4>1. CASE w[i] = System(of)
        BY <1>8, <4>1
      <4>2. CASE \E j \in 1..Len(s) : w[i] = s[j]
        BY <1>4, <4>2 DEF Of
      <4> QED BY <1>5, <4>1, <4>2
    <3> QED BY <1>4, <3>1 DEF Of
  <2>2. Of(s) \subseteq Of(w)
    <3>1. ASSUME NEW j \in 1..Len(s) PROVE s[j].of \subseteq Of(w)
      <4>1. PICK i \in 1..Len(w) : w[i] = s[j]
        BY <1>7
      <4>2. w[i].of \subseteq Of(w)
        BY <1>4 DEF Of
      <4> QED BY <4>1, <4>2
    <3> QED BY <1>4, <3>1 DEF Of
  <2>3. of \subseteq Of(w)
    <3>1. w[l + 1].of = of
      BY <1>3, <1>8
    <3> QED BY <1>4, <1>6, <3>1 DEF Of
  <2> QED BY <2>1, <2>2, <2>3
<1>10. ASSUME Proper(s) PROVE Proper(w)
  <2>1. ASSUME NEW i \in 1..Len(w) PROVE Made(w[i])
    <3>1. Made(System(of))
      BY MadeOnes
    <3>2. \A j \in 1..Len(s) : Made(s[j])
      BY <1>10 DEF Proper
    <3> QED BY <1>5, <3>1, <3>2
  <2> QED BY <2>1 DEF Proper
<1>11. ASSUME Begun(s) PROVE Begun(w)
  <2>1. 1 <= l
    BY <1>1, <1>11, BegunLeads
  <2>2. w[1] = s[1] /\ w # <<>>
    BY <1>3, <1>4, <2>1
  <2> QED BY <1>11, <2>2 DEF Begun
<1>12. w[Len(w)] = s[Len(s)] \/ Leading(s) = Len(s)
  <2>1. CASE l < Len(s)
    <3>1. Len(s) \in l + 1 .. Len(s)
      BY <1>4, <2>1
    <3> QED BY <1>3, <3>1
  <2> QED BY <1>1, <1>4, <2>1
<1> QED BY <1>3, <1>9, <1>10, <1>11, <1>12

\* What compression leaves has the shape of what it was given.
LEMMA CompressedKeeps ==
  ASSUME NEW s \in Seq(Message), NEW t, NEW n, Compressed(s, t, n)
  PROVE  /\ t \in Seq(Message)
         /\ Proper(s) => Proper(t)
         /\ Begun(s) => Begun(t)
         /\ Orderly(s) => Orderly(t)
<1>1. PICK l : l = Leading(s)
  OBVIOUS
<1>2. /\ l \in Nat /\ Len(s) \in Nat /\ l <= Len(s)
      /\ \A i \in 1..l : s[i].role = "system"
      /\ l < Len(s) => s[l + 1].role # "system"
  BY <1>1, LeadingIs, SeqTyped
<1>3. /\ n \in Nat /\ n + l <= Len(s)
      /\ t \in Seq(Message) /\ Len(t) = Len(s) - n
      /\ \A i \in 1..l : t[i] = s[i]
      /\ \A i \in l + 1 .. Len(t) : Less(t[i], s[i + n])
  BY <1>1 DEF Compressed
<1>4. ASSUME Proper(s), NEW i \in 1..Len(t) PROVE Made(t[i])
  <2>1. CASE i <= l
    <3>1. i \in 1..l /\ i \in 1..Len(s)
      BY <1>2, <1>3, <2>1
    <3> QED BY <1>3, <1>4, <3>1 DEF Proper
  <2>2. CASE ~(i <= l)
    <3>1. i \in l + 1 .. Len(t) /\ i + n \in 1..Len(s)
      BY <1>2, <1>3, <2>2
    <3>2. Less(t[i], s[i + n]) /\ Made(s[i + n])
      BY <1>3, <1>4, <3>1 DEF Proper
    <3> QED BY <3>2, MadeLess
  <2> QED BY <2>1, <2>2
<1>5. ASSUME Begun(s) PROVE Begun(t)
  <2>1. 1 <= l /\ 1 \in 1..Len(s)
    BY <1>1, <1>5, BegunLeads
  <2>2. t[1] = s[1] /\ t # <<>>
    BY <1>2, <1>3, <2>1
  <2> QED BY <1>5, <2>2 DEF Begun
<1>6. ASSUME Orderly(s), NEW i \in 2..Len(t), t[i].role = "system"
      PROVE  t[i - 1].role = "system"
  <2>1. CASE i <= l
    <3>1. i - 1 \in 1..l
      BY <1>2, <1>3, <2>1
    <3> QED BY <1>2, <1>3, <3>1
  <2>2. CASE i = l + 1
    <3>1. i - 1 \in 1..l
      BY <1>2, <1>3, <2>2
    <3> QED BY <1>2, <1>3, <3>1
  <2>3. CASE i > l + 1
    <3>1. /\ i \in l + 1 .. Len(t) /\ i - 1 \in l + 1 .. Len(t)
          /\ i + n \in 2..Len(s) /\ (i - 1) + n = (i + n) - 1
      BY <1>2, <1>3, <2>3
    <3>2. t[i].role = s[i + n].role /\ t[i - 1].role = s[(i + n) - 1].role
      BY <1>3, <3>1 DEF Less
    <3>3. s[i + n].role = "system"
      BY <1>6, <3>2
    <3>4. s[(i + n) - 1].role = "system"
      <4>1. PICK k : k = i + n
        OBVIOUS
      <4>2. k \in 2..Len(s) /\ s[k].role = "system"
        BY <3>1, <3>3, <4>1
      <4>3. s[k - 1].role = "system"
        BY <1>6, <4>2 DEF Orderly
      <4> QED BY <4>1, <4>3
    <3> QED BY <3>2, <3>4
  <2> QED BY <1>2, <1>3, <2>1, <2>2, <2>3
<1> QED BY <1>3, <1>4, <1>5, <1>6 DEF Proper, Orderly

-----------------------------------------------------------------------------
(* The conversions of the log and the vector                               *)

\* w is the first b messages of s.
Prefix(s, b, w) ==
  /\ w \in Seq(Message) /\ Len(w) = b
  /\ \A i \in 1..b : w[i] = s[i]
  /\ Proper(s) => Proper(w)

LEMMA PrefixIs ==
  ASSUME NEW s \in Seq(Message), NEW b \in 0..Len(s)
  PROVE  Prefix(s, b, SubSeq(s, 1, b))
<1>1. Len(s) \in Nat /\ \A i \in 1..Len(s) : s[i] \in Message
  BY SeqTyped
<1>2. PICK w : w = SubSeq(s, 1, b)
  OBVIOUS
<1>3. w \in Seq(Message) /\ Len(w) = b /\ \A i \in 1..b : w[i] = s[i]
  BY <1>1, <1>2
<1>4. \A i \in 1..b : i \in 1..Len(s)
  BY <1>1
<1>5. Proper(s) => Proper(w)
  BY <1>3, <1>4 DEF Proper
<1> QED BY <1>2, <1>3, <1>5 DEF Prefix

\* No message is the system's.
Spoken(s) == \A i \in 1..Len(s) : s[i].role # "system"

LEMMA HistoryIs ==
  ASSUME NEW log \in Seq(Message), log # <<>>, Proper(log)
  PROVE  /\ build_history_messages(log) \in Seq(Message)
         /\ Proper(build_history_messages(log)) /\ Spoken(build_history_messages(log))
<1>1. PICK s : s = Front(log)
  OBVIOUS
<1>2. s \in Seq(Message) /\ Proper(s)
  <2>1. Len(log) \in Nat /\ Len(log) # 0
    BY SeqTyped
  <2>2. s = SubSeq(log, 1, Len(log) - 1)
    BY <1>1 DEF Front
  <2>3. PICK b \in 0..Len(log) : b = Len(log) - 1
    BY <2>1, SMTT(40)
  <2>4. Prefix(log, b, s)
    BY <2>2, <2>3, PrefixIs
  <2> QED BY <2>4 DEF Prefix
<1>3. Len(s) \in Nat /\ DOMAIN s = 1..Len(s) /\ \A i \in 1..Len(s) : s[i] \in Message
  BY <1>2, SeqTyped
<1> DEFINE keep == {i \in DOMAIN s : s[i].role # "system" /\ ~(i > 1 /\ Absorbs(s, i - 1))}
           entry(i) == IF Absorbs(s, i)
                       THEN [s[i] EXCEPT !.text = TRUE, !.of = @ \cup s[i + 1].of]
                       ELSE s[i]
<1>4. build_history_messages(log) = Only([i \in DOMAIN s |-> entry(i)], keep)
  BY <1>1 DEF build_history_messages
<1>5. ASSUME NEW i \in 1..Len(s) PROVE  /\ entry(i) \in Message /\ Made(entry(i))
                                      /\ entry(i).role = s[i].role
  <2>1. s[i] \in Message /\ Made(s[i])
    BY <1>2, <1>3 DEF Proper
  <2>2. CASE ~Absorbs(s, i)
    BY <2>1, <2>2
  <2>3. CASE Absorbs(s, i)
    <3>1. i + 1 \in 1..Len(s)
      BY <1>3, <2>3 DEF Absorbs
    <3>2. PICK o \in SUBSET Events : o = s[i + 1].of
      BY <1>3, <3>1 DEF Message
    <3>3. entry(i) = [s[i] EXCEPT !.text = TRUE, !.of = @ \cup o]
      BY <2>3, <3>2
    <3> HIDE DEF entry
    <3>4. entry(i) \in Message
      BY <2>1, <3>3 DEF Message
    <3>5. entry(i).role = s[i].role /\ entry(i).uses = s[i].uses /\ entry(i).results = s[i].results
      BY <2>1, <3>3 DEF Message
    <3> QED BY <2>1, <3>4, <3>5 DEF Made
  <2> QED BY <2>2, <2>3
<1>6. PICK e : e = [i \in 1..Len(s) |-> entry(i)]
  OBVIOUS
<1>10. \A i \in 1..Len(s) : i \in keep => s[i].role # "system"
  BY <1>3
<1> HIDE DEF entry, keep
<1>7. /\ e \in Seq(Message) /\ Len(e) = Len(s)
      /\ \A i \in 1..Len(e) : Made(e[i]) /\ e[i].role = s[i].role
  BY <1>3, <1>5, <1>6
<1>8. build_history_messages(log) = Only(e, keep)
  BY <1>3, <1>4, <1>6
<1>9. Proper(e)
  BY <1>7 DEF Proper
<1>11. PICK w : w = Only(e, keep)
  OBVIOUS
<1>12. Selected(e, keep, w)
  BY <1>7, <1>11, OnlyMembers
<1>13. ASSUME NEW p \in 1..Len(w) PROVE w[p].role # "system"
  <2>1. PICK i \in 1..Len(e) : i \in keep /\ w[p] = e[i]
    BY <1>12 DEF Selected
  <2>2. i \in 1..Len(s)
    BY <1>7, <2>1
  <2> QED BY <1>7, <1>10, <2>1, <2>2
<1> QED BY <1>7, <1>8, <1>9, <1>11, <1>13, ProperOnly DEF Spoken

LEMMA OrderlyConcat ==
  ASSUME NEW a \in Seq(Message), NEW b \in Seq(Message), NEW c, c = a \o b,
         Orderly(a), Spoken(b)
  PROVE  Orderly(c)
<1>1. Joined(a, b, c)
  BY JoinedIs
<1>2. /\ Len(a) \in Nat /\ Len(b) \in Nat
      /\ Len(c) = Len(a) + Len(b)
      /\ \A p \in 1..Len(a) : c[p] = a[p]
      /\ \A p \in 1..Len(b) : c[Len(a) + p] = b[p]
  BY <1>1 DEF Joined
<1>3. ASSUME NEW i \in 2..Len(c), c[i].role = "system" PROVE c[i - 1].role = "system"
  <2>1. CASE i <= Len(a)
    <3>1. i \in 2..Len(a) /\ i - 1 \in 1..Len(a) /\ i \in 1..Len(a)
      BY <1>2, <2>1
    <3>2. a[i].role = "system"
      BY <1>2, <1>3, <3>1
    <3>3. a[i - 1].role = "system"
      BY <3>1, <3>2 DEF Orderly
    <3> QED BY <1>2, <3>1, <3>3
  <2>2. CASE ~(i <= Len(a))
    <3>1. i - Len(a) \in 1..Len(b) /\ Len(a) + (i - Len(a)) = i
      BY <1>2, <2>2
    <3>2. c[i] = b[i - Len(a)]
      BY <1>2, <3>1
    <3> QED BY <1>3, <3>1, <3>2 DEF Spoken
  <2> QED BY <2>1, <2>2
<1> QED BY <1>3 DEF Orderly

LEMMA OrderlyAfter ==
  ASSUME NEW s \in Seq(Message), NEW of \in SUBSET Events, NEW c, c = <<System(of)>> \o s,
         Orderly(s)
  PROVE  Orderly(c)
<1>1. System(of) \in Message /\ System(of).role = "system"
  BY MessagesTyped DEF System
<1>2. PICK a : a = <<System(of)>>
  OBVIOUS
<1>3. a \in Seq(Message) /\ Len(a) = 1 /\ a[1].role = "system"
  BY <1>1, <1>2, OfOne
<1>4. Joined(a, s, c)
  BY <1>2, <1>3, JoinedIs
<1>5. /\ Len(s) \in Nat /\ Len(c) = 1 + Len(s) /\ c[1].role = "system"
      /\ \A p \in 1..Len(s) : c[1 + p] = s[p]
  BY <1>3, <1>4 DEF Joined
<1>6. ASSUME NEW i \in 2..Len(c), c[i].role = "system" PROVE c[i - 1].role = "system"
  <2>1. CASE i = 2
    BY <1>5, <2>1
  <2>2. CASE i > 2
    <3>1. PICK k : k = i - 1
      OBVIOUS
    <3>2. k \in 2..Len(s) /\ k \in 1..Len(s) /\ 1 + k = i /\ k - 1 \in 1..Len(s) /\ 1 + (k - 1) = i - 1
      BY <1>5, <2>2, <3>1
    <3>3. c[i] = s[k] /\ c[i - 1] = s[k - 1]
      BY <1>5, <3>2
    <3> QED BY <1>6, <3>2, <3>3 DEF Orderly
  <2> QED BY <1>5, <2>1, <2>2
<1> QED BY <1>6 DEF Orderly

\* The system messages are the leading ones ...
LEMMA OrderlyBody ==
  ASSUME NEW s \in Seq(Message), Orderly(s)
  PROVE  \A i \in Leading(s) + 1 .. Len(s) : s[i].role # "system"
<1>1. PICK l : l = Leading(s)
  OBVIOUS
<1>2. l \in Nat /\ Len(s) \in Nat /\ l <= Len(s) /\ (l < Len(s) => s[l + 1].role # "system")
  BY <1>1, LeadingIs, SeqTyped
<1> DEFINE Bad == {i \in l + 1 .. Len(s) : s[i].role = "system"}
<1>3. Bad = {}
  <2> SUFFICES ASSUME Bad # {} PROVE FALSE
    OBVIOUS
  <2>1. Bad \in SUBSET Nat
    BY <1>2
  <2> HIDE DEF Bad
  <2>2. PICK i \in Bad : \A j \in Bad : i <= j
    BY <2>1, LeastOf
  <2>3. i \in l + 1 .. Len(s) /\ s[i].role = "system" /\ i # l + 1
    BY <1>2, <2>2 DEF Bad
  <2>4. i - 1 \in l + 1 .. Len(s) /\ i \in 2..Len(s)
    BY <1>2, <2>3
  <2>5. s[i - 1].role = "system"
    BY <2>3, <2>4 DEF Orderly
  <2>6. i - 1 \in Bad
    BY <2>4, <2>5 DEF Bad
  <2> QED BY <2>1, <2>2, <2>6
<1> QED BY <1>1, <1>3

\* ... and a sequence whose system messages come first is one of these.
LEMMA OrderlyIf ==
  ASSUME NEW s \in Seq(Message), NEW n \in 0..Len(s),
         \A i \in 1..n : s[i].role = "system",
         \A i \in n + 1 .. Len(s) : s[i].role # "system"
  PROVE  Orderly(s) /\ Leading(s) = n /\ Body(s) = Len(s) - n
<1>1. Len(s) \in Nat
  BY SeqTyped
<1>2. n < Len(s) => s[n + 1].role # "system"
  BY <1>1
<1>3. Leading(s) = n
  BY <1>2, LeadingIf
<1>4. ASSUME NEW i \in 2..Len(s), s[i].role = "system" PROVE s[i - 1].role = "system"
  <2>1. i <= n
    <3>1. i \notin n + 1 .. Len(s)
      BY <1>4
    <3> QED BY <1>1, <3>1
  <2>2. i - 1 \in 1..n
    BY <1>1, <2>1
  <2> QED BY <2>2
<1> QED BY <1>3, <1>4 DEF Orderly, Body

LEMMA RecoveredIs ==
  ASSUME NEW cp \in Seq(Message), NEW log \in Seq(Message),
         Proper(cp), Proper(log), Orderly(log)
  PROVE  /\ checkpoint_messages_to_store(cp, log) \in Seq(Message)
         /\ Proper(checkpoint_messages_to_store(cp, log))
         /\ Orderly(checkpoint_messages_to_store(cp, log))
<1> DEFINE A == {i \in 1..Len(log) : log[i].role = "assistant"}
           first == IF A # {} THEN CHOOSE x \in A : \A y \in A : x <= y ELSE 0
           own == IF first = 0 THEN log ELSE SubSeq(log, 1, first - 1)
           trigger == \E i \in DOMAIN own : own[i].role = "user"
           skip == IF trigger THEN SelectInSeq(cp, LAMBDA m : m.role = "user") ELSE 0
           keep == {i \in DOMAIN cp : cp[i].role # "system" /\ i # skip}
<1>1. Len(log) \in Nat
  BY SeqTyped
<1>2. first \in 0..Len(log)
  <2>1. CASE A = {}
    BY <1>1, <2>1
  <2>2. CASE A # {}
    <3>1. A \in SUBSET Nat /\ A \subseteq 1..Len(log)
      BY <1>1
    <3>2. \E x \in A : \A y \in A : x <= y
      <4> HIDE DEF A
      <4> QED BY <2>2, <3>1, LeastOf
    <3>3. first \in A
      <4> HIDE DEF A
      <4> QED BY <2>2, <3>2
    <3> QED BY <1>1, <3>1, <3>3
  <2> QED BY <2>1, <2>2
<1>3. PICK e : e = [i \in DOMAIN cp |-> [cp[i] EXCEPT !.uses = {}]]
  OBVIOUS
<1>4. checkpoint_messages_to_store(cp, log) = own \o Only(e, keep)
  <2>1. checkpoint_messages_to_store(cp, log)
          = own \o Only([i \in DOMAIN cp |-> [cp[i] EXCEPT !.uses = {}]], keep)
    BY Zenon DEF checkpoint_messages_to_store, SelectInSeq, Min
  <2> HIDE DEF own, keep
  <2> QED BY <1>3, <2>1
<1> HIDE DEF first
<1>5. own \in Seq(Message) /\ Proper(own) /\ Orderly(own)
  <2>1. CASE first = 0
    BY <2>1
  <2>2. CASE first # 0
    <3>1. PICK b : b = first - 1
      OBVIOUS
    <3>2. b \in 0..Len(log)
      BY <1>1, <1>2, <2>2, <3>1
    <3>3. own = SubSeq(log, 1, b)
      BY <2>2, <3>1
    <3> HIDE DEF own
    <3>4. own \in Seq(Message) /\ Proper(own) /\ Len(own) = b /\ \A i \in 1..b : own[i] = log[i]
      <4>1. Prefix(log, b, own)
        BY <3>2, <3>3, PrefixIs
      <4> QED BY <4>1 DEF Prefix
    <3>5. ASSUME NEW i \in 2..Len(own), own[i].role = "system" PROVE own[i - 1].role = "system"
      <4>1. i \in 2..Len(log) /\ i \in 1..b /\ i - 1 \in 1..b
        BY <1>1, <3>2, <3>4
      <4>2. log[i].role = "system"
        BY <3>4, <3>5, <4>1
      <4>3. log[i - 1].role = "system"
        BY <4>1, <4>2 DEF Orderly
      <4> QED BY <3>4, <4>1, <4>3
    <3> QED BY <3>4, <3>5 DEF Orderly
  <2> QED BY <2>1, <2>2
<1> HIDE DEF own
<1>6. Len(cp) \in Nat /\ DOMAIN cp = 1..Len(cp)
  BY SeqTyped
<1>7. ASSUME NEW i \in 1..Len(cp)
      PROVE  e[i] \in Message /\ Made(e[i]) /\ e[i].role = cp[i].role
  <2>1. cp[i] \in Message /\ Made(cp[i])
    BY SeqTyped DEF Proper
  <2>2. e[i] = [cp[i] EXCEPT !.uses = {}]
    BY <1>3, <1>6
  <2>3. e[i] \in Message /\ Less(e[i], cp[i])
    BY <2>1, <2>2 DEF Message, Less
  <2> QED BY <2>1, <2>3, MadeLess DEF Less
<1>8. e \in Seq(Message) /\ Len(e) = Len(cp)
  <2>1. e = [i \in 1..Len(cp) |-> e[i]]
    BY <1>3, <1>6
  <2> QED BY <1>6, <1>7, <2>1
<1>9. Proper(e)
  BY <1>7, <1>8 DEF Proper
<1>10. keep \subseteq {i \in 1..Len(cp) : cp[i].role # "system"}
  BY <1>6
<1> HIDE DEF keep
<1>11. PICK b : b = Only(e, keep)
  OBVIOUS
<1>12. b \in Seq(Message) /\ Proper(b)
  BY <1>8, <1>9, <1>11, ProperOnly
<1>13. Selected(e, keep, b)
  BY <1>8, <1>11, OnlyMembers
<1>14. ASSUME NEW p \in 1..Len(b) PROVE b[p].role # "system"
  <2>1. PICK i \in 1..Len(e) : i \in keep /\ b[p] = e[i]
    BY <1>13 DEF Selected
  <2> QED BY <1>7, <1>10, <2>1
<1>15. PICK c : c = own \o b
  OBVIOUS
<1>16. c \in Seq(Message) /\ Proper(c)
  BY <1>5, <1>12, <1>15, ProperConcat
<1>17. Orderly(c)
  BY <1>5, <1>12, <1>14, <1>15, OrderlyConcat DEF Spoken
<1>18. checkpoint_messages_to_store(cp, log) = c
  BY <1>4, <1>11, <1>15
<1> QED BY <1>16, <1>17, <1>18

\* Every call of s is answered by the next message, every result answers a
\* call of the one before it.
Paired(s) ==
  \A i \in DOMAIN s :
    /\ s[i].uses \subseteq ResultsAfter(s, i)
    /\ s[i].results \subseteq
         (IF i > 1 /\ s[i - 1].role = "assistant" THEN s[i - 1].uses ELSE {})

LEMMA RepairPairs ==
  ASSUME NEW s \in Seq(Message), Proper(s), Orderly(s),
         \A i \in 1..Len(s) : s[i].role = "user" => s[i].results \subseteq Declared(s, i)
  PROVE  LET r == repair_tool_pairing(s) IN
         /\ r \in Seq(Message) /\ Len(r) = Len(s) /\ Paired(r)
         /\ \A i \in 1..Len(s) : Less(r[i], s[i])
<1> DEFINE carrier(i) == {j \in i + 1 .. Len(s) : /\ s[j].role # "system"
                                                  /\ \A k \in i + 1 .. j - 1 : s[k].role = "system"}
           caller(j) == {i \in 1 .. j - 1 : /\ s[i].role = "assistant" /\ s[i].uses # {}
                                            /\ j \in carrier(i)}
           answers(i) == UNION {s[j].results : j \in carrier(i)}
           kept(i) == IF caller(i) = {} THEN s[i].results
                      ELSE s[i].results \cap UNION {s[j].uses : j \in caller(i)}
<1>1. Len(s) \in Nat /\ DOMAIN s = 1..Len(s) /\ \A i \in 1..Len(s) : s[i] \in Message
  BY SeqTyped
<1>2. PICK r : r = repair_tool_pairing(s)
  OBVIOUS
<1>3. r = [i \in DOMAIN s |-> [s[i] EXCEPT !.uses = @ \cap answers(i), !.results = kept(i)]]
  BY <1>2, Zenon DEF repair_tool_pairing
<1>4. ASSUME NEW i \in 1..Len(s), s[i].role = "assistant"
      PROVE  carrier(i) \subseteq {i + 1}
  <2> SUFFICES ASSUME NEW j \in carrier(i), j # i + 1 PROVE FALSE
    OBVIOUS
  <2>1. j \in i + 2 .. Len(s) /\ \A k \in i + 1 .. j - 1 : s[k].role = "system"
    BY <1>1
  <2>2. i + 1 \in 2..Len(s) /\ s[i + 1].role = "system" /\ (i + 1) - 1 = i
    BY <1>1, <2>1
  <2>3. s[(i + 1) - 1].role = "system"
    <3>1. PICK k : k = i + 1
      OBVIOUS
    <3>2. k \in 2..Len(s) /\ s[k].role = "system"
      BY <2>2, <3>1
    <3> HIDE DEF carrier
    <3>3. s[k - 1].role = "system"
      BY <3>2 DEF Orderly
    <3> QED BY <3>1, <3>3
  <2> QED BY <1>4, <2>2, <2>3
<1>6. ASSUME NEW i \in 1..Len(s)
      PROVE  /\ r[i].role = s[i].role /\ r[i].uses = s[i].uses \cap answers(i)
             /\ r[i].results = kept(i) /\ kept(i) \subseteq s[i].results
             /\ r[i] \in Message /\ Less(r[i], s[i])
  <2>1. kept(i) \subseteq s[i].results
    OBVIOUS
  <2>2. PICK k : k = kept(i)
    OBVIOUS
  <2>3. PICK a : a = answers(i)
    OBVIOUS
  <2>4. r[i] = [s[i] EXCEPT !.uses = @ \cap a, !.results = k]
    BY <1>1, <1>3, <2>2, <2>3
  <2> HIDE DEF kept, answers
  <2>5. k \subseteq s[i].results /\ s[i] \in Message
    BY <1>1, <2>1, <2>2
  <2>6. /\ r[i].role = s[i].role /\ r[i].uses = s[i].uses \cap a /\ r[i].results = k
        /\ r[i] \in Message /\ Less(r[i], s[i])
    BY <2>4, <2>5 DEF Message, Less
  <2> QED BY <2>2, <2>3, <2>5, <2>6
<1>7. r \in Seq(Message) /\ Len(r) = Len(s)
  <2>1. r = [i \in 1..Len(s) |-> r[i]]
    BY <1>1, <1>3
  <2> HIDE DEF answers, kept
  <2> QED BY <1>1, <1>6, <2>1
<1>8. ASSUME NEW i \in 1..Len(s), NEW u \in r[i].uses
      PROVE  i < Len(s) /\ r[i + 1].role = "user" /\ u \in r[i + 1].results
  <2>1. u \in s[i].uses /\ u \in answers(i)
    BY <1>6, ZenonT(60)
  <2>2. s[i].role = "assistant"
    BY <2>1 DEF Proper, Made
  <2>3. PICK j \in carrier(i) : u \in s[j].results
    BY <2>1
  <2>4. j = i + 1
    BY <1>4, <2>2
  <2>5. i < Len(s) /\ i + 1 \in 1..Len(s) /\ u \in s[i + 1].results /\ i + 1 \in carrier(i)
    BY <1>1, <2>3, <2>4
  <2>6. s[i + 1].role = "user"
    <3> HIDE DEF carrier
    <3> QED BY <2>5 DEF Proper, Made
  <2>7. i \in caller(i + 1)
    <3>1. i \in 1 .. (i + 1) - 1 /\ s[i].uses # {}
      BY <1>1, <2>1
    <3> HIDE DEF carrier
    <3> QED BY <2>2, <2>5, <3>1
  <2>8. u \in kept(i + 1)
    <3> HIDE DEF carrier
    <3>1. u \in UNION {s[k].uses : k \in caller(i + 1)}
      <4> HIDE DEF caller
      <4> QED BY <2>1, <2>7
    <3> HIDE DEF caller
    <3> QED BY <2>5, <3>1
  <2>9. r[i + 1].role = "user" /\ r[i + 1].results = kept(i + 1)
    BY <1>6, <2>5, <2>6
  <2> QED BY <2>5, <2>8, <2>9
<1>9. ASSUME NEW i \in 1..Len(s), NEW u \in r[i].results
      PROVE  i > 1 /\ r[i - 1].role = "assistant" /\ u \in r[i - 1].uses
  <2>1. u \in s[i].results
    BY <1>6
  <2>2. s[i].role = "user"
    BY <2>1 DEF Proper, Made
  <2>3. u \in Declared(s, i)
    BY <2>1, <2>2
  <2>4. i > 1 /\ s[i - 1].role = "assistant" /\ u \in s[i - 1].uses
    BY <2>3 DEF Declared
  <2>5. i - 1 \in 1..Len(s) /\ (i - 1) + 1 = i
    BY <1>1, <2>4
  <2>6. i \in carrier(i - 1)
    <3>1. \A k \in (i - 1) + 1 .. i - 1 : s[k].role = "system"
      BY <1>1
    <3>2. i \in (i - 1) + 1 .. Len(s)
      BY <1>1
    <3> QED BY <2>2, <3>1, <3>2
  <2>7. u \in answers(i - 1)
    <3> HIDE DEF carrier
    <3> QED BY <2>1, <2>6
  <2>8. r[i - 1].role = s[i - 1].role /\ r[i - 1].uses = s[i - 1].uses \cap answers(i - 1)
    BY <1>6, <2>5
  <2> QED BY <2>4, <2>7, <2>8
<1>10. Paired(r)
  <2>1. DOMAIN r = 1..Len(s)
    BY <1>7, SeqTyped
  <2>2. ASSUME NEW i \in 1..Len(s), NEW u \in r[i].uses PROVE u \in ResultsAfter(r, i)
    BY <1>7, <1>8 DEF ResultsAfter
  <2> QED BY <1>9, <2>1, <2>2 DEF Paired
<1> QED BY <1>2, <1>6, <1>7, <1>10

LEMMA CompactIs ==
  ASSUME NEW log \in Seq(Message), Proper(log), Orderly(log),
         NEW r \in compact_store_messages(log)
  PROVE  /\ r.log \in Seq(Message) /\ Proper(r.log) /\ Orderly(r.log) /\ Paired(r.log)
         /\ r.removed \subseteq Events
<1>1. PICK c \in compress_messages(log) :
        r = [log |-> [i \in DOMAIN c.msgs |->
                        message_to_store_message(repair_tool_pairing(c.msgs)[i])],
             removed |-> Of(Removed(log, c.removed))]
  BY DEF compact_store_messages
<1>2. PICK s : s = c.msgs
  OBVIOUS
<1>3. PICK n : n = c.removed
  OBVIOUS
<1>4. Compressed(log, s, n)
  BY <1>2, <1>3, CompressedIs
<1>5. s \in Seq(Message) /\ Proper(s) /\ Orderly(s)
  BY <1>4, CompressedKeeps
<1>6. PICK t : t = repair_tool_pairing(s)
  OBVIOUS
<1>7. \A i \in 1..Len(s) : s[i].role = "user" => s[i].results \subseteq Declared(s, i)
  BY <1>4 DEF Compressed
<1>8. /\ t \in Seq(Message) /\ Len(t) = Len(s) /\ Paired(t)
      /\ \A i \in 1..Len(s) : Less(t[i], s[i])
  BY <1>5, <1>6, <1>7, RepairPairs
<1>9. PICK w : w = [i \in 1..Len(s) |-> message_to_store_message(t[i])]
  OBVIOUS
<1>10. Len(s) \in Nat /\ DOMAIN s = 1..Len(s) /\ DOMAIN t = 1..Len(s)
       /\ \A i \in 1..Len(s) : t[i] \in Message
  BY <1>5, <1>8, SeqTyped
<1>11. r.log = w
  BY <1>1, <1>2, <1>6, <1>9, <1>10
<1>12. ASSUME NEW i \in 1..Len(s)
       PROVE  /\ w[i] \in Message /\ w[i].role = t[i].role
              /\ w[i].uses = t[i].uses /\ w[i].results = t[i].results
  <2>1. PICK m \in Message : m = t[i]
    BY <1>10
  <2>2. PICK b \in BOOLEAN : b = (m.text \/ (m.uses = {} /\ m.results = {}))
    OBVIOUS
  <2>3. w[i] = [m EXCEPT !.text = b]
    <3>1. w[i] = message_to_store_message(m)
      BY <1>9, <2>1
    <3> QED BY <2>2, <3>1 DEF message_to_store_message
  <2> QED BY <2>1, <2>3 DEF Message
<1>13. w \in Seq(Message) /\ Len(w) = Len(s) /\ DOMAIN w = 1..Len(s)
  BY <1>9, <1>10, <1>12
<1>14. ASSUME NEW i \in 1..Len(s) PROVE w[i].role = s[i].role /\ Made(w[i])
  <2>1. Less(t[i], s[i]) /\ Made(s[i])
    BY <1>5, <1>8 DEF Proper
  <2>2. Made(t[i]) /\ t[i].role = s[i].role
    BY <2>1, MadeLess DEF Less
  <2> QED BY <1>12, <2>2 DEF Made
<1>15. Proper(w)
  BY <1>13, <1>14 DEF Proper
<1>16. Orderly(w)
  <2>1. \A i \in 2..Len(s) : i \in 1..Len(s) /\ i - 1 \in 1..Len(s)
    BY <1>10
  <2> QED BY <1>5, <1>13, <1>14, <2>1 DEF Orderly
<1>17. Paired(w)
  <2>1. ASSUME NEW i \in 1..Len(s)
        PROVE  w[i].uses \subseteq ResultsAfter(w, i)
    <3>1. t[i].uses \subseteq ResultsAfter(t, i)
      BY <1>8, <1>10 DEF Paired
    <3>2. CASE i < Len(s) /\ t[i + 1].role = "user"
      <4>1. i + 1 \in 1..Len(s)
        BY <1>10, <3>2
      <4> QED BY <1>8, <1>12, <1>13, <3>1, <3>2, <4>1 DEF ResultsAfter
    <3>3. CASE ~(i < Len(s) /\ t[i + 1].role = "user")
      BY <1>8, <1>12, <3>1, <3>3 DEF ResultsAfter
    <3> QED BY <3>2, <3>3
  <2>2. ASSUME NEW i \in 1..Len(s), NEW u \in w[i].results
        PROVE  i > 1 /\ w[i - 1].role = "assistant" /\ u \in w[i - 1].uses
    <3>1. i > 1 /\ t[i - 1].role = "assistant" /\ u \in t[i - 1].uses
      BY <1>8, <1>10, <1>12 DEF Paired
    <3>2. i - 1 \in 1..Len(s)
      BY <1>10, <3>1
    <3> QED BY <1>12, <3>1, <3>2
  <2> QED BY <1>13, <2>1, <2>2 DEF Paired
<1>18. r.removed \subseteq Events
  <2>1. r.removed = Of(SubSeq(log, Leading(log) + 1, Leading(log) + n))
    BY <1>1, <1>3 DEF Removed
  <2>2. /\ n \in Nat /\ Leading(log) \in Nat /\ Len(log) \in Nat /\ n + Leading(log) <= Len(log)
        /\ \A i \in 1..Len(log) : log[i] \in Message
    BY <1>4, LeadingIs, SeqTyped DEF Compressed
  <2>3. PICK a : a = Leading(log) + 1
    OBVIOUS
  <2>4. PICK b : b = Leading(log) + n
    OBVIOUS
  <2>5. a \in Int /\ b \in Int /\ \A i \in a..b : log[i] \in Message
    BY <2>2, <2>3, <2>4
  <2>6. SubSeq(log, a, b) \in Seq(Message)
    BY <2>5, SubSeqProperties
  <2> QED BY <2>1, <2>3, <2>4, <2>6, OfTyped
<1> QED BY <1>11, <1>13, <1>15, <1>16, <1>17, <1>18

-----------------------------------------------------------------------------
(* Compressions of a run                                                   *)

\* The messages of the tail outlive a compression, each at its new place.
LEMMA RecentSurvive ==
  ASSUME NEW s \in Seq(Message), NEW t, NEW n, Compressed(s, t, n), NEW i \in Recent(s)
  PROVE  /\ i \in 1..Len(s) /\ i - n \in Leading(s) + 1 .. Len(t)
         /\ i - n \in 1..Len(t) /\ t[i - n].role # "system"
         /\ Says(s, i) => t[i - n].of = s[i].of
<1> DEFINE users == {j \in DOMAIN s : s[j].role = "user"}
           After(j) == {k \in users : k > j}
<1>1. /\ i \in DOMAIN s
      /\ \/ i > Len(s) - MinMessages /\ s[i].role # "system"
         \/ i \in users /\ Cardinality(users) > TailTurns /\ Cardinality(After(i)) < TailTurns
  BY DEF Recent
<1>2. /\ Len(s) \in Nat /\ DOMAIN s = 1..Len(s) /\ Leading(s) \in Nat /\ Leading(s) <= Len(s)
      /\ \A j \in 1..Leading(s) : s[j].role = "system"
  BY SeqTyped, LeadingIs
<1>3. /\ n \in Nat /\ n + Leading(s) <= Len(s)
      /\ n + Leading(s) < keep_start(s) \/ n = 0
      /\ n # 0 => n + Leading(s) + MinMessages <= Len(s)
      /\ Len(t) = Len(s) - n
      /\ \A j \in Leading(s) + 1 .. Len(t) : /\ Less(t[j], s[j + n])
                                             /\ Says(s, j + n) => t[j].of = s[j + n].of
  BY DEF Compressed
<1>4. MinMessages \in Nat /\ TailTurns \in Nat
  BY ParametersAssumption
<1>5. i \in 1..Len(s) /\ s[i].role # "system"
  BY <1>1, <1>2
<1>6. i > Leading(s)
  BY <1>2, <1>5
<1>7. i > n + Leading(s)
  <2>1. CASE n = 0
    BY <1>2, <1>5, <1>6, <2>1
  <2>2. CASE n # 0 /\ i > Len(s) - MinMessages
    BY <1>2, <1>3, <1>4, <1>5, <2>2
  <2>3. CASE n # 0 /\ i \in users /\ Cardinality(users) > TailTurns /\ Cardinality(After(i)) < TailTurns
    <3>1. /\ IsFiniteSet(users) /\ keep_start(s) \in 1..Len(s) + 1
          /\ keep_start(s) \in users
          /\ Cardinality(After(keep_start(s))) = TailTurns - 1
      BY <2>3, KeepStartIs
    <3>2. PICK q : q = keep_start(s)
      OBVIOUS
    <3>3. q \in Nat /\ q \in users /\ i \in Nat /\ IsFiniteSet(users)
      BY <1>2, <1>5, <3>1, <3>2
    <3>4. ~(i < q)
      <4> SUFFICES ASSUME i < q PROVE FALSE
        OBVIOUS
      <4>1. users \subseteq Nat
        BY <1>2
      <4> HIDE DEF users
      <4>2. After(q) \cup {q} \subseteq After(i) /\ q \notin After(q)
        <5>1. \A k \in users : k > q => k > i
          BY <3>3, <4>1
        <5>2. q > i /\ ~(q > q)
          BY <3>3
        <5> QED BY <3>3, <5>1, <5>2
      <4>3. IsFiniteSet(After(q)) /\ IsFiniteSet(After(i))
        BY <3>3, FS_Subset
      <4> HIDE DEF After
      <4>4. Cardinality(After(q) \cup {q}) = Cardinality(After(q)) + 1
        BY <4>2, <4>3, FS_AddElement
      <4>5. /\ Cardinality(After(q) \cup {q}) <= Cardinality(After(i))
            /\ Cardinality(After(q)) \in Nat /\ Cardinality(After(i)) \in Nat
        BY <4>2, <4>3, FS_Subset, FS_CardinalityType
      <4>6. Cardinality(After(q)) = TailTurns - 1
        BY <3>1, <3>2
      <4> QED BY <1>4, <2>3, <4>4, <4>5, <4>6
    <3> QED BY <1>2, <1>3, <2>3, <3>2, <3>3, <3>4
  <2> QED BY <1>1, <2>1, <2>2, <2>3
<1>8. /\ i - n \in Leading(s) + 1 .. Len(t) /\ i - n \in 1..Len(t) /\ (i - n) + n = i
  BY <1>2, <1>3, <1>5, <1>7
<1>9. Less(t[i - n], s[i]) /\ (Says(s, i) => t[i - n].of = s[i].of)
  <2>1. PICK j : j = i - n
    OBVIOUS
  <2> QED BY <1>3, <1>8, <2>1
<1> QED BY <1>5, <1>8, <1>9 DEF Less

\* Where the messages of t are after the summary went in and when they are sent.
LEMMA SentOn ==
  ASSUME NEW t \in Seq(Message), NEW of \in SUBSET Events, NEW w, NEW p \in 1..Len(t),
         t[p].role # "system",
         w = t \/ w = InsertSummary(t, of)
  PROVE  t[p].of \subseteq Of(build_request_messages(w))
<1>1. PICK l : l = Leading(t)
  OBVIOUS
<1>2. Len(t) \in Nat /\ l \in Nat
  BY <1>1, SeqTyped, LeadingIs
<1>3. w \in Seq(Message) /\ \E q \in 1..Len(w) : w[q] = t[p]
  <2>1. CASE w = t
    BY <2>1
  <2>2. CASE w = InsertSummary(t, of)
    <3>1. Inserted(t, of, w)
      BY <2>2, InsertSummaryIs
    <3>2. /\ w \in Seq(Message) /\ Len(w) = Len(t) + 1
          /\ \A i \in 1..l : w[i] = t[i]
          /\ \A i \in l + 1 .. Len(t) : w[i + 1] = t[i]
      BY <1>1, <3>1 DEF Inserted
    <3>3. CASE p <= l
      <4>1. p \in 1..l /\ p \in 1..Len(w)
        BY <1>2, <3>2, <3>3
      <4> QED BY <3>2, <4>1
    <3>4. CASE ~(p <= l)
      <4>1. p \in l + 1 .. Len(t) /\ p + 1 \in 1..Len(w)
        BY <1>2, <3>2, <3>4
      <4> QED BY <3>2, <4>1
    <3> QED BY <3>3, <3>4
  <2> QED BY <2>1, <2>2
<1>4. PICK q \in 1..Len(w) : w[q] = t[p]
  BY <1>3
<1>5. PICK I : I = {i \in DOMAIN w : w[i].role # "system"}
  OBVIOUS
<1>6. q \in I
  BY <1>3, <1>4, <1>5, SeqTyped
<1>7. Of(Only(w, I)) = UNION {w[i].of : i \in {j \in 1..Len(w) : j \in I}}
  BY <1>3, OfOnly
<1>8. build_request_messages(w) = Only(w, I)
  BY <1>5 DEF build_request_messages
<1> QED BY <1>4, <1>6, <1>7, <1>8

\* The last message stays last.
LEMMA LastStays ==
  ASSUME NEW t \in Seq(Message), NEW of \in SUBSET Events, NEW w, t # <<>>,
         t[Len(t)].role # "system",
         w = t \/ w = InsertSummary(t, of)
  PROVE  w[Len(w)] = t[Len(t)]
<1>1. CASE w = t
  BY <1>1
<1>2. CASE w = InsertSummary(t, of)
  <2>1. w[Len(w)] = t[Len(t)] \/ Leading(t) = Len(t)
    BY <1>2, InsertSummaryKeeps
  <2>2. Leading(t) # Len(t)
    <3>1. Len(t) \in 1..Len(t)
      BY SeqTyped
    <3> QED BY <3>1, LeadingIs
  <2> QED BY <2>1, <2>2
<1> QED BY <1>1, <1>2

LEMMA ExtractIs ==
  ASSUME NEW t \in Seq(Message), NEW w, w = extract_compression_summaries(t)
  PROVE  /\ w \in Seq(Message)
         /\ Proper(t) => Proper(w)
         /\ Begun(t) => Begun(w)
         /\ \A p \in 1..Len(t) : t[p].role # "system" => \E q \in 1..Len(w) : w[q] = t[p]
         /\ t # <<>> /\ t[Len(t)].role # "system" => w # <<>> /\ w[Len(w)] = t[Len(t)]
<1>1. PICK I : I = {i \in DOMAIN t : t[i].role # "system" \/ t[i].of = {}}
  OBVIOUS
<1>2. w = Only(t, I)
  BY <1>1 DEF extract_compression_summaries
<1>3. Len(t) \in Nat /\ DOMAIN t = 1..Len(t)
  BY SeqTyped
<1>4. Selected(t, I, w)
  BY <1>2, OnlyMembers
<1>5. w \in Seq(Message) /\ (Proper(t) => Proper(w))
  BY <1>2, <1>4, ProperOnly DEF Selected
<1>6. ASSUME t # <<>> PROVE Ends(t, I, w)
  BY <1>2, <1>6, OnlyEnds
<1>7. ASSUME Begun(t) PROVE Begun(w)
  <2>1. t # <<>> /\ t[1] = System({})
    BY <1>7 DEF Begun
  <2>2. 1 \in I
    BY <1>1, <1>3, <2>1 DEF System
  <2>3. w # <<>> /\ w[1] = t[1]
    BY <1>6, <2>1, <2>2 DEF Ends
  <2> QED BY <2>1, <2>3 DEF Begun
<1>8. \A p \in 1..Len(t) : t[p].role # "system" => p \in I
  BY <1>1, <1>3
<1>9. \A p \in 1..Len(t) : t[p].role # "system" => \E q \in 1..Len(w) : w[q] = t[p]
  BY <1>4, <1>8 DEF Selected
<1>10. t # <<>> /\ t[Len(t)].role # "system" => w # <<>> /\ w[Len(w)] = t[Len(t)]
  <2>1. t # <<>> => Len(t) \in 1..Len(t)
    BY <1>3
  <2> QED BY <1>6, <1>8, <2>1 DEF Ends
<1> QED BY <1>5, <1>7, <1>9, <1>10

\* Without the summaries, what follows the leading messages is as long as before.
LEMMA ExtractOrderly ==
  ASSUME NEW t \in Seq(Message), NEW w, w = extract_compression_summaries(t), Orderly(t)
  PROVE  Orderly(w) /\ Body(w) = Body(t)
<1>1. PICK I : I = {i \in DOMAIN t : t[i].role # "system" \/ t[i].of = {}}
  OBVIOUS
<1>2. w = Only(t, I)
  BY <1>1 DEF extract_compression_summaries
<1>3. PICK l : l = Leading(t)
  OBVIOUS
<1>4. /\ l \in 0..Len(t) /\ Len(t) \in Nat /\ DOMAIN t = 1..Len(t)
      /\ \A i \in 1..l : t[i].role = "system"
      /\ \A i \in l + 1 .. Len(t) : t[i].role # "system"
  BY <1>3, LeadingIs, SeqTyped, OrderlyBody
<1>5. \A i \in l + 1 .. Len(t) : i \in I
  BY <1>1, <1>4
<1>6. PICK at : Left(t, I, w, at)
  BY <1>2, OnlyMade
<1>7. w \in Seq(Message) /\ Len(w) \in Nat
  BY <1>2, OnlyMade, SeqTyped
<1>8. /\ \A i \in 0..Len(t) : at[i] \in Nat
      /\ Len(w) = at[Len(t)]
      /\ \A i \in 1..Len(t) : at[i] = at[i-1] + (IF i \in I THEN 1 ELSE 0)
      /\ \A i \in 1..Len(t) : i \in I => w[at[i]] = t[i]
      /\ \A p \in 1..Len(w) : \E i \in 1..Len(t) : i \in I /\ p = at[i]
      /\ \A i \in 0..Len(t) : \A j \in i..Len(t) : at[i] <= at[j]
  BY <1>6 DEF Left
<1>9. PICK k \in Nat : k = at[l]
  BY <1>4, <1>8
<1> DEFINE Bad == {i \in l..Len(t) : at[i] # k + (i - l)}
<1>10. Bad = {}
  <2> SUFFICES ASSUME Bad # {} PROVE FALSE
    OBVIOUS
  <2>1. Bad \in SUBSET Nat
    BY <1>4
  <2> HIDE DEF Bad
  <2>2. PICK i \in Bad : \A j \in Bad : i <= j
    BY <2>1, LeastOf
  <2>3. i \in l..Len(t) /\ at[i] # k + (i - l) /\ i # l
    BY <1>4, <1>9, <2>2 DEF Bad
  <2>4. i - 1 \in l..Len(t) /\ i \in 1..Len(t) /\ i \in l + 1 .. Len(t)
    BY <1>4, <2>3
  <2>5. at[i - 1] = k + ((i - 1) - l)
    <3>1. i - 1 \notin Bad
      BY <2>1, <2>2, <2>4
    <3> QED BY <2>4, <3>1 DEF Bad
  <2>6. at[i] = at[i - 1] + 1
    BY <1>5, <1>8, <2>4
  <2> QED BY <1>4, <2>3, <2>5, <2>6
<1>11. Len(w) = k + (Len(t) - l)
  <2>1. Len(t) \in l..Len(t)
    BY <1>4
  <2>2. Len(t) \notin Bad
    BY <1>10
  <2> QED BY <1>8, <2>1, <2>2
<1> HIDE DEF Bad
<1>12. ASSUME NEW p \in 1..k PROVE w[p].role = "system"
  <2>1. p \in 1..Len(w)
    BY <1>4, <1>11
  <2>2. PICK i \in 1..Len(t) : i \in I /\ p = at[i]
    BY <1>8, <2>1
  <2>3. i <= l
    <3> SUFFICES ASSUME ~(i <= l) PROVE FALSE
      OBVIOUS
    <3>1. i \in l..Len(t) /\ i # l
      BY <1>4
    <3>2. at[i] = k + (i - l)
      BY <1>10, <3>1 DEF Bad
    <3> QED BY <1>4, <2>2, <3>1, <3>2
  <2>4. w[p] = t[i] /\ i \in 1..l
    BY <1>4, <1>8, <2>2, <2>3
  <2> QED BY <1>4, <2>4
<1>13. ASSUME NEW p \in k + 1 .. Len(w) PROVE w[p].role # "system"
  <2>1. p \in 1..Len(w)
    BY <1>7
  <2>2. PICK i \in 1..Len(t) : i \in I /\ p = at[i]
    BY <1>8, <2>1
  <2>3. ~(i <= l)
    <3> SUFFICES ASSUME i <= l PROVE FALSE
      OBVIOUS
    <3>1. i \in 0..Len(t) /\ l \in i..Len(t)
      BY <1>4
    <3>2. at[i] <= at[l]
      BY <1>8, <3>1
    <3> QED BY <1>9, <2>2, <3>2
  <2>4. w[p] = t[i] /\ i \in l + 1 .. Len(t)
    BY <1>4, <1>8, <2>2, <2>3
  <2> QED BY <1>4, <2>4
<1>14. k \in 0..Len(w)
  BY <1>4, <1>11
<1>15. Orderly(w) /\ Body(w) = Len(w) - k
  BY <1>7, <1>12, <1>13, <1>14, OrderlyIf
<1> QED BY <1>3, <1>4, <1>11, <1>15 DEF Body

LEMMA InsertOrderly ==
  ASSUME NEW s \in Seq(Message), NEW of \in SUBSET Events,
         NEW w, w = InsertSummary(s, of), Orderly(s)
  PROVE  Orderly(w) /\ Body(w) = Body(s)
<1>1. PICK l : l = Leading(s)
  OBVIOUS
<1>2. /\ l \in 0..Len(s) /\ Len(s) \in Nat
      /\ \A i \in 1..l : s[i].role = "system"
      /\ \A i \in l + 1 .. Len(s) : s[i].role # "system"
  BY <1>1, LeadingIs, SeqTyped, OrderlyBody
<1>3. Inserted(s, of, w)
  BY InsertSummaryIs
<1>4. /\ w \in Seq(Message) /\ Len(w) = Len(s) + 1
      /\ \A i \in 1..l : w[i] = s[i]
      /\ w[l + 1].role = "system"
      /\ \A i \in l + 1 .. Len(s) : w[i + 1] = s[i]
  BY <1>1, <1>3 DEF Inserted, System
<1>5. ASSUME NEW i \in 1 .. l + 1 PROVE w[i].role = "system"
  <2>1. i = l + 1 \/ i \in 1..l
    BY <1>2
  <2> QED BY <1>2, <1>4, <2>1
<1>6. ASSUME NEW i \in l + 2 .. Len(w) PROVE w[i].role # "system"
  <2>1. PICK j : j = i - 1
    OBVIOUS
  <2>2. j \in l + 1 .. Len(s) /\ i = j + 1
    BY <1>2, <1>4, <2>1
  <2> QED BY <1>2, <1>4, <2>2
<1>7. l + 1 \in 0..Len(w) /\ (l + 1) + 1 = l + 2
  BY <1>2, <1>4
<1>8. Orderly(w) /\ Body(w) = Len(w) - (l + 1)
  BY <1>4, <1>5, <1>6, <1>7, OrderlyIf
<1> QED BY <1>1, <1>2, <1>4, <1>8 DEF Body

\* A compression takes away from what follows the leading messages only.
LEMMA CompressedBody ==
  ASSUME NEW s \in Seq(Message), NEW t, NEW n, Compressed(s, t, n), Orderly(s)
  PROVE  Orderly(t) /\ Body(t) = Body(s) - n
<1>1. PICK l : l = Leading(s)
  OBVIOUS
<1>2. /\ l \in 0..Len(s) /\ Len(s) \in Nat
      /\ \A i \in 1..l : s[i].role = "system"
      /\ \A i \in l + 1 .. Len(s) : s[i].role # "system"
  BY <1>1, LeadingIs, SeqTyped, OrderlyBody
<1>3. /\ n \in Nat /\ n + l <= Len(s)
      /\ t \in Seq(Message) /\ Len(t) = Len(s) - n
      /\ \A i \in 1..l : t[i] = s[i]
      /\ \A i \in l + 1 .. Len(t) : t[i].role = s[i + n].role
  BY <1>1 DEF Compressed, Less
<1>4. \A i \in 1..l : t[i].role = "system"
  BY <1>2, <1>3
<1>5. ASSUME NEW i \in l + 1 .. Len(t) PROVE t[i].role # "system"
  <2>1. PICK j : j = i + n
    OBVIOUS
  <2>2. j \in l + 1 .. Len(s)
    BY <1>2, <1>3, <2>1
  <2> QED BY <1>2, <1>3, <2>1, <2>2
<1>6. l \in 0..Len(t)
  BY <1>2, <1>3
<1>7. Orderly(t) /\ Body(t) = Len(t) - l
  BY <1>3, <1>4, <1>5, <1>6, OrderlyIf
<1> QED BY <1>1, <1>2, <1>3, <1>7 DEF Body

LEMMA SummariesTyped ==
  ASSUME NEW s \in Seq(Message)
  PROVE  Summaries(s) \subseteq Events
BY SeqTyped DEF Summaries

LEMMA RemovedIs ==
  ASSUME NEW s \in Seq(Message), NEW t, NEW n, Compressed(s, t, n)
  PROVE  /\ Of(Removed(s, n)) \subseteq Events
         /\ \A i \in Leading(s) + 1 .. Leading(s) + n : s[i].of \subseteq Of(Removed(s, n))
<1>1. /\ n \in Nat /\ Leading(s) \in Nat /\ Len(s) \in Nat /\ n + Leading(s) <= Len(s)
      /\ \A i \in 1..Len(s) : s[i] \in Message
  BY LeadingIs, SeqTyped DEF Compressed
<1>2. PICK a : a = Leading(s) + 1
  OBVIOUS
<1>3. PICK b : b = Leading(s) + n
  OBVIOUS
<1>4. PICK w : w = SubSeq(s, a, b)
  OBVIOUS
<1>5. a \in Nat \ {0} /\ b \in Nat /\ b <= Len(s) /\ \A i \in a..b : s[i] \in Message
  BY <1>1, <1>2, <1>3
<1>6. /\ w \in Seq(Message) /\ Len(w) = (IF a <= b THEN (b - a) + 1 ELSE 0)
      /\ \A i \in 1 .. Len(w) : w[i] = s[(a + i) - 1]
  BY <1>4, <1>5
<1>7. DOMAIN w = 1..Len(w)
  BY <1>6, SeqTyped
<1>8. ASSUME NEW i \in a..b PROVE s[i].of \subseteq Of(w)
  <2>1. PICK k : k = (i - a) + 1
    OBVIOUS
  <2>2. k \in 1..Len(w) /\ (a + k) - 1 = i
    BY <1>5, <1>6, <2>1
  <2>3. w[k] = s[i]
    BY <1>6, <2>2
  <2> QED BY <1>7, <2>2, <2>3 DEF Of
<1>9. Of(w) \subseteq Events
  BY <1>6, OfTyped
<1>10. Removed(s, n) = w
  BY <1>2, <1>3, <1>4 DEF Removed
<1> QED BY <1>2, <1>3, <1>8, <1>9, <1>10

\* w tells of what s did; only trimming forgets.
Remembers(s, w) ==
  Of(s) \subseteq Of(w) \cup Wordless(s, w)
                \cup (IF Body(w) < Body(s) THEN {} ELSE Summaries(s))

\* What a compression of the vector leaves: a vector with the tail, and with
\* what the rest told unless a summary failed.
Compacted(s, w) ==
  /\ w \in Seq(Message)
  /\ Begun(s) => Begun(w)
  /\ Proper(s) => Proper(w)
  /\ Orderly(s) => Orderly(w) /\ (~Lossy => Remembers(s, w))
  /\ UNION {s[i].of : i \in {j \in Recent(s) : Says(s, j)}}
       \subseteq Of(build_request_messages(w))
  /\ MinMessages >= 3 => Latest(s, w)

LEMMA EmergencyIs ==
  ASSUME NEW s \in Seq(Message), NEW r \in compress_messages(s),
         NEW w, w = InsertSummary(r.msgs, Of(s))
  PROVE  Compacted(s, w)
<1>1. PICK t : t = r.msgs
  OBVIOUS
<1>2. PICK n : n = r.removed
  OBVIOUS
<1>3. PICK of : of = Of(s)
  OBVIOUS
<1>4. Compressed(s, t, n) /\ (MinMessages >= 3 => Latest(s, t))
  BY <1>1, <1>2, CompressedIs
<1>5. /\ t \in Seq(Message) /\ (Proper(s) => Proper(t)) /\ (Begun(s) => Begun(t))
  BY <1>4, CompressedKeeps
<1>6. of \in SUBSET Events
  BY <1>3, OfTyped
<1>7. w = InsertSummary(t, of)
  BY <1>1, <1>3
<1>8. /\ w \in Seq(Message) /\ Of(w) = Of(t) \cup of
      /\ Proper(t) => Proper(w)
      /\ Begun(t) => Begun(w)
  BY <1>5, <1>6, <1>7, InsertSummaryKeeps
<1>9. ASSUME NEW i \in Recent(s), Says(s, i) PROVE s[i].of \subseteq Of(build_request_messages(w))
  <2>1. i - n \in 1..Len(t) /\ t[i - n].role # "system" /\ t[i - n].of = s[i].of
    BY <1>4, <1>9, RecentSurvive
  <2>2. PICK p \in 1..Len(t) : t[p].role # "system" /\ t[p].of = s[i].of
    BY <2>1
  <2>3. t[p].of \subseteq Of(build_request_messages(w))
    BY <1>5, <1>6, <1>7, <2>2, SentOn
  <2> QED BY <2>2, <2>3
<1>10. MinMessages >= 3 => Latest(s, w)
  <2> SUFFICES ASSUME MinMessages >= 3, Len(s) > 1, s[Len(s)].role = "user",
                      s[Len(s) - 1].role = "assistant"
               PROVE  /\ w[Len(w)].role = "user"
                      /\ w[Len(w)].results = s[Len(s)].results \cap s[Len(s) - 1].uses
    BY DEF Latest
  <2>1. t[Len(t)].role = "user" /\ t[Len(t)].results = s[Len(s)].results \cap s[Len(s) - 1].uses
    BY <1>4 DEF Latest
  <2>2. t # <<>>
    <3>1. /\ n \in Nat /\ Len(t) = Len(s) - n /\ Len(s) \in Nat
          /\ n # 0 => n + Leading(s) + MinMessages <= Len(s)
          /\ MinMessages \in Nat /\ Leading(s) \in Nat
      BY <1>4, SeqTyped, LeadingIs, ParametersAssumption DEF Compressed
    <3>2. Len(t) # 0
      BY <3>1
    <3> QED BY <1>5, <3>2, EmptySeq
  <2>3. w[Len(w)] = t[Len(t)]
    BY <1>5, <1>6, <1>7, <2>1, <2>2, LastStays
  <2> QED BY <2>1, <2>3
<1>11. ASSUME Orderly(s) PROVE Orderly(w)
  <2>1. Orderly(t)
    BY <1>4, <1>11, CompressedKeeps
  <2> QED BY <1>5, <1>6, <1>7, <2>1, InsertOrderly
<1>12. Remembers(s, w)
  BY <1>3, <1>8 DEF Remembers
<1> QED BY <1>5, <1>8, <1>9, <1>10, <1>11, <1>12 DEF Compacted

LEMMA CompressTurnIs ==
  ASSUME NEW s \in Seq(Message), NEW r \in compress_messages(s),
         NEW of \in TurnSummary(s, r.removed),
         NEW rest, rest = extract_compression_summaries(r.msgs),
         NEW w, w = IF of = {} THEN rest ELSE InsertSummary(rest, of)
  PROVE  Compacted(s, w)
<1>1. PICK t : t = r.msgs
  OBVIOUS
<1>2. PICK n : n = r.removed
  OBVIOUS
<1>4. Compressed(s, t, n) /\ (MinMessages >= 3 => Latest(s, t))
  BY <1>1, <1>2, CompressedIs
<1>5. /\ t \in Seq(Message) /\ (Proper(s) => Proper(t)) /\ (Begun(s) => Begun(t))
  BY <1>4, CompressedKeeps
<1>6. of \in SUBSET Events
  <2>1. Summaries(s) \subseteq Events /\ Of(Removed(s, n)) \subseteq Events
    BY <1>4, SummariesTyped, RemovedIs
  <2>2. of \in TurnSummary(s, n)
    BY <1>2
  <2>3. of \in {Summaries(s) \cup Of(Removed(s, n)), Of(Removed(s, n)), {}}
    BY <2>2 DEF TurnSummary
  <2> QED BY <2>1, <2>3
<1>7. /\ rest \in Seq(Message)
      /\ Proper(t) => Proper(rest)
      /\ Begun(t) => Begun(rest)
      /\ \A p \in 1..Len(t) : t[p].role # "system" => \E q \in 1..Len(rest) : rest[q] = t[p]
      /\ t # <<>> /\ t[Len(t)].role # "system" => rest # <<>> /\ rest[Len(rest)] = t[Len(t)]
  <2>1. rest = extract_compression_summaries(t)
    BY <1>1
  <2> QED BY <1>5, <2>1, ExtractIs
<1>8. w = rest \/ w = InsertSummary(rest, of)
  OBVIOUS
<1>9. /\ w \in Seq(Message) /\ Of(w) = Of(rest) \cup of
      /\ Proper(rest) => Proper(w)
      /\ Begun(rest) => Begun(w)
  <2>1. CASE of = {}
    BY <1>7, <2>1
  <2>2. CASE of # {}
    <3>1. w = InsertSummary(rest, of)
      BY <2>2
    <3> QED BY <1>6, <1>7, <3>1, InsertSummaryKeeps
  <2> QED BY <2>1, <2>2
<1>10. ASSUME NEW i \in Recent(s), Says(s, i) PROVE s[i].of \subseteq Of(build_request_messages(w))
  <2>1. i - n \in 1..Len(t) /\ t[i - n].role # "system" /\ t[i - n].of = s[i].of
    BY <1>4, <1>10, RecentSurvive
  <2>2. PICK p \in 1..Len(t) : t[p].role # "system" /\ t[p].of = s[i].of
    BY <2>1
  <2>3. PICK q \in 1..Len(rest) : rest[q] = t[p]
    BY <1>7, <2>2
  <2>4. rest[q].of \subseteq Of(build_request_messages(w))
    BY <1>6, <1>7, <1>8, <2>2, <2>3, SentOn
  <2> QED BY <2>2, <2>3, <2>4
<1>11. MinMessages >= 3 => Latest(s, w)
  <2> SUFFICES ASSUME MinMessages >= 3, Len(s) > 1, s[Len(s)].role = "user",
                      s[Len(s) - 1].role = "assistant"
               PROVE  /\ w[Len(w)].role = "user"
                      /\ w[Len(w)].results = s[Len(s)].results \cap s[Len(s) - 1].uses
    BY DEF Latest
  <2>1. t[Len(t)].role = "user" /\ t[Len(t)].results = s[Len(s)].results \cap s[Len(s) - 1].uses
    BY <1>4 DEF Latest
  <2>2. t # <<>>
    <3>1. /\ n \in Nat /\ Len(t) = Len(s) - n /\ Len(s) \in Nat
          /\ n # 0 => n + Leading(s) + MinMessages <= Len(s)
          /\ MinMessages \in Nat /\ Leading(s) \in Nat
      BY <1>4, SeqTyped, LeadingIs, ParametersAssumption DEF Compressed
    <3>2. Len(t) # 0
      BY <3>1
    <3> QED BY <1>5, <3>2, EmptySeq
  <2>3. rest # <<>> /\ rest[Len(rest)] = t[Len(t)]
    BY <1>7, <2>1, <2>2
  <2>4. w[Len(w)] = rest[Len(rest)]
    BY <1>6, <1>7, <1>8, <2>1, <2>3, LastStays
  <2> QED BY <2>1, <2>3, <2>4
<1>13. ASSUME Orderly(s) PROVE Orderly(w) /\ Body(w) = Body(s) - n
  <2>1. Orderly(t) /\ Body(t) = Body(s) - n
    BY <1>4, <1>13, CompressedBody
  <2>2. rest = extract_compression_summaries(t)
    BY <1>1
  <2>3. Orderly(rest) /\ Body(rest) = Body(t)
    BY <1>5, <2>1, <2>2, ExtractOrderly
  <2> QED BY <1>6, <1>7, <1>8, <2>1, <2>3, InsertOrderly
<1>12. ASSUME ~Lossy, Orderly(s) PROVE Remembers(s, w)
  <2>1. PICK l : l = Leading(s)
    OBVIOUS
  <2>2. /\ l \in Nat /\ Len(s) \in Nat /\ l <= Len(s) /\ DOMAIN s = 1..Len(s)
        /\ \A i \in 1..l : s[i].role = "system"
    BY <2>1, LeadingIs, SeqTyped
  <2>3. /\ n \in Nat /\ n + l <= Len(s) /\ Len(t) = Len(s) - n
        /\ \A i \in l + 1 .. Len(t) : /\ Less(t[i], s[i + n])
                                      /\ Says(s, i + n) => t[i].of = s[i + n].of
    BY <1>4, <2>1 DEF Compressed
  <2>4. n # 0 => Summaries(s) \subseteq of /\ Of(Removed(s, n)) \subseteq of
    <3>1. of \in TurnSummary(s, n)
      BY <1>2
    <3> QED BY <1>12, <3>1 DEF TurnSummary
  <2>5. Body(s) = Len(s) - l /\ Body(w) = (Len(s) - l) - n
    BY <1>12, <1>13, <2>1 DEF Body
  <2>6. Body(w) < Body(s) <=> n # 0
    BY <2>2, <2>3, <2>5
  <2>7. Len(s) - Body(w) + 1 = l + n + 1
    BY <2>2, <2>3, <2>5
  <2> DEFINE lost == IF Body(w) < Body(s) THEN {} ELSE Summaries(s)
  <2>8. ASSUME NEW i \in 1..Len(s)
        PROVE  s[i].of \subseteq (Of(rest) \cup of) \cup Wordless(s, w) \cup lost
    <3>1. CASE s[i].role = "system"
      <4>1. s[i].of \subseteq Summaries(s)
        BY <2>2, <3>1 DEF Summaries
      <4> QED BY <2>4, <2>6, <4>1
    <3>2. CASE s[i].role # "system" /\ i <= l + n
      <4>1. i \in l + 1 .. l + n /\ n # 0
        BY <2>2, <2>3, <3>2
      <4>2. s[i].of \subseteq Of(Removed(s, n))
        BY <1>4, <2>1, <4>1, RemovedIs
      <4> QED BY <2>4, <4>1, <4>2
    <3>3. CASE s[i].role # "system" /\ i > l + n /\ Says(s, i)
      <4>1. PICK p : p = i - n
        OBVIOUS
      <4>2. p \in l + 1 .. Len(t) /\ p \in 1..Len(t) /\ p + n = i
        BY <2>2, <2>3, <3>3, <4>1
      <4>3. t[p].role = s[i].role /\ t[p].of = s[i].of
        BY <2>3, <3>3, <4>2 DEF Less
      <4>4. PICK q \in 1..Len(rest) : rest[q] = t[p]
        BY <1>7, <3>3, <4>2, <4>3
      <4>5. q \in DOMAIN rest
        BY <1>7, SeqTyped
      <4>6. rest[q].of \subseteq Of(rest)
        BY <4>5 DEF Of
      <4> QED BY <4>3, <4>4, <4>6
    <3>4. CASE i > l + n /\ ~Says(s, i)
      <4>1. ~s[i].text /\ ~(i > trim_end(s))
        BY <3>4 DEF Says
      <4>2. i \in Len(s) - Body(w) + 1 .. trim_end(s)
        BY <2>2, <2>3, <2>7, <3>4, <4>1 DEF trim_end
      <4>3. s[i].of \subseteq Wordless(s, w)
        BY <4>1, <4>2 DEF Wordless
      <4> QED BY <4>3
    <3>5. i <= l + n \/ i > l + n
      BY <2>2, <2>3
    <3> QED BY <3>1, <3>2, <3>3, <3>4, <3>5
  <2>9. Of(s) \subseteq (Of(rest) \cup of) \cup Wordless(s, w) \cup lost
    <3> HIDE DEF lost
    <3> QED BY <2>2, <2>8 DEF Of
  <2> QED BY <1>9, <2>9 DEF Remembers
<1> QED BY <1>5, <1>7, <1>9, <1>10, <1>11, <1>12, <1>13 DEF Compacted

-----------------------------------------------------------------------------
(***************************************************************************)
(* The inductive invariant                                                 *)
(***************************************************************************)

Running == {"top", "llm", "post"}
Vector(s) == s \in Seq(Message) /\ Proper(s)
Started(s) == Vector(s) /\ Begun(s) /\ Orderly(s)
SavedOK(c) ==
  /\ c.turn \in Nat /\ Vector(c.msgs) /\ Orderly(c.msgs)
  /\ c = NoCheckpoint \/ Begun(c.msgs)
Collected == [uses : SUBSET Ids, results : SUBSET Ids, of : SUBSET Events]
Counters == [runs : 0..MaxRuns, hints : 0..MaxHints, compressions : 0..MaxCompressions,
             compacts : 0..MaxCompacts, crashes : 0..MaxCrashes,
             recoveries : 0..MaxRecoveries]

\* The log and the vectors.
Vectors ==
  /\ Vector(store) /\ Orderly(store)
  /\ pc \in {"idle", "top", "llm", "post", "crashed"}
  /\ Vector(msgs) /\ Orderly(msgs) /\ (pc \in Running <=> Begun(msgs))
  /\ SavedOK(saved)

Registers ==
  /\ turn \in Nat /\ ran \in Collected /\ folded \subseteq SUBSET Events
  /\ clock \in 0..MaxEvents /\ counts \in Counters

Sound == Vectors /\ Registers

LEMMA BegunIs ==
  ASSUME NEW s \in Seq(Message)
  PROVE  Begun(s) <=> s # <<>> /\ Head(s) = System({})
<1>1. s # <<>> => Head(s) = s[1]
  BY SeqTyped
<1> QED BY <1>1 DEF Begun

LEMMA SoundTypes == Sound => TypeOK
<1> SUFFICES ASSUME Sound PROVE TypeOK
  OBVIOUS
<1>1. {store, msgs, saved.msgs} \subseteq Seq(Message) /\ saved.turn \in Nat
  BY DEF Sound, Vectors, Vector, SavedOK
<1>2. pc \in Running <=> msgs # <<>> /\ Head(msgs) = System({})
  <2>1. pc \in Running <=> Begun(msgs)
    BY DEF Sound, Vectors
  <2> QED BY <1>1, <2>1, BegunIs
<1>4. pc \in {"idle", "top", "llm", "post", "crashed"}
  BY DEF Sound, Vectors
<1>5. Registers
  BY DEF Sound
<1> QED BY <1>1, <1>2, <1>4, <1>5 DEF TypeOK, Registers, Running, Collected, Counters

LEMMA EmptyVector ==
  Vector(<<>>) /\ Orderly(<<>>) /\ Spoken(<<>>) /\ ~Begun(<<>>) /\ Of(<<>>) = {}
<1>1. <<>> \in Seq(Message) /\ Len(<<>>) = 0 /\ DOMAIN <<>> = {}
  BY EmptySeq
<1> QED BY <1>1 DEF Vector, Proper, Orderly, Spoken, Begun, Of

LEMMA InitSound == Init => Sound
<1> SUFFICES ASSUME Init PROVE Sound
  OBVIOUS
<1>1. Vectors
  <2>1. SavedOK(saved)
    BY EmptyVector DEF Init, SavedOK, NoCheckpoint
  <2> QED BY <2>1, EmptyVector DEF Init, Vectors, Running
<1>2. Registers
  BY ParametersAssumption DEF Init, Registers, Collected, Counters, NoRun
<1> QED BY <1>1, <1>2 DEF Sound

LEMMA VectorConcat ==
  ASSUME NEW a, NEW b, Vector(a), Vector(b)
  PROVE  /\ Vector(a \o b) /\ (Begun(a) => Begun(a \o b))
         /\ Orderly(a) /\ Spoken(b) => Orderly(a \o b)
BY ProperConcat, BegunConcat, OrderlyConcat DEF Vector

LEMMA VectorOne ==
  ASSUME NEW of \in SUBSET Events
  PROVE  /\ Vector(<<System(of)>>)
         /\ \A ids \in SUBSET Ids : \A text \in BOOLEAN :
              Vector(<<User(ids, text, of)>>) /\ Spoken(<<User(ids, text, of)>>)
         /\ \A ids \in SUBSET Ids :
              Vector(<<Assistant(ids, of)>>) /\ Spoken(<<Assistant(ids, of)>>)
<1>1. ASSUME NEW m \in Message, Made(m) PROVE Vector(<<m>>)
  BY <1>1, ProperOne DEF Vector
<1>2. Vector(<<System(of)>>)
  BY <1>1, MessagesTyped, MadeOnes
<1>5. ASSUME NEW m \in Message, m.role # "system" PROVE Spoken(<<m>>)
  <2>1. Len(<<m>>) = 1 /\ <<m>>[1] = m
    BY OfOne
  <2>2. PICK w : w = <<m>>
    OBVIOUS
  <2>3. Len(w) = 1 /\ w[1].role # "system"
    BY <1>5, <2>1, <2>2
  <2> QED BY <2>2, <2>3 DEF Spoken
<1>3. ASSUME NEW ids \in SUBSET Ids, NEW text \in BOOLEAN
      PROVE  Vector(<<User(ids, text, of)>>) /\ Spoken(<<User(ids, text, of)>>)
  <2>1. User(ids, text, of).role # "system"
    BY DEF User
  <2> QED BY <1>1, <1>5, <2>1, MessagesTyped, MadeOnes
<1>4. ASSUME NEW ids \in SUBSET Ids
      PROVE  Vector(<<Assistant(ids, of)>>) /\ Spoken(<<Assistant(ids, of)>>)
  <2>1. Assistant(ids, of).role # "system"
    BY DEF Assistant
  <2> QED BY <1>1, <1>5, <2>1, MessagesTyped, MadeOnes
<1> QED BY <1>2, <1>3, <1>4

LEMMA VectorTwo ==
  ASSUME NEW m \in Message, NEW n \in Message, Made(m), Made(n)
  PROVE  /\ Vector(<<m, n>>) /\ Of(<<m, n>>) = m.of \cup n.of
         /\ m.role # "system" /\ n.role # "system" => Spoken(<<m, n>>)
<1>1. PICK w : w = <<m, n>>
  OBVIOUS
<1>2. w \in Seq(Message) /\ Len(w) = 2 /\ w[1] = m /\ w[2] = n
  BY <1>1
<1>3. \A i \in 1..Len(w) : i = 1 \/ i = 2
  BY <1>2
<1>4. Proper(w)
  BY <1>2, <1>3 DEF Proper
<1>5. DOMAIN w = {1, 2}
  BY <1>2, SeqTyped
<1>6. Of(w) = m.of \cup n.of
  BY <1>2, <1>5 DEF Of
<1>7. m.role # "system" /\ n.role # "system" => Spoken(w)
  BY <1>2, <1>3 DEF Spoken
<1> QED BY <1>1, <1>2, <1>4, <1>6, <1>7 DEF Vector

LEMMA NoteAdded ==
  ASSUME NEW s, Vector(s), NEW of \in SUBSET Events, NEW w, w = Append(s, User({}, TRUE, of))
  PROVE  /\ Vector(w) /\ (Begun(s) => Begun(w)) /\ (Orderly(s) => Orderly(w)) /\ w # <<>>
         /\ Of(w) = Of(s) \cup of
<1>1. PICK m : m = User({}, TRUE, of)
  OBVIOUS
<1>2. m \in Message /\ m.role = "user" /\ m.of = of /\ Vector(<<m>>)
  BY <1>1, MessagesTyped, VectorOne DEF User
<1>3. s \in Seq(Message)
  BY DEF Vector
<1>4. w = s \o <<m>> /\ w # <<>>
  BY <1>1, <1>2, <1>3, AppendProperties, AppendIsConcat, ZenonT(60)
<1>5. Vector(w) /\ (Begun(s) => Begun(w))
  BY <1>2, <1>4, VectorConcat
<1>6. Of(w) = Of(s) \cup of
  BY <1>1, <1>2, <1>3, OfAppend
<1>7. ASSUME Orderly(s) PROVE Orderly(w)
  <2>1. <<m>> \in Seq(Message) /\ Len(<<m>>) = 1 /\ <<m>>[1] = m
    BY <1>2, OfOne
  <2>2. PICK b : b = <<m>>
    OBVIOUS
  <2>3. b \in Seq(Message) /\ w = s \o b /\ Len(b) = 1 /\ b[1].role # "system"
    BY <1>2, <1>4, <2>1, <2>2, Zenon
  <2>4. Spoken(b)
    BY <2>3 DEF Spoken
  <2> QED BY <1>3, <1>7, <2>3, <2>4, OrderlyConcat
<1> QED BY <1>4, <1>5, <1>6, <1>7

LEMMA OneEvent ==
  ASSUME NEW k \in Nat, clock \in 0..MaxEvents, Happens(k)
  PROVE  clock' \in 0..MaxEvents /\ (k = 1 => clock' \in Events /\ {clock'} \in SUBSET Events)
BY ParametersAssumption DEF Happens, Events

LEMMA Counted ==
  ASSUME counts \in Counters,
         \/ Count("runs", MaxRuns) \/ Count("hints", MaxHints)
         \/ Count("compressions", MaxCompressions) \/ Count("compacts", MaxCompacts)
         \/ Count("crashes", MaxCrashes) \/ Count("recoveries", MaxRecoveries)
  PROVE  counts' \in Counters
<1>0. {MaxRuns, MaxHints, MaxCompressions, MaxCompacts, MaxCrashes, MaxRecoveries} \subseteq Nat
  BY ParametersAssumption
<1>1. CASE Count("runs", MaxRuns)
  BY <1>0, <1>1 DEF Count, Counters
<1>2. CASE Count("hints", MaxHints)
  BY <1>0, <1>2 DEF Count, Counters
<1>3. CASE Count("compressions", MaxCompressions)
  BY <1>0, <1>3 DEF Count, Counters
<1>4. CASE Count("compacts", MaxCompacts)
  BY <1>0, <1>4 DEF Count, Counters
<1>5. CASE Count("crashes", MaxCrashes)
  BY <1>0, <1>5 DEF Count, Counters
<1>6. CASE Count("recoveries", MaxRecoveries)
  BY <1>0, <1>6 DEF Count, Counters
<1> QED BY <1>1, <1>2, <1>3, <1>4, <1>5, <1>6

LEMMA SaveKeeps ==
  ASSUME NEW t \in Nat, NEW s, Started(s), SavedOK(saved), Save(t, s)
  PROVE  SavedOK(saved')
<1>1. CASE t >= saved.turn
  <2>1. saved'.turn = t /\ saved'.msgs = s
    BY <1>1 DEF Save
  <2> QED BY <2>1 DEF SavedOK, Started
<1>2. CASE ~(t >= saved.turn)
  BY <1>2 DEF Save
<1> QED BY <1>1, <1>2

LEMMA EventIds ==
  ASSUME NEW e \in Events
  PROVE  /\ {<<e, "respond">>} \in SUBSET Ids
         /\ \A S \in Batches : ({e} \X S) \in SUBSET Ids
BY ParametersAssumption DEF Ids

-----------------------------------------------------------------------------
(* Every step keeps it                                                     *)

LEMMA SendingIs ==
  ASSUME Sound, pc \in Running
  PROVE  Started(msgs) /\ turn \in Nat /\ SavedOK(saved)
BY DEF Sound, Vectors, Registers, Started

LEMMA EndTurnSound ==
  ASSUME Sound, pc = "llm", NEW hint, NEW more, NEW seen \in SUBSET Ids,
         Vector(hint), Vector(more), Spoken(hint), Spoken(more),
         clock' \in 0..MaxEvents, clock' \in Events, counts' \in Counters,
         EndTurn(hint, more, seen)
  PROVE  Sound'
<1>1. Started(msgs) /\ turn \in Nat /\ SavedOK(saved)
  BY SendingIs DEF Running
<1>2. Started(msgs \o hint)
  BY <1>1, VectorConcat DEF Started
<1>3. Started(msgs')
  BY <1>2, VectorConcat DEF Started, EndTurn
<1>4. SavedOK(saved')
  <2>1. turn + 1 \in Nat
    BY <1>1
  <2>2. CASE Save(turn + 1, msgs \o hint)
    BY <1>1, <1>2, <2>1, <2>2, SaveKeeps
  <2>3. CASE UNCHANGED saved
    BY <1>1, <2>3
  <2>4. Save(turn + 1, msgs \o hint) \/ UNCHANGED saved
    BY DEF EndTurn, SaveIfDue
  <2> QED BY <2>2, <2>3, <2>4
<1>5. Vectors'
  BY <1>3, <1>4 DEF Sound, Vectors, Started, Running, EndTurn
<1>6. ran' \in Collected
  BY DEF Sound, Registers, Collected, EndTurn
<1>7. Registers'
  BY <1>1, <1>6 DEF Sound, Registers, EndTurn
<1> QED BY <1>5, <1>7 DEF Sound

LEMMA PersistedIs ==
  ASSUME NEW log, Vector(log), Orderly(log), NEW seen \in Collected
  PROVE  Vector(Persisted(log, seen)) /\ Orderly(Persisted(log, seen))
<1>1. seen.uses \in SUBSET Ids /\ seen.results \in SUBSET Ids /\ seen.of \in SUBSET Events
  BY DEF Collected
<1>2. PICK a : a = <<Assistant(seen.uses, seen.of)>>
  OBVIOUS
<1>3. PICK told \in SUBSET Events : told = {x[1] : x \in seen.results}
  BY <1>1 DEF Ids
<1>5. PICK u : u = <<User(seen.results, FALSE, told)>>
  OBVIOUS
<1>4. Vector(a) /\ Vector(u) /\ Spoken(a) /\ Spoken(u)
  BY <1>1, <1>2, <1>5, VectorOne
<1>7. PICK b : b = log \o a
  OBVIOUS
<1>8. Vector(b) /\ Orderly(b)
  BY <1>4, <1>7, VectorConcat, OrderlyConcat DEF Vector
<1>9. PICK c : c = b \o u
  OBVIOUS
<1>10. Vector(c) /\ Orderly(c)
  BY <1>4, <1>8, <1>9, VectorConcat, OrderlyConcat DEF Vector
<1>11. Vector(b \o <<>>) /\ b \o <<>> = b
  BY <1>8, ConcatEmptySeq DEF Vector
<1>12. Persisted(log, seen) = b \/ Persisted(log, seen) = c
  <2>1. CASE seen.results = {}
    <3>1. Persisted(log, seen) = b \o <<>>
      BY <1>2, <1>7, <2>1 DEF Persisted
    <3> QED BY <1>11, <3>1
  <2>2. CASE seen.results # {}
    BY <1>2, <1>3, <1>5, <1>7, <1>9, <2>2 DEF Persisted
  <2> QED BY <2>1, <2>2
<1> QED BY <1>8, <1>10, <1>12

LEMMA EndRunSound ==
  ASSUME Sound, NEW seen \in Collected, EndRun(seen),
         SavedOK(saved'), turn' \in Nat, clock' \in 0..MaxEvents
  PROVE  Sound'
<1>1. Vector(store') /\ Orderly(store')
  <2>1. Vector(store) /\ Orderly(store)
    BY DEF Sound, Vectors
  <2>2. store' = Persisted(store, seen) \/ store' = store
    BY DEF EndRun
  <2> QED BY <2>1, <2>2, PersistedIs
<1>2. Vectors'
  BY <1>1, EmptyVector DEF Vectors, EndRun, Running
<1>3. ran' \in Collected
  BY DEF EndRun, NoRun, Collected
<1>4. Registers'
  BY <1>3 DEF Sound, Registers, EndRun
<1> QED BY <1>2, <1>4 DEF Sound

LEMMA StartRunSound == ASSUME Sound, StartRun PROVE Sound'
<1>1. /\ clock' \in 0..MaxEvents /\ {clock'} \in SUBSET Events
  BY OneEvent DEF Sound, Registers, StartRun
<1>2. counts' \in Counters
  BY Counted DEF Sound, Registers, StartRun
<1>3. Vector(store) /\ Orderly(store) /\ SavedOK(saved)
  BY DEF Sound, Vectors
<1>4. store' = Append(store, User({}, TRUE, {clock'}))
  BY DEF StartRun
<1>5. Vector(store') /\ Orderly(store') /\ store' # <<>>
  BY <1>1, <1>3, <1>4, NoteAdded, ZenonT(60)
<1>6. PICK h : h = build_history_messages(store')
  OBVIOUS
<1>7. Vector(h) /\ Spoken(h)
  BY <1>5, <1>6, HistoryIs DEF Vector
<1>8. PICK a : a = <<System({})>> \o h
  OBVIOUS
<1>9. Started(a)
  <2>1. Vector(<<System({})>>) /\ Begun(<<System({})>>)
    BY VectorOne DEF Begun
  <2>2. Orderly(<<System({})>>)
    <3>1. PICK m : m = System({})
      OBVIOUS
    <3>2. Len(<<m>>) = 1
      OBVIOUS
    <3> QED BY <3>1, <3>2 DEF Orderly
  <2> QED BY <1>7, <1>8, <2>1, <2>2, VectorConcat DEF Started
<1>10. msgs' = a \o <<User({}, TRUE, {clock'})>>
  BY <1>6, <1>8 DEF StartRun
<1>11. Started(msgs')
  <2>1. Vector(<<User({}, TRUE, {clock'})>>) /\ Spoken(<<User({}, TRUE, {clock'})>>)
    BY <1>1, VectorOne
  <2> QED BY <1>9, <1>10, <2>1, VectorConcat DEF Started
<1>12. Vectors'
  BY <1>3, <1>5, <1>11 DEF Vectors, Started, Running, StartRun
<1>14. Registers'
  BY <1>1, <1>2 DEF Sound, Registers, StartRun, NoRun, Collected
<1> QED BY <1>12, <1>14 DEF Sound

LEMMA ResumeSound == ASSUME Sound, Resume PROVE Sound'
<1>1. counts' \in Counters
  BY Counted DEF Sound, Registers, Resume
<1>2. SavedOK(saved) /\ Started(saved.msgs) /\ Vector(store) /\ Orderly(store)
  BY DEF Sound, Vectors, Resume, SavedOK, Started
<1>3. clock' \in 0..MaxEvents /\ Started(msgs')
  <2>1. CASE msgs' = saved.msgs /\ UNCHANGED clock
    BY <1>2, <2>1 DEF Sound, Registers
  <2>2. CASE Happens(1) /\ msgs' = Append(saved.msgs, User({}, TRUE, {clock'}))
    <3>1. clock' \in 0..MaxEvents /\ {clock'} \in SUBSET Events
      BY <2>2, OneEvent DEF Sound, Registers
    <3>2. PICK of \in SUBSET Events : of = {clock'}
      BY <3>1
    <3>3. PICK s : s = saved.msgs
      OBVIOUS
    <3>4. PICK w : w = Append(s, User({}, TRUE, of))
      OBVIOUS
    <3>5. Vector(s) /\ Begun(s) /\ Orderly(s)
      BY <1>2, <3>3 DEF Started
    <3>6. Vector(w) /\ Begun(w) /\ Orderly(w)
      BY <3>4, <3>5, NoteAdded
    <3>7. msgs' = w
      BY <2>2, <3>2, <3>3, <3>4
    <3> QED BY <3>1, <3>6, <3>7 DEF Started
  <2> QED BY <2>1, <2>2 DEF Resume
<1>5. Vectors'
  BY <1>2, <1>3 DEF Vectors, Started, Running, Resume
<1>6. turn' \in Nat
  BY <1>2 DEF Resume, SavedOK
<1>7. Registers'
  BY <1>1, <1>3, <1>6 DEF Sound, Registers, Resume, NoRun, Collected
<1> QED BY <1>5, <1>7 DEF Sound

LEMMA InterveneSound == ASSUME Sound, Intervene PROVE Sound'
<1>1. clock' \in 0..MaxEvents /\ {clock'} \in SUBSET Events
  BY OneEvent DEF Sound, Registers, Intervene
<1>2. counts' \in Counters
  BY Counted DEF Sound, Registers, Intervene
<1>3. Started(msgs)
  BY SendingIs DEF Intervene, Running
<1>4. Started(msgs')
  BY <1>1, <1>3, NoteAdded, ZenonT(60) DEF Intervene, Started
<1>5. Vectors'
  BY <1>4 DEF Sound, Vectors, Started, Running, Intervene
<1>6. Registers'
  BY <1>1, <1>2 DEF Sound, Registers, Intervene
<1> QED BY <1>5, <1>6 DEF Sound

LEMMA CompressionSound ==
  ASSUME Sound, pc \in Running, pc' \in Running, Compacted(msgs, msgs'),
         Count("compressions", MaxCompressions),
         UNCHANGED <<store, turn, ran, saved, folded, clock>>
  PROVE  Sound'
<1>1. counts' \in Counters
  BY Counted DEF Sound, Registers
<1>2. Started(msgs)
  BY SendingIs
<1>3. Started(msgs')
  BY <1>2 DEF Started, Vector, Compacted
<1>4. Vectors'
  BY <1>3 DEF Sound, Vectors, Started, Running
<1>5. Registers'
  BY <1>1 DEF Sound, Registers
<1> QED BY <1>4, <1>5 DEF Sound

LEMMA CompressTurnStep ==
  ASSUME Sound, CompressTurn
  PROVE  Compacted(msgs, msgs')
<1>1. PICK r \in compress_messages(msgs) : \E of \in TurnSummary(msgs, r.removed) :
        LET rest == extract_compression_summaries(r.msgs) IN
        msgs' = IF of = {} THEN rest ELSE InsertSummary(rest, of)
  BY DEF CompressTurn
<1>2. PICK of \in TurnSummary(msgs, r.removed) :
        LET rest == extract_compression_summaries(r.msgs) IN
        msgs' = IF of = {} THEN rest ELSE InsertSummary(rest, of)
  BY <1>1
<1>3. PICK rest : rest = extract_compression_summaries(r.msgs)
  OBVIOUS
<1>4. msgs' = IF of = {} THEN rest ELSE InsertSummary(rest, of)
  BY <1>2, <1>3
<1>5. msgs \in Seq(Message)
  BY DEF Sound, Vectors, Vector
<1> QED BY <1>3, <1>4, <1>5, CompressTurnIs

LEMMA EmergencyStep ==
  ASSUME Sound, EmergencyCompress
  PROVE  Compacted(msgs, msgs')
<1>1. PICK r \in compress_messages(msgs) : msgs' = InsertSummary(r.msgs, Of(msgs))
  BY DEF EmergencyCompress
<1>2. msgs \in Seq(Message)
  BY DEF Sound, Vectors, Vector
<1> QED BY <1>1, <1>2, EmergencyIs

LEMMA ToolTurnSound == ASSUME Sound, ToolTurn PROVE Sound'
<1>1. clock' \in 0..MaxEvents /\ clock' \in Events /\ {clock'} \in SUBSET Events
  BY OneEvent DEF Sound, Registers, ToolTurn
<1>2. PICK S \in Batches, said \in Texts, asked \in Texts : LET ids == {clock'} \X S IN
        EndTurn(<<>>, <<[Assistant(ids, {clock'}) EXCEPT !.text = said],
                        User(ids, asked, {clock'})>>, ids)
  BY DEF ToolTurn
<1>3. PICK ids : ids = {clock'} \X S
  OBVIOUS
<1>4. PICK e : e = clock'
  OBVIOUS
<1>5. ids \in SUBSET Ids /\ said \in BOOLEAN /\ asked \in BOOLEAN
  BY <1>1, <1>3, <1>4, EventIds, ParametersAssumption
<1>10. PICK m : m = [Assistant(ids, {e}) EXCEPT !.text = said]
  OBVIOUS
<1>6. PICK more : more = <<m, User(ids, asked, {e})>>
  OBVIOUS
<1>7. Vector(more) /\ Spoken(more)
  <2>1. /\ User(ids, asked, {e}) \in Message /\ Made(User(ids, asked, {e}))
        /\ Assistant(ids, {e}) \in Message /\ Made(Assistant(ids, {e}))
    BY <1>1, <1>4, <1>5, MessagesTyped, MadeOnes
  <2>2. User(ids, asked, {e}).role = "user" /\ Assistant(ids, {e}).role = "assistant"
    BY DEF User, Assistant
  <2>3. m \in Message /\ Made(m) /\ m.role = "assistant"
    BY <1>5, <1>10, <2>1, <2>2 DEF Message, Made
  <2> QED BY <1>6, <2>1, <2>2, <2>3, VectorTwo
<1>8. EndTurn(<<>>, more, ids)
  BY <1>2, <1>3, <1>4, <1>6, <1>10
<1>9. counts' \in Counters
  BY DEF Sound, Registers, ToolTurn
<1> QED BY <1>1, <1>5, <1>7, <1>8, <1>9, EmptyVector, EndTurnSound DEF ToolTurn

LEMMA SentBackSound == ASSUME Sound, SentBack PROVE Sound'
<1>1. clock' \in 0..MaxEvents /\ clock' \in Events /\ {clock'} \in SUBSET Events
  BY OneEvent DEF Sound, Registers, SentBack
<1>2. PICK e : e = clock'
  OBVIOUS
<1>3. PICK more : more = <<Assistant({}, {e}), User({<<e, "respond">>}, TRUE, {e})>>
  OBVIOUS
<1>4. Vector(more) /\ Spoken(more)
  <2>1. {<<e, "respond">>} \in SUBSET Ids
    BY <1>1, <1>2, EventIds
  <2>2. /\ Assistant({}, {e}) \in Message /\ User({<<e, "respond">>}, TRUE, {e}) \in Message
        /\ Made(Assistant({}, {e})) /\ Made(User({<<e, "respond">>}, TRUE, {e}))
    BY <1>1, <1>2, <2>1, MessagesTyped, MadeOnes
  <2>3. Assistant({}, {e}).role = "assistant" /\ User({<<e, "respond">>}, TRUE, {e}).role = "user"
    BY DEF Assistant, User
  <2> QED BY <1>3, <2>2, <2>3, VectorTwo
<1>5. EndTurn(<<>>, more, {})
  BY <1>2, <1>3 DEF SentBack
<1>6. counts' \in Counters
  BY DEF Sound, Registers, SentBack
<1> QED BY <1>1, <1>4, <1>5, <1>6, EmptyVector, EndTurnSound DEF SentBack

LEMMA IntentTurnSound == ASSUME Sound, IntentTurn PROVE Sound'
<1>1. clock' \in 0..MaxEvents /\ clock' \in Events /\ {clock'} \in SUBSET Events
  BY OneEvent DEF Sound, Registers, IntentTurn
<1>2. /\ Vector(<<User({}, TRUE, {clock'})>>) /\ Vector(<<Assistant({}, {clock'})>>)
      /\ Spoken(<<User({}, TRUE, {clock'})>>) /\ Spoken(<<Assistant({}, {clock'})>>)
  BY <1>1, VectorOne
<1>3. counts' \in Counters
  BY Counted DEF Sound, Registers, IntentTurn
<1>4. EndTurn(<<User({}, TRUE, {clock'})>>, <<Assistant({}, {clock'})>>, {})
  BY DEF IntentTurn
<1> QED BY <1>1, <1>2, <1>3, <1>4, EndTurnSound DEF IntentTurn

LEMMA FinishSound == ASSUME Sound, Finish PROVE Sound'
<1>1. clock' \in 0..MaxEvents /\ {clock'} \in SUBSET Events
  BY OneEvent DEF Sound, Registers, Finish
<1>2. Started(msgs) /\ turn \in Nat /\ SavedOK(saved)
  BY SendingIs DEF Finish, Running
<1>3. turn' \in Nat /\ turn + 1 \in Nat
  BY <1>2 DEF Finish
<1>4. SavedOK(saved')
  <2>1. CASE Save(turn + 1, msgs)
    BY <1>2, <1>3, <2>1, SaveKeeps
  <2>2. CASE UNCHANGED saved
    BY <1>2, <2>2
  <2>3. Save(turn + 1, msgs) \/ UNCHANGED saved
    BY DEF Finish, SaveIfDue
  <2> QED BY <2>1, <2>2, <2>3
<1>5. PICK seen : seen = [ran EXCEPT !.of = @ \cup {clock'}]
  OBVIOUS
<1>6. seen \in Collected
  BY <1>1, <1>5 DEF Sound, Registers, Collected
<1>7. EndRun(seen)
  BY <1>5 DEF Finish
<1> QED BY <1>1, <1>3, <1>4, <1>6, <1>7, EndRunSound

LEMMA StopSound == ASSUME Sound, Stop PROVE Sound'
<1>1. Started(msgs) /\ turn \in Nat /\ SavedOK(saved)
  BY SendingIs DEF Stop, Running
<1>2. SavedOK(saved') /\ turn' \in Nat
  BY <1>1, SaveKeeps DEF Stop
<1>3. CASE EndRun(ran) /\ UNCHANGED clock
  <2>1. ran \in Collected /\ clock' \in 0..MaxEvents
    BY <1>3 DEF Sound, Registers
  <2> QED BY <1>2, <1>3, <2>1, EndRunSound
<1>4. ASSUME Happens(1), NEW S \in Batches,
             EndRun([ran EXCEPT !.uses = @ \cup ({clock'} \X S), !.of = @ \cup {clock'}])
      PROVE  Sound'
  <2>1. clock' \in 0..MaxEvents /\ clock' \in Events
    BY <1>4, OneEvent DEF Sound, Registers
  <2>2. PICK e : e = clock'
    OBVIOUS
  <2>3. PICK ids : ids = {e} \X S
    OBVIOUS
  <2>4. ids \in SUBSET Ids
    BY <2>1, <2>2, <2>3, EventIds
  <2>5. PICK seen : seen = [ran EXCEPT !.uses = @ \cup ids, !.of = @ \cup {e}]
    OBVIOUS
  <2>6. seen \in Collected
    BY <2>1, <2>2, <2>4, <2>5 DEF Sound, Registers, Collected
  <2>7. EndRun(seen)
    BY <1>4, <2>2, <2>3, <2>5
  <2> QED BY <1>2, <2>1, <2>6, <2>7, EndRunSound
<1> QED BY <1>3, <1>4 DEF Stop

LEMMA FailSound == ASSUME Sound, Fail PROVE Sound'
<1>1. ran \in Collected /\ SavedOK(saved') /\ turn' \in Nat /\ clock' \in 0..MaxEvents
  BY DEF Sound, Registers, Vectors, Fail
<1> QED BY <1>1, EndRunSound DEF Fail

LEMMA CrashSound == ASSUME Sound, Crash PROVE Sound'
<1>1. counts' \in Counters
  BY Counted DEF Sound, Registers, Crash
<1>2. Vectors'
  BY EmptyVector DEF Sound, Vectors, Crash, Running
<1>3. Registers'
  BY <1>1 DEF Sound, Registers, Crash, NoRun, Collected
<1> QED BY <1>2, <1>3 DEF Sound

LEMMA RecoverSound == ASSUME Sound, Recover PROVE Sound'
<1>1. counts' \in Counters
  BY Counted DEF Sound, Registers, Recover
<1>2. Vector(store') /\ Orderly(store')
  <2>1. Vector(store) /\ Orderly(store) /\ Vector(saved.msgs)
    BY DEF Sound, Vectors, SavedOK
  <2>2. store' = store \/ store' = checkpoint_messages_to_store(saved.msgs, store)
    BY DEF Recover
  <2> QED BY <2>1, <2>2, RecoveredIs DEF Vector
<1>3. pc \notin Running
  BY DEF Recover, Running
<1>4. Vectors'
  BY <1>2, <1>3 DEF Sound, Vectors, Recover, Running
<1>5. Registers'
  BY <1>1 DEF Sound, Registers, Recover
<1> QED BY <1>4, <1>5 DEF Sound

LEMMA CompactSound == ASSUME Sound, Compact PROVE Sound' /\ Paired(store')
<1>1. counts' \in Counters
  BY Counted DEF Sound, Registers, Compact
<1>2. PICK r \in compact_store_messages(store) :
        /\ store' = r.log
        /\ \/ folded' = folded \cup {r.removed}
           \/ r.log = store /\ UNCHANGED folded
  BY DEF Compact
<1>3. store \in Seq(Message) /\ Proper(store) /\ Orderly(store)
  BY DEF Sound, Vectors, Vector
<1>4. /\ Vector(store') /\ Orderly(store') /\ Paired(store')
      /\ r.removed \subseteq Events
  BY <1>2, <1>3, CompactIs DEF Vector
<1>5. Vectors'
  BY <1>4 DEF Sound, Vectors, Compact
<1>6. folded' \subseteq SUBSET Events
  BY <1>2, <1>4 DEF Sound, Registers
<1>7. Registers'
  BY <1>1, <1>6 DEF Sound, Registers, Compact
<1> QED BY <1>4, <1>5, <1>7 DEF Sound

LEMMA CompactSummarySound == ASSUME Sound, CompactSummary PROVE Sound'
<1>1. PICK of \in folded :
        /\ folded' = folded \ {of}
        /\ store' = <<System(of)>> \o store
        /\ UNCHANGED <<msgs, pc, turn, ran, saved, clock, counts>>
  BY DEF CompactSummary
<1>2. of \in SUBSET Events /\ Vector(store) /\ Orderly(store)
  BY DEF Sound, Registers, Vectors
<1>3. Vector(store') /\ Orderly(store')
  BY <1>1, <1>2, VectorOne, VectorConcat, OrderlyAfter DEF Vector
<1>4. Vectors'
  BY <1>1, <1>3 DEF Sound, Vectors
<1>5. Registers'
  BY <1>1 DEF Sound, Registers
<1> QED BY <1>4, <1>5 DEF Sound

LEMMA NextSound == ASSUME Sound, [Next]_vars PROVE Sound'
<1>1. CASE StartRun
  BY <1>1, StartRunSound
<1>2. CASE Resume
  BY <1>2, ResumeSound
<1>3. CASE Intervene
  BY <1>3, InterveneSound
<1>4. CASE Proceed
  BY <1>4 DEF Sound, Vectors, Registers, Running, Proceed
<1>5. CASE CompressTurn
  <2>1. Compacted(msgs, msgs')
    BY <1>5, CompressTurnStep
  <2> QED BY <1>5, <2>1, CompressionSound DEF CompressTurn, Running
<1>6. CASE ToolTurn
  BY <1>6, ToolTurnSound
<1>7. CASE SentBack
  BY <1>7, SentBackSound
<1>8. CASE IntentTurn
  BY <1>8, IntentTurnSound
<1>9. CASE EmergencyCompress
  <2>1. Compacted(msgs, msgs')
    BY <1>9, EmergencyStep
  <2> QED BY <1>9, <2>1, CompressionSound DEF EmergencyCompress, Running
<1>10. CASE NextTurn
  BY <1>10 DEF Sound, Vectors, Registers, Running, NextTurn
<1>11. CASE Finish
  BY <1>11, FinishSound
<1>12. CASE Stop
  BY <1>12, StopSound
<1>13. CASE Fail
  BY <1>13, FailSound
<1>14. CASE Crash
  BY <1>14, CrashSound
<1>15. CASE Recover
  BY <1>15, RecoverSound
<1>16. CASE Compact
  BY <1>16, CompactSound
<1>17. CASE CompactSummary
  BY <1>17, CompactSummarySound
<1>18. CASE UNCHANGED vars
  BY <1>18 DEF Sound, Vectors, Registers, vars
<1> QED BY <1>1, <1>2, <1>3, <1>4, <1>5, <1>6, <1>7, <1>8, <1>9, <1>10, <1>11, <1>12, <1>13,
           <1>14, <1>15, <1>16, <1>17, <1>18 DEF Next

LEMMA AlwaysSound == Spec => []Sound
<1>1. Init => Sound
  BY InitSound
<1>2. Sound /\ [Next]_vars => Sound'
  BY NextSound
<1> QED BY <1>1, <1>2, PTL DEF Spec

(***************************************************************************)
(* The log, the vector and the checkpoint are sequences of messages, and   *)
(* the vector of every run begins with the system prompt: compression      *)
(* never drops or trims it, and what a run resumes from has it.            *)
(***************************************************************************)
THEOREM TranscriptTypes == Spec => []TypeOK
<1>1. Sound => TypeOK
  BY SoundTypes
<1> QED BY <1>1, AlwaysSound, PTL

(***************************************************************************)
(* /compact leaves a log whose calls and results are in pairs, whatever    *)
(* log it was given: one a run, a stop, an earlier /compact or a recovery  *)
(* left.                                                                   *)
(***************************************************************************)
THEOREM CompactLeavesPairs == Spec => CompactPairs
<1>1. Sound /\ [Next]_vars =>
        [counts'.compacts # counts.compacts =>
           \A i \in DOMAIN store' :
             /\ store'[i].uses \subseteq ResultsAfter(store', i)
             /\ store'[i].results \subseteq
                  (IF i > 1 /\ store'[i - 1].role = "assistant" THEN store'[i - 1].uses
                   ELSE {})]_vars
  <2> SUFFICES ASSUME Sound, [Next]_vars, counts'.compacts # counts.compacts
               PROVE  Paired(store')
    BY DEF Paired
  <2>1. Compact
    <3>1. counts \in Counters
      BY DEF Sound, Registers
    <3>2. Compact \/ counts' = counts \/ Count("runs", MaxRuns) \/ Count("hints", MaxHints)
            \/ Count("compressions", MaxCompressions)
            \/ Count("crashes", MaxCrashes) \/ Count("recoveries", MaxRecoveries)
      BY DEF Next, StartRun, Resume, Intervene, Proceed, CompressTurn, ToolTurn, SentBack,
             IntentTurn, EmergencyCompress, NextTurn, Finish, Stop, Fail, Crash, Recover,
             CompactSummary, EndRun, vars
    <3> QED BY <3>1, <3>2 DEF Count, Counters
  <2> QED BY <2>1, CompactSound
<1> QED BY <1>1, AlwaysSound, PTL DEF Spec, CompactPairs

LEMMA OnlyCompressions ==
  ASSUME Sound, [Next]_vars, counts'.compressions # counts.compressions
  PROVE  Compacted(msgs, msgs')
<1>1. counts \in Counters
  BY DEF Sound, Registers
<1>2. CompressTurn \/ EmergencyCompress
        \/ counts' = counts \/ Count("runs", MaxRuns) \/ Count("hints", MaxHints)
        \/ Count("compacts", MaxCompacts)
        \/ Count("crashes", MaxCrashes) \/ Count("recoveries", MaxRecoveries)
  BY DEF Next, StartRun, Resume, Intervene, Proceed, ToolTurn, SentBack,
         IntentTurn, NextTurn, Finish, Stop, Fail, Crash, Recover,
         Compact, CompactSummary, EndRun, vars
<1>3. CompressTurn \/ EmergencyCompress
  BY <1>1, <1>2 DEF Count, Counters
<1> QED BY <1>3, CompressTurnStep, EmergencyStep

(***************************************************************************)
(* Compression never takes the last min_messages messages or, once there   *)
(* are more than tail_turns of them, the last user turns, and the very     *)
(* last message keeps its results.  min_messages is at least 3: were it    *)
(* less, the first message left could be the call of the last one, and     *)
(* sanitize_leading_message would take it.                                 *)
(***************************************************************************)
THEOREM CompressionKeepsRecent == ASSUME MinMessages >= 3 PROVE Spec => RecentKept
<1>1. Sound /\ [Next]_vars =>
        [counts'.compressions # counts.compressions =>
           /\ UNION {msgs[i].of : i \in {j \in Recent(msgs) : Says(msgs, j)}}
                \subseteq Of(build_request_messages(msgs'))
           /\ LET last == Len(msgs) IN
              (msgs[last].role = "user" /\ last > 1 /\ msgs[last - 1].role = "assistant") =>
                Last(msgs').results = msgs[last].results \cap msgs[last - 1].uses]_vars
  <2> SUFFICES ASSUME Sound, [Next]_vars, counts'.compressions # counts.compressions
               PROVE  /\ UNION {msgs[i].of : i \in {j \in Recent(msgs) : Says(msgs, j)}}
                           \subseteq Of(build_request_messages(msgs'))
                      /\ LET last == Len(msgs) IN
                         (msgs[last].role = "user" /\ last > 1 /\ msgs[last - 1].role = "assistant") =>
                           Last(msgs').results = msgs[last].results \cap msgs[last - 1].uses
    OBVIOUS
  <2>1. Compacted(msgs, msgs')
    BY OnlyCompressions
  <2>2. Latest(msgs, msgs')
    BY <2>1 DEF Compacted
  <2>3. Last(msgs') = msgs'[Len(msgs')]
    BY DEF Last
  <2> QED BY <2>1, <2>2, <2>3 DEF Compacted, Latest
<1> QED BY <1>1, AlwaysSound, PTL DEF Spec, RecentKept

(***************************************************************************)
(* Unless a summary fails, the model forgets by trimming only: what a      *)
(* compression drops is in the new summary, which carries on what the      *)
(* prior ones told, and so over any number of compressions.  Left out are  *)
(* the messages without text that stay, which may lose all their blocks,   *)
(* and the prior summary when no message is dropped.                       *)
(***************************************************************************)
THEOREM OnlyTrimsForgetHolds == ASSUME ~Lossy PROVE Spec => OnlyTrimsForget
<1>1. Sound /\ [Next]_vars =>
        [counts'.compressions # counts.compressions =>
           Of(msgs) \subseteq Of(msgs') \cup Wordless(msgs, msgs')
             \cup (IF Body(msgs') < Body(msgs) THEN {} ELSE Summaries(msgs))]_vars
  <2> SUFFICES ASSUME Sound, [Next]_vars, counts'.compressions # counts.compressions
               PROVE  Remembers(msgs, msgs')
    BY DEF Remembers
  <2>1. Orderly(msgs)
    BY DEF Sound, Vectors
  <2> QED BY <2>1, OnlyCompressions DEF Compacted
<1> QED BY <1>1, AlwaysSound, PTL DEF Spec, OnlyTrimsForget

-----------------------------------------------------------------------------
(* The chat-completions form of a request                                  *)

LEMMA IdsFinite == \A S \in SUBSET Ids : IsFiniteSet(S) /\ Cardinality(S) \in Nat
<1>1. IsFiniteSet(Events)
  <2>1. MaxEvents \in Int /\ 1 \in Int
    BY ParametersAssumption
  <2> QED BY <2>1, FS_Interval DEF Events
<1>2. IsFiniteSet(Calls \cup {"respond"})
  BY ParametersAssumption, FS_AddElement
<1>3. IsFiniteSet(Ids)
  BY <1>1, <1>2, FS_Product DEF Ids
<1> QED BY <1>3, FS_Subset, FS_CardinalityType

\* SetToSeq lists a set.
LEMMA SeqOfSet ==
  ASSUME NEW S, IsFiniteSet(S)
  PROVE  /\ SetToSeq(S) \in [1..Cardinality(S) -> S]
         /\ \A u \in S : \E k \in 1..Cardinality(S) : SetToSeq(S)[k] = u
<1>1. PICK n \in Nat : n = Cardinality(S)
  BY FS_CardinalityType
<1>2. PICK f : f \in Bijection(1..n, S)
  BY <1>1, FS_CardinalityType DEF ExistsBijection
<1>3. f \in [1..n -> S] /\ IsInjective(f)
  BY <1>2 DEF Bijection, Injection
<1>4. PICK q : q = SetToSeq(S)
  OBVIOUS
<1>5. q \in [1..n -> S] /\ IsInjective(q)
  BY <1>1, <1>3, <1>4 DEF SetToSeq
<1>6. q \in Injection(1..n, S)
  BY <1>5 DEF Injection
<1>7. IsFiniteSet(1..n) /\ Cardinality(1..n) = n
  BY <1>1, FS_Interval
<1>8. q \in Surjection(1..n, S)
  BY <1>1, <1>6, <1>7, FS_Injection
<1>9. \A u \in S : \E k \in 1..n : q[k] = u
  BY <1>8 DEF Surjection
<1> QED BY <1>1, <1>4, <1>5, <1>9

Items == [role : {"assistant", "user", "tool"}, calls : SUBSET Ids, id : Ids \cup {NoCall}]

\* t is a tool item for each of ids.
ToolsFor(ids, t) ==
  /\ t \in Seq(Items) /\ Len(t) = Cardinality(ids) /\ Cardinality(ids) \in Nat
  /\ \A k \in 1..Len(t) : t[k].role = "tool" /\ t[k].id \in ids
  /\ \A u \in ids : \E k \in 1..Len(t) : t[k].id = u

LEMMA ToolsAre ==
  ASSUME NEW ids \in SUBSET Ids
  PROVE  ToolsFor(ids, Tools(ids))
<1>1. IsFiniteSet(ids) /\ Cardinality(ids) \in Nat
  BY IdsFinite
<1>2. PICK n \in Nat : n = Cardinality(ids)
  BY <1>1
<1>3. PICK q : q = SetToSeq(ids)
  OBVIOUS
<1>4. q \in [1..n -> ids] /\ \A u \in ids : \E k \in 1..n : q[k] = u
  BY <1>1, <1>2, <1>3, SeqOfSet
<1>5. PICK t : t = Tools(ids)
  OBVIOUS
<1>6. t = [k \in 1..n |-> Item("tool", {}, q[k])]
  BY <1>2, <1>3, <1>5 DEF Tools
<1>7. ASSUME NEW k \in 1..n
      PROVE  t[k] \in Items /\ t[k].role = "tool" /\ t[k].id = q[k] /\ q[k] \in ids
  BY <1>4, <1>6 DEF Items, Item
<1>8. t \in Seq(Items) /\ Len(t) = n
  BY <1>6, <1>7
<1>9. \A u \in ids : \E k \in 1..Len(t) : t[k].id = u
  BY <1>4, <1>7, <1>8
<1> QED BY <1>2, <1>5, <1>7, <1>8, <1>9 DEF ToolsFor

\* The calls of the i-th message that go out, and those of them the next
\* message answers.
Sent(s, i) == Objects(s[i].uses)
Answered(s, i) == Sent(s, i) \cap ResultsAfter(s, i)

Piece(s, i) == IF s[i].role = "assistant" THEN FromAssistant(s, i) ELSE FromUser(s, i)

\* An assistant's piece is its item and the made-up results; another's is the
\* results of the calls just declared and the text.
PieceIs(s, i, g) ==
  /\ g \in Seq(Items) /\ Len(g) \in Nat
  /\ s[i].role = "assistant" =>
       /\ Len(g) = 1 + Cardinality(Sent(s, i) \ ResultsAfter(s, i))
       /\ g[1].role = "assistant" /\ g[1].calls = Sent(s, i)
       /\ \A k \in 2..Len(g) : g[k].role = "tool" /\ g[k].id \in Sent(s, i) \ ResultsAfter(s, i)
       /\ \A u \in Sent(s, i) \ ResultsAfter(s, i) : \E k \in 2..Len(g) : g[k].id = u
  /\ s[i].role # "assistant" =>
       LET r == s[i].results \cap DeclaredBefore(s, i) IN
       /\ Cardinality(r) \in Nat /\ Cardinality(r) <= Len(g)
       /\ \A k \in 1..Cardinality(r) : g[k].role = "tool" /\ g[k].id \in r
       /\ \A u \in r : \E k \in 1..Cardinality(r) : g[k].id = u
       /\ \A k \in Cardinality(r) + 1 .. Len(g) : g[k].role = "user"

LEMMA DeclaredTyped ==
  ASSUME NEW s \in Seq(Message), NEW i \in 1..Len(s)
  PROVE  /\ Sent(s, i) \in SUBSET Ids /\ ResultsAfter(s, i) \in SUBSET Ids
         /\ DeclaredBefore(s, i) \in SUBSET Ids /\ s[i].results \in SUBSET Ids
<1>1. Len(s) \in Nat /\ \A j \in 1..Len(s) : s[j].uses \in SUBSET Ids /\ s[j].results \in SUBSET Ids
  BY SeqTyped
<1>2. Sent(s, i) \in SUBSET Ids
  BY <1>1 DEF Sent, Objects
<1>3. ResultsAfter(s, i) \in SUBSET Ids
  <2>1. i < Len(s) => i + 1 \in 1..Len(s)
    BY <1>1
  <2> QED BY <1>1, <2>1 DEF ResultsAfter
<1>4. DeclaredBefore(s, i) \in SUBSET Ids
  <2>1. i > 1 => i - 1 \in 1..Len(s)
    BY <1>1
  <2> QED BY <1>1, <2>1 DEF DeclaredBefore, Objects
<1> QED BY <1>1, <1>2, <1>3, <1>4

LEMMA ItemsTyped ==
  /\ Item("user", {}, NoCall) \in Items /\ Item("user", {}, NoCall).role = "user"
  /\ \A ids \in SUBSET Ids : /\ Item("assistant", ids, NoCall) \in Items
                             /\ Item("assistant", ids, NoCall).role = "assistant"
                             /\ Item("assistant", ids, NoCall).calls = ids
BY DEF Item, Items

LEMMA PiecesAre ==
  ASSUME NEW s \in Seq(Message), NEW i \in 1..Len(s)
  PROVE  PieceIs(s, i, Piece(s, i))
<1>1. PICK u \in SUBSET Ids : u = Sent(s, i)
  BY DeclaredTyped
<1>2. PICK a \in SUBSET Ids : a = u \ ResultsAfter(s, i)
  OBVIOUS
<1>3. PICK r \in SUBSET Ids : r = s[i].results \cap DeclaredBefore(s, i)
  BY DeclaredTyped
<1>4. PICK g : g = Piece(s, i)
  OBVIOUS
<1>5. CASE s[i].role = "assistant"
  <2>1. PICK m \in Items : m = Item("assistant", u, NoCall) /\ m.role = "assistant" /\ m.calls = u
    BY ItemsTyped
  <2>2. PICK t : t = Tools(a)
    OBVIOUS
  <2>3. ToolsFor(a, t)
    BY <2>2, ToolsAre
  <2>4. g = <<m>> \o t
    BY <1>1, <1>2, <1>4, <1>5, <2>1, <2>2 DEF Piece, FromAssistant, Sent
  <2>5. /\ t \in Seq(Items) /\ Len(t) = Cardinality(a) /\ Cardinality(a) \in Nat
        /\ \A k \in 1..Len(t) : t[k].role = "tool" /\ t[k].id \in a
        /\ \A v \in a : \E k \in 1..Len(t) : t[k].id = v
    BY <2>3 DEF ToolsFor
  <2>6. /\ g \in Seq(Items) /\ Len(g) = 1 + Len(t) /\ g[1] = m
        /\ \A k \in 1..Len(t) : g[1 + k] = t[k]
    <3>1. <<m>> \in Seq(Items) /\ Len(<<m>>) = 1 /\ <<m>>[1] = m
      OBVIOUS
    <3>2. PICK o : o = <<m>>
      OBVIOUS
    <3>3. /\ o \o t \in Seq(Items) /\ Len(o \o t) = 1 + Len(t)
          /\ \A p \in 1..1 : (o \o t)[p] = o[p]
          /\ \A p \in 1..Len(t) : (o \o t)[1 + p] = t[p]
      BY <2>5, <3>1, <3>2, ConcatAt
    <3> QED BY <2>4, <3>1, <3>2, <3>3
  <2>7. ASSUME NEW k \in 2..Len(g) PROVE g[k].role = "tool" /\ g[k].id \in a
    <3>1. k - 1 \in 1..Len(t) /\ 1 + (k - 1) = k
      BY <2>5, <2>6
    <3>2. g[k] = t[k - 1]
      BY <2>6, <3>1
    <3> QED BY <2>5, <3>1, <3>2
  <2>8. ASSUME NEW v \in a PROVE \E k \in 2..Len(g) : g[k].id = v
    <3>1. PICK k \in 1..Len(t) : t[k].id = v
      BY <2>5
    <3>2. 1 + k \in 2..Len(g) /\ g[1 + k] = t[k]
      BY <2>5, <2>6
    <3> QED BY <3>1, <3>2
  <2>9. Len(g) \in Nat
    BY <2>5, <2>6
  <2> QED BY <1>1, <1>2, <1>4, <1>5, <2>1, <2>5, <2>6, <2>7, <2>8, <2>9 DEF PieceIs
<1>6. CASE s[i].role # "assistant"
  <2>1. PICK t : t = Tools(r)
    OBVIOUS
  <2>2. ToolsFor(r, t)
    BY <2>1, ToolsAre
  <2>3. PICK m \in Items : m = Item("user", {}, NoCall) /\ m.role = "user"
    BY ItemsTyped
  <2>4. PICK o : o = IF s[i].text THEN <<m>> ELSE <<>>
    OBVIOUS
  <2>5. o \in Seq(Items) /\ \A k \in 1..Len(o) : o[k].role = "user"
    <3>1. <<m>> \in Seq(Items) /\ Len(<<m>>) = 1 /\ <<m>>[1] = m
      OBVIOUS
    <3>2. \A k \in 1..1 : k = 1
      OBVIOUS
    <3>3. CASE s[i].text
      <4>1. o \in Seq(Items) /\ Len(o) = 1 /\ o[1].role = "user"
        BY <2>3, <2>4, <3>1, <3>3
      <4> QED BY <3>2, <4>1
    <3>4. CASE ~s[i].text
      BY <2>4, <3>4
    <3> QED BY <3>3, <3>4
  <2>6. g = t \o o
    BY <1>3, <1>4, <1>6, <2>1, <2>3, <2>4 DEF Piece, FromUser
  <2>7. /\ t \in Seq(Items) /\ Len(t) = Cardinality(r) /\ Cardinality(r) \in Nat
        /\ \A k \in 1..Len(t) : t[k].role = "tool" /\ t[k].id \in r
        /\ \A v \in r : \E k \in 1..Len(t) : t[k].id = v
    BY <2>2 DEF ToolsFor
  <2>8. /\ g \in Seq(Items) /\ Len(g) = Len(t) + Len(o) /\ Len(o) \in Nat
        /\ \A p \in 1..Len(t) : g[p] = t[p]
        /\ \A p \in 1..Len(o) : g[Len(t) + p] = o[p]
    BY <2>5, <2>6, <2>7, ConcatAt, SMTT(40)
  <2>9. ASSUME NEW k \in Len(t) + 1 .. Len(g) PROVE g[k].role = "user"
    <3>1. k - Len(t) \in 1..Len(o) /\ Len(t) + (k - Len(t)) = k
      BY <2>7, <2>8
    <3>2. g[k] = o[k - Len(t)]
      BY <2>8, <3>1
    <3> QED BY <2>5, <3>1, <3>2
  <2>10. Len(t) <= Len(g) /\ Len(g) \in Nat
    BY <2>7, <2>8
  <2>11. PICK c \in Nat : c = Len(t) /\ c = Cardinality(r)
    BY <2>7
  <2>12. /\ c <= Len(g)
         /\ \A k \in 1..c : g[k].role = "tool" /\ g[k].id \in r
         /\ \A v \in r : \E k \in 1..c : g[k].id = v
         /\ \A k \in c + 1 .. Len(g) : g[k].role = "user"
    BY <2>7, <2>8, <2>9, <2>10, <2>11
  <2>13. g \in Seq(Items) /\ Len(g) \in Nat
    BY <2>8, <2>10
  <2>14. PieceIs(s, i, g)
    BY <1>3, <1>6, <2>11, <2>12, <2>13 DEF PieceIs
  <2> QED BY <1>4, <2>14
<1> QED BY <1>4, <1>5, <1>6

\* w is the pieces g of the messages of s, the i-th one after at[i-1] items.
Request(s, w, g, at) ==
  /\ g \in Seq(Seq(Items)) /\ Len(g) = Len(s) /\ Laid(g, w, at)
  /\ \A i \in 1..Len(s) : PieceIs(s, i, g[i])

LEMMA RequestIs ==
  ASSUME NEW s \in Seq(Message)
  PROVE  /\ msgs_claude2oai(s) \in Seq(Items)
         /\ \E g, at : Request(s, msgs_claude2oai(s), g, at)
<1>1. Len(s) \in Nat /\ DOMAIN s = 1..Len(s)
  BY SeqTyped
<1>2. PICK g : g = [i \in 1..Len(s) |-> Piece(s, i)]
  OBVIOUS
<1>3. \A i \in 1..Len(s) : PieceIs(s, i, g[i])
  BY <1>2, PiecesAre
<1>4. g \in Seq(Seq(Items)) /\ Len(g) = Len(s)
  <2>1. \A i \in 1..Len(s) : g[i] \in Seq(Items)
    BY <1>3 DEF PieceIs
  <2>2. g = [i \in 1..Len(s) |-> g[i]]
    BY <1>2
  <2> QED BY <1>1, <2>1, <2>2
<1>5. msgs_claude2oai(s) = FlattenSeq(g)
  BY <1>1, <1>2 DEF msgs_claude2oai, Piece
<1>6. FlattenSeq(g) \in Seq(Items) /\ \E at : Laid(g, FlattenSeq(g), at)
  BY <1>4, Flattened
<1> QED BY <1>3, <1>4, <1>5, <1>6 DEF Request

\* The piece f is in w, after the first b items and up to the e-th.
Found(w, f, b) == \A k \in 1..Len(f) : w[b + k] = f[k]
Within(w, f, b, e) ==
  b \in Nat /\ e \in Nat /\ Len(f) \in Nat /\ Len(w) \in Nat /\ e = b + Len(f) /\ e <= Len(w)

LEMMA PlacesAre ==
  ASSUME NEW s \in Seq(Message), NEW w \in Seq(Items), NEW g, NEW at, Request(s, w, g, at),
         NEW i \in 1..Len(s)
  PROVE  Within(w, g[i], at[i-1], at[i]) /\ Found(w, g[i], at[i-1])
<1>1. /\ g \in Seq(Seq(Items)) /\ Len(g) = Len(s) /\ Laid(g, w, at)
  BY DEF Request
<1>2. Len(s) \in Nat /\ \A k \in 1..Len(g) : Len(g[k]) \in Nat
  BY <1>1, SeqTyped, PiecesTyped
<1>3. Starts(g, at) /\ Len(w) = at[Len(g)]
  BY <1>1 DEF Laid
<1>4. /\ at \in [0..Len(g) -> Nat] /\ at[i] = at[i-1] + Len(g[i])
  BY <1>1, <1>3 DEF Starts
<1>5. i - 1 \in 0..Len(g) /\ i \in 0..Len(g) /\ Len(g) \in i..Len(g) /\ i \in 1..Len(g)
  BY <1>1, <1>2
<1>6. at[i] <= at[Len(g)]
  BY <1>1, <1>3, <1>5, StartsInOrder
<1>7. \A k \in 1..Len(g[i]) : w[at[i-1] + k] = g[i][k]
  BY <1>1, <1>5 DEF Laid
<1>8. at[i-1] \in Nat /\ at[i] \in Nat /\ Len(w) \in Nat /\ Len(g[i]) \in Nat
  BY <1>2, <1>3, <1>4, <1>5, SMTT(40)
<1> QED BY <1>3, <1>4, <1>6, <1>7, <1>8 DEF Within, Found

LEMMA FoundAt ==
  ASSUME NEW w, NEW f, NEW b, Found(w, f, b), NEW k \in 1..Len(f), NEW j, j = b + k
  PROVE  w[j] = f[k]
BY DEF Found

Split(U, R, a, b, c) ==
  /\ a = Cardinality(U \ R) /\ b = Cardinality(U \cap R)
  /\ c = Cardinality(U) /\ a + b = c

LEMMA Parts ==
  ASSUME NEW U \in SUBSET Ids, NEW R
  PROVE  \E a \in Nat : \E b \in Nat : \E c \in Nat : Split(U, R, a, b, c)
<1>1. IsFiniteSet(U) /\ U \ R \in SUBSET Ids /\ U \cap R \in SUBSET Ids
  BY IdsFinite
<1>2. Cardinality(U \ R) \in Nat /\ Cardinality(U \cap R) \in Nat /\ Cardinality(U) \in Nat
  BY <1>1, IdsFinite
<1>3. Cardinality(U \ R) = Cardinality(U) - Cardinality(U \cap R)
  BY <1>1, FS_Difference
<1> QED BY <1>2, <1>3 DEF Split

\* The items from b + 1 to e are a result for each of ids, and no other.
Results(w, ids, b, e) ==
  /\ \A j \in b + 1 .. e : w[j].role = "tool" /\ w[j].id \in ids
  /\ \A u \in ids : \E j \in b + 1 .. e : w[j].id = u

LEMMA ResultsJoin ==
  ASSUME NEW w, NEW U, NEW V, NEW b \in Nat, NEW m \in Nat, NEW e \in Nat, b <= m, m <= e,
         Results(w, U, b, m), Results(w, V, m, e)
  PROVE  Results(w, U \cup V, b, e)
<1>1. \A j \in b + 1 .. e : j \in b + 1 .. m \/ j \in m + 1 .. e
  OBVIOUS
<1>2. \A j \in b + 1 .. m : j \in b + 1 .. e
  OBVIOUS
<1>3. \A j \in m + 1 .. e : j \in b + 1 .. e
  OBVIOUS
<1>4. ASSUME NEW j \in b + 1 .. e PROVE w[j].role = "tool" /\ w[j].id \in U \cup V
  BY <1>1 DEF Results
<1>5. ASSUME NEW u \in U \cup V PROVE \E j \in b + 1 .. e : w[j].id = u
  <2>1. (\E j \in b + 1 .. m : w[j].id = u) \/ (\E j \in m + 1 .. e : w[j].id = u)
    BY DEF Results
  <2> QED BY <1>2, <1>3, <2>1
<1> QED BY <1>4, <1>5 DEF Results

\* A run of results in a piece is one in the request.
LEMMA ResultsMoved ==
  ASSUME NEW w, NEW f, NEW ids, NEW x \in Nat, NEW b \in Nat, NEW e \in Nat,
         Len(f) \in Nat, e <= Len(f), Found(w, f, x), Results(f, ids, b, e)
  PROVE  Results(w, ids, x + b, x + e)
<1>1. ASSUME NEW j \in (x + b) + 1 .. x + e PROVE w[j].role = "tool" /\ w[j].id \in ids
  <2>1. PICK k : k = j - x
    OBVIOUS
  <2>2. k \in b + 1 .. e /\ k \in 1..Len(f) /\ j = x + k
    BY <2>1
  <2>3. w[j] = f[k]
    BY <2>2, FoundAt
  <2> QED BY <2>2, <2>3 DEF Results
<1>2. ASSUME NEW u \in ids PROVE \E j \in (x + b) + 1 .. x + e : w[j].id = u
  <2>1. PICK k \in b + 1 .. e : f[k].id = u
    BY DEF Results
  <2>2. PICK j : j = x + k
    OBVIOUS
  <2>3. k \in 1..Len(f) /\ j \in (x + b) + 1 .. x + e
    BY <2>2
  <2>4. w[j] = f[k]
    BY <2>2, <2>3, FoundAt
  <2> QED BY <2>1, <2>3, <2>4
<1> QED BY <1>1, <1>2 DEF Results

LEMMA AssistantPiece ==
  ASSUME NEW s \in Seq(Message), NEW i \in 1..Len(s), s[i].role = "assistant",
         NEW f, PieceIs(s, i, f),
         NEW a \in Nat, a = Cardinality(Sent(s, i) \ ResultsAfter(s, i))
  PROVE  /\ Len(f) = 1 + a /\ f[1].role = "assistant" /\ f[1].calls = Sent(s, i)
         /\ Results(f, Sent(s, i) \ ResultsAfter(s, i), 1, 1 + a)
<1>1. PICK d : d = Sent(s, i) \ ResultsAfter(s, i)
  OBVIOUS
<1>2. /\ Len(f) = 1 + a /\ f[1].role = "assistant" /\ f[1].calls = Sent(s, i)
      /\ \A k \in 2..Len(f) : f[k].role = "tool" /\ f[k].id \in d
      /\ \A u \in d : \E k \in 2..Len(f) : f[k].id = u
  BY <1>1 DEF PieceIs
<1>3. 2 .. Len(f) = 1 + 1 .. 1 + a
  BY <1>2
<1>4. Results(f, d, 1, 1 + a)
  BY <1>2, <1>3 DEF Results
<1> QED BY <1>1, <1>2, <1>4

LEMMA OtherPiece ==
  ASSUME NEW s \in Seq(Message), NEW i \in 1..Len(s), s[i].role # "assistant",
         NEW f, PieceIs(s, i, f), NEW r, r = s[i].results \cap DeclaredBefore(s, i),
         NEW b \in Nat, b = Cardinality(r)
  PROVE  /\ b <= Len(f) /\ Results(f, r, 0, b)
         /\ \A k \in b + 1 .. Len(f) : f[k].role = "user"
<1>1. /\ b <= Len(f)
      /\ \A k \in 1..b : f[k].role = "tool" /\ f[k].id \in r
      /\ \A u \in r : \E k \in 1..b : f[k].id = u
      /\ \A k \in b + 1 .. Len(f) : f[k].role = "user"
  BY DEF PieceIs
<1>2. 0 + 1 .. b = 1..b
  OBVIOUS
<1>3. Results(f, r, 0, b)
  BY <1>1, <1>2 DEF Results
<1> QED BY <1>1, <1>3

\* The calls of an assistant and, after them, a result for each.
Block(s, w, p, i) ==
  LET c == Cardinality(Sent(s, i)) IN
  /\ p \in 1..Len(w) /\ c \in Nat /\ p + c <= Len(w)
  /\ w[p].role = "assistant" /\ w[p].calls = Sent(s, i)
  /\ Results(w, Sent(s, i), p, p + c)

LEMMA BlocksAre ==
  ASSUME NEW s \in Seq(Message), NEW w \in Seq(Items), NEW g, NEW at, Request(s, w, g, at),
         NEW i \in 1..Len(s), s[i].role = "assistant"
  PROVE  Block(s, w, at[i-1] + 1, i)
<1>1. PICK U \in SUBSET Ids : U = Sent(s, i)
  BY DeclaredTyped
<1>2. PICK R \in SUBSET Ids : R = ResultsAfter(s, i)
  BY DeclaredTyped
<1>0. PICK a \in Nat : \E b \in Nat : \E c \in Nat : Split(U, R, a, b, c)
  BY Parts
<1>20. PICK b \in Nat : \E c \in Nat : Split(U, R, a, b, c)
  BY <1>0
<1>21. PICK c \in Nat : Split(U, R, a, b, c)
  BY <1>20
<1>3. a = Cardinality(U \ R) /\ b = Cardinality(U \cap R) /\ c = Cardinality(U)
  BY <1>21 DEF Split
<1>18. a + b = c
  BY <1>21 DEF Split
<1>4. PICK f : f = g[i]
  OBVIOUS
<1>5. PICK x : x = at[i-1]
  OBVIOUS
<1>6. PICK p : p = x + 1
  OBVIOUS
<1>7. Within(w, f, x, at[i]) /\ Found(w, f, x)
  BY <1>4, <1>5, PlacesAre
<1>8. PieceIs(s, i, f)
  BY <1>4 DEF Request
<1>9. /\ Len(f) = 1 + a /\ f[1].role = "assistant" /\ f[1].calls = U
      /\ Results(f, U \ R, 1, 1 + a)
  <2>1. a = Cardinality(Sent(s, i) \ ResultsAfter(s, i))
    BY <1>1, <1>2, <1>3
  <2> QED BY <1>1, <1>2, <1>8, <2>1, AssistantPiece
<1>10. PICK l \in Nat : l = Len(w)
  BY <1>7 DEF Within
<1>11. x \in Nat /\ p \in Nat /\ p >= 1 /\ at[i] = p + a /\ p + a <= l
  <2>1. Within(w, f, x, at[i]) /\ Len(f) = 1 + a
    BY <1>7, <1>9
  <2> QED BY <1>6, <1>10, <2>1 DEF Within
<1>12. w[p].role = "assistant" /\ w[p].calls = U
  <2>1. 1 \in 1..Len(f)
    BY <1>9
  <2>2. w[p] = f[1]
    BY <1>6, <1>7, <2>1, FoundAt
  <2> QED BY <1>9, <2>2
<1>13. Results(w, U \ R, p, p + a)
  <2>1. 1 + a <= Len(f) /\ Len(f) \in Nat /\ 1 \in Nat /\ 1 + a \in Nat
    BY <1>9
  <2>2. Results(w, U \ R, x + 1, x + (1 + a))
    BY <1>7, <1>9, <1>11, <2>1, ResultsMoved
  <2>3. x + (1 + a) = p + a
    BY <1>6, <1>11
  <2> QED BY <1>6, <2>2, <2>3
<1>14. p + c <= l /\ Results(w, U \cap R, p + a, p + c)
  <2>1. CASE ~(i < Len(s) /\ s[i + 1].role = "user")
    <3>1. R = {}
      BY <1>2, <2>1 DEF ResultsAfter
    <3>2. b = 0 /\ U \cap R = {}
      BY <1>3, <3>1, FS_EmptySet
    <3>3. a = c
      BY <1>18, <3>2
    <3>4. \A j \in (p + a) + 1 .. p + c : FALSE
      BY <1>11, <3>3
    <3> QED BY <1>11, <3>2, <3>3, <3>4 DEF Results
  <2>2. CASE i < Len(s) /\ s[i + 1].role = "user"
    <3>1. PICK n \in 1..Len(s) : n = i + 1 /\ n - 1 = i /\ n > 1
      BY <2>2, SeqTyped
    <3>2. R = s[n].results /\ s[n].role = "user"
      BY <1>2, <2>2, <3>1 DEF ResultsAfter
    <3>3. DeclaredBefore(s, n) = U
      BY <1>1, <3>1 DEF DeclaredBefore, Sent
    <3>4. U \cap R = s[n].results \cap DeclaredBefore(s, n)
      BY <3>2, <3>3
    <3>5. PICK h : h = g[n]
      OBVIOUS
    <3>6. PieceIs(s, n, h)
      BY <3>5 DEF Request
    <3>7. b <= Len(h) /\ Results(h, U \cap R, 0, b)
      BY <1>3, <3>2, <3>4, <3>6, OtherPiece
    <3>8. Within(w, h, at[i], at[n]) /\ Found(w, h, at[i])
      <4>1. Within(w, g[n], at[n-1], at[n]) /\ Found(w, g[n], at[n-1])
        BY PlacesAre
      <4> QED BY <3>1, <3>5, <4>1
    <3>9. Len(h) \in Nat /\ p + a \in Nat /\ (p + a) + Len(h) <= l
      <4>1. Within(w, h, p + a, at[n])
        BY <1>11, <3>8
      <4> QED BY <1>10, <4>1 DEF Within
    <3>10. p + c <= l /\ (p + a) + b = p + c
      <4>1. b <= Len(h)
        BY <3>7
      <4> QED BY <1>11, <1>18, <3>9, <4>1
    <3>11. Results(w, U \cap R, (p + a) + 0, (p + a) + b)
      <4>1. Found(w, h, p + a)
        BY <1>11, <3>8
      <4> QED BY <3>7, <3>9, <4>1, ResultsMoved
    <3>12. (p + a) + 0 = p + a
      BY <3>9
    <3> QED BY <3>10, <3>11, <3>12
  <2> QED BY <2>1, <2>2
<1>15. Results(w, U, p, p + c)
  <2>1. PICK m \in Nat : m = p + a
    BY <1>11
  <2>2. PICK e \in Nat : e = p + c
    BY <1>11
  <2>3. p <= m /\ m <= e
    BY <1>11, <1>18, <2>1, <2>2
  <2>4. Results(w, (U \ R) \cup (U \cap R), p, e)
    BY <1>11, <1>13, <1>14, <2>1, <2>2, <2>3, ResultsJoin
  <2>5. (U \ R) \cup (U \cap R) = U
    OBVIOUS
  <2> QED BY <2>2, <2>4, <2>5
<1>16. p \in 1..Len(w) /\ p + c <= Len(w)
  BY <1>10, <1>11, <1>14
<1>17. Block(s, w, p, i)
  BY <1>1, <1>3, <1>12, <1>15, <1>16 DEF Block
<1> QED BY <1>5, <1>6, <1>17

\* An assistant's item is the first of a block, a result is in one.
LEMMA ItemsPlaced ==
  ASSUME NEW s \in Seq(Message), NEW w \in Seq(Items), NEW g, NEW at, Request(s, w, g, at),
         \A k \in 1..Len(s) : s[k].role # "system",
         NEW j \in 1..Len(w), w[j].role # "user"
  PROVE  \E i \in 1..Len(s) :
           /\ s[i].role = "assistant"
           /\ w[j].role = "assistant" => j = at[i-1] + 1
           /\ w[j].role = "tool" =>
                /\ j > at[i-1] + 1
                /\ j <= (at[i-1] + 1) + Cardinality(Sent(s, i))
<1>1. PICK i \in 1..Len(s) : \E k \in 1..Len(g[i]) : j = at[i-1] + k
  <2>1. g \in Seq(Seq(Items)) /\ Len(g) = Len(s) /\ Laid(g, w, at)
    BY DEF Request
  <2>2. PICK S : S = Items
    OBVIOUS
  <2>3. g \in Seq(Seq(S))
    BY <2>1, <2>2, Zenon
  <2>4. \A p \in 1..Len(w) : In(g, at, p)
    BY <2>1, <2>3, LaidIn, Zenon
  <2>5. In(g, at, j)
    BY <2>4, Zenon
  <2> QED BY <2>1, <2>5, Zenon DEF In
<1>2. PICK f : f = g[i]
  OBVIOUS
<1>3. PICK x : x = at[i-1]
  OBVIOUS
<1>4. PICK k \in 1..Len(f) : j = x + k
  BY <1>1, <1>2, <1>3
<1>5. Within(w, f, x, at[i]) /\ Found(w, f, x)
  BY <1>2, <1>3, PlacesAre
<1>6. w[j] = f[k]
  BY <1>4, <1>5, FoundAt
<1>7. x \in Nat /\ Len(f) \in Nat /\ k \in Nat /\ 1 <= k /\ k <= Len(f)
  BY <1>5 DEF Within
<1>8. PieceIs(s, i, f)
  BY <1>2 DEF Request
<1>9. CASE s[i].role = "assistant"
  <2>1. PICK U \in SUBSET Ids : U = Sent(s, i)
    BY DeclaredTyped
  <2>2. PICK a \in Nat : \E b \in Nat : \E c \in Nat : Split(U, ResultsAfter(s, i), a, b, c)
    BY Parts
  <2>3. PICK b \in Nat : \E c \in Nat : Split(U, ResultsAfter(s, i), a, b, c)
    BY <2>2
  <2>4. PICK c \in Nat : Split(U, ResultsAfter(s, i), a, b, c)
    BY <2>3
  <2>5. a + b = c
    BY <2>4 DEF Split
  <2>6. a = Cardinality(Sent(s, i) \ ResultsAfter(s, i)) /\ c = Cardinality(Sent(s, i))
    BY <2>1, <2>4 DEF Split
  <2>7. /\ Len(f) = 1 + a /\ f[1].role = "assistant"
        /\ Results(f, Sent(s, i) \ ResultsAfter(s, i), 1, 1 + a)
    BY <1>8, <1>9, <2>6, AssistantPiece
  <2>8. CASE k = 1
    <3>1. w[j].role = "assistant" /\ j = x + 1
      BY <1>4, <1>6, <2>7, <2>8
    <3> QED BY <1>3, <1>9, <3>1
  <2>9. CASE k # 1
    <3>1. k \in 1 + 1 .. 1 + a
      BY <1>7, <2>7, <2>9
    <3>2. w[j].role = "tool"
      BY <1>6, <2>7, <3>1 DEF Results
    <3>3. j > x + 1 /\ j <= (x + 1) + c
      BY <1>4, <1>7, <2>5, <3>1
    <3> QED BY <1>3, <1>9, <2>6, <3>2, <3>3
  <2> QED BY <2>8, <2>9
<1>10. CASE s[i].role # "assistant"
  <2>1. PICK r : r = s[i].results \cap DeclaredBefore(s, i)
    OBVIOUS
  <2>2. r \in SUBSET Ids
    BY <2>1, DeclaredTyped
  <2>3. PICK d \in Nat : d = Cardinality(r)
    BY <2>2, IdsFinite
  <2>4. /\ d <= Len(f) /\ Results(f, r, 0, d)
        /\ \A m \in d + 1 .. Len(f) : f[m].role = "user"
    BY <1>8, <1>10, <2>1, <2>3, OtherPiece, ZenonT(60)
  <2>5. k \notin d + 1 .. Len(f)
    BY <1>6, <2>4
  <2>6. k <= d /\ k \in 0 + 1 .. d
    BY <1>7, <2>5
  <2>7. w[j].role = "tool"
    BY <1>6, <2>4, <2>6 DEF Results
  <2>8. r # {}
    <3>1. Cardinality({}) = 0
      BY FS_EmptySet
    <3>2. d # 0
      BY <1>7, <2>6
    <3> QED BY <2>3, <3>1, <3>2
  <2>9. i > 1 /\ s[i - 1].role = "assistant"
    BY <2>1, <2>8 DEF DeclaredBefore
  <2>10. PICK o \in 1..Len(s) : o = i - 1 /\ i = o + 1 /\ o < Len(s)
    BY <2>9, SeqTyped
  <2>11. s[i].role = "user"
    BY <1>10, SeqTyped
  <2>12. PICK U \in SUBSET Ids : U = Sent(s, o)
    BY DeclaredTyped
  <2>13. r = U \cap ResultsAfter(s, o)
    BY <2>1, <2>9, <2>10, <2>11, <2>12 DEF DeclaredBefore, ResultsAfter, Sent
  <2>14. PICK a \in Nat : \E b \in Nat : \E c \in Nat : Split(U, ResultsAfter(s, o), a, b, c)
    BY Parts
  <2>15. PICK b \in Nat : \E c \in Nat : Split(U, ResultsAfter(s, o), a, b, c)
    BY <2>14
  <2>16. PICK c \in Nat : Split(U, ResultsAfter(s, o), a, b, c)
    BY <2>15
  <2>17. a + b = c
    BY <2>16 DEF Split
  <2>18. /\ a = Cardinality(Sent(s, o) \ ResultsAfter(s, o)) /\ c = Cardinality(Sent(s, o))
         /\ b = d
    BY <2>3, <2>12, <2>13, <2>16 DEF Split
  <2>19. s[o].role = "assistant" /\ PieceIs(s, o, g[o])
    BY <2>9, <2>10 DEF Request
  <2>20. Len(g[o]) = 1 + a
    BY <2>18, <2>19, AssistantPiece
  <2>21. Within(w, g[o], at[o-1], at[o])
    BY PlacesAre
  <2>22. PICK y \in Nat : y = at[o-1]
    BY <2>21 DEF Within
  <2>23. x = y + (1 + a)
    BY <1>3, <2>10, <2>20, <2>21, <2>22 DEF Within
  <2>24. j > y + 1 /\ j <= (y + 1) + c
    <3>1. k <= b
      BY <2>6, <2>18
    <3> QED BY <1>4, <1>7, <2>17, <2>23, <3>1
  <2> QED BY <2>7, <2>18, <2>19, <2>22, <2>24
<1> QED BY <1>9, <1>10

\* What OaiPaired asks of a request.
Strict(w) ==
  LET block(i) == {j \in i + 1 .. Len(w) : \A k \in i + 1 .. j : w[k].role = "tool"}
      calls == {i \in DOMAIN w : w[i].role = "assistant"}
  IN /\ \A i \in calls : /\ {w[j].id : j \in block(i)} = w[i].calls
                         /\ Cardinality(block(i)) = Cardinality(w[i].calls)
     /\ \A j \in DOMAIN w : w[j].role = "tool" => \E i \in calls : j \in block(i)

LEMMA RequestStrict ==
  ASSUME NEW s \in Seq(Message), \A k \in 1..Len(s) : s[k].role # "system"
  PROVE  Strict(msgs_claude2oai(s))
<1>1. PICK w : w = msgs_claude2oai(s)
  OBVIOUS
<1>2. w \in Seq(Items) /\ \E g, at : Request(s, w, g, at)
  BY <1>1, RequestIs
<1>3. PICK g, at : Request(s, w, g, at)
  BY <1>2
<1>4. Len(w) \in Nat /\ DOMAIN w = 1..Len(w)
  BY <1>2, LenProperties
<1> DEFINE block(i) == {j \in i + 1 .. Len(w) : \A k \in i + 1 .. j : w[k].role = "tool"}
           calls == {i \in DOMAIN w : w[i].role = "assistant"}
           Owns(p, c) == /\ p \in calls /\ c \in Nat /\ p + c <= Len(w)
                         /\ c = Cardinality(w[p].calls)
                         /\ Results(w, w[p].calls, p, p + c)
<1>5. ASSUME NEW i \in 1..Len(s), s[i].role = "assistant"
      PROVE  Owns(at[i-1] + 1, Cardinality(Sent(s, i)))
  <2>1. Block(s, w, at[i-1] + 1, i)
    BY <1>2, <1>3, <1>5, BlocksAre
  <2> QED BY <1>4, <2>1 DEF Block
<1>6. ASSUME NEW p \in calls PROVE \E c : Owns(p, c)
  <2>1. p \in 1..Len(w) /\ w[p].role = "assistant"
    BY <1>4
  <2>2. PICK i \in 1..Len(s) : s[i].role = "assistant" /\ p = at[i-1] + 1
    BY <1>2, <1>3, <2>1, ItemsPlaced
  <2> HIDE DEF Owns
  <2> QED BY <1>5, <2>2
<1>7. ASSUME NEW j \in 1..Len(w), w[j].role = "tool"
      PROVE  \E p \in calls, c \in Nat : Owns(p, c) /\ p < j /\ j <= p + c
  <2>1. PICK i \in 1..Len(s) :
          /\ s[i].role = "assistant"
          /\ j > at[i-1] + 1
          /\ j <= (at[i-1] + 1) + Cardinality(Sent(s, i))
    BY <1>2, <1>3, <1>7, ItemsPlaced
  <2>2. PICK p : p = at[i-1] + 1
    OBVIOUS
  <2>3. PICK c : c = Cardinality(Sent(s, i))
    OBVIOUS
  <2>4. Owns(p, c)
    BY <1>5, <2>1, <2>2, <2>3
  <2>5. p \in calls /\ c \in Nat /\ p \in 1..Len(w)
    BY <1>4, <2>4
  <2>6. p < j /\ j <= p + c
    BY <2>1, <2>2, <2>3, <2>5
  <2> HIDE DEF Owns
  <2> QED BY <2>4, <2>5, <2>6
<1>8. ASSUME NEW p \in calls, NEW c, Owns(p, c)
      PROVE  block(p) = p + 1 .. p + c
  <2>1. p \in 1..Len(w) /\ p \in Nat /\ c \in Nat /\ p + c <= Len(w) /\ w[p].role = "assistant"
    BY <1>4, <1>8
  <2>2. \A j \in p + 1 .. p + c : w[j].role = "tool"
    BY <1>8 DEF Results
  <2>3. ASSUME NEW j \in p + 1 .. p + c PROVE j \in block(p)
    <3>1. \A k \in p + 1 .. j : k \in p + 1 .. p + c
      BY <2>1
    <3>2. j \in p + 1 .. Len(w)
      BY <1>4, <2>1
    <3> QED BY <2>2, <3>1, <3>2
  <2>4. ASSUME NEW j \in block(p), ~(j <= p + c) PROVE FALSE
    <3>1. PICK n \in Nat : n = (p + c) + 1
      BY <2>1
    <3>2. j \in p + 1 .. Len(w) /\ \A k \in p + 1 .. j : w[k].role = "tool"
      OBVIOUS
    <3>3. n \in p + 1 .. j /\ n \in 1..Len(w)
      BY <1>4, <2>1, <2>4, <3>1, <3>2
    <3>4. w[n].role = "tool"
      BY <3>2, <3>3
    <3>5. PICK q \in calls, d \in Nat : Owns(q, d) /\ q < n /\ n <= q + d
      BY <1>7, <3>3, <3>4
    <3>6. /\ q \in 1..Len(w) /\ q \in Nat /\ d \in Nat /\ w[q].role = "assistant"
          /\ \A k \in q + 1 .. q + d : w[k].role = "tool"
      BY <1>4, <3>5 DEF Results
    <3>7. CASE q = p
      <4>1. c = d
        BY <1>8, <3>5, <3>7
      <4> HIDE DEF Owns
      <4> QED BY <2>1, <3>1, <3>5, <3>7, <4>1
    <3>8. CASE q > p
      <4>1. q \in p + 1 .. p + c
        <5> HIDE DEF Owns
        <5> QED BY <2>1, <3>1, <3>5, <3>6, <3>8
      <4>2. w[q].role = "tool"
        BY <2>2, <4>1
      <4> QED BY <3>6, <4>2
    <3>9. CASE q < p
      <4>1. p \in q + 1 .. q + d
        <5> HIDE DEF Owns
        <5> QED BY <2>1, <3>1, <3>5, <3>6, <3>9
      <4>2. w[p].role = "tool"
        BY <3>6, <4>1
      <4> QED BY <2>1, <4>2
    <3> QED BY <2>1, <3>6, <3>7, <3>8, <3>9
  <2>5. ASSUME NEW j \in block(p) PROVE j \in p + 1 .. p + c
    <3>1. j \in p + 1 .. Len(w) /\ j <= p + c
      BY <2>4
    <3> QED BY <1>4, <2>1, <3>1
  <2> HIDE DEF block
  <2> QED BY <2>3, <2>5
<1>9. ASSUME NEW p \in calls
      PROVE  /\ {w[j].id : j \in block(p)} = w[p].calls
             /\ Cardinality(block(p)) = Cardinality(w[p].calls)
  <2>1. PICK c : Owns(p, c)
    BY <1>6
  <2>2. block(p) = p + 1 .. p + c
    BY <1>8, <2>1
  <2>3. p \in Nat /\ c \in Nat /\ c = Cardinality(w[p].calls)
    BY <1>4, <2>1
  <2>4. Cardinality(p + 1 .. p + c) = c
    <3>1. PICK b \in Int : b = p + 1
      BY <2>3
    <3>2. PICK e \in Int : e = p + c
      BY <2>3
    <3>3. Cardinality(b .. e) = IF b > e THEN 0 ELSE (e - b) + 1
      BY FS_Interval
    <3>4. (IF b > e THEN 0 ELSE (e - b) + 1) = c
      BY <2>3, <3>1, <3>2
    <3> QED BY <3>1, <3>2, <3>3, <3>4
  <2>5. /\ \A j \in p + 1 .. p + c : w[j].id \in w[p].calls
        /\ \A u \in w[p].calls : \E j \in p + 1 .. p + c : w[j].id = u
    BY <2>1 DEF Results
  <2>6. {w[j].id : j \in p + 1 .. p + c} = w[p].calls
    BY <2>5
  <2> HIDE DEF block
  <2> QED BY <2>2, <2>3, <2>4, <2>6
<1>10. ASSUME NEW j \in DOMAIN w, w[j].role = "tool" PROVE \E p \in calls : j \in block(p)
  <2>1. PICK p \in calls, c \in Nat : Owns(p, c) /\ p < j /\ j <= p + c
    BY <1>4, <1>7, <1>10
  <2>2. block(p) = p + 1 .. p + c
    BY <1>8, <2>1
  <2>3. p \in Nat /\ j \in Nat
    BY <1>4
  <2>4. j \in p + 1 .. p + c
    <3> HIDE DEF Owns
    <3> QED BY <2>1, <2>3
  <2> HIDE DEF block, Owns
  <2> QED BY <2>2, <2>4
<1>11. Strict(w)
  BY <1>9, <1>10, Zenon DEF Strict
<1> QED BY <1>1, <1>11, Zenon

(***************************************************************************)
(* Every request has the form a strict chat-completions gateway asks for:  *)
(* whatever the vector is, a call that goes out is followed at once by its *)
(* result, real or made up, and no other result goes out.                  *)
(***************************************************************************)
THEOREM RequestsArePaired == Spec => []OaiPaired
<1>1. Sound => OaiPaired
  <2> SUFFICES ASSUME Sound PROVE OaiPaired
    OBVIOUS
  <2>1. msgs \in Seq(Message)
    BY DEF Sound, Vectors, Vector
  <2>2. PICK I : I = {i \in DOMAIN msgs : msgs[i].role # "system"}
    OBVIOUS
  <2>3. PICK s : s = build_request_messages(msgs)
    OBVIOUS
  <2>4. s = Only(msgs, I)
    BY <2>2, <2>3 DEF build_request_messages
  <2>5. Selected(msgs, I, s)
    BY <2>1, <2>4, OnlyMembers
  <2>6. s \in Seq(Message) /\ \A k \in 1..Len(s) : s[k].role # "system"
    BY <2>2, <2>5 DEF Selected
  <2>7. Strict(msgs_claude2oai(s))
    BY <2>6, RequestStrict
  <2>8. Strict(msgs_claude2oai(build_request_messages(msgs)))
    BY <2>3, <2>7, Zenon
  <2> QED BY <2>8, Zenon DEF Strict, OaiPaired
<1> QED BY <1>1, AlwaysSound, PTL

=============================================================================
