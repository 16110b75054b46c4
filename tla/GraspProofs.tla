------------------------------ MODULE GraspProofs ------------------------------
(***************************************************************************)
(* Proofs about the grasp tracker, for any batch, hold time, burst and     *)
(* readings: what its lines say of grasps, partings and failed attempts.   *)
(*                                                                         *)
(* Environments meet in one step only through the exports of their peers,  *)
(* which close bursts, and through the commands of the batch, which name a *)
(* parting.  The invariant is one per environment.                         *)
(***************************************************************************)
EXTENDS GraspTracker, TLAPS, FiniteSetTheorems, SequenceTheorems, SumTheorems

Own(x, of) == x.kind = "attempt" /\ x.of = of

(* Steps at which lines part with the object, and steps at which lines     *)
(* that say it was grabbed were logged.                                    *)
Partings(lines) == {lines[i].step : i \in {j \in DOMAIN lines : IsParting(lines[j])}}
Grabs(lines) == {lines[i].seen : i \in {j \in DOMAIN lines : lines[j].kind = "grabbed"}}
Held(lines) == InHand(lines, Len(lines))

(* Lines are logged in order, and about their own episode after the fact.  *)
InOrder(lines, n, of) ==
  /\ lines \in Seq(LineType)
  /\ \A i \in DOMAIN lines :
       /\ lines[i].seen <= n /\ lines[i].of <= of
       /\ IsParting(lines[i]) => lines[i].step = lines[i].seen
       /\ Own(lines[i], of) => lines[i].step < lines[i].seen
  /\ \A i, j \in DOMAIN lines : i < j => lines[i].seen <= lines[j].seen

(* The parts of the properties that are about the lines alone.             *)
Alternate(lines) ==
  \A i \in DOMAIN lines :
    /\ lines[i].kind = "grabbed" => ~InHand(lines, i - 1)
    /\ IsParting(lines[i]) => InHand(lines, i - 1)

CarriesFollow(lines) ==
  \A i, j \in DOMAIN lines :
    j < i /\ lines[i].kind = "grabbed" /\ IsParting(lines[j]) => lines[j].step < lines[i].step

GripsBecome(lines) ==
  \A i \in DOMAIN lines :
    lines[i].kind = "gripped" =>
      /\ i + 1 \in DOMAIN lines
      /\ lines[i + 1].kind = "grabbed" /\ lines[i + 1].step = lines[i].step

StandApart(lines, of) ==
  \A i, j \in DOMAIN lines :
    Own(lines[j], of) =>
      /\ lines[i].kind = "grabbed" => ~(lines[j].step < lines[i].seen /\ lines[i].seen < lines[j].seen)
      /\ IsParting(lines[i]) => lines[j].step \notin lines[i].step .. lines[i].step + Burst

LinesInv(lines, n, of) ==
  InOrder(lines, n, of) /\ Alternate(lines) /\ CarriesFollow(lines) /\ StandApart(lines, of)

-------------------------------------------------------------------------------
(* A line more.                                                            *)

LEMMA LineFields ==
  ASSUME NEW x \in LineType
  PROVE  x.kind \in Kinds /\ x.seen \in Nat /\ x.count \in Nat /\ x.of \in Nat /\ x.step \in Nat
BY DEF LineType

LEMMA LineAppended ==
  ASSUME NEW L \in Seq(LineType), NEW x \in LineType
  PROVE  /\ Append(L, x) \in Seq(LineType) /\ Len(Append(L, x)) = Len(L) + 1
         /\ Len(L) \in Nat /\ DOMAIN L = 1 .. Len(L) /\ DOMAIN Append(L, x) = 1 .. Len(L) + 1
         /\ \A i \in 1 .. Len(L) : Append(L, x)[i] = L[i]
         /\ Append(L, x)[Len(L) + 1] = x
         /\ \A i \in 1 .. Len(L) + 1 : i = Len(L) + 1 \/ i \in 1 .. Len(L)
         /\ \A i \in 1 .. Len(L) : i \in 1 .. Len(L) + 1 /\ i # Len(L) + 1
<1>1. Len(L) \in Nat /\ DOMAIN L = 1 .. Len(L)
  OBVIOUS
<1>2. /\ Append(L, x) \in Seq(LineType) /\ Len(Append(L, x)) = Len(L) + 1
      /\ \A i \in 1 .. Len(L) : Append(L, x)[i] = L[i]
      /\ Append(L, x)[Len(L) + 1] = x
  BY AppendProperties
<1>3. DOMAIN Append(L, x) = 1 .. Len(L) + 1
  BY <1>1, <1>2
<1> QED BY <1>1, <1>2, <1>3

(* Who has the object after a line more.                                   *)
LEMMA HandAppended ==
  ASSUME NEW L \in Seq(LineType), NEW x \in LineType
  PROVE  /\ \A n \in 0 .. Len(L) : InHand(Append(L, x), n) <=> InHand(L, n)
         /\ Held(Append(L, x)) <=> x.kind = "grabbed" \/ (Held(L) /\ ~IsParting(x))
<1> DEFINE M == Append(L, x)
           k == Len(L)
           m == Len(L) + 1
<1>1. /\ k \in Nat /\ m = k + 1 /\ Len(M) = m /\ M[m] = x
      /\ \A i \in 1 .. k : M[i] = L[i]
  BY LineAppended
<1>2. x.kind = "grabbed" => ~IsParting(x)
  BY DEF IsParting
<1> HIDE DEF M
<1>3. ASSUME NEW n \in 0 .. k PROVE InHand(M, n) <=> InHand(L, n)
  <2>1. n \in Nat /\ \A i \in 1 .. n : M[i] = L[i]
    BY <1>1
  <2>2. \A i \in 1 .. n : \A j \in i .. n : j \in 1 .. n
    BY <2>1
  <2> QED BY <2>1, <2>2 DEF InHand
<1>4. Held(M) <=> x.kind = "grabbed" \/ (Held(L) /\ ~IsParting(x))
  <2>1. ASSUME Held(M) PROVE x.kind = "grabbed" \/ (Held(L) /\ ~IsParting(x))
    <3>1. PICK i \in 1 .. m : M[i].kind = "grabbed" /\ \A j \in i .. m : ~IsParting(M[j])
      BY <1>1, <2>1 DEF Held, InHand
    <3>2. CASE i = m
      BY <1>1, <3>1, <3>2
    <3>3. CASE i # m
      <4>1. i \in 1 .. k /\ m \in i .. m
        BY <1>1, <3>3
      <4>2. ~IsParting(x)
        BY <1>1, <3>1, <4>1
      <4>3. L[i].kind = "grabbed"
        BY <1>1, <3>1, <4>1
      <4>4. \A j \in i .. k : j \in i .. m /\ j \in 1 .. k
        BY <1>1, <4>1
      <4>5. \A j \in i .. k : ~IsParting(L[j])
        BY <1>1, <3>1, <4>4
      <4> QED BY <4>1, <4>2, <4>3, <4>5 DEF Held, InHand
    <3> QED BY <3>2, <3>3
  <2>2. ASSUME x.kind = "grabbed" PROVE Held(M)
    <3>1. m \in 1 .. m /\ \A j \in m .. m : j = m
      BY <1>1
    <3> QED BY <1>1, <1>2, <2>2, <3>1 DEF Held, InHand
  <2>3. ASSUME Held(L), ~IsParting(x) PROVE Held(M)
    <3>1. PICK i \in 1 .. k : L[i].kind = "grabbed" /\ \A j \in i .. k : ~IsParting(L[j])
      BY <2>3 DEF Held, InHand
    <3>2. i \in 1 .. m /\ \A j \in i .. m : j = m \/ (j \in i .. k /\ j \in 1 .. k)
      BY <1>1, <3>1
    <3>3. M[i].kind = "grabbed" /\ \A j \in i .. m : ~IsParting(M[j])
      BY <1>1, <2>3, <3>1, <3>2
    <3> QED BY <1>1, <3>2, <3>3 DEF Held, InHand
  <2> QED BY <2>1, <2>2, <2>3
<1> QED BY <1>3, <1>4 DEF M

LEMMA TimesAppended ==
  ASSUME NEW L \in Seq(LineType), NEW x \in LineType
  PROVE  /\ Partings(Append(L, x)) = Partings(L) \cup (IF IsParting(x) THEN {x.step} ELSE {})
         /\ Grabs(Append(L, x)) = Grabs(L) \cup (IF x.kind = "grabbed" THEN {x.seen} ELSE {})
<1> DEFINE M == Append(L, x)
           m == Len(L) + 1
<1>1. /\ DOMAIN L = 1 .. Len(L) /\ DOMAIN M = 1 .. m /\ M[m] = x
      /\ \A i \in 1 .. Len(L) : M[i] = L[i] /\ i \in 1 .. m /\ i # m
      /\ \A i \in 1 .. m : i = m \/ i \in 1 .. Len(L)
      /\ m \in 1 .. m
  <2>1. m \in 1 .. m
    BY LineAppended
  <2> QED BY <2>1, LineAppended
<1> HIDE DEF M, m
<1>2. Partings(M) = Partings(L) \cup (IF IsParting(x) THEN {x.step} ELSE {})
  <2>1. \A s : s \in Partings(M) <=> \E i \in 1 .. m : IsParting(M[i]) /\ s = M[i].step
    BY <1>1 DEF Partings
  <2>2. \A s : s \in Partings(L) <=> \E i \in 1 .. Len(L) : IsParting(L[i]) /\ s = L[i].step
    BY <1>1 DEF Partings
  <2> QED BY <1>1, <2>1, <2>2
<1>3. Grabs(M) = Grabs(L) \cup (IF x.kind = "grabbed" THEN {x.seen} ELSE {})
  <2>1. \A s : s \in Grabs(M) <=> \E i \in 1 .. m : M[i].kind = "grabbed" /\ s = M[i].seen
    BY <1>1 DEF Grabs
  <2>2. \A s : s \in Grabs(L) <=> \E i \in 1 .. Len(L) : L[i].kind = "grabbed" /\ s = L[i].seen
    BY <1>1 DEF Grabs
  <2> QED BY <1>1, <2>1, <2>2
<1> QED BY <1>2, <1>3 DEF M

(* A line may follow when it is of now, a grasp is of an object that was   *)
(* not in the hand and a parting of one that was, a carry is dated after   *)
(* the partings, and a failed attempt after grasps and clear of partings.  *)
MayFollow(L, x, now, of) ==
  /\ x \in LineType /\ x.seen = now /\ x.of <= of
  /\ x.kind = "grabbed" => ~Held(L) /\ \A s \in Partings(L) : s < x.step
  /\ IsParting(x) => Held(L) /\ x.step = now
  /\ Own(x, of) => /\ x.step < now
                   /\ \A s \in Grabs(L) : s <= x.step \/ s = now
                   /\ \A s \in Partings(L) : x.step \notin s .. s + Burst

LEMMA LinesFollow ==
  ASSUME NEW n \in Nat, NEW now \in Nat, n <= now, NEW of \in Nat,
         NEW L, LinesInv(L, n, of), NEW x, MayFollow(L, x, now, of)
  PROVE  LinesInv(Append(L, x), now, of)
<1> DEFINE M == Append(L, x)
           k == Len(L)
           m == Len(L) + 1
<1>1. L \in Seq(LineType) /\ x \in LineType
  BY DEF LinesInv, InOrder, MayFollow
<1>2. /\ M \in Seq(LineType) /\ k \in Nat /\ m = k + 1 /\ M[m] = x
      /\ DOMAIN L = 1 .. k /\ DOMAIN M = 1 .. m
      /\ \A i \in 1 .. k : M[i] = L[i] /\ i # m /\ i < m
      /\ \A i \in 1 .. m : i = m \/ i \in 1 .. k
  <2>1. \A i \in 1 .. k : i < m
    BY <1>1, LineAppended
  <2> QED BY <1>1, <2>1, LineAppended
<1>3. \A i \in 1 .. k : L[i] \in LineType /\ L[i].seen \in Nat /\ L[i].step \in Nat /\ L[i].of \in Nat
  <2>1. \A i \in 1 .. k : L[i] \in LineType
    BY <1>1
  <2> QED BY <2>1, LineFields
<1>4. x.seen = now /\ x.step \in Nat /\ x.of \in Nat /\ x.of <= of
  BY <1>1, LineFields DEF MayFollow
<1>5. /\ \A i \in 1 .. k : IsParting(L[i]) => L[i].step \in Partings(L)
      /\ \A i \in 1 .. k : L[i].kind = "grabbed" => L[i].seen \in Grabs(L)
  BY <1>2 DEF Partings, Grabs
<1>6. \A i \in 1 .. k : /\ L[i].seen <= n /\ L[i].of <= of
                        /\ IsParting(L[i]) => L[i].step = L[i].seen
                        /\ Own(L[i], of) => L[i].step < L[i].seen
  BY <1>2 DEF LinesInv, InOrder
<1>7. \A i \in 0 .. k : InHand(M, i) <=> InHand(L, i)
  BY <1>1, HandAppended
<1> HIDE DEF M, k, m
<1>8. InOrder(M, now, of)
  <2>1. \A i \in 1 .. k : L[i].seen <= now
    BY <1>3, <1>6
  <2>2. ASSUME NEW i \in 1 .. m
        PROVE  /\ M[i].seen <= now /\ M[i].of <= of
               /\ IsParting(M[i]) => M[i].step = M[i].seen
               /\ Own(M[i], of) => M[i].step < M[i].seen
    <3>1. CASE i = m
      BY <1>2, <1>4, <3>1 DEF MayFollow
    <3>2. CASE i \in 1 .. k
      BY <1>2, <1>6, <2>1, <3>2
    <3> QED BY <1>2, <3>1, <3>2
  <2>3. ASSUME NEW i \in 1 .. m, NEW j \in 1 .. m, i < j PROVE M[i].seen <= M[j].seen
    <3>1. i \in 1 .. k
      BY <1>2, <2>3
    <3>2. CASE j = m
      BY <1>2, <1>4, <2>1, <3>1, <3>2
    <3>3. CASE j \in 1 .. k
      BY <1>2, <2>3, <3>1, <3>3 DEF LinesInv, InOrder
    <3> QED BY <1>2, <3>2, <3>3
  <2> QED BY <1>2, <2>2, <2>3 DEF InOrder
<1>9. Alternate(M)
  <2> SUFFICES ASSUME NEW i \in 1 .. m
               PROVE  /\ M[i].kind = "grabbed" => ~InHand(M, i - 1)
                      /\ IsParting(M[i]) => InHand(M, i - 1)
    BY <1>2 DEF Alternate
  <2>1. i - 1 \in 0 .. k
    BY <1>2
  <2>2. CASE i = m
    <3>1. i - 1 = k
      BY <1>2, <2>2
    <3> QED BY <1>2, <1>7, <2>1, <2>2, <3>1 DEF MayFollow, Held, k
  <2>3. CASE i \in 1 .. k
    BY <1>2, <1>7, <2>1, <2>3 DEF LinesInv, Alternate
  <2> QED BY <1>2, <2>2, <2>3
<1>10. CarriesFollow(M)
  <2> SUFFICES ASSUME NEW i \in 1 .. m, NEW j \in 1 .. m,
                      j < i, M[i].kind = "grabbed", IsParting(M[j])
               PROVE  M[j].step < M[i].step
    BY <1>2 DEF CarriesFollow
  <2>1. j \in 1 .. k
    BY <1>2
  <2>2. CASE i = m
    BY <1>2, <1>5, <2>1, <2>2 DEF MayFollow
  <2>3. CASE i \in 1 .. k
    BY <1>2, <2>1, <2>3 DEF LinesInv, CarriesFollow
  <2> QED BY <1>2, <2>2, <2>3
<1>11. StandApart(M, of)
  <2> SUFFICES ASSUME NEW i \in 1 .. m, NEW j \in 1 .. m, Own(M[j], of)
               PROVE  /\ M[i].kind = "grabbed" => ~(M[j].step < M[i].seen /\ M[i].seen < M[j].seen)
                      /\ IsParting(M[i]) => M[j].step \notin M[i].step .. M[i].step + Burst
    BY <1>2 DEF StandApart
  <2>1. CASE i \in 1 .. k /\ j \in 1 .. k
    BY <1>2, <2>1 DEF LinesInv, StandApart
  <2>2. CASE i = m /\ j = m
    BY <1>2, <2>2 DEF Own, IsParting
  <2>3. CASE i \in 1 .. k /\ j = m
    <3>1. Own(x, of) /\ M[j] = x /\ M[i] = L[i]
      BY <1>2, <2>3
    <3>2. ASSUME M[i].kind = "grabbed" PROVE ~(M[j].step < M[i].seen /\ M[i].seen < M[j].seen)
      <4>1. L[i].seen <= x.step \/ L[i].seen = now
        BY <1>5, <2>3, <3>1, <3>2 DEF MayFollow
      <4> QED BY <1>3, <1>4, <2>3, <3>1, <4>1
    <3>3. ASSUME IsParting(M[i]) PROVE M[j].step \notin M[i].step .. M[i].step + Burst
      BY <1>5, <2>3, <3>1, <3>3 DEF MayFollow
    <3> QED BY <3>2, <3>3
  <2>4. CASE i = m /\ j \in 1 .. k
    <3>1. M[i] = x /\ M[j] = L[j] /\ L[j].step < L[j].seen /\ L[j].seen <= now
      BY <1>2, <1>3, <1>6, <2>4
    <3>2. IsParting(x) => x.step = now
      BY DEF MayFollow
    <3> QED BY <1>3, <1>4, <2>4, <3>1, <3>2
  <2> QED BY <1>2, <2>1, <2>2, <2>3, <2>4
<1> QED BY <1>8, <1>9, <1>10, <1>11 DEF LinesInv, M

(* Only a grip asks for a line after it.                                   *)
LEMMA GripsFollow ==
  ASSUME NEW L \in Seq(LineType), GripsBecome(L), NEW x \in LineType
  PROVE  /\ x.kind # "gripped" => GripsBecome(Append(L, x))
         /\ \A y \in LineType :
              x.kind = "gripped" /\ y.kind = "grabbed" /\ y.step = x.step =>
                GripsBecome(Append(Append(L, x), y))
<1> DEFINE M == Append(L, x)
           k == Len(L)
           m == Len(L) + 1
<1>1. /\ M \in Seq(LineType) /\ k \in Nat /\ m = k + 1 /\ M[m] = x /\ Len(M) = m
      /\ DOMAIN L = 1 .. k /\ DOMAIN M = 1 .. m
      /\ \A i \in 1 .. k : M[i] = L[i] /\ i # m
      /\ \A i \in 1 .. m : i = m \/ i \in 1 .. k
  BY LineAppended
<1> HIDE DEF M, k, m
<1>2. \A i \in 1 .. k : M[i].kind = "gripped" =>
        i + 1 \in 1 .. k /\ i + 1 \in 1 .. m /\ M[i + 1].kind = "grabbed" /\ M[i + 1].step = M[i].step
  <2> SUFFICES ASSUME NEW i \in 1 .. k, M[i].kind = "gripped"
               PROVE  i + 1 \in 1 .. k /\ i + 1 \in 1 .. m /\ M[i + 1].kind = "grabbed" /\ M[i + 1].step = M[i].step
    OBVIOUS
  <2>1. i + 1 \in 1 .. k /\ L[i + 1].kind = "grabbed" /\ L[i + 1].step = L[i].step
    BY <1>1 DEF GripsBecome
  <2>2. i + 1 \in 1 .. m
    BY <1>1, <2>1
  <2> QED BY <1>1, <2>1, <2>2
<1>3. x.kind # "gripped" => GripsBecome(M)
  BY <1>1, <1>2 DEF GripsBecome
<1>4. ASSUME NEW y \in LineType, x.kind = "gripped", y.kind = "grabbed", y.step = x.step
      PROVE  GripsBecome(Append(M, y))
  <2> DEFINE P == Append(M, y)
             q == m + 1
  <2>1. /\ q = m + 1 /\ P[q] = y /\ DOMAIN P = 1 .. q
        /\ \A i \in 1 .. m : P[i] = M[i]
        /\ \A i \in 1 .. q : i = q \/ i \in 1 .. m
    BY <1>1, LineAppended
  <2> HIDE DEF P, q
  <2>2. m \in 1 .. m /\ q \in 1 .. q /\ m \in Nat /\ \A i \in 1 .. m : i \in 1 .. q
    BY <1>1, <2>1
  <2>3. ASSUME NEW i \in 1 .. q, P[i].kind = "gripped"
        PROVE  i + 1 \in 1 .. q /\ P[i + 1].kind = "grabbed" /\ P[i + 1].step = P[i].step
    <3>1. CASE i = q
      BY <1>4, <2>1, <2>3, <3>1
    <3>2. CASE i = m
      <4>1. i + 1 = q
        BY <2>1, <3>2
      <4> QED BY <1>1, <1>4, <2>1, <2>2, <3>2, <4>1
    <3>3. CASE i \in 1 .. k
      <4>1. i \in 1 .. m /\ M[i].kind = "gripped"
        BY <1>1, <2>1, <2>3, <3>3
      <4>2. i + 1 \in 1 .. m /\ M[i + 1].kind = "grabbed" /\ M[i + 1].step = M[i].step
        BY <1>2, <3>3, <4>1
      <4> QED BY <2>1, <2>2, <4>1, <4>2
    <3> QED BY <1>1, <2>1, <3>1, <3>2, <3>3
  <2> QED BY <2>1, <2>3 DEF GripsBecome, P
<1> QED BY <1>3, <1>4 DEF M

(* An attempt of the episode more.                                         *)
LEMMA FumblesAppended ==
  ASSUME NEW T, NEW L \in Seq(T), NEW x \in T, NEW of,
         \A y \in T : y.count \in Nat
  PROVE  /\ FumblesIn(L, of) \in Nat
         /\ FumblesIn(Append(L, x), of) = FumblesIn(L, of) + (IF Own(x, of) THEN x.count ELSE 0)
<1> DEFINE M == Append(L, x)
           k == Len(L)
           m == Len(L) + 1
           I(s) == {j \in DOMAIN s : s[j].kind = "attempt" /\ s[j].of = of}
           D == I(L)
           E == I(M)
           f == [i \in D |-> L[i].count]
           g == [i \in E |-> M[i].count]
<1>1. /\ k \in Nat /\ m = k + 1 /\ DOMAIN L = 1 .. k /\ DOMAIN M = 1 .. m /\ M[m] = x
      /\ \A i \in 1 .. k : M[i] = L[i]
      /\ \A i \in 1 .. k : L[i] \in T
  <2>1. Len(M) = k + 1 /\ M \in Seq(T) /\ M[m] = x /\ \A i \in 1 .. k : M[i] = L[i]
    BY AppendProperties
  <2>2. k \in Nat /\ DOMAIN L = 1 .. k /\ DOMAIN M = 1 .. m /\ \A i \in 1 .. k : L[i] \in T
    BY <2>1
  <2> QED BY <2>1, <2>2
<1>2. FumblesIn(L, of) = SumOf(f) /\ FumblesIn(M, of) = SumOf(g)
  BY DEF FumblesIn
<1> HIDE DEF M, k, m
<1>3. IsFiniteSet(D) /\ D \in SUBSET (1 .. k) /\ f \in [D -> Nat] /\ m \notin D
  <2>1. IsFiniteSet(1 .. k)
    BY <1>1, FS_Interval
  <2>2. D \in SUBSET (1 .. k)
    BY <1>1
  <2>3. IsFiniteSet(D)
    BY <2>1, <2>2, FS_Subset
  <2>4. f \in [D -> Nat]
    BY <1>1
  <2> QED BY <1>1, <2>2, <2>3, <2>4
<1>4. \A i \in 1 .. m : i = m \/ (i \in 1 .. k /\ i # m)
  BY <1>1
<1>5. m \in 1 .. m /\ \A i \in 1 .. k : i \in 1 .. m /\ i # m
  BY <1>1
<1>6. E = IF Own(x, of) THEN D \cup {m} ELSE D
  BY <1>1, <1>4, <1>5 DEF Own
<1>7. g \in [E -> Nat] /\ (Own(x, of) => g[m] = x.count) /\ \A i \in D : g[i] = f[i]
  BY <1>1, <1>4, <1>6
<1>8. FumblesIn(L, of) \in Nat
  <2> HIDE DEF D, f
  <2> QED BY <1>2, <1>3, SumIsNat
<1>9. CASE Own(x, of)
  <2>1. g \in [D \cup {m} -> Nat] /\ \A i \in D : f[i] = g[i]
    BY <1>6, <1>7, <1>9
  <2> HIDE DEF D, E, f, g, I
  <2>2. SumOf(g) = SumOf(f) + g[m]
    BY <1>3, <2>1, SumWithOneMore
  <2> QED BY <1>2, <1>7, <1>8, <1>9, <2>2 DEF M
<1>10. CASE ~Own(x, of)
  <2>1. f = g
    BY <1>1, <1>3, <1>6, <1>7, <1>10
  <2> HIDE DEF D, E, f, g, I
  <2> QED BY <1>2, <1>8, <1>10, <2>1 DEF M
<1> QED BY <1>8, <1>9, <1>10

-------------------------------------------------------------------------------
(* The invariant.                                                          *)

(* What the tracker knows of a pair agrees with the lines of the episode,  *)
(* n steps into it: the object is in the hand as the lines say, contact    *)
(* and grip are later than every parting, and an open burst is clear of    *)
(* the grasps and partings before it.                                      *)
PairInv(p, lines, n) ==
  /\ p \in PairType
  /\ p.grasped <=> Held(lines)
  /\ p.grasped => p.touching
  /\ p.start <= n
  /\ p.touching => \A s \in Partings(lines) : s < p.start
  /\ p.gripStep # Never => p.touching /\ p.start <= p.gripStep
  /\ \A s \in Partings(lines) : s <= p.parted
  /\ p.count > 0 => /\ p.first <= n
                    /\ \A s \in Grabs(lines) : s <= p.first
                    /\ \A s \in Partings(lines) : p.first \notin s .. s + Burst

(* At most one event waits, a burst that an export closed...               *)
Waiting(q, of) ==
  \/ q = <<>>
  \/ \E y \in EventType : q = <<y>> /\ y.kind = "attempt" /\ y.onset # Never /\ y.of <= of

(* ...and of this episode it tells what the open burst would.              *)
Clear(q, lines, n, of) ==
  \A i \in DOMAIN q :
    q[i].of = of => /\ q[i].onset <= n
                    /\ \A s \in Grabs(lines) : s <= q[i].onset
                    /\ \A s \in Partings(lines) : q[i].onset \notin s .. s + Burst

Accounted(lines, q, of, open, all) == FumblesIn(lines, of) + FumblesIn(q, of) + open = all

EnvInv(e) ==
  /\ LinesInv(log[e], len[e], episode[e]) /\ GripsBecome(log[e])
  /\ Waiting(queue[e], episode[e])
  /\ len[e] = 0 => /\ e \notin frozen /\ log[e] = <<>> /\ fumbles[e] = 0
                   /\ \A i \in DOMAIN queue[e] : queue[e][i].of # episode[e]
  /\ len[e] > 0 /\ e \notin frozen =>
       /\ PairInv(pair[e], log[e], len[e])
       /\ Clear(queue[e], log[e], len[e], episode[e])
       /\ Accounted(log[e], queue[e], episode[e], pair[e].count, fumbles[e])

Inv == TypeOK /\ \A e \in Envs : EnvInv(e)

-------------------------------------------------------------------------------
(* Logs of no lines, and later ones.                                       *)

LEMMA NoLines ==
  ASSUME NEW n \in Nat, NEW of \in Nat
  PROVE  /\ LinesInv(<<>>, n, of) /\ GripsBecome(<<>>) /\ ~Held(<<>>)
         /\ Partings(<<>>) = {} /\ Grabs(<<>>) = {} /\ FumblesIn(<<>>, of) = 0
<1>1. DOMAIN <<>> = {} /\ <<>> \in Seq(LineType) /\ Len(<<>>) = 0
  OBVIOUS
<1>2. FumblesIn(<<>>, of) = 0
  <2> DEFINE I == {j \in DOMAIN <<>> : <<>>[j].kind = "attempt" /\ <<>>[j].of = of}
             f == [i \in I |-> <<>>[i].count]
  <2>1. DOMAIN f = {}
    OBVIOUS
  <2>2. FumblesIn(<<>>, of) = SumOf(f)
    BY DEF FumblesIn
  <2> HIDE DEF I, f
  <2> QED BY <2>1, <2>2, SumOfNothing
<1>3. ~Held(<<>>)
  BY <1>1 DEF Held, InHand
<1>4. LinesInv(<<>>, n, of) /\ GripsBecome(<<>>)
  BY <1>1 DEF LinesInv, InOrder, Alternate, CarriesFollow, StandApart, GripsBecome
<1>5. Partings(<<>>) = {} /\ Grabs(<<>>) = {}
  BY <1>1 DEF Partings, Grabs
<1> QED BY <1>2, <1>3, <1>4, <1>5

LEMMA LinesLater ==
  ASSUME NEW n \in Nat, NEW now \in Nat, n <= now, NEW of, NEW L, LinesInv(L, n, of)
  PROVE  LinesInv(L, now, of)
<1>1. \A i \in DOMAIN L : L[i].seen \in Nat
  <2>1. \A i \in DOMAIN L : L[i] \in LineType
    BY DEF LinesInv, InOrder
  <2> QED BY <2>1, LineFields
<1>2. \A i \in DOMAIN L : L[i].seen <= now
  BY <1>1 DEF LinesInv, InOrder
<1> QED BY <1>2 DEF LinesInv, InOrder

(* Partings and grasps are past.                                           *)
LEMMA TimesPast ==
  ASSUME NEW n \in Nat, NEW of, NEW L, LinesInv(L, n, of)
  PROVE  /\ \A s \in Partings(L) : s \in Nat /\ s <= n
         /\ \A s \in Grabs(L) : s \in Nat /\ s <= n
<1>1. \A i \in DOMAIN L : L[i].seen \in Nat /\ L[i].step \in Nat
  <2>1. \A i \in DOMAIN L : L[i] \in LineType
    BY DEF LinesInv, InOrder
  <2> QED BY <2>1, LineFields
<1>2. \A i \in DOMAIN L : L[i].seen <= n /\ (IsParting(L[i]) => L[i].step = L[i].seen)
  BY DEF LinesInv, InOrder
<1>3. \A s \in Partings(L) : \E i \in DOMAIN L : IsParting(L[i]) /\ s = L[i].step
  BY DEF Partings
<1>4. \A s \in Grabs(L) : \E i \in DOMAIN L : s = L[i].seen
  BY DEF Grabs
<1> QED BY <1>1, <1>2, <1>3, <1>4

LEMMA FumblesCounted ==
  ASSUME NEW n, NEW of, NEW L, LinesInv(L, n, of)
  PROVE  FumblesIn(L, of) \in Nat
<1>1. L \in Seq(LineType) /\ \A y \in LineType : y.count \in Nat
  BY LineFields DEF LinesInv, InOrder
<1>2. [kind |-> "towed", seen |-> 0, count |-> 0, of |-> 0, step |-> 0] \in LineType
  BY DEF LineType, Kinds
<1> QED BY <1>1, <1>2, FumblesAppended

(* What a line that may follow changes.                                    *)
LEMMA LineAdded ==
  ASSUME NEW now \in Nat, NEW of \in Nat, NEW L, LinesInv(L, now, of), GripsBecome(L),
         NEW x, MayFollow(L, x, now, of), x.kind # "gripped"
  PROVE  LET M == Append(L, x)
         IN  /\ LinesInv(M, now, of) /\ GripsBecome(M)
             /\ Held(M) <=> x.kind = "grabbed" \/ (Held(L) /\ ~IsParting(x))
             /\ Partings(M) = Partings(L) \cup (IF IsParting(x) THEN {x.step} ELSE {})
             /\ Grabs(M) = Grabs(L) \cup (IF x.kind = "grabbed" THEN {now} ELSE {})
             /\ FumblesIn(M, of) = FumblesIn(L, of) + (IF Own(x, of) THEN x.count ELSE 0)
<1> DEFINE M == Append(L, x)
<1>1. /\ L \in Seq(LineType) /\ \A y \in LineType : y.count \in Nat
      /\ x \in LineType /\ x.seen = now
  BY LineFields DEF LinesInv, InOrder, MayFollow
<1>2. LinesInv(M, now, of)
  BY LinesFollow
<1>3. GripsBecome(M)
  BY <1>1, GripsFollow
<1>4. Held(M) <=> x.kind = "grabbed" \/ (Held(L) /\ ~IsParting(x))
  BY <1>1, HandAppended
<1>5. /\ Partings(M) = Partings(L) \cup (IF IsParting(x) THEN {x.step} ELSE {})
      /\ Grabs(M) = Grabs(L) \cup (IF x.kind = "grabbed" THEN {x.seen} ELSE {})
  BY <1>1, TimesAppended
<1>6. FumblesIn(M, of) = FumblesIn(L, of) + (IF Own(x, of) THEN x.count ELSE 0)
  BY <1>1, FumblesAppended
<1> QED BY <1>1, <1>2, <1>3, <1>4, <1>5, <1>6

-------------------------------------------------------------------------------
(* Events become lines one by one.                                         *)
AsLines(s, now) == [i \in DOMAIN s |-> LineOf(s[i], now)]

LEMMA LineOfType ==
  ASSUME NEW x \in EventType, NEW now \in Nat
  PROVE  /\ LineOf(x, now) \in LineType /\ LineOf(x, now).seen = now
         /\ LineOf(x, now).kind = x.kind /\ LineOf(x, now).of = x.of /\ LineOf(x, now).count = x.count
         /\ x.onset # Never => LineOf(x, now).step = x.onset
         /\ x.onset = Never => LineOf(x, now).step = now
<1>1. x.kind \in Kinds /\ x.onset \in Nat \cup {Never} /\ x.count \in Nat /\ x.of \in Nat
  BY DEF EventType
<1> QED BY <1>1 DEF LineOf, LineType

LEMMA AsLinesOf ==
  ASSUME NEW v \in Seq(EventType), NEW L \in Seq(LineType), NEW now \in Nat
  PROVE  /\ L \o AsLines(v, now) \in Seq(LineType)
         /\ Len(L \o AsLines(v, now)) = Len(L) + Len(v)
         /\ \A i \in 1 .. Len(L) + Len(v) :
              (L \o AsLines(v, now))[i] = IF i <= Len(L) THEN L[i] ELSE LineOf(v[i - Len(L)], now)
<1> DEFINE u == AsLines(v, now)
<1>1. Len(v) \in Nat /\ DOMAIN v = 1 .. Len(v) /\ \A i \in 1 .. Len(v) : v[i] \in EventType
  OBVIOUS
<1>2. \A i \in 1 .. Len(v) : LineOf(v[i], now) \in LineType
  BY <1>1, LineOfType
<1>3. u = [i \in 1 .. Len(v) |-> LineOf(v[i], now)]
  BY <1>1 DEF AsLines
<1>4. u \in [1 .. Len(v) -> LineType]
  BY <1>2, <1>3
<1>5. u \in Seq(LineType) /\ Len(u) = Len(v) /\ \A i \in 1 .. Len(v) : u[i] = LineOf(v[i], now)
  BY <1>1, <1>3, <1>4
<1> HIDE DEF u
<1>6. L \o u \in Seq(LineType) /\ Len(L \o u) = Len(L) + Len(v)
  <2>1. u \in Seq(LineType) /\ L \in Seq(LineType) /\ Len(u) = Len(v)
    BY <1>5
  <2>2. L \o u \in Seq(LineType) /\ Len(L \o u) = Len(L) + Len(u)
    BY ONLY <2>1, ConcatProperties
  <2> QED BY <2>1, <2>2
<1>7. ASSUME NEW i \in 1 .. Len(L) + Len(v)
      PROVE  (L \o u)[i] = IF i <= Len(L) THEN L[i] ELSE LineOf(v[i - Len(L)], now)
  <2>1. (L \o u)[i] = IF i <= Len(L) THEN L[i] ELSE u[i - Len(L)]
    BY <1>5, <1>7, ConcatProperties
  <2>2. Len(L) \in Nat /\ (i > Len(L) => i - Len(L) \in 1 .. Len(v))
    BY <1>1
  <2> QED BY <1>5, <2>1, <2>2
<1> QED BY <1>5, <1>6, <1>7 DEF u

LEMMA NoEvents ==
  ASSUME NEW L \in Seq(LineType), NEW now
  PROVE  L \o AsLines(<<>>, now) = L
<1>1. AsLines(<<>>, now) = <<>>
  BY DEF AsLines
<1>2. L \o <<>> = L
  OBVIOUS
<1> QED BY <1>1, <1>2

LEMMA EventAppended ==
  ASSUME NEW s \in Seq(EventType), NEW x \in EventType,
         NEW L \in Seq(LineType), NEW now \in Nat
  PROVE  /\ Append(s, x) \in Seq(EventType)
         /\ L \o AsLines(Append(s, x), now) = Append(L \o AsLines(s, now), LineOf(x, now))
<1> DEFINE t == Append(s, x)
           M == L \o AsLines(s, now)
           N == L \o AsLines(t, now)
           y == LineOf(x, now)
           k == Len(L)
           m == Len(s)
<1>1. /\ t \in Seq(EventType) /\ Len(t) = m + 1 /\ t[m + 1] = x /\ \A i \in 1 .. m : t[i] = s[i]
      /\ k \in Nat /\ m \in Nat
  <2>1. t \in Seq(EventType) /\ Len(t) = m + 1 /\ t[m + 1] = x /\ \A i \in 1 .. m : t[i] = s[i]
    BY AppendProperties
  <2> QED BY <2>1
<1>2. y \in LineType
  BY LineOfType
<1> HIDE DEF t
<1>3. /\ M \in Seq(LineType) /\ Len(M) = k + m
      /\ \A i \in 1 .. k + m : M[i] = IF i <= k THEN L[i] ELSE LineOf(s[i - k], now)
  BY AsLinesOf
<1>4. /\ N \in Seq(LineType) /\ Len(N) = k + (m + 1)
      /\ \A i \in 1 .. k + (m + 1) : N[i] = IF i <= k THEN L[i] ELSE LineOf(t[i - k], now)
  <2>1. /\ N \in Seq(LineType) /\ Len(N) = k + Len(t)
        /\ \A i \in 1 .. k + Len(t) : N[i] = IF i <= k THEN L[i] ELSE LineOf(t[i - k], now)
    BY <1>1, AsLinesOf
  <2> QED BY <1>1, <2>1
<1> HIDE DEF M, N, y, k, m
<1> DEFINE A == Append(M, y)
<1>5. /\ A \in Seq(LineType) /\ Len(A) = Len(M) + 1 /\ \A i \in 1 .. Len(M) : A[i] = M[i]
      /\ A[Len(M) + 1] = y
  BY <1>2, <1>3, AppendProperties
<1> HIDE DEF A
<1>6. Len(A) = Len(N)
  BY <1>1, <1>3, <1>4, <1>5
<1>7. ASSUME NEW i \in 1 .. Len(N) PROVE N[i] = A[i]
  <2>1. CASE i = k + m + 1
    <3>1. i > k /\ i - k = m + 1 /\ i \in 1 .. k + (m + 1) /\ i = Len(M) + 1
      BY <1>1, <1>3, <2>1
    <3> QED BY <1>1, <1>4, <1>5, <3>1 DEF y
  <2>2. CASE i # k + m + 1
    <3>1. i \in 1 .. k + m /\ i \in 1 .. k + (m + 1) /\ i \in 1 .. Len(M)
      BY <1>1, <1>3, <1>4, <2>2
    <3>2. i > k => i - k \in 1 .. m
      BY <1>1, <3>1
    <3>3. A[i] = M[i] /\ M[i] = IF i <= k THEN L[i] ELSE LineOf(s[i - k], now)
      BY <1>3, <1>5, <3>1
    <3>4. N[i] = IF i <= k THEN L[i] ELSE LineOf(t[i - k], now)
      BY <1>4, <3>1
    <3>5. i > k => t[i - k] = s[i - k]
      BY <1>1, <3>2
    <3>6. k \in Int /\ i \in Int
      BY <1>1, <3>1
    <3> QED BY <3>3, <3>4, <3>5, <3>6
  <2> QED BY <2>1, <2>2
<1>8. N = A
  BY <1>4, <1>5, <1>6, <1>7
<1> QED BY <1>1, <1>8 DEF A, M, N, y, t

LEMMA OneMore ==
  ASSUME NEW T, NEW s \in Seq(T), NEW x \in T
  PROVE  s \o <<x>> = Append(s, x) /\ s \o <<>> = s
OBVIOUS

-------------------------------------------------------------------------------
(* What a step makes of a pair.                                            *)

LEMMA PairFields ==
  ASSUME NEW p \in PairType
  PROVE  /\ p.streak \in 0 .. HoldSteps /\ p.memory \in 0 .. OpenMemory
         /\ p.grasped \in BOOLEAN /\ p.touching \in BOOLEAN /\ p.closing \in BOOLEAN
         /\ p.towed \in BOOLEAN /\ p.gripFlagged \in BOOLEAN
         /\ p.start \in Nat /\ p.count \in Nat /\ p.first \in Nat /\ p.last \in Nat
         /\ p.gripStep \in Nat \cup {Never} /\ p.parted \in Nat \cup {LongAgo}
         /\ p.gripStep \in Int /\ p.parted \in Int
<1>1. Never \in Int /\ LongAgo \in Int
  BY BoundAssumption DEF Never, LongAgo
<1> QED BY <1>1 DEF PairType

LEMMA ReadingFields ==
  ASSUME NEW x \in Reading
  PROVE  /\ x.contact \in BOOLEAN /\ x.coupled \in BOOLEAN /\ x.aside \in BOOLEAN
         /\ x.openCmd \in BOOLEAN
BY DEF Reading

LEMMA StepBooleans ==
  ASSUME NEW p \in PairType, NEW x \in Reading, NEW now \in Nat
  PROVE  /\ NewlyGrasped(p, x) \in BOOLEAN /\ NewlyTowed(p, x) \in BOOLEAN /\ Lost(p, x) \in BOOLEAN
         /\ Fumbled(p, x, now) \in BOOLEAN /\ Reported(p, x, now) \in BOOLEAN
         /\ Closing(p, x) \in BOOLEAN
<1>1. NewlyGrasped(p, x) \in BOOLEAN /\ NewlyTowed(p, x) \in BOOLEAN /\ Lost(p, x) \in BOOLEAN
  BY DEF NewlyGrasped, NewlyTowed, Lost
<1>2. Fumbled(p, x, now) \in BOOLEAN /\ Reported(p, x, now) \in BOOLEAN /\ Closing(p, x) \in BOOLEAN
  BY DEF Fumbled, Reported, Closing
<1> QED BY <1>1, <1>2

(* The burst, with this step's failed attempt.                             *)
LEMMA CountedFields ==
  ASSUME NEW p \in PairType, NEW x \in Reading, NEW now \in Nat
  PROVE  LET c == Counted(p, x, now)
         IN  /\ ~Fumbled(p, x, now) => c = p
             /\ Fumbled(p, x, now) =>
                  /\ c.count = p.count + 1 /\ c.last = now
                  /\ c.first = IF p.count = 0 THEN now ELSE p.first
             /\ c.count \in Nat /\ c.first \in Nat /\ c.last \in Nat
<1> DEFINE c == Counted(p, x, now)
<1>1. ASSUME Fumbled(p, x, now)
      PROVE  /\ c.count = p.count + 1 /\ c.last = now
             /\ c.first = IF p.count = 0 THEN now ELSE p.first
  <2>1. c = [p EXCEPT !.count = @ + 1, !.last = now, !.first = IF p.count = 0 THEN now ELSE @]
    BY <1>1 DEF Counted
  <2> QED BY <2>1 DEF PairType
<1>2. ~Fumbled(p, x, now) => c = p
  BY DEF Counted
<1> HIDE DEF c
<1>3. c.count \in Nat /\ c.first \in Nat /\ c.last \in Nat
  BY <1>1, <1>2, PairFields
<1> QED BY <1>1, <1>2, <1>3 DEF c

LEMMA StreakBounded ==
  ASSUME NEW p \in PairType, NEW x \in Reading
  PROVE  Streak(p, x) \in 0 .. HoldSteps /\ Remembered(p, x) \in 0 .. OpenMemory
<1>1. p.streak \in 0 .. HoldSteps /\ p.memory \in 0 .. OpenMemory
  BY PairFields
<1> QED BY <1>1, BoundAssumption DEF Streak, Remembered, Smaller, Larger

(* Clocks of a contact: a grip is no earlier than its contact.             *)
LEMMA ContactClocks ==
  ASSUME NEW p \in PairType, NEW x \in Reading, NEW now \in Nat
  PROVE  /\ Start(p, x, now) = (IF x.contact /\ ~p.touching THEN now ELSE p.start)
         /\ Start(p, x, now) \in Nat
         /\ GripStep(p, x, now) \in Nat \cup {Never}
         /\ GripStep(p, x, now) # Never =>
              x.contact /\ (GripStep(p, x, now) = now \/ GripStep(p, x, now) = p.gripStep)
         /\ NewlyGrasped(p, x) => x.contact /\ ~p.grasped
         /\ Lost(p, x) <=> p.grasped /\ ~x.contact
         /\ Fumbled(p, x, now) => /\ ~x.contact /\ ~p.grasped /\ p.touching /\ now > 1
                                  /\ now - p.parted > Burst
         /\ Reported(p, x, now) <=>
              /\ Counted(p, x, now).count > 0
              /\ now - Counted(p, x, now).last > Burst \/ NewlyGrasped(p, x)
<1>1. p.start \in Nat /\ p.gripStep \in Nat \cup {Never}
  BY PairFields
<1> QED BY <1>1 DEF Start, GripStep, NewlyGrasped, Carried, Lost, Fumbled, Reported

LEMMA UpdatedFields ==
  ASSUME NEW p \in PairType, NEW x \in Reading, NEW now \in Nat
  PROVE  LET u == Updated(p, x, now)
         IN  /\ u.grasped = ((p.grasped \/ NewlyGrasped(p, x)) /\ x.contact)
             /\ u.touching = x.contact /\ u.start = Start(p, x, now)
             /\ u.gripStep = GripStep(p, x, now)
             /\ u.parted = (IF Lost(p, x) THEN now ELSE p.parted)
             /\ u.count = (IF Reported(p, x, now) THEN 0 ELSE Counted(p, x, now).count)
             /\ u.first = Counted(p, x, now).first
             /\ u \in PairType
<1> DEFINE u == Updated(p, x, now)
<1>1. /\ u.grasped = ((p.grasped \/ NewlyGrasped(p, x)) /\ x.contact)
      /\ u.touching = x.contact /\ u.start = Start(p, x, now)
      /\ u.gripStep = GripStep(p, x, now)
      /\ u.parted = (IF Lost(p, x) THEN now ELSE p.parted)
      /\ u.count = (IF Reported(p, x, now) THEN 0 ELSE Counted(p, x, now).count)
      /\ u.first = Counted(p, x, now).first
      /\ u.last = Counted(p, x, now).last
      /\ u.streak = Streak(p, x) /\ u.memory = Remembered(p, x)
  BY DEF Updated
<1>2. u.streak \in 0 .. HoldSteps /\ u.memory \in 0 .. OpenMemory
  BY <1>1, StreakBounded
<1>3. u.count \in Nat /\ u.first \in Nat /\ u.last \in Nat
  BY <1>1, CountedFields
<1>4. u.start \in Nat /\ u.gripStep \in Nat \cup {Never} /\ u.parted \in Nat \cup {LongAgo}
  BY <1>1, ContactClocks, PairFields
<1>5. /\ u.grasped \in BOOLEAN /\ u.touching \in BOOLEAN /\ u.closing \in BOOLEAN
      /\ u.towed \in BOOLEAN /\ u.gripFlagged \in BOOLEAN
  <2>1. u.grasped \in BOOLEAN /\ u.touching \in BOOLEAN
    BY ReadingFields DEF Updated
  <2>2. u.closing \in BOOLEAN
    BY DEF Updated, Closing
  <2>3. u.towed \in BOOLEAN /\ u.gripFlagged \in BOOLEAN
    BY DEF Updated
  <2> QED BY <2>1, <2>2, <2>3
<1>6. u = [streak |-> u.streak, grasped |-> u.grasped, touching |-> u.touching,
           closing |-> u.closing, towed |-> u.towed, start |-> u.start,
           gripFlagged |-> u.gripFlagged, gripStep |-> u.gripStep, parted |-> u.parted,
           count |-> u.count, first |-> u.first, last |-> u.last, memory |-> u.memory]
  BY DEF Updated
<1>7. u \in PairType
  <2> HIDE DEF u
  <2> QED BY <1>2, <1>3, <1>4, <1>5, <1>6 DEF PairType
<1> QED BY <1>1, <1>7

-------------------------------------------------------------------------------
(* What holds of a pair and its lines before a step, and what it says of   *)
(* the clocks of the step: L are the lines, n steps into the episode.      *)

LEMMA StepClocks ==
  ASSUME NEW n \in Nat, NEW of \in Nat, NEW L, LinesInv(L, n, of),
         NEW p, PairInv(p, L, n), NEW x \in Reading, NEW now, now = n + 1
  PROVE  /\ NewlyGrasped(p, x) => /\ \A s \in Partings(L) : s < Start(p, x, now)
                                  /\ ~Held(L) /\ ~Lost(p, x) /\ x.contact
         /\ Start(p, x, now) <= now
         /\ GripStep(p, x, now) # Never => Start(p, x, now) <= GripStep(p, x, now)
         /\ Lost(p, x) => Held(L)
         /\ Reported(p, x, now) =>
              /\ Counted(p, x, now) = p /\ p.count > 0 /\ p.first < now
              /\ \A s \in Grabs(L) : s <= p.first
              /\ \A s \in Partings(L) : p.first \notin s .. s + Burst
<1>1. p \in PairType /\ now \in Nat /\ n < now
  BY DEF PairInv
<1>2. \A s \in Partings(L) : s \in Nat /\ s <= n
  BY TimesPast
<1>3. /\ p.start \in Nat /\ p.gripStep \in Int /\ p.count \in Nat /\ p.first \in Nat /\ p.last \in Nat
      /\ p.touching \in BOOLEAN /\ x.contact \in BOOLEAN
  BY <1>1, PairFields, ReadingFields
<1>4. /\ Start(p, x, now) = (IF x.contact /\ ~p.touching THEN now ELSE p.start)
      /\ GripStep(p, x, now) # Never =>
           x.contact /\ (GripStep(p, x, now) = now \/ GripStep(p, x, now) = p.gripStep)
      /\ NewlyGrasped(p, x) => x.contact /\ ~p.grasped
      /\ Lost(p, x) <=> p.grasped /\ ~x.contact
      /\ Fumbled(p, x, now) => ~x.contact
      /\ Reported(p, x, now) <=>
           /\ Counted(p, x, now).count > 0
           /\ now - Counted(p, x, now).last > Burst \/ NewlyGrasped(p, x)
  BY <1>1, ContactClocks
<1>5. /\ p.grasped <=> Held(L)
      /\ p.start <= n
      /\ p.touching => \A s \in Partings(L) : s < p.start
      /\ p.gripStep # Never => p.touching /\ p.start <= p.gripStep
      /\ p.count > 0 => /\ p.first <= n
                        /\ \A s \in Grabs(L) : s <= p.first
                        /\ \A s \in Partings(L) : p.first \notin s .. s + Burst
  BY DEF PairInv
<1>6. NewlyGrasped(p, x) => \A s \in Partings(L) : s < Start(p, x, now)
  BY <1>1, <1>2, <1>3, <1>4, <1>5
<1>7. Start(p, x, now) <= now
  BY <1>1, <1>3, <1>4, <1>5
<1>8. GripStep(p, x, now) # Never => Start(p, x, now) <= GripStep(p, x, now)
  <2>1. CASE GripStep(p, x, now) = now
    BY <1>7, <2>1
  <2>2. CASE GripStep(p, x, now) = p.gripStep /\ p.gripStep # Never
    BY <1>4, <1>5, <2>2
  <2> QED BY <1>4, <2>1, <2>2
<1>9. ASSUME Reported(p, x, now) PROVE Counted(p, x, now) = p
  <2>1. CASE Fumbled(p, x, now)
    <3>1. Counted(p, x, now).last = now /\ ~NewlyGrasped(p, x)
      BY <1>1, <1>4, <2>1, CountedFields
    <3> QED BY <1>1, <1>4, <1>9, <3>1, BoundAssumption
  <2>2. CASE ~Fumbled(p, x, now)
    BY <1>1, <2>2, CountedFields
  <2> QED BY <2>1, <2>2
<1>10. Reported(p, x, now) => /\ Counted(p, x, now) = p /\ p.count > 0 /\ p.first < now
                              /\ \A s \in Grabs(L) : s <= p.first
                              /\ \A s \in Partings(L) : p.first \notin s .. s + Burst
  BY <1>1, <1>3, <1>4, <1>5, <1>9
<1> QED BY <1>4, <1>5, <1>6, <1>7, <1>8, <1>10

(* The lines of a step: what waited, then what the tracker emits.          *)
Grown(L, e, p, x, now, r) == L \o AsLines(Emitted(e, p, x, now, AnyOpen(r)), now)

(* Step `now` of episode `of` of e, for which the events q wait.           *)
AtStep(e, of, q, n, now) ==
  e \in Envs /\ of \in Nat /\ of = episode[e] /\ q = queue[e] /\ n \in Nat /\ now = n + 1

LEMMA StepLines ==
  ASSUME NEW e, NEW of, NEW q, NEW n, NEW now, AtStep(e, of, q, n, now),
         NEW L, LinesInv(L, n, of), GripsBecome(L), Waiting(q, of), Clear(q, L, n, of),
         NEW p, PairInv(p, L, n), NEW x \in Reading, NEW r,
         NEW N, N = Grown(L, e, p, x, now, r)
  PROVE  /\ LinesInv(N, now, of) /\ GripsBecome(N)
         /\ Held(N) <=> (Held(L) \/ NewlyGrasped(p, x)) /\ ~Lost(p, x)
         /\ Partings(N) = Partings(L) \cup (IF Lost(p, x) THEN {now} ELSE {})
         /\ Grabs(N) = Grabs(L) \cup (IF NewlyGrasped(p, x) THEN {now} ELSE {})
         /\ FumblesIn(L, of) \in Nat /\ FumblesIn(q, of) \in Nat
         /\ FumblesIn(N, of) =
              FumblesIn(L, of) + FumblesIn(q, of)
                + (IF Reported(p, x, now) THEN Counted(p, x, now).count ELSE 0)
<1> DEFINE towed == NewlyTowed(p, x)
           newly == NewlyGrasped(p, x)
           grip == GripStep(p, x, now)
           start == Start(p, x, now)
           gripped == newly /\ grip # Never /\ ~p.gripFlagged
           rep == Reported(p, x, now)
           c == Counted(p, x, now)
           lost == Lost(p, x)
           x1 == Event(e, "towed", Never, 0)
           x2 == Event(e, "gripped", grip, 0)
           x3 == Event(e, "grabbed", Larger(start, grip), 0)
           x4 == Event(e, "attempt", c.first, c.count)
           x5 == Event(e, IF Deliberate(p, x, AnyOpen(r)) THEN "released" ELSE "dropped", Never, 0)
           s1 == q \o When(towed, x1)
           s2 == s1 \o When(gripped, x2)
           s3 == s2 \o When(newly, x3)
           s4 == s3 \o When(rep, x4)
           s5 == s4 \o When(lost, x5)
           Of(s) == L \o AsLines(s, now)
<1>0. e \in Envs /\ of \in Nat /\ of = episode[e] /\ q = queue[e] /\ n \in Nat /\ now = n + 1
  BY DEF AtStep
<1>1. N = Of(s5)
  <2>1. s5 = Emitted(e, p, x, now, AnyOpen(r))
    BY <1>0 DEF Emitted
  <2> QED BY <2>1 DEF Grown
<1>2. /\ of \in Nat /\ now \in Nat /\ n <= now /\ p \in PairType /\ L \in Seq(LineType)
      /\ \A s \in Partings(L) : s \in Nat /\ s <= n
      /\ \A s \in Grabs(L) : s \in Nat /\ s <= n
      /\ LinesInv(L, now, of)
  <2>1. of \in Nat /\ now \in Nat /\ n \in Nat /\ n <= now
    BY <1>0
  <2>2. p \in PairType /\ L \in Seq(LineType)
    BY DEF PairInv, LinesInv, InOrder
  <2> QED BY <2>1, <2>2, TimesPast, LinesLater
<1>3. towed \in BOOLEAN /\ newly \in BOOLEAN /\ gripped \in BOOLEAN /\ rep \in BOOLEAN /\ lost \in BOOLEAN
  BY <1>2, StepBooleans
<1>4. start \in Nat /\ grip \in Nat \cup {Never} /\ c.first \in Nat /\ c.count \in Nat
  BY <1>2, ContactClocks, CountedFields
<1>5. Larger(start, grip) \in Nat /\ start <= Larger(start, grip) /\ (grip # Never => Larger(start, grip) = grip)
  <2>1. grip # Never => start <= grip
    BY <1>2, <1>0, StepClocks
  <2> QED BY <1>4, <2>1 DEF Larger, Never
<1>6. x1 \in EventType /\ x2 \in EventType /\ x3 \in EventType /\ x4 \in EventType /\ x5 \in EventType
  BY <1>0, <1>2, <1>4, <1>5 DEF Event, EventType, Kinds
<1>7. /\ x1.kind = "towed" /\ x1.onset = Never /\ x1.of = of
      /\ x2.kind = "gripped" /\ x2.onset = grip /\ x2.of = of
      /\ x3.kind = "grabbed" /\ x3.onset = Larger(start, grip) /\ x3.of = of
      /\ x4.kind = "attempt" /\ x4.onset = c.first /\ x4.of = of /\ x4.count = c.count
      /\ x5.kind \in {"released", "dropped"} /\ x5.onset = Never /\ x5.of = of
  BY <1>0 DEF Event
<1>8. /\ newly => (\A s \in Partings(L) : s < start) /\ ~Held(L) /\ ~lost
      /\ lost => Held(L)
      /\ rep => /\ c.first < now
                /\ \A s \in Grabs(L) : s <= c.first
                /\ \A s \in Partings(L) : c.first \notin s .. s + Burst
  BY <1>2, <1>0, StepClocks
<1> HIDE DEF towed, newly, grip, start, rep, c, lost, x1, x2, x3, x4, x5
<1> DEFINE l1 == LineOf(x1, now)
           l2 == LineOf(x2, now)
           l3 == LineOf(x3, now)
           l4 == LineOf(x4, now)
           l5 == LineOf(x5, now)
<1>9. /\ l1 \in LineType /\ l1.seen = now /\ l1.kind = "towed" /\ l1.of = of
      /\ l2 \in LineType /\ l2.seen = now /\ l2.kind = "gripped" /\ l2.of = of
      /\ l2.step = IF grip = Never THEN now ELSE grip
      /\ l3 \in LineType /\ l3.seen = now /\ l3.kind = "grabbed" /\ l3.of = of
      /\ l3.step = Larger(start, grip)
      /\ l4 \in LineType /\ l4.seen = now /\ l4.kind = "attempt" /\ l4.of = of
      /\ l4.step = c.first /\ l4.count = c.count
      /\ l5 \in LineType /\ l5.seen = now /\ l5.kind \in {"released", "dropped"} /\ l5.of = of
      /\ l5.step = now
  <2>1. Larger(start, grip) # Never /\ c.first # Never
    BY <1>4, <1>5 DEF Never
  <2> QED BY <1>2, <1>6, <1>7, <2>1, LineOfType
<1> HIDE DEF l1, l2, l3, l4, l5
(* What waited.                                                            *)
<1>10. /\ q \in Seq(EventType)
       /\ LinesInv(Of(q), now, of) /\ GripsBecome(Of(q))
       /\ (Held(Of(q)) <=> Held(L)) /\ Partings(Of(q)) = Partings(L) /\ Grabs(Of(q)) = Grabs(L)
       /\ FumblesIn(L, of) \in Nat /\ FumblesIn(q, of) \in Nat
       /\ FumblesIn(Of(q), of) = FumblesIn(L, of) + FumblesIn(q, of)
  <2>1. <<>> \in Seq(EventType) /\ Of(<<>>) = L
    BY <1>2, NoEvents
  <2>2. FumblesIn(<<>>, of) = 0
    BY <1>2, NoLines
  <2>3. FumblesIn(L, of) \in Nat
    BY <1>2, FumblesCounted
  <2>4. CASE q = <<>>
    <3>1. Of(q) = L /\ FumblesIn(q, of) = 0 /\ q \in Seq(EventType)
      BY <2>1, <2>2, <2>4
    <3> HIDE DEF Of
    <3> QED BY <1>2, <2>3, <3>1
  <2>5. CASE q # <<>>
    <3>1. PICK y \in EventType : q = <<y>> /\ y.kind = "attempt" /\ y.onset # Never /\ y.of <= of
      BY <2>5 DEF Waiting
    <3> DEFINE l == LineOf(y, now)
    <3>2. l \in LineType /\ l.seen = now /\ l.kind = "attempt" /\ l.of = y.of /\ l.count = y.count /\ l.step = y.onset
      BY <1>2, <3>1, LineOfType
    <3>3. y.onset \in Nat /\ y.count \in Nat /\ y.of \in Nat
      BY <3>1 DEF EventType
    <3>4. q = Append(<<>>, y) /\ q \in Seq(EventType)
      BY <3>1
    <3>5. Of(q) = Append(L, l)
      <4> DEFINE s0 == <<>>
      <4>1. s0 \in Seq(EventType) /\ Of(s0) = L /\ q = Append(s0, y)
        BY <2>1, <3>4
      <4> HIDE DEF s0
      <4>2. L \o AsLines(Append(s0, y), now) = Append(L \o AsLines(s0, now), LineOf(y, now))
        BY <1>2, <4>1, EventAppended
      <4> QED BY <4>1, <4>2
    <3> HIDE DEF l
    <3>6. ASSUME Own(l, of)
          PROVE  /\ l.step < now
                 /\ \A s \in Grabs(L) : s <= l.step \/ s = now
                 /\ \A s \in Partings(L) : l.step \notin s .. s + Burst
      <4>1. 1 \in DOMAIN q /\ q[1] = y /\ y.of = of
        BY <3>1, <3>2, <3>6 DEF Own
      <4>2. /\ y.onset <= n
            /\ \A s \in Grabs(L) : s <= y.onset
            /\ \A s \in Partings(L) : y.onset \notin s .. s + Burst
        BY <4>1 DEF Clear
      <4> QED BY <1>0, <3>2, <3>3, <4>2
    <3>7. MayFollow(L, l, now, of) /\ l.kind # "gripped" /\ ~IsParting(l) /\ l.kind # "grabbed"
      BY <3>1, <3>2, <3>6 DEF MayFollow, IsParting
    <3> DEFINE M == Append(L, l)
    <3>8. /\ LinesInv(M, now, of) /\ GripsBecome(M)
          /\ Held(M) <=> l.kind = "grabbed" \/ (Held(L) /\ ~IsParting(l))
          /\ Partings(M) = Partings(L) \cup (IF IsParting(l) THEN {l.step} ELSE {})
          /\ Grabs(M) = Grabs(L) \cup (IF l.kind = "grabbed" THEN {now} ELSE {})
          /\ FumblesIn(M, of) = FumblesIn(L, of) + (IF Own(l, of) THEN l.count ELSE 0)
      BY <1>2, <3>7, LineAdded
    <3>9. FumblesIn(q, of) = (IF Own(y, of) THEN y.count ELSE 0)
      <4>1. \A z \in EventType : z.count \in Nat
        BY DEF EventType
      <4>2. FumblesIn(Append(<<>>, y), of) = FumblesIn(<<>>, of) + (IF Own(y, of) THEN y.count ELSE 0)
        BY <2>1, <3>1, <4>1, FumblesAppended
      <4> QED BY <2>2, <3>3, <3>4, <4>2
    <3>10. Own(l, of) <=> Own(y, of)
      BY <3>1, <3>2 DEF Own
    <3>11. M = Of(q)
      BY <3>5
    <3>12. q \in Seq(EventType)
      BY <3>4
    <3> HIDE DEF Of, M
    <3> QED BY <2>3, <3>2, <3>3, <3>7, <3>8, <3>9, <3>10, <3>11, <3>12
  <2> QED BY <2>4, <2>5
(* One by one the events of this step become lines after those.            *)
<1> DEFINE M0 == Of(q)
           M1 == Of(s1)
           M2 == Of(s2)
           M3 == Of(s3)
           M4 == Of(s4)
           M5 == Of(s5)
           F0 == FumblesIn(L, of) + FumblesIn(q, of)
<1> HIDE DEF s1, s2, s3, s4, s5
<1>11. \A s \in Seq(EventType), y \in EventType :
         Append(s, y) \in Seq(EventType) /\ Of(Append(s, y)) = Append(Of(s), LineOf(y, now))
  BY <1>2, EventAppended
<1>12. \A s \in Seq(EventType), y \in EventType : s \o <<y>> = Append(s, y) /\ s \o <<>> = s
  BY OneMore
<1> HIDE DEF Of
<1>13. s1 \in Seq(EventType) /\ (towed => M1 = Append(M0, l1)) /\ (~towed => M1 = M0)
  <2>1. s1 = IF towed THEN q \o <<x1>> ELSE q \o <<>>
    BY DEF s1, When
  <2>2. q \o <<x1>> = Append(q, x1) /\ q \o <<>> = q
    BY <1>6, <1>12, <1>10
  <2>3. Append(q, x1) \in Seq(EventType) /\ Of(Append(q, x1)) = Append(M0, l1)
    BY <1>6, <1>11, <1>10 DEF l1, M0
  <2> QED BY <1>10, <2>1, <2>2, <2>3
<1>14. s2 \in Seq(EventType) /\ (gripped => M2 = Append(M1, l2)) /\ (~gripped => M2 = M1)
  <2> HIDE DEF gripped
  <2>1. s2 = IF gripped THEN s1 \o <<x2>> ELSE s1 \o <<>>
    BY DEF s2, When
  <2>2. s1 \o <<x2>> = Append(s1, x2) /\ s1 \o <<>> = s1
    BY <1>6, <1>12, <1>13
  <2>3. Append(s1, x2) \in Seq(EventType) /\ Of(Append(s1, x2)) = Append(M1, l2)
    BY <1>6, <1>11, <1>13 DEF l2
  <2> QED BY <1>13, <2>1, <2>2, <2>3
<1>15. s3 \in Seq(EventType) /\ (newly => M3 = Append(M2, l3)) /\ (~newly => M3 = M2)
  <2>1. s3 = IF newly THEN s2 \o <<x3>> ELSE s2 \o <<>>
    BY DEF s3, When
  <2>2. s2 \o <<x3>> = Append(s2, x3) /\ s2 \o <<>> = s2
    BY <1>6, <1>12, <1>14
  <2>3. Append(s2, x3) \in Seq(EventType) /\ Of(Append(s2, x3)) = Append(M2, l3)
    BY <1>6, <1>11, <1>14 DEF l3
  <2> QED BY <1>14, <2>1, <2>2, <2>3
<1>16. s4 \in Seq(EventType) /\ (rep => M4 = Append(M3, l4)) /\ (~rep => M4 = M3)
  <2>1. s4 = IF rep THEN s3 \o <<x4>> ELSE s3 \o <<>>
    BY DEF s4, When
  <2>2. s3 \o <<x4>> = Append(s3, x4) /\ s3 \o <<>> = s3
    BY <1>6, <1>12, <1>15
  <2>3. Append(s3, x4) \in Seq(EventType) /\ Of(Append(s3, x4)) = Append(M3, l4)
    BY <1>6, <1>11, <1>15 DEF l4
  <2> QED BY <1>15, <2>1, <2>2, <2>3
<1>17. (lost => M5 = Append(M4, l5)) /\ (~lost => M5 = M4)
  <2>1. s5 = IF lost THEN s4 \o <<x5>> ELSE s4 \o <<>>
    BY DEF s5, When
  <2>2. s4 \o <<x5>> = Append(s4, x5) /\ s4 \o <<>> = s4
    BY <1>6, <1>12, <1>16
  <2>3. Append(s4, x5) \in Seq(EventType) /\ Of(Append(s4, x5)) = Append(M4, l5)
    BY <1>6, <1>11, <1>16 DEF l5
  <2> QED BY <1>16, <2>1, <2>2, <2>3
<1>18. /\ LinesInv(M0, now, of) /\ GripsBecome(M0)
       /\ (Held(M0) <=> Held(L)) /\ Partings(M0) = Partings(L) /\ Grabs(M0) = Grabs(L)
       /\ FumblesIn(M0, of) = F0 /\ F0 \in Nat /\ FumblesIn(L, of) \in Nat /\ FumblesIn(q, of) \in Nat
  BY <1>10
<1>19. l1.count \in Nat /\ l2.count \in Nat /\ l3.count \in Nat /\ l5.count \in Nat
  BY <1>9, LineFields
<1> HIDE DEF M0, M1, M2, M3, M4, M5, F0
(* A tow...                                                                *)
<1>20. /\ LinesInv(M1, now, of) /\ GripsBecome(M1)
       /\ (Held(M1) <=> Held(L)) /\ Partings(M1) = Partings(L) /\ Grabs(M1) = Grabs(L)
       /\ FumblesIn(M1, of) = F0
  <2>1. CASE ~towed
    BY <1>13, <1>18, <2>1
  <2>2. CASE towed
    <3> DEFINE M == Append(M0, l1)
    <3>1. MayFollow(M0, l1, now, of) /\ l1.kind = "towed" /\ ~IsParting(l1) /\ ~Own(l1, of)
      BY <1>2, <1>9 DEF MayFollow, IsParting, Own
    <3>2. /\ LinesInv(M, now, of) /\ GripsBecome(M)
          /\ Held(M) <=> l1.kind = "grabbed" \/ (Held(M0) /\ ~IsParting(l1))
          /\ Partings(M) = Partings(M0) \cup (IF IsParting(l1) THEN {l1.step} ELSE {})
          /\ Grabs(M) = Grabs(M0) \cup (IF l1.kind = "grabbed" THEN {now} ELSE {})
          /\ FumblesIn(M, of) = FumblesIn(M0, of) + (IF Own(l1, of) THEN l1.count ELSE 0)
      <4>1. LinesInv(M0, now, of) /\ GripsBecome(M0) /\ MayFollow(M0, l1, now, of) /\ l1.kind # "gripped"
        BY <1>18, <3>1
      <4> QED BY <1>2, <4>1, LineAdded
    <3>3. M1 = M
      BY <1>13, <2>2
    <3>4. (Held(M) <=> Held(L)) /\ Partings(M) = Partings(L) /\ Grabs(M) = Grabs(L) /\ FumblesIn(M, of) = F0
      BY <1>18, <3>1, <3>2
    <3> HIDE DEF M
    <3> QED BY <3>2, <3>3, <3>4
  <2> QED BY <2>1, <2>2
(* ...a carry, or a grip and its carry...                                  *)
<1>21. ASSUME newly, NEW M, LinesInv(M, now, of), ~Held(M), Partings(M) = Partings(L), Grabs(M) = Grabs(L),
              FumblesIn(M, of) = F0
       PROVE  LET P == Append(M, l3)
              IN  /\ LinesInv(P, now, of) /\ Held(P) /\ Partings(P) = Partings(L)
                  /\ Grabs(P) = Grabs(L) \cup {now} /\ FumblesIn(P, of) = F0
                  /\ GripsBecome(M) => GripsBecome(P)
  <2> DEFINE P == Append(M, l3)
  <2>1. \A s \in Partings(L) : s < Larger(start, grip)
    BY <1>2, <1>4, <1>5, <1>8, <1>21
  <2>2. MayFollow(M, l3, now, of) /\ ~IsParting(l3) /\ ~Own(l3, of)
    BY <1>2, <1>9, <1>21, <2>1 DEF MayFollow, IsParting, Own
  <2>3. M \in Seq(LineType) /\ \A y \in LineType : y.count \in Nat
    BY <1>21, LineFields DEF LinesInv, InOrder
  <2>4. LinesInv(P, now, of)
    BY <1>2, <1>21, <2>2, LinesFollow
  <2>5. Held(P)
    BY <1>9, <2>3, HandAppended
  <2>6. Partings(P) = Partings(L) /\ Grabs(P) = Grabs(L) \cup {now}
    BY <1>9, <1>21, <2>2, <2>3, TimesAppended
  <2>7. FumblesIn(P, of) = FumblesIn(M, of) + (IF Own(l3, of) THEN l3.count ELSE 0)
    BY <1>9, <2>3, FumblesAppended
  <2>8. GripsBecome(M) => GripsBecome(P)
    BY <1>9, <2>3, GripsFollow
  <2> QED BY <1>18, <1>21, <2>2, <2>4, <2>5, <2>6, <2>7, <2>8
<1>22. /\ LinesInv(M3, now, of) /\ GripsBecome(M3)
       /\ (Held(M3) <=> Held(L) \/ newly) /\ Partings(M3) = Partings(L)
       /\ Grabs(M3) = Grabs(L) \cup (IF newly THEN {now} ELSE {})
       /\ FumblesIn(M3, of) = F0
  <2>1. CASE ~newly
    <3>1. M3 = M1
      BY <1>14, <1>15, <2>1
    <3> QED BY <1>20, <2>1, <3>1
  <2>2. CASE newly /\ ~gripped
    <3>1. M3 = Append(M1, l3)
      BY <1>14, <1>15, <2>2
    <3> QED BY <1>8, <1>20, <1>21, <2>2, <3>1
  <2>3. CASE newly /\ gripped
    <3>1. M2 = Append(M1, l2) /\ M3 = Append(M2, l3)
      BY <1>14, <1>15, <2>3
    <3>2. MayFollow(M1, l2, now, of) /\ ~IsParting(l2) /\ ~Own(l2, of) /\ l2.kind # "grabbed"
      BY <1>2, <1>9 DEF MayFollow, IsParting, Own
    <3>3. M1 \in Seq(LineType) /\ \A y \in LineType : y.count \in Nat
      BY <1>20, LineFields DEF LinesInv, InOrder
    <3>4. LinesInv(M2, now, of)
      BY <1>2, <1>20, <3>1, <3>2, LinesFollow
    <3>5. ~Held(M2)
      BY <1>8, <1>9, <1>20, <2>3, <3>1, <3>2, <3>3, HandAppended
    <3>6. Partings(M2) = Partings(L) /\ Grabs(M2) = Grabs(L)
      BY <1>9, <1>20, <3>1, <3>2, <3>3, TimesAppended
    <3>7. FumblesIn(M2, of) = F0
      <4>1. FumblesIn(Append(M1, l2), of) = FumblesIn(M1, of) + (IF Own(l2, of) THEN l2.count ELSE 0)
        BY <1>9, <3>3, FumblesAppended
      <4> QED BY <1>18, <1>20, <3>1, <3>2, <4>1
    <3>8. GripsBecome(M3)
      <4>1. l3.step = l2.step /\ l2.kind = "gripped" /\ l3.kind = "grabbed"
        BY <1>5, <1>9, <2>3
      <4> QED BY <1>9, <1>20, <3>1, <3>3, <4>1, GripsFollow
    <3> QED BY <1>21, <2>3, <3>1, <3>4, <3>5, <3>6, <3>7, <3>8
  <2> QED BY <2>1, <2>2, <2>3
(* ...a burst, and a parting.                                              *)
<1>23. /\ LinesInv(M4, now, of) /\ GripsBecome(M4)
       /\ (Held(M4) <=> Held(L) \/ newly) /\ Partings(M4) = Partings(L)
       /\ Grabs(M4) = Grabs(L) \cup (IF newly THEN {now} ELSE {})
       /\ FumblesIn(M4, of) = F0 + (IF rep THEN c.count ELSE 0)
  <2>1. CASE ~rep
    BY <1>16, <1>18, <1>22, <2>1
  <2>2. CASE rep
    <3> DEFINE M == Append(M3, l4)
    <3>1. \A s \in Grabs(M3) : s \in Grabs(L) \/ s = now
      BY <1>22
    <3>2. MayFollow(M3, l4, now, of) /\ l4.kind = "attempt" /\ ~IsParting(l4) /\ Own(l4, of)
      BY <1>2, <1>8, <1>9, <1>22, <2>2, <3>1 DEF MayFollow, IsParting, Own
    <3>3. /\ LinesInv(M, now, of) /\ GripsBecome(M)
          /\ Held(M) <=> l4.kind = "grabbed" \/ (Held(M3) /\ ~IsParting(l4))
          /\ Partings(M) = Partings(M3) \cup (IF IsParting(l4) THEN {l4.step} ELSE {})
          /\ Grabs(M) = Grabs(M3) \cup (IF l4.kind = "grabbed" THEN {now} ELSE {})
          /\ FumblesIn(M, of) = FumblesIn(M3, of) + (IF Own(l4, of) THEN l4.count ELSE 0)
      BY <1>2, <1>22, <3>2, LineAdded
    <3>4. M4 = M
      BY <1>16, <2>2
    <3> HIDE DEF M
    <3> QED BY <1>9, <1>22, <2>2, <3>2, <3>3, <3>4
  <2> QED BY <2>1, <2>2
<1>24. /\ LinesInv(M5, now, of) /\ GripsBecome(M5)
       /\ (Held(M5) <=> (Held(L) \/ newly) /\ ~lost)
       /\ Partings(M5) = Partings(L) \cup (IF lost THEN {now} ELSE {})
       /\ Grabs(M5) = Grabs(L) \cup (IF newly THEN {now} ELSE {})
       /\ FumblesIn(M5, of) = F0 + (IF rep THEN c.count ELSE 0)
  <2>1. CASE ~lost
    BY <1>17, <1>23, <2>1
  <2>2. CASE lost
    <3> DEFINE M == Append(M4, l5)
    <3>1. MayFollow(M4, l5, now, of)
      BY <1>2, <1>8, <1>9, <1>23, <2>2 DEF MayFollow, IsParting, Own
    <3>2. IsParting(l5) /\ ~Own(l5, of) /\ l5.kind # "gripped" /\ l5.kind # "grabbed"
      BY <1>9 DEF IsParting, Own
    <3>3. /\ LinesInv(M, now, of) /\ GripsBecome(M)
          /\ Held(M) <=> l5.kind = "grabbed" \/ (Held(M4) /\ ~IsParting(l5))
          /\ Partings(M) = Partings(M4) \cup (IF IsParting(l5) THEN {l5.step} ELSE {})
          /\ Grabs(M) = Grabs(M4) \cup (IF l5.kind = "grabbed" THEN {now} ELSE {})
          /\ FumblesIn(M, of) = FumblesIn(M4, of) + (IF Own(l5, of) THEN l5.count ELSE 0)
      BY <1>2, <1>23, <3>1, <3>2, LineAdded
    <3>4. M5 = M
      BY <1>17, <2>2
    <3>5. F0 + (IF rep THEN c.count ELSE 0) \in Nat
      BY <1>4, <1>18
    <3> HIDE DEF M
    <3> QED BY <1>9, <1>23, <2>2, <3>2, <3>3, <3>4, <3>5
  <2> QED BY <2>1, <2>2
<1>25. M5 = N
  BY <1>1 DEF M5
<1> QED BY <1>18, <1>24, <1>25 DEF F0, towed, newly, rep, c, lost

(* The pair after the step agrees with the lines after it.                 *)
LEMMA PairNext ==
  ASSUME NEW n \in Nat, NEW of \in Nat, NEW L, LinesInv(L, n, of),
         NEW p, PairInv(p, L, n), NEW x \in Reading, NEW now, now = n + 1,
         NEW N, Held(N) <=> (Held(L) \/ NewlyGrasped(p, x)) /\ ~Lost(p, x),
         Partings(N) = Partings(L) \cup (IF Lost(p, x) THEN {now} ELSE {}),
         Grabs(N) = Grabs(L) \cup (IF NewlyGrasped(p, x) THEN {now} ELSE {})
  PROVE  PairInv(Updated(p, x, now), N, now)
<1> DEFINE u == Updated(p, x, now)
           c == Counted(p, x, now)
           newly == NewlyGrasped(p, x)
           lost == Lost(p, x)
           fumbled == Fumbled(p, x, now)
           rep == Reported(p, x, now)
<1>1. p \in PairType /\ now \in Nat /\ n < now
  BY DEF PairInv
<1>2. /\ \A s \in Partings(L) : s \in Nat /\ s <= n
      /\ \A s \in Grabs(L) : s \in Nat /\ s <= n
  BY TimesPast
<1>3. /\ u.grasped = ((p.grasped \/ newly) /\ x.contact)
      /\ u.touching = x.contact /\ u.start = Start(p, x, now)
      /\ u.gripStep = GripStep(p, x, now)
      /\ u.parted = (IF lost THEN now ELSE p.parted)
      /\ u.count = (IF rep THEN 0 ELSE c.count)
      /\ u.first = c.first
      /\ u \in PairType
  BY <1>1, UpdatedFields
<1>4. /\ Start(p, x, now) = (IF x.contact /\ ~p.touching THEN now ELSE p.start)
      /\ GripStep(p, x, now) # Never => x.contact
      /\ newly => x.contact /\ ~p.grasped
      /\ lost <=> p.grasped /\ ~x.contact
      /\ fumbled => /\ ~x.contact /\ ~p.grasped /\ now - p.parted > Burst
      /\ rep <=> c.count > 0 /\ (now - c.last > Burst \/ newly)
  BY <1>1, ContactClocks
<1>5. /\ ~fumbled => c = p
      /\ fumbled => c.count = p.count + 1 /\ c.first = IF p.count = 0 THEN now ELSE p.first
      /\ c.count \in Nat /\ c.first \in Nat /\ c.last \in Nat
  BY <1>1, CountedFields
<1>6. /\ p.start \in Nat /\ p.count \in Nat /\ p.first \in Nat /\ p.parted \in Int
      /\ p.grasped \in BOOLEAN /\ p.touching \in BOOLEAN /\ x.contact \in BOOLEAN
  BY <1>1, PairFields, ReadingFields
<1>7. /\ Start(p, x, now) <= now
      /\ GripStep(p, x, now) # Never => Start(p, x, now) <= GripStep(p, x, now)
  BY StepClocks
<1>8. /\ p.grasped <=> Held(L)
      /\ p.grasped => p.touching
      /\ p.touching => \A s \in Partings(L) : s < p.start
      /\ \A s \in Partings(L) : s <= p.parted
      /\ p.count > 0 => /\ p.first <= n
                        /\ \A s \in Grabs(L) : s <= p.first
                        /\ \A s \in Partings(L) : p.first \notin s .. s + Burst
  BY DEF PairInv
<1>9. /\ \A s \in Partings(N) : s \in Partings(L) \/ (lost /\ s = now)
      /\ \A s \in Grabs(N) : s \in Grabs(L) \/ (newly /\ s = now)
  OBVIOUS
<1> HIDE DEF u, c, newly, lost, fumbled, rep
<1>10. u.grasped <=> Held(N)
  <2>1. Held(N) <=> (Held(L) \/ newly) /\ ~lost
    BY DEF newly, lost
  <2> QED BY <1>3, <1>4, <1>6, <1>8, <2>1
<1>11. u.grasped => u.touching
  BY <1>3, <1>4, <1>6
<1>12. ASSUME u.touching, NEW s \in Partings(N) PROVE s < u.start
  <2>1. s \in Partings(L) /\ s <= n /\ s \in Nat
    BY <1>2, <1>3, <1>4, <1>9, <1>12
  <2> QED BY <1>1, <1>3, <1>4, <1>6, <1>8, <1>12, <2>1
<1>13. \A s \in Partings(N) : s <= u.parted
  BY <1>1, <1>2, <1>3, <1>4, <1>8, <1>9
<1>14. ASSUME u.count > 0
       PROVE  /\ u.first <= now
              /\ \A s \in Grabs(N) : s <= u.first
              /\ \A s \in Partings(N) : u.first \notin s .. s + Burst
  <2>1. ~rep /\ c.count > 0 /\ ~newly
    BY <1>3, <1>4, <1>14
  <2>2. CASE ~fumbled
    <3>1. c = p /\ u.first = p.first /\ p.first <= n /\ p.count > 0
      BY <1>3, <1>5, <1>8, <2>1, <2>2
    <3>2. \A s \in Grabs(N) : s <= u.first
      BY <1>8, <1>9, <2>1, <3>1
    <3>3. \A s \in Partings(N) : u.first \notin s .. s + Burst
      BY <1>1, <1>6, <1>8, <1>9, <3>1, BoundAssumption
    <3> QED BY <1>1, <1>6, <3>1, <3>2, <3>3
  <2>3. CASE fumbled /\ p.count > 0
    <3>1. u.first = p.first /\ p.first <= n /\ ~lost
      BY <1>3, <1>4, <1>5, <1>8, <2>3
    <3>2. /\ \A s \in Grabs(N) : s <= u.first
          /\ \A s \in Partings(N) : u.first \notin s .. s + Burst
      BY <1>8, <1>9, <2>1, <2>3, <3>1
    <3> QED BY <1>1, <1>6, <3>1, <3>2
  <2>4. CASE fumbled /\ p.count = 0
    <3>1. u.first = now /\ ~lost /\ now - p.parted > Burst
      BY <1>3, <1>4, <1>5, <2>4
    <3>2. \A s \in Grabs(N) : s <= u.first
      BY <1>1, <1>2, <1>9, <2>1, <3>1
    <3>3. \A s \in Partings(N) : s \in Int /\ s + Burst < now
      BY <1>1, <1>2, <1>6, <1>8, <1>9, <3>1, BoundAssumption
    <3>4. \A s \in Partings(N) : u.first \notin s .. s + Burst
      BY <1>1, <3>1, <3>3, BoundAssumption
    <3> QED BY <1>1, <3>1, <3>2, <3>4
  <2> QED BY <1>6, <2>2, <2>3, <2>4
<1> QED BY <1>3, <1>4, <1>7, <1>10, <1>11, <1>12, <1>13, <1>14 DEF PairInv, u

LEMMA LinesAndPair ==
  ASSUME NEW e, NEW of, NEW q, NEW n, NEW now, AtStep(e, of, q, n, now),
         NEW L, LinesInv(L, n, of), GripsBecome(L), Waiting(q, of), Clear(q, L, n, of),
         NEW p, PairInv(p, L, n), NEW x \in Reading, NEW r,
         NEW N, N = Grown(L, e, p, x, now, r),
         NEW u, u = Updated(p, x, now)
  PROVE  /\ LinesInv(N, now, of) /\ GripsBecome(N) /\ PairInv(u, N, now)
         /\ FumblesIn(L, of) \in Nat /\ FumblesIn(q, of) \in Nat
         /\ FumblesIn(N, of) + u.count
              = FumblesIn(L, of) + FumblesIn(q, of) + Counted(p, x, now).count
<1> DEFINE FL == FumblesIn(L, of)
           FQ == FumblesIn(q, of)
           FN == FumblesIn(N, of)
           newly == NewlyGrasped(p, x)
           lost == Lost(p, x)
           rep == Reported(p, x, now)
           c == Counted(p, x, now)
<1>1. p \in PairType /\ of \in Nat /\ n \in Nat /\ now \in Nat /\ now = n + 1
  BY DEF PairInv, AtStep
<1>2. /\ LinesInv(N, now, of) /\ GripsBecome(N)
      /\ Held(N) <=> (Held(L) \/ newly) /\ ~lost
      /\ Partings(N) = Partings(L) \cup (IF lost THEN {now} ELSE {})
      /\ Grabs(N) = Grabs(L) \cup (IF newly THEN {now} ELSE {})
      /\ FL \in Nat /\ FQ \in Nat
      /\ FN = FL + FQ + (IF rep THEN c.count ELSE 0)
  BY StepLines
<1>3. PairInv(u, N, now)
  BY <1>1, <1>2, PairNext
<1>4. u.count = (IF rep THEN 0 ELSE c.count) /\ c.count \in Nat
  BY <1>1, UpdatedFields, CountedFields
<1> HIDE DEF FL, FQ, FN, newly, lost, rep, c
<1>5. FN + u.count = FL + FQ + c.count /\ FL \in Nat /\ FQ \in Nat
  BY <1>2, <1>4
<1> QED BY <1>2, <1>3, <1>5 DEF FL, FQ, FN, c

-------------------------------------------------------------------------------
(* What update() goes by, of an environment that is not frozen.            *)

LEMMA RenewedType ==
  ASSUME NEW p \in PairType, NEW now \in Nat
  PROVE  /\ Renewed(p, now) \in PairType
         /\ now > 1 => Renewed(p, now) = p
         /\ ~(now > 1) => /\ Renewed(p, now).grasped = FALSE /\ Renewed(p, now).touching = FALSE
                          /\ Renewed(p, now).start = 0 /\ Renewed(p, now).gripStep = Never
                          /\ Renewed(p, now).count = 0
<1>1. p.first \in Nat /\ p.last \in Nat /\ p.memory \in 0 .. OpenMemory
  BY PairFields
<1>2. ASSUME ~(now > 1)
      PROVE  Renewed(p, now) =
               [streak |-> 0, grasped |-> FALSE, touching |-> FALSE, closing |-> FALSE, towed |-> FALSE,
                start |-> 0, gripFlagged |-> FALSE, gripStep |-> Never, parted |-> LongAgo,
                count |-> 0, first |-> p.first, last |-> p.last, memory |-> p.memory]
  BY <1>2 DEF Renewed, NewPair
<1>3. 0 \in 0 .. HoldSteps
  BY BoundAssumption
<1>4. ASSUME ~(now > 1) PROVE Renewed(p, now) \in PairType
  <2> DEFINE u == Renewed(p, now)
  <2>1. /\ u.streak \in 0 .. HoldSteps /\ u.memory \in 0 .. OpenMemory
        /\ u.start \in Nat /\ u.count \in Nat /\ u.first \in Nat /\ u.last \in Nat
        /\ u.gripStep \in Nat \cup {Never} /\ u.parted \in Nat \cup {LongAgo}
    BY <1>1, <1>2, <1>3, <1>4
  <2>2. /\ u.grasped \in BOOLEAN /\ u.touching \in BOOLEAN /\ u.closing \in BOOLEAN
        /\ u.towed \in BOOLEAN /\ u.gripFlagged \in BOOLEAN
    <3>1. /\ u.grasped = FALSE /\ u.touching = FALSE /\ u.closing = FALSE
          /\ u.towed = FALSE /\ u.gripFlagged = FALSE
      BY <1>2, <1>4
    <3> QED BY <3>1
  <2>3. u = [streak |-> u.streak, grasped |-> u.grasped, touching |-> u.touching,
             closing |-> u.closing, towed |-> u.towed, start |-> u.start,
             gripFlagged |-> u.gripFlagged, gripStep |-> u.gripStep, parted |-> u.parted,
             count |-> u.count, first |-> u.first, last |-> u.last, memory |-> u.memory]
    BY <1>2, <1>4
  <2> HIDE DEF u
  <2>4. u \in PairType
    BY <2>1, <2>2, <2>3 DEF PairType
  <2> QED BY <2>4 DEF u
<1>5. now > 1 => Renewed(p, now) = p
  BY DEF Renewed
<1> QED BY <1>2, <1>4, <1>5

LEMMA WaitingFumbles ==
  ASSUME NEW of \in Nat, NEW q, Waiting(q, of)
  PROVE  /\ q \in Seq(EventType)
         /\ (\A i \in DOMAIN q : q[i].of # of) => FumblesIn(q, of) = 0
<1>1. FumblesIn(<<>>, of) = 0 /\ <<>> \in Seq(EventType)
  BY NoLines
<1>2. ASSUME NEW y \in EventType, q = <<y>>, \A i \in DOMAIN q : q[i].of # of
      PROVE  FumblesIn(q, of) = 0
  <2>1. ~Own(y, of)
    <3>1. 1 \in DOMAIN q /\ q[1] = y
      BY <1>2
    <3> QED BY <1>2, <3>1 DEF Own
  <2>2. \A z \in EventType : z.count \in Nat
    BY DEF EventType
  <2>3. q = Append(<<>>, y)
    BY <1>2
  <2>4. FumblesIn(Append(<<>>, y), of) = FumblesIn(<<>>, of) + (IF Own(y, of) THEN y.count ELSE 0)
    BY <1>1, <2>2, FumblesAppended
  <2> QED BY <1>1, <2>1, <2>3, <2>4
<1>3. \A y \in EventType : <<y>> \in Seq(EventType)
  OBVIOUS
<1>4. CASE q = <<>>
  BY <1>1, <1>4
<1>5. CASE q # <<>>
  <2>1. PICK y \in EventType : q = <<y>>
    BY <1>5 DEF Waiting
  <2> QED BY <1>2, <1>3, <2>1
<1> QED BY <1>4, <1>5

LEMMA BeforeStep ==
  ASSUME TypeOK, NEW e \in Envs, EnvInv(e), e \notin frozen
  PROVE  /\ PairInv(Before(e), log[e], len[e])
         /\ Clear(queue[e], log[e], len[e], episode[e])
         /\ Accounted(log[e], queue[e], episode[e], Before(e).count, fumbles[e])
<1>1. pair[e] \in PairType /\ len[e] \in Nat /\ Now(e) = len[e] + 1 /\ episode[e] \in Nat
  BY DEF TypeOK, Now
<1>2. CASE len[e] > 0
  <2>1. Now(e) > 1 /\ Now(e) \in Nat
    BY <1>1, <1>2
  <2>2. Before(e) = pair[e]
    BY <1>1, <2>1, RenewedType DEF Before
  <2> QED BY <1>2, <2>2 DEF EnvInv
<1>3. CASE len[e] = 0
  <2> DEFINE b == Before(e)
  <2>1. /\ b \in PairType /\ b.grasped = FALSE /\ b.touching = FALSE
        /\ b.start = 0 /\ b.gripStep = Never /\ b.count = 0
    <3>1. ~(Now(e) > 1) /\ Now(e) \in Nat
      BY <1>1, <1>3
    <3> QED BY <1>1, <3>1, RenewedType DEF Before
  <2> HIDE DEF b
  <2>2. /\ log[e] = <<>> /\ fumbles[e] = 0
        /\ \A i \in DOMAIN queue[e] : queue[e][i].of # episode[e]
        /\ Waiting(queue[e], episode[e])
    BY <1>3 DEF EnvInv
  <2>3. ~Held(log[e]) /\ Partings(log[e]) = {} /\ FumblesIn(log[e], episode[e]) = 0
    BY <1>1, <2>2, NoLines
  <2>4. FumblesIn(queue[e], episode[e]) = 0
    BY <1>1, <2>2, WaitingFumbles
  <2>5. PairInv(b, log[e], len[e])
    BY <1>3, <2>1, <2>3 DEF PairInv
  <2>6. Clear(queue[e], log[e], len[e], episode[e])
    BY <2>2 DEF Clear
  <2>7. Accounted(log[e], queue[e], episode[e], b.count, fumbles[e])
    BY <2>1, <2>2, <2>3, <2>4 DEF Accounted
  <2> QED BY <2>5, <2>6, <2>7 DEF b
<1> QED BY <1>1, <1>2, <1>3

LEMMA AfterType ==
  ASSUME TypeOK, NEW e \in Envs, NEW r, r[e] \in Reading
  PROVE  /\ Now(e) \in Nat /\ Now(e) = len[e] + 1 /\ len[e] \in Nat /\ episode[e] \in Nat
         /\ Before(e) \in PairType /\ After(e, r) \in PairType
         /\ After(e, r).gripStep # Never => After(e, r).touching
<1>1. pair[e] \in PairType /\ Now(e) = len[e] + 1 /\ len[e] \in Nat /\ Now(e) \in Nat /\ episode[e] \in Nat
  BY DEF TypeOK, Now
<1>2. Before(e) \in PairType
  BY <1>1, RenewedType DEF Before
<1>3. /\ After(e, r) \in PairType
      /\ After(e, r).touching = r[e].contact
      /\ After(e, r).gripStep = GripStep(Before(e), r[e], Now(e))
  BY <1>1, <1>2, UpdatedFields DEF After
<1>4. GripStep(Before(e), r[e], Now(e)) # Never => r[e].contact
  BY <1>1, <1>2, ContactClocks
<1> QED BY <1>1, <1>2, <1>3, <1>4

(* The lines and the pair of an environment that is not frozen, after a    *)
(* step that does not reset it.                                            *)
LEMMA StepEnv ==
  ASSUME TypeOK, NEW e \in Envs, EnvInv(e), e \notin frozen, NEW r, r[e] \in Reading
  PROVE  /\ LinesInv(Logged(e, r), Now(e), episode[e]) /\ GripsBecome(Logged(e, r))
         /\ PairInv(After(e, r), Logged(e, r), Now(e))
         /\ FumblesIn(Logged(e, r), episode[e]) + After(e, r).count
              = fumbles[e] + (IF Fails(e, r) THEN 1 ELSE 0)
<1> DEFINE p == Before(e)
           x == r[e]
           now == Now(e)
           n == len[e]
           of == episode[e]
           L == log[e]
           N == Logged(e, r)
           u == After(e, r)
           FL == FumblesIn(L, of)
           FQ == FumblesIn(queue[e], of)
           FN == FumblesIn(N, of)
<1>1. now \in Nat /\ now = n + 1 /\ n \in Nat /\ of \in Nat /\ x \in Reading /\ p \in PairType
  BY AfterType
<1>2. /\ PairInv(p, L, n) /\ Clear(queue[e], L, n, of)
      /\ Accounted(L, queue[e], of, p.count, fumbles[e])
  BY BeforeStep
<1>3. LinesInv(L, n, of) /\ GripsBecome(L) /\ Waiting(queue[e], of)
  BY DEF EnvInv
<1>4. N = Grown(L, e, p, x, now, r)
  BY DEF Logged, LinesOf, AsLines, Grown
<1>5. u = Updated(p, x, now)
  BY DEF After
<1>6. Fails(e, r) <=> Fumbled(p, x, now)
  BY DEF Fails
<1>7. fumbles[e] \in Nat
  BY DEF TypeOK
<1> HIDE DEF p, x, now, n, L, N, u
<1>8. /\ LinesInv(N, now, of) /\ GripsBecome(N) /\ PairInv(u, N, now)
      /\ FL \in Nat /\ FQ \in Nat
      /\ FN + u.count = FL + FQ + Counted(p, x, now).count
  <2> DEFINE q == queue[e]
  <2>1. AtStep(e, of, q, n, now) /\ Waiting(q, of) /\ Clear(q, L, n, of)
    BY <1>1, <1>2, <1>3 DEF AtStep
  <2>2. FL = FumblesIn(L, of) /\ FQ = FumblesIn(q, of) /\ FN = FumblesIn(N, of)
    OBVIOUS
  <2> HIDE DEF of, q
  <2> HIDE DEF FL, FQ, FN
  <2> QED BY <1>1, <1>2, <1>3, <1>4, <1>5, <2>1, <2>2, LinesAndPair
<1>9. FN + u.count = fumbles[e] + (IF Fails(e, r) THEN 1 ELSE 0)
  <2>1. Counted(p, x, now).count = p.count + (IF Fumbled(p, x, now) THEN 1 ELSE 0)
    BY <1>1, CountedFields, PairFields
  <2>2. FL + FQ + p.count = fumbles[e] /\ FL \in Nat /\ FQ \in Nat
    BY <1>2, <1>8 DEF Accounted
  <2>3. p.count \in Nat
    BY <1>1, PairFields
  <2>4. FN + u.count = FL + FQ + Counted(p, x, now).count
    BY <1>8
  <2> HIDE DEF FL, FQ, FN, of
  <2> QED BY <1>6, <1>7, <2>1, <2>2, <2>3, <2>4
<1> QED BY <1>8, <1>9 DEF N, u, now, of, FN

LEMMA LogKept ==
  ASSUME TypeOK, NEW e \in Envs, e \in frozen, NEW r
  PROVE  Logged(e, r) = log[e]
<1>1. log[e] \in Seq(LineType)
  BY DEF TypeOK
<1>2. log[e] \o <<>> = log[e]
  BY <1>1
<1> QED BY <1>2 DEF Logged, LinesOf

(* An export closes a burst and queues it.                                 *)
LEMMA BurstFlushed ==
  ASSUME NEW e \in Envs, episode[e] \in Nat, NEW u \in PairType
  PROVE  /\ Flushed(u) \in PairType /\ Flushed(u).count = 0
         /\ Flushed(u).gripStep = u.gripStep /\ Flushed(u).touching = u.touching
         /\ \A N, now : PairInv(u, N, now) => PairInv(Flushed(u), N, now)
         /\ \A N, now : PairInv(u, N, now) => Clear(OpenBurst(e, u), N, now, episode[e])
         /\ Waiting(OpenBurst(e, u), episode[e])
         /\ \A i \in DOMAIN OpenBurst(e, u) : OpenBurst(e, u)[i].of = episode[e]
         /\ FumblesIn(OpenBurst(e, u), episode[e]) = u.count
<1> DEFINE v == Flushed(u)
           y == Event(e, "attempt", u.first, u.count)
           b == OpenBurst(e, u)
           of == episode[e]
<1>1. u.count \in Nat /\ u.first \in Nat
  BY PairFields
<1>2. /\ v.count = 0 /\ v.grasped = u.grasped /\ v.touching = u.touching /\ v.start = u.start
      /\ v.gripStep = u.gripStep /\ v.parted = u.parted /\ v \in PairType
  BY DEF Flushed, PairType
<1>3. \A N, now : PairInv(u, N, now) => PairInv(v, N, now)
  <2> HIDE DEF v
  <2> QED BY <1>2 DEF PairInv
<1>4. y \in EventType /\ y.kind = "attempt" /\ y.onset = u.first /\ y.onset # Never /\ y.of = of /\ y.count = u.count
  BY <1>1 DEF Event, EventType, Kinds, Never
<1>5. IF u.count > 0 THEN b = <<y>> ELSE b = <<>>
  BY DEF OpenBurst, When
<1> HIDE DEF b, y
<1>6. \A i \in DOMAIN b : b[i] = y /\ u.count > 0
  BY <1>5
<1>7. \A N, now : PairInv(u, N, now) => Clear(b, N, now, of)
  BY <1>4, <1>6 DEF PairInv, Clear
<1>8. Waiting(b, of)
  <2>1. y.of <= y.of
    BY <1>4
  <2> QED BY <1>4, <1>5, <2>1 DEF Waiting
<1>9. FumblesIn(b, of) = u.count
  <2>1. FumblesIn(<<>>, of) = 0 /\ <<>> \in Seq(EventType)
    BY NoLines
  <2> HIDE DEF of
  <2>0. \A z \in EventType : z.count \in Nat
    BY DEF EventType
  <2>2. CASE u.count > 0
    <3>1. b = Append(<<>>, y) /\ Own(y, of)
      BY <1>4, <1>5, <2>2 DEF Own
    <3> DEFINE s == <<>>
    <3>2. s \in Seq(EventType) /\ FumblesIn(s, of) = 0 /\ b = Append(s, y)
      BY <2>1, <3>1
    <3> HIDE DEF s
    <3>3. FumblesIn(Append(s, y), of) = FumblesIn(s, of) + (IF Own(y, of) THEN y.count ELSE 0)
      BY <1>4, <2>0, <3>2, FumblesAppended
    <3>4. FumblesIn(b, of) = 0 + y.count
      BY <3>1, <3>2, <3>3
    <3> QED BY <1>1, <1>4, <3>4
  <2>3. CASE ~(u.count > 0)
    BY <1>1, <1>5, <2>1, <2>3
  <2> QED BY <2>2, <2>3
<1> QED BY <1>2, <1>3, <1>4, <1>6, <1>7, <1>8, <1>9 DEF b

-------------------------------------------------------------------------------
(* Every step keeps the invariant.                                         *)

LEMMA FirstState == Init => Inv
<1> SUFFICES ASSUME Init PROVE Inv
  OBVIOUS
<1>1. /\ run = 1 /\ tick = 0 /\ frozen = {} /\ hist = 0
      /\ len = [e \in Envs |-> 0] /\ early = [e \in Envs |-> 0]
      /\ pair = [e \in Envs |-> NewPair]
      /\ queue = [e \in Envs |-> <<>>] /\ log = [e \in Envs |-> <<>>]
      /\ episode = [e \in Envs |-> 1] /\ fumbles = [e \in Envs |-> 0]
  BY DEF Init
<1>2. NewPair \in PairType /\ NewPair.gripStep = Never
  <2>1. /\ NewPair.gripStep = Never /\ NewPair.streak = 0 /\ NewPair.memory = 0
        /\ NewPair.start = 0 /\ NewPair.count = 0 /\ NewPair.first = 0 /\ NewPair.last = 0
        /\ NewPair.parted = LongAgo /\ NewPair.grasped = FALSE /\ NewPair.touching = FALSE
        /\ NewPair.closing = FALSE /\ NewPair.towed = FALSE /\ NewPair.gripFlagged = FALSE
    BY DEF NewPair
  <2>2. 0 \in 0 .. HoldSteps /\ 0 \in 0 .. OpenMemory
    BY BoundAssumption
  <2>3. /\ NewPair.grasped \in BOOLEAN /\ NewPair.touching \in BOOLEAN
        /\ NewPair.closing \in BOOLEAN /\ NewPair.towed \in BOOLEAN /\ NewPair.gripFlagged \in BOOLEAN
    BY <2>1
  <2> DEFINE u == NewPair
  <2>4. u = [streak |-> u.streak, grasped |-> u.grasped, touching |-> u.touching,
             closing |-> u.closing, towed |-> u.towed, start |-> u.start,
             gripFlagged |-> u.gripFlagged, gripStep |-> u.gripStep, parted |-> u.parted,
             count |-> u.count, first |-> u.first, last |-> u.last, memory |-> u.memory]
    BY DEF NewPair
  <2> QED BY <2>1, <2>2, <2>3, <2>4 DEF PairType
<1>3. TypeOK
  <2>1. 1 \in 1 .. Len(StepsOf) /\ StepsOf[1] \in Nat
    BY BoundAssumption
  <2>2. 0 \in 0 .. MaxEarlyResets /\ 0 \in 0 .. HoldSteps + 1 /\ 0 \in 0 .. StepsOf[1]
    BY <2>1, BoundAssumption
  <2>3. pair \in [Envs -> PairType] /\ \A e \in Envs : pair[e].gripStep = Never
    BY <1>1, <1>2
  <2>4. <<>> \in Seq(EventType) /\ <<>> \in Seq(LineType)
    OBVIOUS
  <2>5. queue \in [Envs -> Seq(EventType)] /\ log \in [Envs -> Seq(LineType)]
    BY <1>1, <2>4
  <2> QED BY <1>1, <2>1, <2>2, <2>3, <2>5 DEF TypeOK
<1>4. ASSUME NEW e \in Envs PROVE EnvInv(e)
  <2>1. /\ len[e] = 0 /\ log[e] = <<>> /\ queue[e] = <<>> /\ fumbles[e] = 0 /\ episode[e] = 1
        /\ e \notin frozen
    BY <1>1
  <2>2. LinesInv(<<>>, 0, 1) /\ GripsBecome(<<>>)
    BY NoLines
  <2>3. \A i \in DOMAIN <<>> : FALSE
    OBVIOUS
  <2> QED BY <2>1, <2>2, <2>3 DEF EnvInv, Waiting
<1> QED BY <1>3, <1>4 DEF Inv

(* A step, for one environment.                                            *)
LEMMA StepKeepsEnv ==
  ASSUME Inv, NEW e \in Envs, NEW r, r[e] \in Reading,
         NEW again \in SUBSET TooSoon, NEW stops \in SUBSET (Envs \ (frozen \cup TooSoon)),
         pair'[e] = (IF stops # {} THEN Flushed(After(e, r)) ELSE After(e, r)),
         queue'[e] = (IF stops # {} THEN OpenBurst(e, After(e, r)) ELSE <<>>),
         log'[e] = (IF e \in again THEN <<>> ELSE Logged(e, r)),
         len'[e] = (IF e \in again THEN 0 ELSE Now(e)),
         episode'[e] = episode[e] + (IF e \in again THEN 1 ELSE 0),
         fumbles'[e] = (IF e \in again THEN 0 ELSE fumbles[e] + IF Fails(e, r) THEN 1 ELSE 0),
         frozen' = frozen \cup stops
  PROVE  /\ EnvInv(e)'
         /\ pair'[e] \in PairType /\ (pair'[e].gripStep # Never => pair'[e].touching)
<1> DEFINE u == After(e, r)
           of == episode[e]
<1>1. TypeOK /\ EnvInv(e)
  BY DEF Inv
<1>2. /\ Now(e) \in Nat /\ Now(e) = len[e] + 1 /\ len[e] \in Nat /\ of \in Nat
      /\ u \in PairType /\ (u.gripStep # Never => u.touching)
  BY <1>1, AfterType
<1>3. e \in again => e \notin frozen /\ e \notin stops
  BY DEF TooSoon
<1> HIDE DEF u
<1>4. /\ Flushed(u) \in PairType /\ Flushed(u).count = 0
      /\ Flushed(u).gripStep = u.gripStep /\ Flushed(u).touching = u.touching
      /\ \A N, now : PairInv(u, N, now) => PairInv(Flushed(u), N, now)
      /\ \A N, now : PairInv(u, N, now) => Clear(OpenBurst(e, u), N, now, of)
      /\ Waiting(OpenBurst(e, u), of)
      /\ \A i \in DOMAIN OpenBurst(e, u) : OpenBurst(e, u)[i].of = of
      /\ FumblesIn(OpenBurst(e, u), of) = u.count
  BY <1>2, BurstFlushed
<1>5. pair'[e] \in PairType /\ (pair'[e].gripStep # Never => pair'[e].touching)
  BY <1>2, <1>4 DEF u
(* What waits now is of the episode that this step was of.                 *)
<1>6. Waiting(queue'[e], of) /\ \A i \in DOMAIN queue'[e] : queue'[e][i].of = of
  <2>1. Waiting(<<>>, of) /\ \A i \in DOMAIN <<>> : FALSE
    BY DEF Waiting
  <2> QED BY <1>4, <2>1 DEF u
<1>7. CASE e \in again
  <2>1. /\ log'[e] = <<>> /\ len'[e] = 0 /\ episode'[e] = of + 1 /\ fumbles'[e] = 0 /\ e \notin frozen'
    BY <1>3, <1>7
  <2>2. LinesInv(<<>>, 0, of + 1) /\ GripsBecome(<<>>)
    BY <1>2, NoLines
  <2>3. Waiting(queue'[e], of + 1)
    BY <1>2, <1>6 DEF Waiting, EventType
  <2>4. \A i \in DOMAIN queue'[e] : queue'[e][i].of # of + 1
    BY <1>2, <1>6
  <2>5. EnvInv(e)'
    BY <2>1, <2>2, <2>3, <2>4 DEF EnvInv
  <2> QED BY <1>5, <2>5
<1>8. CASE e \in frozen
  <2>1. /\ log'[e] = log[e] /\ len'[e] = len[e] + 1 /\ episode'[e] = of /\ e \in frozen'
    BY <1>1, <1>2, <1>3, <1>8, LogKept
  <2>2. LinesInv(log[e], len[e], of) /\ GripsBecome(log[e])
    BY <1>1 DEF EnvInv
  <2>3. LinesInv(log[e], len[e] + 1, of)
    BY <1>2, <2>2, LinesLater
  <2>4. len'[e] > 0 /\ len'[e] # 0
    BY <1>2, <2>1
  <2>5. EnvInv(e)'
    BY <1>6, <2>1, <2>2, <2>3, <2>4 DEF EnvInv
  <2> QED BY <1>5, <2>5
<1>9. CASE e \notin again /\ e \notin frozen
  <2> DEFINE N == Logged(e, r)
             now == Now(e)
             all == fumbles[e] + (IF Fails(e, r) THEN 1 ELSE 0)
  <2>1. /\ log'[e] = N /\ len'[e] = now /\ episode'[e] = of /\ fumbles'[e] = all
    BY <1>2, <1>9
  <2>2. /\ LinesInv(N, now, of) /\ GripsBecome(N) /\ PairInv(u, N, now)
        /\ FumblesIn(N, of) + u.count = all
    BY <1>1, <1>9, StepEnv DEF u
  <2>3. now > 0 /\ now # 0
    BY <1>2
  <2>4. FumblesIn(N, of) \in Nat /\ u.count \in Nat
    BY <1>2, <2>2, FumblesCounted, PairFields
  <2>5. PairInv(pair'[e], N, now)
    BY <1>4, <2>2 DEF u
  <2>6. Clear(queue'[e], N, now, of)
    <3>1. Clear(<<>>, N, now, of)
      BY DEF Clear
    <3> QED BY <1>4, <2>2, <3>1 DEF u
  <2>7. Accounted(N, queue'[e], of, pair'[e].count, all)
    <3>1. FumblesIn(<<>>, of) = 0
      BY <1>2, NoLines
    <3>2. CASE stops # {}
      <4>1. FumblesIn(queue'[e], of) = u.count /\ pair'[e].count = 0
        BY <1>4, <3>2 DEF u
      <4> HIDE DEF N, all
      <4> QED BY <2>2, <2>4, <4>1 DEF Accounted
    <3>3. CASE stops = {}
      <4>1. FumblesIn(queue'[e], of) = 0 /\ pair'[e].count = u.count
        BY <3>1, <3>3 DEF u
      <4> HIDE DEF N, all
      <4> QED BY <2>2, <2>4, <4>1 DEF Accounted
    <3> QED BY <3>2, <3>3
  <2> HIDE DEF N, now, all
  <2>8. EnvInv(e)'
    BY <1>6, <2>1, <2>2, <2>3, <2>5, <2>6, <2>7 DEF EnvInv
  <2> QED BY <1>5, <2>8
<1> QED BY <1>7, <1>8, <1>9

LEMMA StepKeeps == Inv /\ Step => Inv'
<1> SUFFICES ASSUME Inv, Step PROVE Inv'
  OBVIOUS
<1>1. PICK r \in ReadingsNow, again \in SUBSET TooSoon, stops \in SUBSET (Envs \ (frozen \cup TooSoon)) :
        /\ pair' = [e \in Envs |-> IF stops # {} THEN Flushed(After(e, r)) ELSE After(e, r)]
        /\ queue' = [e \in Envs |-> IF stops # {} THEN OpenBurst(e, After(e, r)) ELSE <<>>]
        /\ log' = [e \in Envs |-> IF e \in again THEN <<>> ELSE Logged(e, r)]
        /\ len' = [e \in Envs |-> IF e \in again THEN 0 ELSE Now(e)]
        /\ early' = [e \in Envs |-> early[e] + IF e \in again THEN 1 ELSE 0]
        /\ frozen' = frozen \cup stops
        /\ hist' = HistNow
        /\ episode' = [e \in Envs |-> episode[e] + IF e \in again THEN 1 ELSE 0]
        /\ fumbles' = [e \in Envs |-> IF e \in again THEN 0
                                      ELSE fumbles[e] + IF Fails(e, r) THEN 1 ELSE 0]
  BY DEF Step
<1>2. tick < StepsOf[run] /\ tick' = tick + 1 /\ run' = run
  BY DEF Step
<1>3. TypeOK
  BY DEF Inv
<1>4. \A e \in Envs : r[e] \in Reading
  BY <1>1, ReadingsAssumption DEF ReadingsNow
<1>5. ASSUME NEW e \in Envs
      PROVE  /\ EnvInv(e)'
             /\ pair'[e] \in PairType /\ (pair'[e].gripStep # Never => pair'[e].touching)
  <2>1. /\ pair'[e] = (IF stops # {} THEN Flushed(After(e, r)) ELSE After(e, r))
        /\ queue'[e] = (IF stops # {} THEN OpenBurst(e, After(e, r)) ELSE <<>>)
        /\ log'[e] = (IF e \in again THEN <<>> ELSE Logged(e, r))
        /\ len'[e] = (IF e \in again THEN 0 ELSE Now(e))
        /\ episode'[e] = episode[e] + (IF e \in again THEN 1 ELSE 0)
        /\ fumbles'[e] = (IF e \in again THEN 0 ELSE fumbles[e] + IF Fails(e, r) THEN 1 ELSE 0)
        /\ frozen' = frozen \cup stops
    BY <1>1
  <2> QED BY <1>1, <1>4, <2>1, StepKeepsEnv
<1>6. /\ pair' \in [Envs -> PairType]
      /\ \A e \in Envs : pair'[e].gripStep # Never => pair'[e].touching
  BY <1>1, <1>5
<1>7. log' \in [Envs -> Seq(LineType)] /\ queue' \in [Envs -> Seq(EventType)]
  <2>1. \A e \in Envs : log'[e] \in Seq(LineType)
    BY <1>5 DEF EnvInv, LinesInv, InOrder
  <2>2. ASSUME NEW e \in Envs PROVE episode'[e] \in Nat /\ queue'[e] \in Seq(EventType)
    <3>1. episode'[e] \in Nat
      BY <1>1, <1>3 DEF TypeOK
    <3>2. Waiting(queue'[e], episode'[e])
      BY <1>5 DEF EnvInv
    <3> QED BY <3>1, <3>2, WaitingFumbles
  <2> QED BY <1>1, <2>1, <2>2
<1>8. /\ run' \in 1 .. Len(StepsOf) /\ tick' \in 0 .. StepsOf[run'] /\ frozen' \subseteq Envs
  <2>1. StepsOf[run] \in Nat
    BY <1>3, BoundAssumption DEF TypeOK
  <2> QED BY <1>1, <1>2, <1>3, <2>1 DEF TypeOK
<1>9. len' \in [Envs -> 0 .. tick'] /\ early' \in [Envs -> 0 .. MaxEarlyResets]
  <2>1. ASSUME NEW e \in Envs PROVE len'[e] \in 0 .. tick'
    <3>1. len[e] \in 0 .. tick /\ tick \in Nat
      BY <1>3, BoundAssumption DEF TypeOK
    <3> QED BY <1>1, <1>2, <3>1 DEF Now
  <2>2. ASSUME NEW e \in Envs PROVE early'[e] \in 0 .. MaxEarlyResets
    <3>1. early[e] \in 0 .. MaxEarlyResets /\ (e \in again => early[e] < MaxEarlyResets)
      BY <1>1, <1>3 DEF TypeOK, TooSoon
    <3> QED BY <1>1, <3>1, BoundAssumption
  <2> QED BY <1>1, <2>1, <2>2
<1>10. hist' \in 0 .. HoldSteps + 1
  BY <1>1, <1>3, BoundAssumption DEF TypeOK, HistNow, Smaller
<1>11. episode' \in [Envs -> Nat] /\ fumbles' \in [Envs -> Nat]
  BY <1>1, <1>3 DEF TypeOK
<1>12. TypeOK'
  BY <1>6, <1>7, <1>8, <1>9, <1>10, <1>11 DEF TypeOK
<1> QED BY <1>5, <1>12 DEF Inv

LEMMA NextRunKeeps == Inv /\ NextRun => Inv'
<1> SUFFICES ASSUME Inv, NextRun PROVE Inv'
  OBVIOUS
<1>1. TypeOK /\ \A e \in Envs : EnvInv(e)
  BY DEF Inv
<1>2. /\ run < Len(StepsOf) /\ run' = run + 1 /\ tick' = 0 /\ frozen' = {}
      /\ len' = [e \in Envs |-> 0] /\ early' = [e \in Envs |-> 0]
      /\ log' = [e \in Envs |-> <<>>] /\ episode' = [e \in Envs |-> episode[e] + 1]
      /\ fumbles' = [e \in Envs |-> 0]
      /\ hist' = hist /\ pair' = pair /\ queue' = queue
  BY DEF NextRun
<1>3. TypeOK'
  <2>1. run + 1 \in 1 .. Len(StepsOf) /\ StepsOf[run + 1] \in Nat
    BY <1>1, <1>2, BoundAssumption DEF TypeOK
  <2>2. 0 \in 0 .. MaxEarlyResets /\ 0 \in 0 .. StepsOf[run + 1] /\ 0 \in 0 .. 0
    BY <2>1, BoundAssumption
  <2>3. log' \in [Envs -> Seq(LineType)]
    BY <1>2
  <2> QED BY <1>1, <1>2, <2>1, <2>2, <2>3 DEF TypeOK
<1>4. ASSUME NEW e \in Envs PROVE EnvInv(e)'
  <2>1. Waiting(queue[e], episode[e]) /\ episode[e] \in Nat
    BY <1>1 DEF EnvInv, TypeOK
  <2>2. Waiting(queue[e], episode[e] + 1) /\ \A i \in DOMAIN queue[e] : queue[e][i].of # episode[e] + 1
    <3>1. CASE queue[e] = <<>>
      BY <3>1 DEF Waiting
    <3>2. CASE queue[e] # <<>>
      <4>1. PICK y \in EventType :
              queue[e] = <<y>> /\ y.kind = "attempt" /\ y.onset # Never /\ y.of <= episode[e]
        BY <2>1, <3>2 DEF Waiting
      <4>2. y.of \in Nat
        BY <4>1 DEF EventType
      <4> QED BY <2>1, <4>1, <4>2 DEF Waiting
    <3> QED BY <3>1, <3>2
  <2>3. LinesInv(<<>>, 0, episode[e] + 1) /\ GripsBecome(<<>>)
    BY <2>1, NoLines
  <2>4. /\ log'[e] = <<>> /\ len'[e] = 0 /\ queue'[e] = queue[e] /\ fumbles'[e] = 0
        /\ episode'[e] = episode[e] + 1 /\ e \notin frozen'
    BY <1>1, <1>2 DEF TypeOK
  <2> QED BY <2>2, <2>3, <2>4 DEF EnvInv
<1> QED BY <1>3, <1>4 DEF Inv

LEMMA Invariance == Spec => []Inv
<1>1. Inv /\ UNCHANGED vars => Inv'
  BY DEF vars, Inv, TypeOK, EnvInv
<1>2. Inv /\ [Next]_vars => Inv'
  BY <1>1, StepKeeps, NextRunKeeps DEF Next
<1> QED BY <1>2, FirstState, PTL DEF Spec

-------------------------------------------------------------------------------
(* What follows.                                                           *)

(* The tracker's records keep their types, and a grip is on the books only *)
(* within its contact (grasp.py, _PairState and update).                   *)
THEOREM TypesKept == Spec => []TypeOK
<1>1. Inv => TypeOK
  BY DEF Inv
<1> QED BY <1>1, Invariance, PTL

(* In every log grasps and partings alternate, starting with a grasp, and  *)
(* the last of them says whether the tracker holds the object: a grasp     *)
(* lasts exactly as long as its contact, whatever the jaws and the         *)
(* commands of the batch do meanwhile (GraspTracker.update).               *)
THEOREM GraspsAlternate == Spec => []HandoversAlternate
<1>1. Inv => HandoversAlternate
  <2> SUFFICES ASSUME Inv, NEW e \in Envs
               PROVE  /\ \A i \in DOMAIN log[e] :
                           /\ log[e][i].kind = "grabbed" => ~InHand(log[e], i - 1)
                           /\ IsParting(log[e][i]) => InHand(log[e], i - 1)
                      /\ e \notin frozen /\ len[e] > 0 =>
                           (pair[e].grasped <=> InHand(log[e], Len(log[e])))
    BY DEF HandoversAlternate
  <2>1. EnvInv(e)
    BY DEF Inv
  <2>2. Alternate(log[e])
    BY <2>1 DEF EnvInv, LinesInv
  <2>3. e \notin frozen /\ len[e] > 0 => (pair[e].grasped <=> Held(log[e]))
    BY <2>1 DEF EnvInv, PairInv
  <2> QED BY <2>2, <2>3 DEF Alternate, Held
<1> QED BY <1>1, Invariance, PTL

(* No failed attempt of an episode that lasts is lost or told twice, in    *)
(* whatever order quiet, a grasp and the exports of other environments     *)
(* close the bursts (GraspTracker.update, flush_attempts).                 *)
THEOREM FumblesCountedOnce == Spec => []FumblesAccounted
<1>1. Inv => FumblesAccounted
  <2> SUFFICES ASSUME Inv, NEW e \in Envs \ frozen, len[e] > 0
               PROVE  FumblesIn(log[e], episode[e]) + FumblesIn(queue[e], episode[e]) + pair[e].count
                        = fumbles[e]
    BY DEF FumblesAccounted
  <2>1. EnvInv(e)
    BY DEF Inv
  <2> QED BY <2>1 DEF EnvInv, Accounted
<1> QED BY <1>1, Invariance, PTL

(* A grip line is followed by the carry it became, at the same step, and   *)
(* every carry begins after the partings before it: a grip that came to    *)
(* nothing dates no later carry (P78, GraspTracker.update).                *)
THEOREM GripsDateTheirCarries == Spec => []GripDatesItsCarry
<1>1. Inv => GripDatesItsCarry
  <2> SUFFICES ASSUME Inv, NEW e \in Envs, NEW i \in DOMAIN log[e]
               PROVE  /\ log[e][i].kind = "gripped" =>
                           /\ i + 1 \in DOMAIN log[e]
                           /\ log[e][i + 1].kind = "grabbed" /\ log[e][i + 1].step = log[e][i].step
                      /\ log[e][i].kind = "grabbed" =>
                           \A j \in 1 .. i - 1 : IsParting(log[e][j]) => log[e][j].step < log[e][i].step
    BY DEF GripDatesItsCarry
  <2>1. GripsBecome(log[e]) /\ CarriesFollow(log[e]) /\ log[e] \in Seq(LineType)
    BY DEF Inv, EnvInv, LinesInv, InOrder
  <2>2. \A j \in 1 .. i - 1 : j \in DOMAIN log[e] /\ j < i
    BY <2>1
  <2> QED BY <2>1, <2>2 DEF GripsBecome, CarriesFollow
<1> QED BY <1>1, Invariance, PTL

(* No burst of failed attempts spans a grasp, and none, told or still      *)
(* open, begins within the window after a parting (P73, _parted and        *)
(* GRASP_ATTEMPT_BURST_S in GraspTracker.update).                          *)
THEOREM BurstsKeptApart == Spec => []BurstsStandApart
<1>1. Inv => BurstsStandApart
  <2> SUFFICES ASSUME Inv PROVE GraspEndsBurst /\ NoAttemptAtParting
    BY DEF BurstsStandApart
  <2>1. ASSUME NEW e \in Envs PROVE StandApart(log[e], episode[e]) /\ EnvInv(e)
    BY DEF Inv, EnvInv, LinesInv
  <2>2. GraspEndsBurst
    BY <2>1 DEF GraspEndsBurst, StandApart, Own
  <2>3. ASSUME NEW e \in Envs, NEW i \in DOMAIN log[e], IsParting(log[e][i])
        PROVE  LET window == log[e][i].step .. log[e][i].step + Burst
               IN  /\ \A j \in DOMAIN log[e] :
                        log[e][j].kind = "attempt" /\ log[e][j].of = episode[e] => log[e][j].step \notin window
                   /\ e \notin frozen /\ pair[e].count > 0 => pair[e].first \notin window
    <3>1. \A j \in DOMAIN log[e] :
            log[e][j].kind = "attempt" /\ log[e][j].of = episode[e] =>
              log[e][j].step \notin log[e][i].step .. log[e][i].step + Burst
      BY <2>1, <2>3 DEF StandApart, Own
    <3>2. ASSUME e \notin frozen, pair[e].count > 0
          PROVE  pair[e].first \notin log[e][i].step .. log[e][i].step + Burst
      <4>1. len[e] > 0
        <5>1. len[e] = 0 => log[e] = <<>>
          BY <2>1 DEF EnvInv
        <5>2. log[e] # <<>> /\ len[e] \in Nat
          BY <2>3 DEF Inv, TypeOK
        <5> QED BY <5>1, <5>2
      <4>2. PairInv(pair[e], log[e], len[e])
        BY <2>1, <3>2, <4>1 DEF EnvInv
      <4>3. log[e][i].step \in Partings(log[e])
        BY <2>3 DEF Partings
      <4> QED BY <3>2, <4>2, <4>3 DEF PairInv
    <3> QED BY <3>1, <3>2
  <2>4. NoAttemptAtParting
    BY <2>3 DEF NoAttemptAtParting
  <2> QED BY <2>2, <2>4
<1> QED BY <1>1, Invariance, PTL

===============================================================================
