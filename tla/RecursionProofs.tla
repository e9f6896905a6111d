-------------------------- MODULE RecursionProofs ---------------------------
(***************************************************************************)
(* What recursive functions, folds and FlattenSeq compute, for data of any *)
(* size. No induction rule is taken from a library: a set of naturals has a*)
(* least element, and from that induction is told of sets, a recursion on a*)
(* finite domain has a solution, and a fold is a run of single steps.      *)
(***************************************************************************)
EXTENDS Integers, SequencesExt, FiniteSetsExt, FiniteSetTheorems, SequenceTheorems,
        WellFoundedInduction, TLAPS

-----------------------------------------------------------------------------
(* Induction and recursion                                                 *)

(* A set of naturals that is not empty has a least element.                *)
LEMMA LeastNatural ==
    ASSUME NEW S \in SUBSET Nat, S # {}
    PROVE  \E x \in S : \A y \in S : x <= y
<1>1. PICK x \in S : \A y \in S : ~ (<<y, x>> \in OpToRel(<, Nat))
    BY NatLessThanWellFounded, WFMin
<1>2. \A a, b \in Nat : a < b => <<a, b>> \in OpToRel(<, Nat)
    BY Zenon DEF OpToRel
<1>3. \A y \in S : ~ (y < x)
    BY <1>1, <1>2, Zenon
<1>4. QED
    BY <1>3

(* Induction, told of a set: it holds all naturals up to n if it holds 0   *)
(* and with a natural below n the next one.                                *)
LEMMA InductionUpTo ==
    ASSUME NEW n \in Nat, NEW S, 0 \in S,
           \A i \in 0 .. n - 1 : i \in S => i + 1 \in S
    PROVE  \A i \in 0 .. n : i \in S
<1> SUFFICES ASSUME \E i \in 0 .. n : i \notin S PROVE FALSE
    OBVIOUS
<1> DEFINE bad == {i \in 0 .. n : i \notin S}
<1>1. bad \in SUBSET Nat /\ bad # {}
    OBVIOUS
<1> HIDE DEF bad
<1>2. PICK x \in bad : \A y \in bad : x <= y
    BY <1>1, LeastNatural
<1>3. x \in 0 .. n /\ x \notin S /\ \A y \in 0 .. x - 1 : y \in S
    BY <1>2 DEF bad
<1>4. x # 0 /\ x - 1 \in 0 .. n - 1
    BY <1>3
<1>5. x - 1 \in S
    BY <1>3, <1>4
<1>6. (x - 1) + 1 \in S
    BY <1>4, <1>5
<1>7. QED
    BY <1>3, <1>6

(* A recursive definition on a finite domain has a solution: step[d][g] is *)
(* the value at d where g holds the others, and looks at no value of g     *)
(* whose rank is not lower than that of d.                                 *)
SolvesBelow(i, f, D, rank, step) == \A d \in D : rank[d] < i => f[d] = step[d][f]
Descends(D, T, n, rank, step) ==
    /\ T # {} /\ n \in Nat /\ rank \in [D -> 0 .. n]
    /\ step \in [D -> [[D -> T] -> T]]
    /\ \A d \in D : \A g, h \in [D -> T] :
           (\A e \in D : rank[e] < rank[d] => g[e] = h[e]) => step[d][g] = step[d][h]
Solvable(D, T, step) == \E f \in [D -> T] : \A d \in D : f[d] = step[d][f]

(* Such a definition has a solution: the function a recursion names is     *)
(* there.                                                                  *)
THEOREM RecursionHasASolution ==
    ASSUME NEW D, NEW T, NEW n, NEW rank, NEW step, Descends(D, T, n, rank, step)
    PROVE  Solvable(D, T, step)
<1>0. n \in Nat /\ T # {} /\ n + 1 \in Nat /\ \A d \in D : rank[d] \in 0 .. n
    BY DEF Descends
<1> DEFINE solved == {i \in Nat : \E f \in [D -> T] : SolvesBelow(i, f, D, rank, step)}
<1>1. 0 \in solved
    <2>1. PICK t \in T : TRUE
        BY <1>0
    <2>2. [d \in D |-> t] \in [D -> T]
        OBVIOUS
    <2>3. SolvesBelow(0, [d \in D |-> t], D, rank, step)
        BY <1>0 DEF SolvesBelow
    <2>4. QED
        BY <2>2, <2>3, Zenon
<1>2. ASSUME NEW i \in 0 .. n, i \in solved PROVE i + 1 \in solved
    <2>1. PICK f \in [D -> T] : SolvesBelow(i, f, D, rank, step)
        BY <1>2
    <2> DEFINE h == [d \in D |-> IF rank[d] = i THEN step[d][f] ELSE f[d]]
    <2>2. h \in [D -> T]
        BY DEF Descends
    <2>3. ASSUME NEW d \in D, rank[d] < i + 1 PROVE h[d] = step[d][h]
        <3>1. \A e \in D : rank[e] < rank[d] => h[e] = f[e]
            BY <1>0, <2>3
        <3>2. step[d][f] = step[d][h]
            BY <2>2, <3>1 DEF Descends
        <3>3. rank[d] = i \/ rank[d] < i
            <4>1. rank[d] \in 0 .. n
                BY DEF Descends
            <4>2. QED
                BY <1>0, <2>3, <4>1
        <3>4. h[d] = step[d][f]
            BY <2>1, <3>3 DEF SolvesBelow
        <3>5. QED
            BY <3>2, <3>4
    <2> HIDE DEF h
    <2>4. SolvesBelow(i + 1, h, D, rank, step)
        BY <2>3 DEF SolvesBelow
    <2>5. i + 1 \in Nat
        OBVIOUS
    <2>6. QED
        BY <2>2, <2>4, <2>5, Zenon
<1>3. n + 1 \in solved
    <2> HIDE DEF solved
    <2>1. \A i \in 0 .. (n + 1) - 1 : i \in solved => i + 1 \in solved
        BY <1>0, <1>2
    <2>2. n + 1 \in Nat
        BY <1>0
    <2>3. \A i \in 0 .. n + 1 : i \in solved
        BY <1>1, <2>1, <2>2, InductionUpTo
    <2>4. QED
        BY <1>0, <2>3
<1>4. PICK f \in [D -> T] : SolvesBelow(n + 1, f, D, rank, step)
    BY <1>3
<1>5. QED
    <2>1. \A d \in D : rank[d] < n + 1
        BY <1>0 DEF Descends
    <2>2. QED
        BY <1>4, <2>1 DEF SolvesBelow, Solvable

-----------------------------------------------------------------------------
(* Flattening                                                              *)

FlattenAt(ss, d, f) == IF d = 1 THEN ss[d] ELSE f[d - 1] \o ss[d]
FlattenPrefixes(ss) == CHOOSE f : f = [d \in 1 .. Len(ss) |-> FlattenAt(ss, d, f)]

(* The function that FlattenSeq defines by recursion is one.               *)
LEMMA FlattenIsDefined ==
    ASSUME NEW S, NEW ss \in Seq(Seq(S))
    PROVE  \A d \in 1 .. Len(ss) :
              /\ FlattenPrefixes(ss)[d] = FlattenAt(ss, d, FlattenPrefixes(ss))
              /\ FlattenPrefixes(ss)[d] \in Seq(S)
<1> DEFINE D == 1 .. Len(ss)
           T == Seq(S)
           rank == [d \in D |-> d]
           step == [d \in D |-> [g \in [D -> T] |-> FlattenAt(ss, d, g)]]
<1>1. Len(ss) \in Nat /\ \A d \in D : ss[d] \in T
    OBVIOUS
<1>2. rank \in [D -> 0 .. Len(ss)] /\ \A d \in D : rank[d] = d
    OBVIOUS
<1>3. ASSUME NEW d \in D, NEW g, d = 1 \/ g[d - 1] \in T
      PROVE  FlattenAt(ss, d, g) \in T
    BY <1>1, <1>3, ConcatProperties DEF FlattenAt
<1>4. ASSUME NEW d \in D, NEW g \in [D -> T]
      PROVE  step[d][g] = FlattenAt(ss, d, g) /\ FlattenAt(ss, d, g) \in T
    <2>1. step[d][g] = FlattenAt(ss, d, g)
        OBVIOUS
    <2>2. d # 1 => d - 1 \in D
        BY <1>1
    <2>3. d = 1 \/ g[d - 1] \in T
        BY <2>2
    <2>4. QED
        BY <1>3, <2>1, <2>3
<1>5. step \in [D -> [[D -> T] -> T]]
    BY <1>4
<1> HIDE DEF step
<1>6. \A d \in D : \A g, h \in [D -> T] :
          (\A e \in D : rank[e] < rank[d] => g[e] = h[e]) => step[d][g] = step[d][h]
    <2> TAKE d \in D
    <2> TAKE g, h \in [D -> T]
    <2> HAVE \A e \in D : rank[e] < rank[d] => g[e] = h[e]
    <2>1. d # 1 => d - 1 \in D /\ rank[d - 1] < rank[d]
        BY <1>1, <1>2
    <2>2. d # 1 => g[d - 1] = h[d - 1]
        BY <2>1
    <2>3. FlattenAt(ss, d, g) = FlattenAt(ss, d, h)
        BY <2>2 DEF FlattenAt
    <2>4. QED
        BY <1>4, <2>3, Zenon
<1>7. T # {}
    BY EmptySeq
<1>8. PICK f \in [D -> T] : \A d \in D : f[d] = step[d][f]
    <2> HIDE DEF D, T, rank
    <2>1. Descends(D, T, Len(ss), rank, step)
        BY <1>1, <1>2, <1>5, <1>6, <1>7, Zenon DEF Descends
    <2>2. Solvable(D, T, step)
        BY <2>1, RecursionHasASolution, Zenon
    <2>3. QED
        BY <2>2, Zenon DEF Solvable
<1>9. f = [d \in D |-> FlattenAt(ss, d, f)]
    BY <1>4, <1>8
<1> DEFINE G == FlattenPrefixes(ss)
           good == {i \in Nat : i \in D => G[i] \in T}
<1>10. G = [d \in D |-> FlattenAt(ss, d, G)]
    BY <1>9, Zenon DEF FlattenPrefixes
<1> HIDE DEF G
<1>11. \A d \in D : G[d] = FlattenAt(ss, d, G)
    BY <1>10, Zenon
<1>12. ASSUME NEW i \in 0 .. Len(ss) - 1, i \in good PROVE i + 1 \in good
    <2>1. i + 1 \in D /\ (i # 0 => i \in D)
        BY <1>1
    <2>2. i + 1 = 1 \/ G[(i + 1) - 1] \in T
        BY <1>12, <2>1
    <2>3. G[i + 1] \in T
        BY <1>3, <1>11, <2>1, <2>2
    <2>4. QED
        BY <2>3
<1>13. 0 \in good
    OBVIOUS
<1>14. \A i \in 0 .. Len(ss) : i \in good
    <2> HIDE DEF good
    <2>1. QED
        BY <1>1, <1>12, <1>13, InductionUpTo
<1>15. QED
    BY <1>1, <1>11, <1>14 DEF G

(* Nothing flattens to nothing.                                            *)
LEMMA FlattenEmpty == FlattenSeq(<<>>) = <<>>
  BY DEF FlattenSeq

(* FlattenSeq is the last value of the recursion it is defined by.         *)
LEMMA FlattenIs == 
    ASSUME NEW S, NEW ss \in Seq(Seq(S)), ss # <<>>
    PROVE FlattenSeq(ss) = FlattenPrefixes(ss)[Len(ss)]
<1>1. Len(ss) # 0 OBVIOUS
<1> QED BY <1>1, Zenon DEF FlattenSeq, FlattenPrefixes, FlattenAt

-----------------------------------------------------------------------------
(* One after the other                                                     *)

(* One sequence after the other.                                           *)
LEMMA Joined ==
    ASSUME NEW S, NEW s \in Seq(S), NEW t \in Seq(S)
    PROVE  /\ Len(s \o t) = Len(s) + Len(t)
           /\ \A i \in 1 .. Len(s) : (s \o t)[i] = s[i]
           /\ \A j \in 1 .. Len(t) : (s \o t)[Len(s) + j] = t[j]
<1>1. Len(s) \in Nat /\ Len(t) \in Nat
    BY LenProperties
<1>2. /\ Len(s \o t) = Len(s) + Len(t)
      /\ \A i \in 1 .. Len(s) + Len(t) : (s \o t)[i] = IF i <= Len(s) THEN s[i] ELSE t[i - Len(s)]
    BY ConcatProperties
<1>3. \A i \in 1 .. Len(s) : (s \o t)[i] = s[i]
    BY <1>1, <1>2
<1>4. ASSUME NEW j \in 1 .. Len(t) PROVE (s \o t)[Len(s) + j] = t[j]
    <2>1. Len(s) + j \in 1 .. Len(s) + Len(t) /\ ~ (Len(s) + j <= Len(s)) /\ (Len(s) + j) - Len(s) = j
        BY <1>1
    <2>2. QED
        BY <1>2, <2>1
<1>5. QED
    BY <1>2, <1>3, <1>4

(* What FlattenSeq leaves of a sequence of sequences: one after the other, *)
(* each from the place where the one before it ends.                       *)
Places(ss, at) ==
    /\ at \in [1 .. Len(ss) + 1 -> Nat \ {0}]
    /\ at[1] = 1 /\ at[Len(ss) + 1] = Len(FlattenSeq(ss)) + 1
    /\ \A k \in 1 .. Len(ss) :
          /\ at[k + 1] = at[k] + Len(ss[k])
          /\ at[k + 1] <= Len(FlattenSeq(ss)) + 1
          /\ \A j \in 1 .. Len(ss[k]) : FlattenSeq(ss)[at[k] + j - 1] = ss[k][j]

(* So every element of the sequences has its place in what is flattened.   *)
LEMMA FlattenPlaces ==
    ASSUME NEW S, NEW ss \in Seq(Seq(S))
    PROVE  FlattenSeq(ss) \in Seq(S) /\ \E at : Places(ss, at)
<1> DEFINE n == Len(ss)
           P == FlattenPrefixes(ss)
           upTo(k) == IF k = 0 THEN <<>> ELSE P[k]
           at == [k \in 1 .. n + 1 |-> Len(upTo(k - 1)) + 1]
<1>1. n \in Nat /\ \A k \in 1 .. n : ss[k] \in Seq(S)
    OBVIOUS
<1>2. \A k \in 1 .. n : P[k] = FlattenAt(ss, k, P) /\ P[k] \in Seq(S)
    BY FlattenIsDefined
<1> HIDE DEF P
<1>3. FlattenSeq(ss) = upTo(n)
    BY <1>1, FlattenEmpty, FlattenIs DEF P
<1>4. \A k \in 0 .. n : upTo(k) \in Seq(S)
    BY <1>1, <1>2, EmptySeq
<1>5. \A k \in 1 .. n : upTo(k) = upTo(k - 1) \o ss[k]
    <2> TAKE k \in 1 .. n
    <2>1. ss[k] \in Seq(S) /\ P[k] = FlattenAt(ss, k, P)
        BY <1>1, <1>2
    <2>2. CASE k = 1
        BY <2>1, <2>2, ConcatEmptySeq DEF FlattenAt
    <2>3. CASE k # 1
        <3>1. k # 0 /\ k - 1 # 0
            BY <1>1, <2>3
        <3>2. upTo(k) = P[k] /\ upTo(k - 1) = P[k - 1]
            BY <3>1
        <3>3. P[k] = P[k - 1] \o ss[k]
            BY <2>1, <2>3 DEF FlattenAt
        <3>4. QED
            BY <3>2, <3>3
    <2>4. QED
        BY <2>2, <2>3
<1> HIDE DEF upTo
<1>6. \A k \in 1 .. n :
         /\ Len(upTo(k)) = Len(upTo(k - 1)) + Len(ss[k])
         /\ \A i \in 1 .. Len(upTo(k - 1)) : upTo(k)[i] = upTo(k - 1)[i]
         /\ \A j \in 1 .. Len(ss[k]) : upTo(k)[Len(upTo(k - 1)) + j] = ss[k][j]
    <2> TAKE k \in 1 .. n
    <2>1. upTo(k - 1) \in Seq(S) /\ ss[k] \in Seq(S)
        BY <1>1, <1>4
    <2>2. upTo(k) = upTo(k - 1) \o ss[k]
        BY <1>5
    <2>3. QED
        BY <2>1, <2>2, Joined
<1>7. ASSUME NEW k \in 0 .. n
      PROVE  /\ Len(upTo(k)) <= Len(upTo(n))
             /\ \A i \in 1 .. Len(upTo(k)) : upTo(n)[i] = upTo(k)[i]
    <2> DEFINE good == {m \in Nat : m >= k /\ m <= n =>
                           /\ Len(upTo(k)) <= Len(upTo(m))
                           /\ \A i \in 1 .. Len(upTo(k)) : upTo(m)[i] = upTo(k)[i]}
    <2>1. 0 \in good
        BY <1>4
    <2>2. ASSUME NEW m \in 0 .. n - 1, m \in good PROVE m + 1 \in good
        <3>1. CASE m < k
            BY <1>1, <1>4, <2>2, <3>1
        <3>2. CASE m >= k
            <4>1. m + 1 \in 1 .. n /\ (m + 1) - 1 = m /\ m \in 0 .. n
                BY <1>1
            <4>2. Len(upTo(m)) \in Nat /\ Len(upTo(m + 1)) \in Nat /\ Len(upTo(k)) \in Nat
                  /\ Len(ss[m + 1]) \in Nat
                BY <1>1, <1>4, <4>1, LenProperties
            <4>3. /\ Len(upTo(m + 1)) = Len(upTo(m)) + Len(ss[m + 1])
                  /\ \A i \in 1 .. Len(upTo(m)) : upTo(m + 1)[i] = upTo(m)[i]
                BY <1>6, <4>1
            <4>4. /\ Len(upTo(k)) <= Len(upTo(m))
                  /\ \A i \in 1 .. Len(upTo(k)) : upTo(m)[i] = upTo(k)[i]
                BY <1>1, <2>2, <3>2
            <4>5. \A i \in 1 .. Len(upTo(k)) : upTo(m + 1)[i] = upTo(k)[i]
                BY <4>2, <4>3, <4>4
            <4>6. QED
                BY <4>1, <4>2, <4>3, <4>4, <4>5
        <3>3. QED
            BY <1>1, <3>1, <3>2
    <2>3. \A m \in 0 .. n : m \in good
        <3> HIDE DEF good
        <3>1. QED
            BY <1>1, <2>1, <2>2, InductionUpTo
    <2>4. n \in good
        <3> HIDE DEF good, at
        <3>1. n \in 0 .. n
            BY <1>1
        <3>2. QED
            BY <2>3, <3>1
    <2>5. QED
        BY <1>1, <2>4
<1>8. at \in [1 .. n + 1 -> Nat \ {0}]
    <2>1. ASSUME NEW k \in 1 .. n + 1 PROVE Len(upTo(k - 1)) + 1 \in Nat \ {0}
        <3>1. k - 1 \in 0 .. n
            BY <1>1
        <3>2. QED
            BY <1>4, <3>1, LenProperties
    <2>2. QED
        BY <2>1
<1>9. at[1] = 1 /\ at[n + 1] = Len(FlattenSeq(ss)) + 1
    <2>1. 1 \in 1 .. n + 1 /\ n + 1 \in 1 .. n + 1 /\ 1 - 1 = 0 /\ (n + 1) - 1 = n
        BY <1>1
    <2>2. upTo(0) = <<>>
        BY DEF upTo
    <2>3. QED
        BY <1>3, <2>1, <2>2, EmptySeq
<1>10. ASSUME NEW k \in 1 .. n
       PROVE  /\ at[k + 1] = at[k] + Len(ss[k])
              /\ at[k + 1] <= Len(FlattenSeq(ss)) + 1
              /\ \A j \in 1 .. Len(ss[k]) : FlattenSeq(ss)[at[k] + j - 1] = ss[k][j]
    <2>1. k \in 0 .. n /\ k - 1 \in 0 .. n /\ k \in 1 .. n + 1 /\ k + 1 \in 1 .. n + 1
        BY <1>1
    <2>2. at[k] = Len(upTo(k - 1)) + 1 /\ at[k + 1] = Len(upTo(k)) + 1
        BY <1>1, <2>1
    <2> HIDE DEF at
    <2>3. Len(upTo(k)) \in Nat /\ Len(upTo(k - 1)) \in Nat /\ Len(upTo(n)) \in Nat /\ Len(ss[k]) \in Nat
        BY <1>1, <1>4, <2>1, LenProperties
    <2>4. /\ Len(upTo(k)) = Len(upTo(k - 1)) + Len(ss[k])
          /\ \A j \in 1 .. Len(ss[k]) : upTo(k)[Len(upTo(k - 1)) + j] = ss[k][j]
        BY <1>6
    <2>5. /\ Len(upTo(k)) <= Len(upTo(n))
          /\ \A i \in 1 .. Len(upTo(k)) : upTo(n)[i] = upTo(k)[i]
        BY <1>7, <2>1
    <2>6. ASSUME NEW j \in 1 .. Len(ss[k]) PROVE upTo(n)[at[k] + j - 1] = ss[k][j]
        <3>1. at[k] + j - 1 = Len(upTo(k - 1)) + j
            BY <2>2, <2>3
        <3>2. Len(upTo(k - 1)) + j \in 1 .. Len(upTo(k))
            BY <2>3, <2>4
        <3>3. QED
            BY <2>4, <2>5, <3>1, <3>2
    <2>7. at[k + 1] = at[k] + Len(ss[k])
        <3>1. Len(upTo(k)) = Len(upTo(k - 1)) + Len(ss[k])
            BY <2>4
        <3>2. \A a, b \in Nat : (a + b) + 1 = (a + 1) + b
            OBVIOUS
        <3>3. QED
            BY <2>2, <2>3, <3>1, <3>2, Zenon
    <2>8. at[k + 1] <= Len(FlattenSeq(ss)) + 1
        BY <1>3, <2>2, <2>3, <2>5
    <2>9. QED
        BY <1>3, <2>6, <2>7, <2>8
<1>11. Places(ss, at)
    <2> HIDE DEF at
    <2>1. QED
        BY <1>8, <1>9, <1>10, Zenon DEF Places
<1>12. FlattenSeq(ss) \in Seq(S)
    BY <1>1, <1>3, <1>4
<1>13. QED
    BY <1>11, <1>12, Zenon

-----------------------------------------------------------------------------
(* Folds from the left                                                     *)

(* A set of positions that is not empty has a last one.                    *)
LEMMA LastPosition ==
    ASSUME NEW n \in Nat, NEW s \in SUBSET (1 .. n), s # {}
    PROVE  Max(s) \in s /\ \A x \in s : x <= Max(s)
<1> DEFINE back == {n - x : x \in s}
<1>1. back \in SUBSET Nat /\ back # {}
    <2>1. \A x \in s : n - x \in Nat
        OBVIOUS
    <2>2. PICK x \in s : TRUE
        OBVIOUS
    <2>3. n - x \in back
        OBVIOUS
    <2>4. QED
        BY <2>1, <2>3
<1>2. PICK b \in back : \A y \in back : b <= y
    BY <1>1, LeastNatural
<1>3. PICK m \in s : b = n - m
    BY <1>2
<1>4. \A x \in s : m >= x
    BY <1>2, <1>3
<1>5. \E x \in s : \A y \in s : x >= y
    BY <1>4
<1>6. Max(s) \in s /\ \A y \in s : Max(s) >= y
    BY <1>5, Zenon DEF Max
<1>7. QED
    BY <1>6

(* The last of the first i positions is i, and the others are the first i -*)
(* 1.                                                                      *)
LEMMA LastOfInterval ==
    ASSUME NEW n \in Nat, NEW i \in 1 .. n
    PROVE  /\ 1 .. i \in SUBSET (1 .. n) /\ 1 .. i # {}
           /\ Max(1 .. i) = i /\ (1 .. i) \ {Max(1 .. i)} = 1 .. i - 1
<1>1. (1 .. i) \in SUBSET (1 .. n) /\ 1 .. i # {} /\ i \in 1 .. i
    OBVIOUS
<1>2. Max(1 .. i) \in 1 .. i /\ \A x \in 1 .. i : x <= Max(1 .. i)
    BY <1>1, LastPosition
<1>3. Max(1 .. i) = i
    BY <1>1, <1>2
<1>4. (1 .. i) \ {i} = 1 .. i - 1
    OBVIOUS
<1>5. QED
    BY <1>1, <1>3, <1>4

(* Positions are finitely many, and fewer when one of them is taken away.  *)
LEMMA PositionsAreFew ==
    ASSUME NEW n \in Nat, NEW s \in SUBSET (1 .. n)
    PROVE  /\ IsFiniteSet(s) /\ Cardinality(s) \in 0 .. n
           /\ \A x \in s : Cardinality(s \ {x}) \in Nat /\ Cardinality(s \ {x}) < Cardinality(s)
<1>1. IsFiniteSet(1 .. n) /\ Cardinality(1 .. n) = n
    <2>1. 1 \in Int /\ n \in Int
        OBVIOUS
    <2>2. IsFiniteSet(1 .. n) /\ Cardinality(1 .. n) = IF 1 > n THEN 0 ELSE n - 1 + 1
        BY <2>1, FS_Interval, Zenon
    <2>3. QED
        BY <2>2
<1>2. IsFiniteSet(s) /\ Cardinality(s) <= Cardinality(1 .. n)
    BY <1>1, FS_Subset
<1>3. Cardinality(s) \in Nat
    BY <1>2, FS_CardinalityType
<1>4. ASSUME NEW x \in s PROVE Cardinality(s \ {x}) \in Nat /\ Cardinality(s \ {x}) < Cardinality(s)
    <2>1. IsFiniteSet(s \ {x}) /\ Cardinality(s \ {x}) = Cardinality(s) - 1
        BY <1>2, FS_RemoveElement
    <2>2. Cardinality(s \ {x}) \in Nat
        BY <2>1, FS_CardinalityType
    <2>3. QED
        BY <1>3, <2>1, <2>2
<1>5. QED
    BY <1>1, <1>2, <1>3, <1>4

(* A fold from the left is a recursion on the sets of positions that has a *)
(* solution.                                                               *)
FoldAt(es, base, step, s, g) == IF s = {} THEN base ELSE step[g[s \ {Max(s)}]][es[Max(s)]]
FoldSolution(es, T, base, step, g) ==
    /\ g \in [SUBSET (1 .. Len(es)) -> T]
    /\ \A s \in SUBSET (1 .. Len(es)) : g[s] = FoldAt(es, base, step, s, g)

(* That recursion has a solution whose values are of the type.             *)
LEMMA FoldIsSolvable ==
    ASSUME NEW E, NEW T, NEW base \in T, NEW step \in [T -> [E -> T]], NEW es \in Seq(E)
    PROVE  \E g : FoldSolution(es, T, base, step, g)
<1> DEFINE n == Len(es)
           D == SUBSET (1 .. n)
           rank == [s \in D |-> Cardinality(s)]
           stepped == [s \in D |-> [g \in [D -> T] |-> FoldAt(es, base, step, s, g)]]
<1>1. n \in Nat /\ \A i \in 1 .. n : es[i] \in E
    OBVIOUS
<1>2. ASSUME NEW s \in D, s # {}
      PROVE  /\ Max(s) \in s /\ Max(s) \in 1 .. n /\ s \ {Max(s)} \in D
             /\ Cardinality(s \ {Max(s)}) < Cardinality(s)
    <2>1. Max(s) \in s
        BY <1>1, <1>2, LastPosition
    <2>2. \A x \in s : Cardinality(s \ {x}) < Cardinality(s)
        BY <1>1, PositionsAreFew
    <2>3. QED
        BY <2>1, <2>2
<1>3. ASSUME NEW s \in D
      PROVE  Cardinality(s) \in 0 .. n
    BY <1>1, PositionsAreFew
<1>4. rank \in [D -> 0 .. n] /\ \A s \in D : rank[s] = Cardinality(s)
    BY <1>3
<1>5. ASSUME NEW s \in D, NEW g \in [D -> T]
      PROVE  stepped[s][g] = FoldAt(es, base, step, s, g) /\ FoldAt(es, base, step, s, g) \in T
    <2>1. stepped[s][g] = FoldAt(es, base, step, s, g)
        OBVIOUS
    <2>2. CASE s = {}
        BY <2>1, <2>2 DEF FoldAt
    <2>3. CASE s # {}
        <3>1. g[s \ {Max(s)}] \in T /\ es[Max(s)] \in E
            <4>1. Max(s) \in 1 .. n /\ s \ {Max(s)} \in D
                BY <1>2, <2>3, Zenon
            <4> HIDE DEF D, n
            <4>2. QED
                BY <1>1, <4>1, Zenon
        <3>2. step[g[s \ {Max(s)}]][es[Max(s)]] \in T
            <4>1. \A t \in T, e \in E : step[t][e] \in T
                OBVIOUS
            <4>2. QED
                BY ONLY <3>1, <4>1, Zenon
        <3>3. QED
            BY <2>1, <2>3, <3>2 DEF FoldAt
    <2>4. QED
        BY <2>2, <2>3
<1>6. stepped \in [D -> [[D -> T] -> T]]
    BY <1>5
<1> HIDE DEF stepped
<1>7. \A s \in D : \A g, h \in [D -> T] :
          (\A e \in D : rank[e] < rank[s] => g[e] = h[e]) => stepped[s][g] = stepped[s][h]
    <2> TAKE s \in D
    <2> TAKE g, h \in [D -> T]
    <2> HAVE \A e \in D : rank[e] < rank[s] => g[e] = h[e]
    <2>1. CASE s = {}
        BY <1>5, <2>1 DEF FoldAt
    <2>2. CASE s # {}
        <3>1. s \ {Max(s)} \in D /\ rank[s \ {Max(s)}] < rank[s]
            <4>1. s \ {Max(s)} \in D /\ Cardinality(s \ {Max(s)}) < Cardinality(s)
                BY <1>2, <2>2
            <4> HIDE DEF D, rank
            <4>2. QED
                BY <1>4, <4>1
        <3>2. g[s \ {Max(s)}] = h[s \ {Max(s)}]
            BY <3>1
        <3>3. FoldAt(es, base, step, s, g) = FoldAt(es, base, step, s, h)
            BY <3>2, Zenon DEF FoldAt
        <3>4. QED
            BY <1>5, <3>3, Zenon
    <2>3. QED
        BY <2>1, <2>2
<1>8. Solvable(D, T, stepped)
    <2>1. T # {}
        OBVIOUS
    <2> HIDE DEF D, rank
    <2>2. Descends(D, T, n, rank, stepped)
        BY <1>1, <1>4, <1>6, <1>7, <2>1, Zenon DEF Descends
    <2>3. QED
        BY <2>2, RecursionHasASolution, Zenon
<1>9. PICK g \in [D -> T] : \A s \in D : g[s] = stepped[s][g]
    BY <1>8, Zenon DEF Solvable
<1>10. \A s \in D : g[s] = FoldAt(es, base, step, s, g)
    BY <1>5, <1>9, Zenon
<1>11. FoldSolution(es, T, base, step, g)
    BY <1>10, Zenon DEF FoldSolution
<1>12. QED
    BY <1>11, Zenon

(* A function that is the fold wherever its values are of the type takes,  *)
(* on the first positions, one step after the other.                       *)
FoldedBy(F, es, T, base, step) ==
    \A s \in SUBSET (1 .. Len(es)) :
        /\ s = {} => F[s] = base
        /\ s # {} /\ F[s \ {Max(s)}] \in T => F[s] = step[F[s \ {Max(s)}]][es[Max(s)]]
Runs(run, es, T, base, step, result) ==
    /\ run \in [0 .. Len(es) -> T]
    /\ run[0] = base /\ result = run[Len(es)]
    /\ \A i \in 1 .. Len(es) : run[i] = step[run[i - 1]][es[i]]

(* So the fold is where a run of single steps ends.                        *)
LEMMA FoldRuns ==
    ASSUME NEW E, NEW T, NEW base \in T, NEW step \in [T -> [E -> T]], NEW es \in Seq(E), NEW F,
           FoldedBy(F, es, T, base, step)
    PROVE  \E run : Runs(run, es, T, base, step, F[1 .. Len(es)])
<1> DEFINE n == Len(es)
           run == [i \in 0 .. n |-> F[1 .. i]]
           good == {i \in Nat : F[1 .. i] \in T}
<1>1. n \in Nat /\ \A i \in 1 .. n : es[i] \in E
    OBVIOUS
<1>2. 1 .. 0 = {} /\ F[1 .. 0] = base
    <2>1. 1 .. 0 = {} /\ {} \in SUBSET (1 .. n)
        OBVIOUS
    <2>2. QED
        BY <2>1, Zenon DEF FoldedBy
<1>3. ASSUME NEW i \in 1 .. n, F[1 .. i - 1] \in T
      PROVE  F[1 .. i] = step[F[1 .. i - 1]][es[i]]
    <2>1. 1 .. i \in SUBSET (1 .. n) /\ 1 .. i # {}
          /\ Max(1 .. i) = i /\ (1 .. i) \ {Max(1 .. i)} = 1 .. i - 1
        BY <1>1, LastOfInterval
    <2>2. QED
        BY <1>3, <2>1, Zenon DEF FoldedBy
<1>4. 0 \in good
    BY <1>2
<1>5. ASSUME NEW i \in 0 .. n - 1, i \in good PROVE i + 1 \in good
    <2>1. i + 1 \in 1 .. n /\ (i + 1) - 1 = i /\ i + 1 \in Nat
        BY <1>1
    <2>2. F[1 .. i] \in T
        BY <1>5
    <2>3. F[1 .. i + 1] = step[F[1 .. i]][es[i + 1]]
        BY <1>3, <2>1, <2>2, Zenon
    <2>4. F[1 .. i + 1] \in T
        BY <1>1, <2>1, <2>2, <2>3
    <2>5. QED
        BY <2>1, <2>4
<1>6. \A i \in 0 .. n : i \in good
    <2> HIDE DEF good
    <2>1. QED
        BY <1>1, <1>4, <1>5, InductionUpTo
<1>7. \A i \in 0 .. n : F[1 .. i] \in T
    BY <1>6
<1>8. run \in [0 .. n -> T] /\ \A i \in 0 .. n : run[i] = F[1 .. i]
    BY <1>7
<1> HIDE DEF run
<1>9. 0 \in 0 .. n /\ n \in 0 .. n /\ \A i \in 1 .. n : i \in 0 .. n /\ i - 1 \in 0 .. n
    BY <1>1
<1>10. \A i \in 1 .. n : run[i] = step[run[i - 1]][es[i]]
    BY <1>3, <1>7, <1>8, <1>9, Zenon
<1>11. Runs(run, es, T, base, step, F[1 .. n])
    BY <1>2, <1>8, <1>9, <1>10, Zenon DEF Runs
<1>12. QED
    BY <1>11, Zenon

-----------------------------------------------------------------------------
(* One element more                                                        *)

(* One element before a sequence.                                          *)
LEMMA OneBefore ==
    ASSUME NEW S, NEW x \in S, NEW s \in Seq(S), NEW m \in Nat, NEW r,
           Len(s) = m, r \in [1 .. m + 1 -> S], r[1] = x, \A j \in 1 .. m : r[j + 1] = s[j]
    PROVE  <<x>> \o s = r
<1>1. <<x>> \in Seq(S) /\ Len(<<x>>) = 1 /\ <<x>>[1] = x
    OBVIOUS
<1>2. /\ Len(<<x>> \o s) = 1 + m
      /\ \A i \in 1 .. 1 : (<<x>> \o s)[i] = <<x>>[i]
      /\ \A j \in 1 .. m : (<<x>> \o s)[1 + j] = s[j]
    BY <1>1, Joined
<1>3. <<x>> \o s \in Seq(S)
    BY <1>1, ConcatProperties
<1>4. r \in Seq(S) /\ Len(r) = m + 1
    OBVIOUS
<1>5. ASSUME NEW i \in 1 .. m + 1 PROVE (<<x>> \o s)[i] = r[i]
    <2>1. CASE i = 1
        BY <1>1, <1>2, <2>1
    <2>2. CASE i # 1
        <3>1. i - 1 \in 1 .. m /\ 1 + (i - 1) = i /\ (i - 1) + 1 = i
            BY <2>2
        <3>2. QED
            BY <1>2, <3>1
    <2>3. QED
        BY <2>1, <2>2
<1>6. QED
    BY <1>2, <1>3, <1>4, <1>5, SeqEqual

(* The lesser of two.                                                      *)
Least(m, n) == IF m < n THEN m ELSE n

(* A function on an initial interval, one longer.                          *)
LEMMA OneMore ==
    ASSUME NEW S, NEW m \in Nat, NEW s, NEW t, s \in [1 .. m -> S], t \in [1 .. m + 1 -> S],
           \A i \in 1 .. m : t[i] = s[i]
    PROVE  Append(s, t[m + 1]) = t
<1>1. s \in Seq(S) /\ t \in Seq(S) /\ Len(s) = m /\ Len(t) = m + 1 /\ t[m + 1] \in S
    OBVIOUS
<1>2. QED
    BY <1>1

(* Another last element.                                                   *)
LEMMA LastReplaced ==
    ASSUME NEW S, NEW s \in Seq(S), NEW a \in S, NEW b \in S
    PROVE  [Append(s, a) EXCEPT ![Len(Append(s, a))] = b] = Append(s, b)
<1> DEFINE n == Len(s) + 1
           u == Append(s, a)
           t == [u EXCEPT ![n] = b]
           v == Append(s, b)
<1>1. Len(s) \in Nat /\ n \in Nat /\ u \in Seq(S) /\ Len(u) = n /\ v \in Seq(S) /\ Len(v) = n /\ v[n] = b
    OBVIOUS
<1>2. \A i \in 1 .. n : i # n => u[i] = v[i]
    <2> TAKE i \in 1 .. n
    <2> HAVE i # n
    <2>1. i \in 1 .. Len(s)
        BY <1>1
    <2>2. u[i] = s[i] /\ v[i] = s[i]
        BY <2>1
    <2>3. QED
        BY <2>2
<1> HIDE DEF n, u, v
<1>3. t \in Seq(S) /\ Len(t) = n /\ \A i \in 1 .. n : t[i] = IF i = n THEN b ELSE u[i]
    <2>1. DOMAIN u = 1 .. n
        BY <1>1
    <2>2. t = [i \in 1 .. n |-> IF i = n THEN b ELSE u[i]]
        BY <2>1, Zenon
    <2>3. \A i \in 1 .. n : u[i] \in S
        BY <1>1
    <2> HIDE DEF t
    <2>4. \A i \in 1 .. n : t[i] = IF i = n THEN b ELSE u[i]
        BY <2>2
    <2>5. t \in [1 .. n -> S]
        BY <2>2, <2>3
    <2>6. t \in Seq(S) /\ Len(t) = n
        BY <1>1, <2>5
    <2>7. QED
        BY <2>4, <2>6
<1> HIDE DEF t
<1>4. t = v
    <2>1. \A i \in 1 .. n : t[i] = v[i]
        BY <1>1, <1>2, <1>3
    <2>2. QED
        BY <1>1, <1>3, <2>1, SeqEqual
<1>5. QED
    BY <1>1, <1>4 DEF t, u, v

-----------------------------------------------------------------------------
(* Piece after piece                                                       *)

(* Piece after piece: each is what stands next in the whole, and there is  *)
(* more until its end.                                                     *)
Gather(piece, more, f, a) == piece[a] \o IF more[a] THEN f[a + Len(piece[a])] ELSE <<>>
Pieces(S, whole, piece, more) ==
    /\ whole \in Seq(S)
    /\ \A a \in 0 .. Len(whole) :
          /\ piece[a] \in Seq(S)
          /\ a + Len(piece[a]) <= Len(whole)
          /\ \A j \in 1 .. Len(piece[a]) : piece[a][j] = whole[a + j]
          /\ more[a] => Len(piece[a]) > 0
          /\ ~ more[a] => a + Len(piece[a]) = Len(whole)
Continues(whole, piece, more, f, a) ==
    more[a] => f[a + Len(piece[a])] = SubSeq(whole, a + Len(piece[a]) + 1, Len(whole))

(* Where the pieces after one are the rest of the whole, that one before   *)
(* them is the rest from where it starts.                                  *)
LEMMA RestIsGathered ==
    ASSUME NEW S, NEW whole, NEW piece, NEW more, Pieces(S, whole, piece, more),
           NEW a \in 0 .. Len(whole), NEW f, Continues(whole, piece, more, f, a)
    PROVE  Gather(piece, more, f, a) = SubSeq(whole, a + 1, Len(whole))
<1> DEFINE N == Len(whole)
           m == Len(piece[a])
           rest(k) == SubSeq(whole, k + 1, N)
           p == piece[a]
           q == IF more[a] THEN f[a + m] ELSE <<>>
<1>1. whole \in Seq(S) /\ N \in Nat /\ a \in Nat /\ a <= N
    BY DEF Pieces
<1>2. /\ p \in Seq(S) /\ m \in Nat /\ a + m <= N
      /\ \A j \in 1 .. m : p[j] = whole[a + j]
      /\ ~ more[a] => a + m = N
    <2>1. /\ p \in Seq(S) /\ a + m <= N
          /\ \A j \in 1 .. m : p[j] = whole[a + j]
          /\ ~ more[a] => a + m = N
        BY Zenon DEF Pieces
    <2>2. QED
        BY <2>1, LenProperties
<1>3. ASSUME NEW k \in 0 .. N
      PROVE  /\ rest(k) \in Seq(S) /\ Len(rest(k)) = N - k
             /\ \A j \in 1 .. N - k : rest(k)[j] = whole[k + j]
    BY <1>1
<1>4. q = rest(a + m)
    <2>1. CASE more[a]
        BY <2>1 DEF Continues
    <2>2. CASE ~ more[a]
        <3>1. rest(N) = <<>>
            BY <1>1
        <3>2. QED
            BY <1>2, <2>2, <3>1
    <2>3. QED
        BY <2>1, <2>2
<1>5. a + m \in 0 .. N
    BY <1>1, <1>2
<1>6. q \in Seq(S) /\ Len(q) = N - (a + m) /\ \A j \in 1 .. N - (a + m) : q[j] = whole[(a + m) + j]
    BY <1>3, <1>4, <1>5
<1> HIDE DEF p, q, m, N, rest
<1>7. /\ Len(p \o q) = m + Len(q)
      /\ \A i \in 1 .. m : (p \o q)[i] = p[i]
      /\ \A j \in 1 .. Len(q) : (p \o q)[m + j] = q[j]
    <2>1. p \in Seq(S) /\ q \in Seq(S)
        BY <1>2, <1>6
    <2>2. Len(p) = m
        BY DEF p, m
    <2>3. /\ Len(p \o q) = Len(p) + Len(q)
          /\ \A i \in 1 .. Len(p) : (p \o q)[i] = p[i]
          /\ \A j \in 1 .. Len(q) : (p \o q)[Len(p) + j] = q[j]
        BY <2>1, Joined
    <2>4. QED
        BY <2>2, <2>3, Zenon
<1>8. p \o q \in Seq(S)
    BY <1>2, <1>6, ConcatProperties
<1>9. rest(a) \in Seq(S) /\ Len(rest(a)) = N - a /\ \A j \in 1 .. N - a : rest(a)[j] = whole[a + j]
    BY <1>1, <1>3
<1>10. Len(p \o q) = N - a
    BY <1>1, <1>2, <1>6, <1>7
<1>11. ASSUME NEW i \in 1 .. N - a PROVE (p \o q)[i] = rest(a)[i]
    <2>1. CASE i <= m
        <3>1. i \in 1 .. m
            BY <1>1, <1>2, <2>1
        <3>2. QED
            BY <1>2, <1>7, <1>9, <3>1
    <2>2. CASE ~ (i <= m)
        <3>1. i - m \in 1 .. Len(q) /\ m + (i - m) = i /\ i - m \in 1 .. N - (a + m) /\ (a + m) + (i - m) = a + i
            BY <1>1, <1>2, <1>6, <2>2
        <3>2. (p \o q)[m + (i - m)] = q[i - m] /\ q[i - m] = whole[(a + m) + (i - m)]
            BY <1>6, <1>7, <3>1
        <3>3. QED
            BY <1>9, <3>1, <3>2
    <2>3. QED
        BY <2>1, <2>2
<1>12. p \o q = rest(a)
    BY <1>8, <1>9, <1>10, <1>11, SeqEqual
<1>13. QED
    BY <1>12 DEF Gather, p, q, rest, N, m

(* The gathering has a solution, and whatever solves it has the whole.     *)
LEMMA GatherIsSolvable ==
    ASSUME NEW S, NEW whole, NEW piece, NEW more, Pieces(S, whole, piece, more)
    PROVE  \E f : f = [a \in 0 .. Len(whole) |-> Gather(piece, more, f, a)]
<1> DEFINE N == Len(whole)
           g == [a \in 0 .. N |-> SubSeq(whole, a + 1, N)]
<1>1. ASSUME NEW a \in 0 .. N PROVE Gather(piece, more, g, a) = SubSeq(whole, a + 1, N)
    <2>1. ASSUME more[a] PROVE g[a + Len(piece[a])] = SubSeq(whole, a + Len(piece[a]) + 1, N)
        <3>1. piece[a] \in Seq(S) /\ a + Len(piece[a]) <= N /\ whole \in Seq(S)
            BY DEF Pieces
        <3>2. Len(piece[a]) \in Nat /\ N \in Nat
            BY <3>1, LenProperties
        <3>3. a + Len(piece[a]) \in 0 .. N
            BY <3>1, <3>2
        <3>4. QED
            BY <3>3
    <2> HIDE DEF g
    <2>2. Continues(whole, piece, more, g, a)
        BY <2>1, Zenon DEF Continues
    <2>3. QED
        BY ONLY <2>2, Pieces(S, whole, piece, more), a \in 0 .. N, RestIsGathered DEF N
<1>2. g = [a \in 0 .. N |-> Gather(piece, more, g, a)]
    BY <1>1
<1>3. QED
    BY <1>2, Zenon

(* Whatever the recursion names, the pieces from the start are the whole.  *)
LEMMA GatheredIsWhole ==
    ASSUME NEW S, NEW whole, NEW piece, NEW more, Pieces(S, whole, piece, more), NEW f,
           f = [a \in 0 .. Len(whole) |-> Gather(piece, more, f, a)]
    PROVE  f[0] = whole
<1> DEFINE N == Len(whole)
           good == {m \in Nat : \A a \in 0 .. N : N - a <= m => f[a] = SubSeq(whole, a + 1, N)}
<1>1. whole \in Seq(S) /\ N \in Nat
    BY DEF Pieces
<1>2. ASSUME NEW a \in 0 .. N, Continues(whole, piece, more, f, a)
      PROVE  f[a] = SubSeq(whole, a + 1, N)
    <2>1. f[a] = Gather(piece, more, f, a)
        BY Zenon
    <2>2. Gather(piece, more, f, a) = SubSeq(whole, a + 1, N)
        <3>1. Pieces(S, whole, piece, more) /\ Continues(whole, piece, more, f, a)
            BY <1>2, Zenon
        <3>2. QED
            BY ONLY <3>1, a \in 0 .. N, RestIsGathered DEF N
    <2>3. QED
        BY <2>1, <2>2, Zenon
<1>3. ASSUME NEW a \in 0 .. N, more[a]
      PROVE  a + Len(piece[a]) \in 0 .. N /\ a + Len(piece[a]) > a
    <2>1. piece[a] \in Seq(S) /\ a + Len(piece[a]) <= N /\ Len(piece[a]) > 0
        BY <1>3 DEF Pieces
    <2>2. Len(piece[a]) \in Nat
        BY <2>1, LenProperties
    <2>3. QED
        BY <1>1, <2>1, <2>2
<1>4. 0 \in good
    <2>1. ASSUME NEW a \in 0 .. N, N - a <= 0 PROVE f[a] = SubSeq(whole, a + 1, N)
        <3>1. ~ more[a]
            BY <1>1, <1>3, <2>1
        <3>2. Continues(whole, piece, more, f, a)
            BY <3>1 DEF Continues
        <3>3. QED
            BY <1>2, <3>2
    <2>2. QED
        BY <2>1
<1>5. ASSUME NEW m \in 0 .. N - 1, m \in good PROVE m + 1 \in good
    <2>1. ASSUME NEW a \in 0 .. N, N - a <= m + 1 PROVE f[a] = SubSeq(whole, a + 1, N)
        <3>1. ASSUME more[a] PROVE f[a + Len(piece[a])] = SubSeq(whole, a + Len(piece[a]) + 1, Len(whole))
            <4> DEFINE b == a + Len(piece[a])
            <4>1. b \in 0 .. N /\ b > a
                BY <1>3, <3>1
            <4> HIDE DEF b
            <4>2. N - b <= m
                BY <1>1, <2>1, <4>1
            <4>3. f[b] = SubSeq(whole, b + 1, N)
                BY <1>5, <4>1, <4>2
            <4>4. QED
                BY <4>3 DEF b
        <3>2. Continues(whole, piece, more, f, a)
            BY <3>1, Zenon DEF Continues
        <3>3. QED
            BY <1>2, <3>2
    <2>2. m + 1 \in Nat
        OBVIOUS
    <2>3. QED
        BY <2>1, <2>2
<1>6. N \in good
    <2> HIDE DEF good, N
    <2>1. \A m \in 0 .. N : m \in good
        BY <1>1, <1>4, <1>5, InductionUpTo
    <2>2. QED
        BY <1>1, <2>1
<1>7. f[0] = SubSeq(whole, 0 + 1, N)
    BY <1>1, <1>6
<1>8. SubSeq(whole, 1, N) = whole
    BY <1>1
<1>9. QED
    BY <1>7, <1>8

(* What the lesser of two is.                                              *)
LEMMA LeastIs ==
    ASSUME NEW m \in Nat, NEW n \in Nat
    PROVE  /\ Least(m, n) \in Nat /\ Least(m, n) <= m /\ Least(m, n) <= n
           /\ m <= n => Least(m, n) = m
           /\ n <= m => Least(m, n) = n
BY DEF Least
=============================================================================
