------------------------- MODULE TranscriptProofs --------------------------
(***************************************************************************)
(* Theorems about the tail of a transcript, for any transcripts, any       *)
(* sizes of its windows and chunks and any number of files, bytes and      *)
(* failures: however its calls, the pushes and the writes interleave,      *)
(* what a tail shows is a stretch of one file, unless it lost one of the   *)
(* races that are named. The framing of lines is told from the ranks of    *)
(* line ends: no recursion is needed for it.                               *)
(***************************************************************************)
EXTENDS Transcript, FiniteSetTheorems, SequenceTheorems, TLAPS

Lines == Nat \X Nat
Bytes == [line : Lines, first : BOOLEAN, last : BOOLEAN]

\* How many of a set of positions stand at i or before it
UpTo(S, i) == {j \in S : j <= i}
Rank(S, i) == Cardinality(UpTo(S, i))

(* Positions in a sequence are finite, and so are those up to one of them. *)
LEMMA PositionsAreFinite ==
    ASSUME NEW n \in Nat, NEW S \in SUBSET (1 .. n), NEW i \in Int
    PROVE  /\ IsFiniteSet(S) /\ IsFiniteSet(UpTo(S, i))
           /\ Cardinality(S) \in Nat /\ Rank(S, i) \in Nat
           /\ Rank(S, i) <= Cardinality(S)
<1>1. IsFiniteSet(1 .. n)
    BY FS_Interval
<1>2. IsFiniteSet(S)
    BY <1>1, FS_Subset
<1>3. UpTo(S, i) \in SUBSET S
    BY DEF UpTo
<1> QED
    BY <1>2, <1>3, FS_Subset, FS_CardinalityType DEF Rank

(* Of two positions the later one has the higher rank. *)
LEMMA RankGrows ==
    ASSUME NEW n \in Nat, NEW S \in SUBSET (1 .. n), NEW i \in S, NEW j \in S, i < j
    PROVE  Rank(S, i) < Rank(S, j)
<1>1. i \in Int /\ j \in Int
    OBVIOUS
<1>2. UpTo(S, i) \in SUBSET UpTo(S, j)
  <2>1. \A x \in S : x \in Int
    OBVIOUS
  <2>2. \A x \in S : x <= i => x <= j
    BY <1>1, <2>1
  <2> QED
    BY <2>2 DEF UpTo
<1>3. j \in UpTo(S, j) /\ j \notin UpTo(S, i)
  <2>1. j <= j /\ ~(j <= i)
    BY <1>1
  <2> QED
    BY <2>1 DEF UpTo
<1>4. IsFiniteSet(UpTo(S, j)) /\ Rank(S, i) \in Nat /\ Rank(S, j) \in Nat
    BY <1>1, PositionsAreFinite
<1> QED
    BY <1>2, <1>3, <1>4, FS_Subset DEF Rank

(* Each rank is that of one position, which is what Nth finds. *)
LEMMA NthIsTheRank ==
    ASSUME NEW n \in Nat, NEW S \in SUBSET (1 .. n)
    PROVE  /\ \A k \in 1 .. Cardinality(S) : Nth(S, k) \in S /\ Rank(S, Nth(S, k)) = k
           /\ \A i \in S : /\ Rank(S, i) \in 1 .. Cardinality(S)
                           /\ Nth(S, Rank(S, i)) = i
<1> DEFINE c == Cardinality(S)
           rank == [i \in S |-> Rank(S, i)]
<1>1. c \in Nat /\ IsFiniteSet(S)
    BY PositionsAreFinite, 0 \in Int
<1>2. \A i \in S : Rank(S, i) \in 1 .. c
  <2> TAKE i \in S
  <2>1. i \in Int /\ IsFiniteSet(UpTo(S, i)) /\ Rank(S, i) \in Nat /\ Rank(S, i) <= c
    BY i \in Int, PositionsAreFinite
  <2>2. i \in UpTo(S, i)
    BY <2>1 DEF UpTo
  <2>3. Rank(S, i) # 0
    BY <2>1, <2>2, FS_EmptySet DEF Rank
  <2> QED
    BY <2>1, <2>3, <1>1
<1>3. \A i, j \in S : Rank(S, i) = Rank(S, j) => i = j
  <2> TAKE i, j \in S
  <2>1. i \in Nat /\ j \in Nat
    BY S \subseteq Nat
  <2>0. Rank(S, i) \in Nat /\ Rank(S, j) \in Nat
    BY <1>1, <1>2
  <2>2. CASE i < j
    <3>1. Rank(S, i) < Rank(S, j)
      BY <2>2, RankGrows
    <3> QED
      BY <2>0, <3>1
  <2>3. CASE j < i
    <3>1. Rank(S, j) < Rank(S, i)
      BY <2>3, RankGrows
    <3> QED
      BY <2>0, <3>1
  <2> QED
    BY <2>1, <2>2, <2>3
<1>4. rank \in Injection(S, 1 .. c)
    BY <1>2, <1>3 DEF Injection, IsInjective
<1>5. rank \in Surjection(S, 1 .. c)
  <2>1. IsFiniteSet(1 .. c) /\ Cardinality(1 .. c) = c
    BY <1>1, FS_Interval
  <2> QED
    BY <1>4, <2>1, FS_Injection
<1>6. ASSUME NEW k \in 1 .. c PROVE Nth(S, k) \in S /\ Rank(S, Nth(S, k)) = k
  <2>1. \E i \in S : Rank(S, i) = k
    BY <1>5 DEF Surjection
  <2> QED
    BY <2>1 DEF Nth, Rank, UpTo
<1> QED
    BY <1>2, <1>3, <1>6

Shift(S, n) == {n + j : j \in S}

(* Positions that are moved are as many. *)
LEMMA ShiftCounts ==
    ASSUME NEW n \in Nat, NEW m \in Nat, NEW S \in SUBSET (1 .. m)
    PROVE  IsFiniteSet(Shift(S, n)) /\ Cardinality(Shift(S, n)) = Cardinality(S)
<1> DEFINE f == [j \in S |-> n + j]
<1>1. IsFiniteSet(S)
    BY PositionsAreFinite, 0 \in Int
<1>2. f \in [S -> Shift(S, n)]
    BY DEF Shift
<1>3. f \in Injection(S, Shift(S, n))
    BY <1>2 DEF Injection, IsInjective
<1>4. f \in Surjection(S, Shift(S, n))
    BY <1>2 DEF Surjection, Shift
<1>5. f \in Bijection(S, Shift(S, n))
    BY <1>3, <1>4 DEF Bijection
<1> QED
    BY <1>1, <1>5, FS_Bijection DEF ExistsBijection

\* B is S, and behind it T
Follow(B, S, T, n) ==
    /\ Cardinality(B) = Cardinality(S) + Cardinality(T)
    /\ \A k \in 1 .. Cardinality(S) : Nth(B, k) = Nth(S, k)
    /\ \A k \in 1 .. Cardinality(T) : Nth(B, Cardinality(S) + k) = n + Nth(T, k)

(* The positions of two sequences, one behind the other: the first keep    *)
(* their ranks, the others follow.                                         *)
LEMMA NthOfBoth ==
    ASSUME NEW n \in Nat, NEW m \in Nat,
           NEW S \in SUBSET (1 .. n), NEW T \in SUBSET (1 .. m),
           NEW B, B = S \cup Shift(T, n)
    PROVE  Follow(B, S, T, n)
<1> DEFINE s == Cardinality(S)
<1>1. /\ IsFiniteSet(S) /\ IsFiniteSet(T) /\ s \in Nat /\ Cardinality(T) \in Nat
    BY PositionsAreFinite, 0 \in Int
<1>2. IsFiniteSet(Shift(T, n)) /\ Cardinality(Shift(T, n)) = Cardinality(T)
    BY ShiftCounts
<1>3. S \cap Shift(T, n) = {}
    BY DEF Shift
<1>4. Cardinality(B) = s + Cardinality(T)
    BY <1>1, <1>2, <1>3, FS_Union, FS_EmptySet
<1>5. B \in SUBSET (1 .. (n + m)) /\ n + m \in Nat
  <2>1. ASSUME NEW b \in Shift(T, n) PROVE b \in 1 .. (n + m)
    <3>1. PICK j \in T : b = n + j
      BY DEF Shift
    <3>2. j \in 1 .. m
      OBVIOUS
    <3> QED
      BY <3>1, <3>2
  <2>2. S \in SUBSET (1 .. (n + m))
    OBVIOUS
  <2>3. n + m \in Nat
    OBVIOUS
  <2> QED
    BY <2>1, <2>2, <2>3
<1>6. ASSUME NEW k \in 1 .. s PROVE Nth(B, k) = Nth(S, k)
  <2>1. Nth(S, k) \in S /\ Rank(S, Nth(S, k)) = k
    BY NthIsTheRank
  <2>4. Nth(S, k) \in 1 .. n
    BY <2>1
  <2>5. \A b \in Shift(T, n) : ~(b <= Nth(S, k))
    BY <2>4 DEF Shift
  <2>2. UpTo(B, Nth(S, k)) = UpTo(S, Nth(S, k))
    BY <2>5 DEF UpTo
  <2>3. Rank(B, Nth(S, k)) = k /\ Nth(S, k) \in B
    BY <2>1, <2>2 DEF Rank
  <2>6. Nth(B, Rank(B, Nth(S, k))) = Nth(S, k)
    BY <2>3, <1>5, NthIsTheRank
  <2> QED
    BY <2>3, <2>6
<1>7. ASSUME NEW k \in 1 .. Cardinality(T) PROVE Nth(B, s + k) = n + Nth(T, k)
  <2> DEFINE i == Nth(T, k)
  <2>1. i \in T /\ i \in 1 .. m /\ Rank(T, i) = k
    BY NthIsTheRank
  <2> HIDE DEF i
  <2>2. UpTo(B, n + i) = S \cup Shift(UpTo(T, i), n)
    <3>1. \A j \in S : j <= n + i
      BY <2>1
    <3>2. \A j \in T : n + j <= n + i <=> j <= i
      BY <2>1
    <3>3. UpTo(Shift(T, n), n + i) = Shift(UpTo(T, i), n)
      BY <3>2 DEF UpTo, Shift
    <3> QED
      BY <3>1, <3>3 DEF UpTo
  <2>3. /\ UpTo(T, i) \in SUBSET (1 .. m)
        /\ Shift(UpTo(T, i), n) \in SUBSET Shift(T, n)
    BY DEF UpTo, Shift
  <2>7. S \cap Shift(UpTo(T, i), n) = {}
    BY <2>3, <1>3
  <2>4. /\ IsFiniteSet(Shift(UpTo(T, i), n))
        /\ Cardinality(Shift(UpTo(T, i), n)) = k
    BY <2>1, <2>3, ShiftCounts DEF Rank
  <2>5. Rank(B, n + i) = s + k
    <3> DEFINE U == Shift(UpTo(T, i), n)
    <3> HIDE DEF U
    <3>2. IsFiniteSet(U) /\ Cardinality(U) = k /\ S \cap U = {}
      BY <2>4, <2>7 DEF U
    <3>3. Cardinality(S \cup U) = Cardinality(S) + k - 0
      BY <1>1, <3>2, FS_Union, FS_EmptySet
    <3>1. Cardinality(S \cup Shift(UpTo(T, i), n)) = s + k
      BY <1>1, <3>3 DEF U
    <3> QED
      BY <2>2, <3>1 DEF Rank
  <2>6. n + i \in B
    BY <2>1 DEF Shift
  <2> QED
    <3>1. Nth(B, Rank(B, n + i)) = n + i
      BY <2>6, <1>5, NthIsTheRank
    <3> QED
      BY <2>5, <3>1 DEF i
<1> QED
    BY <1>4, <1>6, <1>7 DEF Follow

-----------------------------------------------------------------------------
(* A set of positions that is not empty has a first and a last one. *)
LEMMA FirstAndLast ==
    ASSUME NEW n \in Nat, NEW S \in SUBSET (1 .. n), S # {}
    PROVE  /\ \E i \in S : \A j \in S : i <= j
           /\ \E i \in S : \A j \in S : j <= i
<1> DEFINE c == Cardinality(S)
<1>1. c \in Nat \ {0}
    BY PositionsAreFinite, FS_EmptySet, 0 \in Int
<1>2. \A i \in S : i \in Int /\ Rank(S, i) \in 1 .. c
    BY NthIsTheRank, S \subseteq Int
<1>8. \A k \in 1 .. c : \E i \in S : Rank(S, i) = k
    BY NthIsTheRank
<1> HIDE DEF c
<1>3. \A i, j \in S : i < j => Rank(S, i) < Rank(S, j)
    BY RankGrows
<1>4. PICK i \in S : Rank(S, i) = 1
    BY <1>1, <1>8
<1>5. PICK k \in S : Rank(S, k) = c
    BY <1>1, <1>8
<1>6. \A j \in S : i <= j
    BY <1>1, <1>2, <1>3, <1>4
<1>7. \A j \in S : j <= k
    BY <1>1, <1>2, <1>3, <1>5
<1> QED
    BY <1>6, <1>7

\* What ends at a line end
EndsLine(p) == p = <<>> \/ p[Len(p)].last

(* Framing begins anew behind every line end. *)
LEMMA EndsOfBoth ==
    ASSUME NEW p \in Seq(Bytes), NEW q \in Seq(Bytes), EndsLine(p)
    PROVE  Ends(p \o q) = Ends(p) \cup Shift(Ends(q), Len(p))
<1> DEFINE b == p \o q
           n == Len(p)
           m == Len(q)
<1>1. /\ n \in Nat /\ m \in Nat /\ b \in Seq(Bytes) /\ Len(b) = n + m
      /\ DOMAIN b = 1 .. (n + m) /\ DOMAIN p = 1 .. n /\ DOMAIN q = 1 .. m
      /\ \A i \in 1 .. n : b[i] = p[i]
      /\ \A i \in 1 .. m : b[n + i] = q[i]
    BY ConcatProperties, LenProperties
<1>2. n > 0 => p[n].last
    BY EmptySeq DEF EndsLine
<1> HIDE DEF b, n, m
<1>3. ASSUME NEW i \in 1 .. n PROVE Whole(b, i) <=> Whole(p, i)
    BY <1>1, <1>3 DEF Whole
<1>4. ASSUME NEW i \in 1 .. m PROVE Whole(b, n + i) <=> Whole(q, i)
  <2>1. CASE i = 1
    BY <1>1, <1>2, <2>1 DEF Whole
  <2>2. CASE i = 2
    BY <1>1, <1>2, <2>2 DEF Whole
  <2>3. CASE i > 2
    <3>1. /\ b[n + i] = q[i] /\ b[(n + i) - 1] = q[i - 1] /\ b[(n + i) - 2] = q[i - 2]
      <4>1. i - 1 \in 1 .. m /\ i - 2 \in 1 .. m
        BY <1>1, <2>3
      <4>2. n + (i - 1) = (n + i) - 1 /\ n + (i - 2) = (n + i) - 2
        BY <1>1
      <4> QED
        BY <1>1, <4>1, <4>2
    <3>2. n + i # 1 /\ n + i # 2 /\ n + i > 1 /\ i # 1 /\ i # 2 /\ i > 1
      BY <1>1, <2>3
    <3> QED
      BY <3>1, <3>2 DEF Whole
  <2> QED
    BY <2>1, <2>2, <2>3
<1>5. Ends(b) = Ends(p) \cup Shift(Ends(q), n)
  <2>1. \A i \in 1 .. (n + m) : i \notin 1 .. n => i - n \in 1 .. m /\ i = n + (i - n)
    BY <1>1
  <2>2. \A i \in 1 .. n : i \in Ends(b) <=> i \in Ends(p)
    BY <1>1, <1>3 DEF Ends
  <2>3. \A i \in 1 .. m : n + i \in Ends(b) <=> i \in Ends(q)
    BY <1>1, <1>4 DEF Ends
  <2>4. Ends(b) \subseteq 1 .. (n + m) /\ Ends(p) \subseteq 1 .. n /\ Ends(q) \subseteq 1 .. m
    BY <1>1 DEF Ends
  <2> QED
    BY <2>1, <2>2, <2>3, <2>4 DEF Shift
<1> QED
    BY <1>5 DEF b, n

(* What is framed are lines. *)
LEMMA RecordsAreLines ==
    ASSUME NEW b \in Seq(Bytes)
    PROVE  /\ Ends(b) \in SUBSET (1 .. Len(b)) /\ Cardinality(Ends(b)) \in Nat
           /\ Records(b) \in Seq(Lines) /\ Len(Records(b)) = Cardinality(Ends(b))
           /\ \A k \in 1 .. Cardinality(Ends(b)) : Records(b)[k] = b[Nth(Ends(b), k)].line
<1>1. Len(b) \in Nat /\ DOMAIN b = 1 .. Len(b) /\ Ends(b) \in SUBSET (1 .. Len(b))
    BY LenProperties DEF Ends
<1> DEFINE c == Cardinality(Ends(b))
<1>2. c \in Nat
    BY <1>1, PositionsAreFinite, 0 \in Int
<1>3. \A k \in 1 .. c : Nth(Ends(b), k) \in 1 .. Len(b)
    BY <1>1, NthIsTheRank
<1> HIDE DEF c
<1>4. \A k \in 1 .. c : b[Nth(Ends(b), k)].line \in Lines
  <2>1. \A i \in 1 .. Len(b) : b[i] \in Bytes
    BY ElementOfSeq
  <2>2. \A x \in Bytes : x.line \in Lines
    BY DEF Bytes
  <2> QED
    BY <1>3, <2>1, <2>2
<1>5. Records(b) = [k \in 1 .. c |-> b[Nth(Ends(b), k)].line]
    BY DEF Records, c
<1>6. Records(b) \in [1 .. c -> Lines]
    BY <1>4, <1>5
<1>7. Records(b) \in Seq(Lines) /\ Len(Records(b)) = c
    BY <1>2, <1>6
<1> QED
    BY <1>1, <1>2, <1>5, <1>7 DEF c

(* The records of two texts, the first of whole lines, are those of the    *)
(* first and then those of the second.                                     *)
LEMMA RecordsOfBoth ==
    ASSUME NEW p \in Seq(Bytes), NEW q \in Seq(Bytes), EndsLine(p)
    PROVE  Records(p \o q) = Records(p) \o Records(q)
<1> DEFINE b == p \o q
           c == Cardinality(Ends(p))
           d == Cardinality(Ends(q))
           n == Len(p)
           m == Len(q)
<1>1. /\ n \in Nat /\ m \in Nat /\ b \in Seq(Bytes) /\ Len(b) = n + m
      /\ \A i \in 1 .. n : b[i] = p[i]
      /\ \A i \in 1 .. m : b[n + i] = q[i]
    BY ConcatProperties, LenProperties
<1>2. Ends(p) \in SUBSET (1 .. n) /\ Ends(q) \in SUBSET (1 .. m) /\ c \in Nat /\ d \in Nat
    BY RecordsAreLines
<1>3. Ends(b) = Ends(p) \cup Shift(Ends(q), n)
    BY EndsOfBoth
<1>4. /\ Cardinality(Ends(b)) = c + d
      /\ \A k \in 1 .. c : Nth(Ends(b), k) = Nth(Ends(p), k)
      /\ \A k \in 1 .. d : Nth(Ends(b), c + k) = n + Nth(Ends(q), k)
  <2>1. Follow(Ends(b), Ends(p), Ends(q), n)
    <3> HIDE DEF b, n, m
    <3> QED
      BY <1>1, <1>2, <1>3, NthOfBoth
  <2> QED
    BY <2>1 DEF Follow
<1>5. /\ \A k \in 1 .. c : Nth(Ends(p), k) \in 1 .. n
      /\ \A k \in 1 .. d : Nth(Ends(q), k) \in 1 .. m
    BY <1>1, <1>2, NthIsTheRank
<1>6. /\ Records(p) \in Seq(Lines) /\ Len(Records(p)) = c
      /\ Records(q) \in Seq(Lines) /\ Len(Records(q)) = d
      /\ Records(b) \in Seq(Lines) /\ Len(Records(b)) = c + d
      /\ \A k \in 1 .. c : Records(p)[k] = p[Nth(Ends(p), k)].line
      /\ \A k \in 1 .. d : Records(q)[k] = q[Nth(Ends(q), k)].line
      /\ \A k \in 1 .. (c + d) : Records(b)[k] = b[Nth(Ends(b), k)].line
    BY <1>1, <1>4, RecordsAreLines
<1> HIDE DEF b, c, d, n, m
<1>7. /\ Records(p) \o Records(q) \in Seq(Lines)
      /\ Len(Records(p) \o Records(q)) = c + d
      /\ \A k \in 1 .. (c + d) : (Records(p) \o Records(q))[k] =
             IF k <= c THEN Records(p)[k] ELSE Records(q)[k - c]
    BY <1>6, ConcatProperties
<1>8. ASSUME NEW k \in 1 .. (c + d)
      PROVE  Records(b)[k] = (Records(p) \o Records(q))[k]
  <2>1. CASE k <= c
    <3>1. k \in 1 .. c
      BY <1>2, <2>1
    <3>2. Nth(Ends(b), k) = Nth(Ends(p), k) /\ Nth(Ends(p), k) \in 1 .. n
      BY <3>1, <1>4, <1>5
    <3>3. b[Nth(Ends(b), k)] = p[Nth(Ends(p), k)]
      BY <3>2, <1>1
    <3> QED
      BY <3>1, <3>3, <1>6, <1>7, <2>1
  <2>2. CASE ~(k <= c)
    <3>1. k - c \in 1 .. d /\ c + (k - c) = k
      BY <1>2, <2>2
    <3>2. Nth(Ends(b), k) = n + Nth(Ends(q), k - c) /\ Nth(Ends(q), k - c) \in 1 .. m
      BY <3>1, <1>4, <1>5
    <3>3. b[Nth(Ends(b), k)] = q[Nth(Ends(q), k - c)]
      BY <3>2, <1>1
    <3> QED
      BY <3>1, <3>3, <1>6, <1>7, <2>2
  <2> QED
    BY <2>1, <2>2
<1>9. Records(b) = Records(p) \o Records(q)
    BY <1>6, <1>7, <1>8, SeqEqual
<1> QED
    BY <1>9 DEF b

(* The last line end of a text; zero if it has none. *)
LEMMA RestBegins ==
    ASSUME NEW b \in Seq(Bytes)
    PROVE  \E e \in 0 .. Len(b) :
              /\ e > 0 => b[e].last
              /\ \A j \in (e + 1) .. Len(b) : ~b[j].last
<1>1. Len(b) \in Nat /\ DOMAIN b = 1 .. Len(b) /\ LineEnds(b) \in SUBSET (1 .. Len(b))
    BY LenProperties DEF LineEnds
<1>2. CASE LineEnds(b) = {}
  <2>1. \A j \in 1 .. Len(b) : ~b[j].last
    BY <1>1, <1>2 DEF LineEnds
  <2> QED
    BY <1>1, <2>1
<1>3. CASE LineEnds(b) # {}
  <2>1. PICK e \in LineEnds(b) : \A j \in LineEnds(b) : j <= e
    BY <1>1, <1>3, FirstAndLast
  <2>2. e \in 1 .. Len(b) /\ b[e].last
    BY <1>1 DEF LineEnds
  <2>3. \A j \in (e + 1) .. Len(b) : ~b[j].last
    <3> TAKE j \in (e + 1) .. Len(b)
    <3>1. j \in 1 .. Len(b) /\ ~(j <= e)
      BY <1>1, <2>2
    <3> QED
      BY <3>1, <2>1, <1>1 DEF LineEnds
  <2> QED
    BY <1>1, <2>2, <2>3
<1> QED
    BY <1>2, <1>3

(* What stands behind the last line end is the rest. *)
LEMMA RestIs ==
    ASSUME NEW b \in Seq(Bytes), NEW e \in 0 .. Len(b),
           e > 0 => b[e].last,
           \A j \in (e + 1) .. Len(b) : ~b[j].last
    PROVE  Rest(b) = SubSeq(b, e + 1, Len(b))
<1> DEFINE S == LineEnds(b) \cup {0}
<1>1. Len(b) \in Nat /\ DOMAIN b = 1 .. Len(b)
    BY LenProperties
<1>2. e \in S /\ S \subseteq Nat
    BY <1>1 DEF LineEnds
<1>3. \A j \in S : j <= e
  <2> TAKE j \in S
  <2>1. CASE j = 0
    BY <2>1
  <2>2. CASE j \in LineEnds(b)
    <3>1. j \in 1 .. Len(b) /\ b[j].last
      BY <1>1, <2>2 DEF LineEnds
    <3> QED
      BY <3>1, <1>1
  <2> QED
    BY <2>1, <2>2
<1> HIDE DEF S
<1>4. Max(S) \in S /\ \A j \in S : Max(S) >= j
    BY <1>2, <1>3 DEF Max
<1>5. Max(S) = e
  <2>1. Max(S) <= e /\ Max(S) >= e /\ Max(S) \in Nat
    BY <1>2, <1>3, <1>4
  <2>2. e \in Nat
    BY <1>2
  <2> QED
    BY <2>1, <2>2
<1> QED
    BY <1>5 DEF Rest, S

(* Text behind a line end is unfinished by itself.                         *)
LEMMA RestOfBoth ==
    ASSUME NEW p \in Seq(Bytes), NEW q \in Seq(Bytes), EndsLine(p)
    PROVE  Rest(p \o q) = Rest(q)
<1> DEFINE b == p \o q
           n == Len(p)
           m == Len(q)
<1>1. /\ n \in Nat /\ m \in Nat /\ b \in Seq(Bytes) /\ Len(b) = n + m
      /\ \A i \in 1 .. n : b[i] = p[i]
      /\ \A i \in 1 .. m : b[n + i] = q[i]
    BY ConcatProperties, LenProperties
<1>2. n > 0 => p[n].last
    BY EmptySeq DEF EndsLine
<1>3. PICK e \in 0 .. m : /\ e > 0 => q[e].last
                          /\ \A j \in (e + 1) .. m : ~q[j].last
    BY RestBegins
<1>4. Rest(q) = SubSeq(q, e + 1, m)
    BY <1>3, RestIs
<1> HIDE DEF b, n, m
<1>5. /\ n + e \in 0 .. Len(b)
      /\ n + e > 0 => b[n + e].last
  <2>1. CASE e > 0
    BY <1>1, <1>3, <2>1
  <2>2. CASE e = 0
    BY <1>1, <1>2, <2>2
  <2> QED
    BY <2>1, <2>2, <1>1
<1>6. \A j \in (n + e + 1) .. Len(b) : ~b[j].last
  <2> TAKE j \in (n + e + 1) .. Len(b)
  <2>1. j - n \in (e + 1) .. m /\ j - n \in 1 .. m /\ n + (j - n) = j
    BY <1>1
  <2> QED
    BY <2>1, <1>1, <1>3
<1>7. Rest(b) = SubSeq(b, n + e + 1, Len(b))
    BY <1>1, <1>5, <1>6, RestIs
<1>8. SubSeq(b, n + e + 1, n + m) = SubSeq(q, e + 1, m)
  <2> DEFINE s == SubSeq(b, n + e + 1, n + m)
             t == SubSeq(q, e + 1, m)
  <2>1. /\ \A i \in (n + e + 1) .. (n + m) : b[i] \in Bytes
        /\ \A i \in (e + 1) .. m : q[i] \in Bytes
    BY <1>1, ElementOfSeq DEF m
  <2>2. /\ s \in Seq(Bytes) /\ Len(s) = m - e
        /\ \A i \in 1 .. (m - e) : s[i] = b[n + e + i]
    BY <2>1, <1>1, SubSeqProperties
  <2>3. /\ t \in Seq(Bytes) /\ Len(t) = m - e
        /\ \A i \in 1 .. (m - e) : t[i] = q[e + i]
    BY <2>1, <1>1, SubSeqProperties
  <2>4. \A i \in 1 .. (m - e) : e + i \in 1 .. m /\ n + (e + i) = n + e + i
    BY <1>1
  <2> HIDE DEF s, t
  <2>5. ASSUME NEW i \in 1 .. (m - e) PROVE s[i] = t[i]
    <3>1. b[n + (e + i)] = q[e + i]
      BY <2>4, <1>1
    <3> QED
      BY <2>2, <2>3, <2>4, <3>1
  <2>6. s = t
    BY <2>2, <2>3, <2>5, SeqEqual
  <2> QED
    BY <2>6 DEF s, t
<1> QED
    BY <1>1, <1>4, <1>7, <1>8 DEF b

(* A text is whole lines and its rest, which holds no record.              *)
LEMMA WholeAndRest ==
    ASSUME NEW b \in Seq(Bytes)
    PROVE  /\ Rest(b) \in Seq(Bytes) /\ Records(Rest(b)) = <<>>
           /\ \E p \in Seq(Bytes) : EndsLine(p) /\ b = p \o Rest(b)
<1>1. Len(b) \in Nat
    BY LenProperties
<1>2. PICK e \in 0 .. Len(b) : /\ e > 0 => b[e].last
                               /\ \A j \in (e + 1) .. Len(b) : ~b[j].last
    BY RestBegins
<1>3. Rest(b) = SubSeq(b, e + 1, Len(b))
    BY <1>2, RestIs
<1> DEFINE p == SubSeq(b, 1, e)
           r == SubSeq(b, e + 1, Len(b))
<1>4. \A i \in 1 .. Len(b) : b[i] \in Bytes
    BY ElementOfSeq
<1>5. /\ p \in Seq(Bytes) /\ Len(p) = e /\ \A i \in 1 .. e : p[i] = b[i]
    BY <1>1, <1>4, SubSeqProperties
<1>6. /\ r \in Seq(Bytes) /\ Len(r) = Len(b) - e
      /\ \A i \in 1 .. (Len(b) - e) : r[i] = b[e + i]
    BY <1>1, <1>4, SubSeqProperties
<1>7. p \o r = b
  <2>1. SubSeq(b, 1, e) \o SubSeq(b, e + 1, Len(b)) = SubSeq(b, 1, Len(b))
    <3>1. 1 \in 1 .. Len(b) + 1 /\ e \in 1 - 1 .. Len(b) /\ Len(b) \in e .. Len(b)
      BY <1>1
    <3> QED
      BY <3>1, ConcatAdjacentSubSeq
  <2> QED
    BY <2>1, SubSeqFull
<1> HIDE DEF p, r
<1>8. EndsLine(p)
    BY <1>1, <1>2, <1>5, EmptySeq DEF EndsLine
<1>9. Records(r) = <<>>
  <2>1. \A j \in 1 .. Len(r) : e + j \in (e + 1) .. Len(b)
    BY <1>1, <1>6
  <2>2. Ends(r) = {}
    BY <2>1, <1>2, <1>6, LenProperties DEF Ends, Whole
  <2> QED
    BY <2>2, <1>6, RecordsAreLines, FS_EmptySet, EmptySeq
<1> QED
    BY <1>3, <1>5, <1>6, <1>7, <1>8, <1>9 DEF r

(* Reading on: a text and more of it.                                      *)
LEMMA ReadingOn ==
    ASSUME NEW b \in Seq(Bytes), NEW more \in Seq(Bytes)
    PROVE  /\ Records(b \o more) = Records(b) \o Records(Rest(b) \o more)
           /\ Rest(b \o more) = Rest(Rest(b) \o more)
<1>1. PICK p \in Seq(Bytes) : EndsLine(p) /\ b = p \o Rest(b)
    BY WholeAndRest
<1>2. Rest(b) \in Seq(Bytes) /\ Records(Rest(b)) = <<>>
    BY WholeAndRest
<1>3. PICK r : r = Rest(b)
    OBVIOUS
<1>4. r \in Seq(Bytes) /\ Records(r) = <<>> /\ b = p \o r
    BY <1>1, <1>2, <1>3
<1>5. r \o more \in Seq(Bytes) /\ b \o more = p \o (r \o more)
  <2>1. (p \o r) \o more = p \o (r \o more)
    BY <1>4, ConcatAssociative
  <2> QED
    BY <2>1, <1>4, ConcatProperties
<1>6. Records(b) = Records(p)
  <2>1. Records(b) = Records(p) \o Records(r)
    BY <1>1, <1>4, RecordsOfBoth
  <2>2. Records(p) \in Seq(Lines)
    BY RecordsAreLines
  <2> QED
    BY <2>1, <2>2, <1>4, ConcatEmptySeq
<1> QED
    BY <1>1, <1>3, <1>5, <1>6, RecordsOfBoth, RestOfBoth

-----------------------------------------------------------------------------
(* What a tail holds: a stretch of a file                                  *)

\* The bytes of a file from one offset to another
Piece(F, s, e) == SubSeq(F, s + 1, e)

(* The bytes a piece is made of.                                           *)
LEMMA PieceIs ==
    ASSUME NEW F \in Seq(Bytes), NEW s \in Nat, NEW e \in Nat, s <= e, e <= Len(F)
    PROVE  /\ Piece(F, s, e) \in Seq(Bytes) /\ Len(Piece(F, s, e)) = e - s
           /\ \A i \in 1 .. (e - s) : Piece(F, s, e)[i] = F[s + i]
<1>1. Len(F) \in Nat
    BY LenProperties
<1>2. \A i \in (s + 1) .. e : F[i] \in Bytes
  <2> TAKE i \in (s + 1) .. e
  <2>1. i \in 1 .. Len(F)
    BY <1>1
  <2> QED
    BY <2>1, ElementOfSeq
<1>3. e - (s + 1) + 1 = e - s /\ (s + 1 <= e \/ e - s = 0)
    OBVIOUS
<1>4. \A i \in 1 .. (e - s) : (s + 1) + i - 1 = s + i
    OBVIOUS
<1>5. /\ Piece(F, s, e) \in Seq(Bytes)
      /\ Len(Piece(F, s, e)) = IF s + 1 <= e THEN e - (s + 1) + 1 ELSE 0
      /\ \A i \in 1 .. (e - (s + 1) + 1) : Piece(F, s, e)[i] = F[(s + 1) + i - 1]
    BY <1>2, SubSeqProperties DEF Piece
<1> QED
    BY <1>3, <1>4, <1>5

(* Two pieces that meet are one.                                           *)
LEMMA PiecesJoin ==
    ASSUME NEW F \in Seq(Bytes), NEW s \in Nat, NEW m \in Nat, NEW e \in Nat,
           s <= m, m <= e, e <= Len(F)
    PROVE  Piece(F, s, m) \o Piece(F, m, e) = Piece(F, s, e)
<1>1. Len(F) \in Nat
    BY LenProperties
<1>2. s + 1 \in 1 .. Len(F) + 1 /\ m \in (s + 1) - 1 .. Len(F) /\ e \in m .. Len(F)
    BY <1>1
<1> QED
    BY <1>2, ConcatAdjacentSubSeq DEF Piece

(* What is left of a piece when its first bytes are cut off.               *)
LEMMA PieceFrom ==
    ASSUME NEW F \in Seq(Bytes), NEW s \in Nat, NEW e \in Nat, NEW c \in Nat,
           s + c <= e, e <= Len(F)
    PROVE  From(Piece(F, s, e), c + 1) = Piece(F, s + c, e)
<1> DEFINE b == Piece(F, s, e)
           t == Piece(F, s + c, e)
<1>0. /\ s <= e /\ s + c \in Nat /\ e - s \in Nat /\ c <= e - s
      /\ (e - s) - c = e - (s + c)
    OBVIOUS
<1>1. /\ b \in Seq(Bytes) /\ Len(b) = e - s
      /\ \A i \in 1 .. (e - s) : b[i] = F[s + i]
    BY <1>0, PieceIs
<1>2. /\ t \in Seq(Bytes) /\ Len(t) = e - (s + c)
      /\ \A i \in 1 .. (e - (s + c)) : t[i] = F[(s + c) + i]
    BY <1>0, PieceIs
<1> HIDE DEF b, t
<1>3. /\ Piece(b, c, e - s) \in Seq(Bytes) /\ Len(Piece(b, c, e - s)) = (e - s) - c
      /\ \A i \in 1 .. ((e - s) - c) : Piece(b, c, e - s)[i] = b[c + i]
  <2>1. PICK k \in Nat : k = e - s
    BY <1>0
  <2>2. /\ Piece(b, c, k) \in Seq(Bytes) /\ Len(Piece(b, c, k)) = k - c
        /\ \A i \in 1 .. (k - c) : Piece(b, c, k)[i] = b[c + i]
    <3>1. c <= k /\ k <= Len(b)
      BY <1>0, <1>1, <2>1
    <3> QED
      BY <1>1, <3>1, PieceIs
  <2> QED
    BY <2>1, <2>2
<1>4. ASSUME NEW i \in 1 .. (e - (s + c)) PROVE Piece(b, c, e - s)[i] = t[i]
  <2>1. c + i \in 1 .. (e - s) /\ s + (c + i) = (s + c) + i /\ i \in 1 .. ((e - s) - c)
    OBVIOUS
  <2> QED
    BY <2>1, <1>1, <1>2, <1>3
<1>5. Piece(b, c, e - s) = t
    BY <1>2, <1>3, <1>4, SeqEqual
<1> QED
    BY <1>1, <1>5 DEF From, Piece, b, t

\* What a tail holds is a stretch of the file F
Stretch(m, F) ==
    /\ m.start <= m.offset /\ m.offset <= Len(F)
    /\ m.start = 0 \/ F[m.start].last
    /\ m.records = Records(Piece(F, m.start, m.offset))
    /\ m.partial = Rest(Piece(F, m.start, m.offset))

Models == [records : Seq(Lines), start : Nat, offset : Nat, partial : Seq(Bytes), of : Nat]

(* No bytes hold no record, and no unfinished line.                        *)
LEMMA EmptyText ==
    /\ <<>> \in Seq(Bytes) /\ Records(<<>>) = <<>> /\ Rest(<<>>) = <<>>
<1>1. <<>> \in Seq(Bytes) /\ Len(<<>>) = 0
    BY EmptySeq
<1>2. Ends(<<>>) = {}
    BY <1>1, LenProperties DEF Ends
<1>3. Records(<<>>) = <<>>
    BY <1>1, <1>2, RecordsAreLines, FS_EmptySet, EmptySeq
<1>4. Rest(<<>>) = SubSeq(<<>>, 0 + 1, 0)
  <2>2. PICK b \in Seq(Bytes) : b = <<>>
    BY <1>1
  <2>3. 0 \in 0 .. Len(b) /\ (0 > 0 => b[0].last) /\ \A j \in (0 + 1) .. Len(b) : ~b[j].last
    BY <1>1, <2>2
  <2>4. Rest(b) = SubSeq(b, 0 + 1, Len(b))
    BY <2>3, RestIs
  <2> QED
    BY <1>1, <2>2, <2>4
<1> QED
    BY <1>1, <1>3, <1>4, SubSeqEmpty

(* A model that has read nothing is a stretch of any file: the first read  *)
(* of a file made anew splices nothing.                                    *)
LEMMA NothingIsAStretch ==
    ASSUME NEW m, NEW F \in Seq(Bytes), NEW G \in Seq(Bytes), m.start \in Nat, m.offset = 0,
           Stretch(m, F)
    PROVE  Stretch(m, G) /\ m.records = <<>> /\ m.partial = <<>> /\ m.start = 0
<1>1. m.start = 0
    BY DEF Stretch
<1>2. Piece(F, 0, 0) = <<>> /\ Piece(G, 0, 0) = <<>> /\ Len(G) \in Nat
    BY SubSeqEmpty, LenProperties DEF Piece
<1> QED
    BY <1>1, <1>2, EmptyText DEF Stretch

(* A stretch of a file is one of what the file grows to.                   *)
LEMMA StretchGrows ==
    ASSUME NEW m \in Models, NEW F \in Seq(Bytes), NEW G \in Seq(Bytes),
           Len(F) <= Len(G), \A i \in 1 .. Len(F) : G[i] = F[i], Stretch(m, F)
    PROVE  Stretch(m, G)
<1>1. /\ m.start \in Nat /\ m.offset \in Nat /\ Len(F) \in Nat /\ Len(G) \in Nat
      /\ m.start <= m.offset /\ m.offset <= Len(F) /\ m.offset <= Len(G)
    BY LenProperties DEF Models, Stretch
<1>2. /\ Piece(F, m.start, m.offset) \in Seq(Bytes)
      /\ Len(Piece(F, m.start, m.offset)) = m.offset - m.start
      /\ \A i \in 1 .. (m.offset - m.start) : Piece(F, m.start, m.offset)[i] = F[m.start + i]
    BY <1>1, PieceIs
<1>3. /\ Piece(G, m.start, m.offset) \in Seq(Bytes)
      /\ Len(Piece(G, m.start, m.offset)) = m.offset - m.start
      /\ \A i \in 1 .. (m.offset - m.start) : Piece(G, m.start, m.offset)[i] = G[m.start + i]
    BY <1>1, PieceIs
<1>4. \A i \in 1 .. (m.offset - m.start) : m.start + i \in 1 .. Len(F)
    BY <1>1
<1>5. Piece(F, m.start, m.offset) = Piece(G, m.start, m.offset)
    BY <1>1, <1>2, <1>3, <1>4, SeqEqual
<1>6. m.start = 0 \/ m.start \in 1 .. Len(F)
    BY <1>1
<1> QED
    BY <1>1, <1>5, <1>6 DEF Stretch

(* append: the bytes behind the stretch make it longer, the unfinished line*)
(* at its end completed by them.                                           *)
LEMMA AppendHolds ==
    ASSUME NEW m \in Models, NEW F \in Seq(Bytes), NEW e \in Nat, NEW of \in Nat,
           Stretch(m, F), m.offset <= e, e <= Len(F)
    PROVE  Stretch(AppendTo(m, Piece(F, m.offset, e), of), F)
<1> DEFINE more == Piece(F, m.offset, e)
           held == Piece(F, m.start, m.offset)
           n == AppendTo(m, more, of)
<1>1. /\ m.start \in Nat /\ m.offset \in Nat /\ m.start <= m.offset /\ m.offset <= Len(F)
      /\ Len(F) \in Nat
    BY LenProperties DEF Models, Stretch
<1>2. /\ more \in Seq(Bytes) /\ Len(more) = e - m.offset /\ held \in Seq(Bytes)
      /\ held \o more = Piece(F, m.start, e)
    BY <1>1, PieceIs, PiecesJoin
<1>3. /\ n.records = m.records \o Records(m.partial \o more)
      /\ n.partial = Rest(m.partial \o more)
      /\ n.start = m.start /\ n.offset = m.offset + Len(more) /\ n.of = of
    BY DEF AppendTo, Models
<1> HIDE DEF n, more, held
<1>4. m.records = Records(held) /\ m.partial = Rest(held)
    BY DEF Stretch, held
<1>5. /\ n.records = Records(held \o more)
      /\ n.partial = Rest(held \o more)
    BY <1>2, <1>3, <1>4, ReadingOn
<1>6. n.offset = e
    BY <1>1, <1>2, <1>3
<1>7. Stretch(n, F)
    BY <1>1, <1>2, <1>3, <1>5, <1>6 DEF Stretch
<1> QED
    BY <1>7 DEF n, more

(* The first line end of a text that has one.                              *)
LEMMA FirstLineEnd ==
    ASSUME NEW b \in Seq(Bytes), LineEnds(b) # {}
    PROVE  Min(LineEnds(b)) \in 1 .. Len(b) /\ b[Min(LineEnds(b))].last
<1>1. Len(b) \in Nat /\ DOMAIN b = 1 .. Len(b) /\ LineEnds(b) \in SUBSET (1 .. Len(b))
    BY LenProperties DEF LineEnds
<1>2. \E i \in LineEnds(b) : \A j \in LineEnds(b) : i <= j
    BY <1>1, FirstAndLast
<1>3. Min(LineEnds(b)) \in LineEnds(b)
    BY <1>2 DEF Min
<1> QED
    BY <1>1, <1>3 DEF LineEnds

(* What is kept of a window is a text.                                     *)
LEMMA KeptTyped ==
    ASSUME NEW b \in Seq(Bytes), NEW at \in Nat
    PROVE  /\ FirstEnd(b) \in Nat /\ Kept(b, at) \in Seq(Bytes)
           /\ Records(Kept(b, at)) \in Seq(Lines) /\ Rest(Kept(b, at)) \in Seq(Bytes)
<1>1. PICK n \in Nat : n = Len(b)
    BY LenProperties
<1>2. FirstEnd(b) \in Nat /\ FirstEnd(b) <= n
    BY <1>1, FirstLineEnd DEF FirstEnd
<1>3. Piece(b, FirstEnd(b), n) \in Seq(Bytes)
    BY <1>1, <1>2, PieceIs
<1>4. Kept(b, at) \in Seq(Bytes)
    BY <1>1, <1>3 DEF Kept, From, Piece
<1> QED
    BY <1>2, <1>4, RecordsAreLines, WholeAndRest

(* A window of n - o bytes that ends at n begins at o.                     *)
LEMMA WindowBegins ==
    ASSUME NEW n \in Nat, NEW o \in Nat, o <= n
    PROVE  n - Least(n - o, n) = o
BY DEF Least

(* openTail gives a model.                                                 *)
LEMMA OpenTailTyped ==
    ASSUME NEW b \in Seq(Bytes), NEW size \in Nat, NEW of \in Nat
    PROVE  OpenTail(b, size, of) \in Models
<1>1. PICK at \in Nat : at = size - Least(Len(b), size)
    BY LenProperties DEF Least
<1>2. /\ FirstEnd(b) \in Nat
      /\ Records(Kept(b, at)) \in Seq(Lines) /\ Rest(Kept(b, at)) \in Seq(Bytes)
    BY KeptTyped
<1>3. <<>> \in Seq(Lines) /\ Len(b) \in Nat
    BY EmptySeq, LenProperties
<1>4. at + FirstEnd(b) \in Nat /\ at + Len(b) \in Nat
    BY <1>2, <1>3
<1> QED
    BY <1>1, <1>2, <1>3, <1>4 DEF OpenTail, Blank, Models

(* append gives a model.                                                   *)
LEMMA AppendTyped ==
    ASSUME NEW m \in Models, NEW b \in Seq(Bytes), NEW of \in Nat
    PROVE  AppendTo(m, b, of) \in Models
<1> DEFINE j == m.partial \o b
<1>1. m.partial \in Seq(Bytes) /\ m.records \in Seq(Lines) /\ m.offset \in Nat /\ Len(b) \in Nat
    BY LenProperties DEF Models
<1>2. j \in Seq(Bytes)
    BY <1>1, ConcatProperties
<1>3. Records(j) \in Seq(Lines) /\ Rest(j) \in Seq(Bytes)
    BY <1>2, RecordsAreLines, WholeAndRest
<1>4. m.records \o Records(j) \in Seq(Lines)
    BY <1>1, <1>3, ConcatProperties
<1>5. m.offset + Len(b) \in Nat
    BY <1>1
<1> QED
    BY <1>3, <1>4, <1>5 DEF AppendTo, Models

(* prepend gives a model.                                                  *)
LEMMA PrependTyped ==
    ASSUME NEW m \in Models, NEW b \in Seq(Bytes)
    PROVE  Prepend(m, b) \in Models
<1>1. m.start \in Nat /\ m.records \in Seq(Lines)
    BY DEF Models
<1>2. PICK at \in Nat : at = m.start - Least(Len(b), m.start)
    BY <1>1, LenProperties DEF Least
<1>3. /\ FirstEnd(b) \in Nat
      /\ Records(Kept(b, at)) \in Seq(Lines)
    BY KeptTyped
<1>4. Records(Kept(b, at)) \o m.records \in Seq(Lines)
    BY <1>1, <1>3, ConcatProperties
<1>5. at + FirstEnd(b) \in Nat
    BY <1>3
<1>6. Prepend(m, b) = IF at > 0 /\ FirstEnd(b) = 0 THEN m
                      ELSE [m EXCEPT !.records = Records(Kept(b, at)) \o m.records,
                                     !.start = IF at > 0 THEN at + FirstEnd(b) ELSE 0]
    BY <1>2 DEF Prepend
<1>7. \A r \in Seq(Lines), n \in Nat : [m EXCEPT !.records = r, !.start = n] \in Models
    BY DEF Models
<1> QED
    BY <1>4, <1>5, <1>6, <1>7

(* prepend: the bytes that end where the stretch begins make it longer at  *)
(* its head, and it begins at a line boundary again.                       *)
LEMMA PrependHolds ==
    ASSUME NEW m \in Models, NEW F \in Seq(Bytes), NEW o \in Nat, o < m.start, Stretch(m, F)
    PROVE  Stretch(Prepend(m, Piece(F, o, m.start)), F)
<1> DEFINE b == Piece(F, o, m.start)
           held == Piece(F, m.start, m.offset)
           cut == FirstEnd(b)
<1>1. /\ m.start \in Nat /\ m.offset \in Nat /\ m.start <= m.offset /\ m.offset <= Len(F)
      /\ Len(F) \in Nat /\ F[m.start].last /\ m.start <= Len(F)
    BY LenProperties DEF Models, Stretch
<1>2. /\ b \in Seq(Bytes) /\ Len(b) = m.start - o /\ held \in Seq(Bytes)
      /\ \A i \in 1 .. (m.start - o) : b[i] = F[o + i]
  <2>1. o <= m.start
    BY <1>1
  <2>2. /\ b \in Seq(Bytes) /\ Len(b) = m.start - o
        /\ \A i \in 1 .. (m.start - o) : b[i] = F[o + i]
    BY <1>1, <2>1, PieceIs
  <2>3. held \in Seq(Bytes)
    BY <1>1, PieceIs
  <2> QED
    BY <2>2, <2>3
<1>3. m.records = Records(held) /\ m.partial = Rest(held)
    BY DEF Stretch
<1> HIDE DEF b, held
<1>4. m.start - Least(Len(b), m.start) = o
    BY <1>1, <1>2, WindowBegins
<1>5. LineEnds(b) # {}
  <2>1. m.start - o \in 1 .. (m.start - o) /\ o + (m.start - o) = m.start
    BY <1>1
  <2>2. b[m.start - o].last
    BY <1>1, <1>2, <2>1
  <2> QED
    BY <1>2, <2>1, <2>2, LenProperties DEF LineEnds
<1>6. cut \in 1 .. (m.start - o) /\ b[cut].last
    BY <1>2, <1>5, FirstLineEnd DEF FirstEnd
<1> HIDE DEF cut
<1> DEFINE s == IF o > 0 THEN o + cut ELSE 0
<1>7. s \in Nat /\ s <= m.start /\ (s = 0 \/ F[s].last)
    BY <1>1, <1>2, <1>6
<1>15. Prepend(m, b) = IF o > 0 /\ FirstEnd(b) = 0 THEN m
                       ELSE [m EXCEPT !.records = Records(Kept(b, o)) \o @,
                                      !.start = IF o > 0 THEN o + FirstEnd(b) ELSE 0]
    BY <1>4 DEF Prepend
<1>8. Prepend(m, b) = [m EXCEPT !.records = Records(Piece(F, s, m.start)) \o @, !.start = s]
  <2>1. CASE o > 0
    <3>1. From(b, cut + 1) = Piece(F, o + cut, m.start)
      BY <1>1, <1>6, PieceFrom DEF b
    <3> QED
      <4>1. FirstEnd(b) # 0
        BY <1>1, <1>6 DEF cut
      <4>2. Kept(b, o) = Piece(F, o + cut, m.start)
        BY <2>1, <3>1 DEF Kept, cut
      <4> QED
        BY <2>1, <4>1, <4>2, <1>15 DEF cut
  <2>2. CASE o = 0
    BY <2>2, <1>15 DEF Kept, b
  <2> QED
    BY <2>1, <2>2
<1> HIDE DEF s
<1> DEFINE kept == Piece(F, s, m.start)
<1>9. /\ kept \in Seq(Bytes) /\ Len(kept) = m.start - s
      /\ \A i \in 1 .. (m.start - s) : kept[i] = F[s + i]
    BY <1>1, <1>7, PieceIs
<1>10. EndsLine(kept)
  <2>1. CASE s = m.start
    BY <1>1, <1>9, <2>1, EmptySeq DEF EndsLine
  <2>2. CASE s < m.start
    <3>1. m.start - s \in 1 .. (m.start - s) /\ s + (m.start - s) = m.start
      BY <1>1, <1>7, <2>2
    <3> QED
      BY <3>1, <1>1, <1>9 DEF EndsLine
  <2> QED
    BY <1>1, <1>7, <2>1, <2>2
<1>11. kept \o held = Piece(F, s, m.offset)
    BY <1>1, <1>7, PiecesJoin DEF held
<1>12. /\ Records(Piece(F, s, m.offset)) = Records(kept) \o Records(held)
       /\ Rest(Piece(F, s, m.offset)) = Rest(held)
    BY <1>2, <1>9, <1>10, <1>11, RecordsOfBoth, RestOfBoth
<1> DEFINE n == Prepend(m, b)
<1>13. /\ n.records = Records(kept) \o m.records /\ n.start = s
       /\ n.offset = m.offset /\ n.partial = m.partial
    BY <1>8 DEF Models
<1> HIDE DEF n, kept
<1>14. Stretch(n, F)
    BY <1>1, <1>3, <1>7, <1>12, <1>13 DEF Stretch
<1> QED
    BY <1>14 DEF n, b

(* openTail: a window up to the end of the file is a stretch of it, once it*)
(* holds a record or is the whole file.                                    *)
LEMMA OpenTailHolds ==
    ASSUME NEW F \in Seq(Bytes), NEW o \in Nat, NEW size \in Nat, NEW of \in Nat,
           size <= Len(F), NEW b, b = Piece(F, o, size),
           OpenTail(b, size, of).records # <<>> \/ o = 0
    PROVE  Stretch(OpenTail(b, size, of), F) /\ OpenTail(b, size, of).of = of
<1>0. Len(F) \in Nat
    BY LenProperties
<1> DEFINE m == OpenTail(b, size, of)
           cut == FirstEnd(b)
<1>1. CASE o > size
  <2>1. b = <<>> /\ Len(b) = 0 /\ LineEnds(b) = {} /\ From(b, 1) = <<>>
    BY <1>1, SubSeqEmpty, EmptySeq, EmptyText, LenProperties DEF LineEnds, From, Piece
  <2>3. size - Least(0, size) = size
    BY DEF Least
  <2>4. Kept(b, size) = <<>> /\ FirstEnd(b) = 0
    BY <2>1 DEF Kept, FirstEnd
  <2>2. m.records = <<>>
    BY <2>1, <2>3, <2>4, EmptyText DEF OpenTail, Blank
  <2> QED
    BY <1>1, <2>2
<1>2. CASE o <= size
  <2>1. /\ b \in Seq(Bytes) /\ Len(b) = size - o /\ b = Piece(F, o, size)
        /\ \A i \in 1 .. (size - o) : b[i] = F[o + i]
    BY <1>0, <1>2, PieceIs DEF Piece
  <2>2. size - Least(Len(b), size) = o
    BY <1>2, <2>1, WindowBegins
  <2>5. m = IF o > 0 /\ FirstEnd(b) = 0
            THEN [Blank EXCEPT !.partial = b, !.start = size, !.offset = size, !.of = of]
            ELSE [records |-> Records(Kept(b, o)), partial |-> Rest(Kept(b, o)), of |-> of,
                  start |-> IF o > 0 THEN o + FirstEnd(b) ELSE 0, offset |-> o + Len(b)]
    BY <2>2 DEF OpenTail
  <2> HIDE DEF m
  <2>3. CASE o = 0
    <3>1. m = [records |-> Records(b), partial |-> Rest(b), of |-> of, start |-> 0,
               offset |-> size]
      <4>1. Kept(b, o) = b /\ ~(o > 0) /\ o + Len(b) = size
        BY <2>1, <2>3 DEF Kept
      <4> QED
        BY <2>5, <4>1
    <3>2. m.start = 0 /\ m.offset = size /\ m.records = Records(b) /\ m.partial = Rest(b)
      BY <3>1
    <3>3. Stretch(m, F) /\ m.of = of
      <4>1. 0 <= size /\ size <= Len(F) /\ b = Piece(F, 0, size)
        BY <2>1, <2>3
      <4> QED
        BY <3>1, <3>2, <4>1 DEF Stretch
    <3> QED
      BY <3>3 DEF m
  <2>4. CASE o > 0
    <3>1. LineEnds(b) # {}
      <4> SUFFICES ASSUME LineEnds(b) = {} PROVE FALSE
        OBVIOUS
      <4>1. m = [Blank EXCEPT !.partial = b, !.start = size, !.offset = size, !.of = of]
        BY <2>4, <2>5 DEF FirstEnd
      <4>2. m.records = <<>>
        BY <4>1 DEF Blank
      <4>3. m.records # <<>>
        BY <2>4 DEF m
      <4> QED
        BY <4>2, <4>3
    <3>2. cut \in 1 .. (size - o) /\ b[cut].last
      BY <2>1, <3>1, FirstLineEnd DEF FirstEnd
    <3>3. From(b, cut + 1) = Piece(F, o + cut, size)
      <4>1. o + cut <= size /\ cut \in Nat
        BY <1>2, <3>2
      <4> HIDE DEF cut
      <4> QED
        <5>1. From(Piece(F, o, size), cut + 1) = Piece(F, o + cut, size)
          BY <4>1, PieceFrom
        <5> QED
          BY <5>1, <2>1
    <3>4. m = [records |-> Records(Piece(F, o + cut, size)),
               partial |-> Rest(Piece(F, o + cut, size)),
               of |-> of, start |-> o + cut, offset |-> o + Len(b)]
      BY <2>5, <2>4, <3>2, <3>3 DEF Kept
    <3> HIDE DEF cut
    <3>5. o + Len(b) = size /\ F[o + cut].last /\ o + cut <= size
      BY <1>2, <2>1, <3>2
    <3>6. Stretch(m, F) /\ m.of = of
      BY <1>0, <3>4, <3>5 DEF Stretch
    <3> QED
      BY <3>6 DEF m
  <2> QED
    BY <2>3, <2>4
<1> QED
    BY <1>1, <1>2

-----------------------------------------------------------------------------
(* The tail's calls, what they are answered, and the invariant of one tail *)

Races == {"grew", "overtaken", "earlier", "spliced", "torn", "failed"}
(* The types of what the far side answers, of a call, and of a tail.       *)
Answers == [is : {"ok"}, size : Nat, of : Nat, data : Seq(Bytes)]
             \cup [is : {"not_found", "error"}]
Calls == [op : {"none", "stat", "read", "window"}, offset : Nat, limit : Nat, size : Nat,
          stale : BOOLEAN, answer : Answers \cup {None}]
TailType ==
    [at : {"new", "subscribing", "reading", "open", "closed", "failed"},
     sub : Nat \cup {None}, hears : BOOLEAN, awaiting : BOOLEAN, retries : Nat,
     dirty : BOOLEAN, knock : {"none", "armed", "refreshing", "subscribing"},
     ask : {"none", "sent", "taken", "refused"}, given : Nat \cup {None},
     model : Models, open : Calls, drain : Calls, earlier : Calls, raced : SUBSET Races]

Answered(c) == c.answer # None /\ c.answer.is = "ok"
\* What a call was answered is what stood in the file at the time
AnswerIsTrue(c, fs) ==
    Answered(c) =>
        /\ c.answer.of \in DOMAIN fs
        /\ c.answer.size <= Len(fs[c.answer.of])
        /\ c.op # "stat" =>
             c.answer.data = SubSeq(fs[c.answer.of], c.offset + 1,
                                    Least(c.offset + Max({c.limit, 1}), c.answer.size))
(* A window ends where the file did at the stat; a read asks for a byte.   *)
CallOK(c, fs) ==
    /\ c \in Calls
    /\ c.op = "window" => c.offset + c.limit = c.size /\ (c.limit = 0 => c.size = 0)
    /\ c.op = "read" => c.limit >= 1
    /\ AnswerIsTrue(c, fs)

(* What HeldIsTheFile claims of a tail, and of when it claims it.          *)
Safe(x) == Shown(x) /\ x.raced \subseteq {"failed"}
Holds(m, fs) == m = Blank \/ (m.of \in DOMAIN fs /\ Stretch(m, fs[m.of]))
(* A scroll up that is not stale asked for what ends where the model begins; *)
(* if it was answered from the model's own file, that much was in the file.  *)
EarlierOK(x) ==
    x.earlier.op # "none" =>
        /\ x.at \in {"open", "closed", "failed"}
        /\ x.earlier.op = "read"
        /\ ~x.earlier.stale =>
             /\ x.earlier.offset + x.earlier.limit = x.model.start
             /\ Safe(x) /\ Answered(x.earlier) /\ x.earlier.answer.of = x.model.of
                  => x.model.start <= x.earlier.answer.size
(* The inductive invariant of one tail: what is shown holds, and each answer *)
(* on its way is one that keeps it so, or is told from one that does not.    *)
TailOK(x, fs) ==
    /\ x \in TailType
    /\ CallOK(x.open, fs) /\ CallOK(x.drain, fs) /\ CallOK(x.earlier, fs)
    /\ x.open.op # "none" => x.at = "reading"
    /\ EarlierOK(x)
    /\ Safe(x) => Holds(x.model, fs)

(* A model that holds nothing is a model.                                  *)
LEMMA BlankIsTyped == Blank \in Models
BY EmptySeq DEF Blank, Models

(* The calls a tail makes are in order before they are answered.           *)
LEMMA CallsAreOK ==
    ASSUME NEW fs, NEW from \in Nat, NEW n \in Nat, NEW size \in Nat
    PROVE  /\ CallOK(NoCall, fs) /\ NoCall.op = "none"
           /\ CallOK(StatCall, fs) /\ StatCall.op = "stat"
           /\ n >= 1 => CallOK(ReadCall(from, n), fs)
           /\ ReadCall(from, n).op = "read"
           /\ n <= size /\ (n = 0 => size = 0) => CallOK(WindowCall(size, n), fs)
           /\ WindowCall(size, n).op = "window"
<1>1. /\ NoCall \in Calls /\ NoCall.op = "none" /\ NoCall.answer = None
    BY DEF NoCall, Calls
<1>2. StatCall \in Calls /\ StatCall.op = "stat" /\ StatCall.answer = None
    BY <1>1 DEF StatCall, Calls
<1>3. /\ ReadCall(from, n) \in Calls /\ ReadCall(from, n).op = "read"
      /\ ReadCall(from, n).answer = None /\ ReadCall(from, n).limit = n
    BY <1>1 DEF ReadCall, Calls
<1>10. n <= size => (size - n) + n = size /\ size - n \in Nat
    OBVIOUS
<1>9. LET c == WindowCall(size, n)
      IN  /\ c.op = "window" /\ c.answer = None
          /\ c.offset = size - n /\ c.limit = n /\ c.size = size
          /\ n <= size => c \in Calls
  <2> DEFINE from2 == size - n
             c == [NoCall EXCEPT !.op = "window", !.offset = from2, !.limit = n, !.size = size]
  <2>1. WindowCall(size, n) = c
    BY DEF WindowCall
  <2>2. n <= size => from2 \in Nat
    BY <1>10
  <2> HIDE DEF from2
  <2>3. /\ c.op = "window" /\ c.answer = None
        /\ c.offset = from2 /\ c.limit = n /\ c.size = size
        /\ n <= size => c \in Calls
    BY <1>1, <2>2 DEF Calls
  <2> QED
    BY <2>1, <2>3 DEF from2
<1>4. \A c : c.answer = None => AnswerIsTrue(c, fs)
    BY DEF AnswerIsTrue, Answered
<1>5. CallOK(NoCall, fs) /\ NoCall.op = "none"
    BY <1>1, <1>4 DEF CallOK
<1>6. CallOK(StatCall, fs) /\ StatCall.op = "stat"
    BY <1>2, <1>4 DEF CallOK
<1>7. /\ n >= 1 => CallOK(ReadCall(from, n), fs)
      /\ ReadCall(from, n).op = "read"
    BY <1>3, <1>4 DEF CallOK
<1>8. /\ n <= size /\ (n = 0 => size = 0) => CallOK(WindowCall(size, n), fs)
      /\ WindowCall(size, n).op = "window"
    BY <1>9, <1>10, <1>4 DEF CallOK
<1> QED
    BY <1>5, <1>6, <1>7, <1>8

(* settled is about the wait alone.                                        *)
LEMMA Settling ==
    ASSUME NEW x \in TailType
    PROVE  /\ Settled(x) \in TailType
           /\ Settled(x).at = x.at /\ Settled(x).model = x.model /\ Settled(x).open = x.open
           /\ Settled(x).drain = x.drain /\ Settled(x).earlier = x.earlier
           /\ Settled(x).raced = x.raced
BY DEF Settled, TailType

(* So is scheduleAwaitRetry.                                               *)
LEMMA Scheduling ==
    ASSUME NEW x \in TailType
    PROVE  LET y == ScheduleAwaitRetry(x)
           IN  /\ y \in TailType
               /\ y.at = x.at /\ y.model = x.model /\ y.open = x.open
               /\ y.drain = x.drain /\ y.earlier = x.earlier /\ y.raced = x.raced
<1>1. CASE Gone(x) \/ ~x.awaiting \/ x.retries >= MaxAwaitRetries
    BY <1>1 DEF ScheduleAwaitRetry, TailType
<1>2. CASE ~(Gone(x) \/ ~x.awaiting \/ x.retries >= MaxAwaitRetries)
  <2>1. ScheduleAwaitRetry(x) = [x EXCEPT !.knock = "armed", !.retries = x.retries + 1]
    BY <1>2 DEF ScheduleAwaitRetry
  <2>2. x.retries + 1 \in Nat
    BY DEF TailType
  <2> QED
    BY <2>1, <2>2 DEF TailType
<1> QED
    BY <1>1, <1>2

Loses(x, race) == [x EXCEPT !.raced = @ \cup {race}]

(* A race lost is remembered, and nothing else changes.                    *)
LEMMA Losing ==
    ASSUME NEW x \in TailType, NEW race \in Races,
           NEW y, y = x \/ y = Loses(x, race)
    PROVE  /\ y \in TailType
           /\ y.at = x.at /\ y.model = x.model /\ y.open = x.open
           /\ y.drain = x.drain /\ y.earlier = x.earlier
           /\ x.raced \subseteq y.raced
           /\ y = Loses(x, race) => race \in y.raced
BY DEF Loses, TailType

(* What is asked for a model that is replaced is marked, and nothing else  *)
(* changes.                                                                *)
LEMMA Staling ==
    ASSUME NEW x \in TailType
    PROVE  LET y == Stales(x)
           IN  /\ y \in TailType
               /\ y.at = x.at /\ y.model = x.model /\ y.open = x.open
               /\ y.drain = x.drain /\ y.raced = x.raced
               /\ y.earlier = [x.earlier EXCEPT !.stale = x.earlier # NoCall]
<1>1. Stales(x) = [x EXCEPT !.earlier = [x.earlier EXCEPT !.stale = x.earlier # NoCall]]
    BY DEF Stales
<1>2. [x.earlier EXCEPT !.stale = x.earlier # NoCall] \in Calls
    BY DEF TailType, Calls
<1> QED
    BY <1>1, <1>2 DEF TailType

(* refresh begins a drain where there is none, and leaves the model alone. *)
LEMMA Refreshing ==
    ASSUME NEW x \in TailType
    PROVE  LET y == Refresh(x)
           IN  /\ y \in TailType
               /\ y.at = x.at /\ y.model = x.model /\ y.open = x.open
               /\ y.earlier = x.earlier /\ y.raced = x.raced
               /\ \/ y.drain = x.drain
                  \/ x.drain = NoCall /\ y.drain = ReadCall(x.model.offset, ChunkBytes)
<1>1. x.model.offset \in Nat /\ ChunkBytes \in Nat \ {0}
    BY TranscriptAssumption DEF TailType, Models
<1>2. ReadCall(x.model.offset, ChunkBytes) \in Calls
    BY <1>1, CallsAreOK DEF CallOK
<1>3. CASE Gone(x)
    BY <1>3 DEF Refresh
<1>4. CASE ~Gone(x) /\ x.drain # NoCall
    BY <1>4 DEF Refresh, TailType
<1>5. CASE ~Gone(x) /\ x.drain = NoCall
  <2>1. Refresh(x) = [x EXCEPT !.dirty = FALSE, !.drain = ReadCall(x.model.offset, ChunkBytes)]
    BY <1>5 DEF Refresh
  <2> QED
    BY <2>1, <1>2, <1>5 DEF TailType
<1> QED
    BY <1>3, <1>4, <1>5

(* The end of the drain leaves the model alone.                            *)
LEMMA EndingDrain ==
    ASSUME NEW x \in TailType
    PROVE  LET y == EndDrain(x)
           IN  /\ y \in TailType
               /\ y.at = x.at /\ y.model = x.model /\ y.open = x.open
               /\ y.earlier = x.earlier /\ y.raced = x.raced /\ y.drain = NoCall
<1> DEFINE z == [x EXCEPT !.drain = NoCall]
<1>1. NoCall \in Calls
    BY CallsAreOK DEF CallOK
<1>2. /\ z \in TailType
      /\ z.at = x.at /\ z.model = x.model /\ z.open = x.open
      /\ z.earlier = x.earlier /\ z.raced = x.raced /\ z.drain = NoCall
    BY <1>1 DEF TailType
<1>3. EndDrain(x) = IF x.knock = "refreshing" THEN ScheduleAwaitRetry(z) ELSE z
    BY DEF EndDrain
<1> HIDE DEF z
<1> QED
    BY <1>2, <1>3, Scheduling

(* The end of a pass leaves the model alone; the next pass reads from where*)
(* the model ends.                                                         *)
LEMMA EndingPass ==
    ASSUME NEW x \in TailType
    PROVE  LET y == EndPass(x)
           IN  /\ y \in TailType
               /\ y.at = x.at /\ y.model = x.model /\ y.open = x.open
               /\ y.earlier = x.earlier /\ y.raced = x.raced
               /\ y.drain \in {NoCall, ReadCall(x.model.offset, ChunkBytes)}
<1>1. x.model.offset \in Nat /\ ChunkBytes \in Nat \ {0}
    BY TranscriptAssumption DEF TailType, Models
<1>2. ReadCall(x.model.offset, ChunkBytes) \in Calls
    BY <1>1, CallsAreOK DEF CallOK
<1>3. CASE x.dirty /\ ~Gone(x)
  <2>1. EndPass(x) = [x EXCEPT !.dirty = FALSE, !.drain = ReadCall(x.model.offset, ChunkBytes)]
    BY <1>3 DEF EndPass
  <2> QED
    BY <2>1, <1>2 DEF TailType
<1>4. CASE ~(x.dirty /\ ~Gone(x))
    BY <1>4, EndingDrain DEF EndPass
<1> QED
    BY <1>3, <1>4

(* A step that leaves the model alone, and shows no more than before.      *)
LEMMA Keeping ==
    ASSUME NEW x, NEW fs, TailOK(x, fs), NEW y \in TailType,
           y.model = x.model, y.earlier = x.earlier,
           CallOK(y.open, fs), CallOK(y.drain, fs),
           y.open.op # "none" => y.at = "reading",
           y.earlier.op # "none" => y.at \in {"open", "closed", "failed"},
           Safe(y) => Safe(x)
    PROVE  TailOK(y, fs)
BY DEF TailOK, EarlierOK

(* A step of a drain that is not a window, or leaves it: the model stays.  *)
LEMMA Draining ==
    ASSUME NEW x, NEW fs, TailOK(x, fs), NEW y \in TailType,
           y.at = x.at, y.model = x.model, y.open = x.open, y.earlier = x.earlier,
           x.raced \subseteq y.raced, CallOK(y.drain, fs),
           x.drain.op = "window" => y.drain.op = "window" \/ ~(y.raced \subseteq {"failed"})
    PROVE  TailOK(y, fs)
<1>1. Safe(y) => Safe(x)
    BY DEF Safe, Shown
<1>2. /\ CallOK(y.open, fs)
      /\ y.open.op # "none" => y.at = "reading"
      /\ y.earlier.op # "none" => y.at \in {"open", "closed", "failed"}
    BY DEF TailOK, EarlierOK
<1> QED
    BY <1>1, <1>2, Keeping

(* The next read is in order before it is answered.                        *)
LEMMA NextRead ==
    ASSUME NEW x \in TailType, NEW fs
    PROVE  LET c == ReadCall(x.model.offset, ChunkBytes)
           IN CallOK(c, fs) /\ c.op = "read" /\ CallOK(NoCall, fs) /\ NoCall.op = "none"
<1>1. x.model.offset \in Nat /\ ChunkBytes \in Nat /\ ChunkBytes >= 1
    BY TranscriptAssumption DEF TailType, Models
<1> QED
    BY <1>1, CallsAreOK

(* A refresh keeps the invariant.                                          *)
LEMMA RefreshKeeps ==
    ASSUME NEW x, NEW fs, TailOK(x, fs)
    PROVE  TailOK(Refresh(x), fs)
<1>1. x \in TailType /\ CallOK(x.drain, fs)
    BY DEF TailOK
<1> DEFINE y == Refresh(x)
<1>2. /\ y \in TailType
      /\ y.at = x.at /\ y.model = x.model /\ y.open = x.open
      /\ y.earlier = x.earlier /\ y.raced = x.raced
      /\ \/ y.drain = x.drain
         \/ x.drain = NoCall /\ y.drain = ReadCall(x.model.offset, ChunkBytes)
    BY <1>1, Refreshing
<1>3. CallOK(y.drain, fs) /\ (x.drain.op = "window" => y.drain.op = "window")
    BY <1>1, <1>2, NextRead
<1> HIDE DEF y
<1>4. TailOK(y, fs)
    BY <1>2, <1>3, Draining
<1> QED
    BY <1>4 DEF y

(* So does the end of a pass that was not left in a window.                *)
LEMMA EndPassKeeps ==
    ASSUME NEW x, NEW fs, TailOK(x, fs),
           x.drain.op = "window" => ~(x.raced \subseteq {"failed"})
    PROVE  TailOK(EndPass(x), fs)
<1>1. x \in TailType /\ CallOK(x.drain, fs)
    BY DEF TailOK
<1> DEFINE y == EndPass(x)
<1>2. /\ y \in TailType
      /\ y.at = x.at /\ y.model = x.model /\ y.open = x.open
      /\ y.earlier = x.earlier /\ y.raced = x.raced
      /\ y.drain \in {NoCall, ReadCall(x.model.offset, ChunkBytes)}
    BY <1>1, EndingPass
<1>3. CallOK(y.drain, fs)
    BY <1>1, <1>2, NextRead
<1> HIDE DEF y
<1>4. TailOK(y, fs)
    BY <1>2, <1>3, Draining
<1> QED
    BY <1>4 DEF y

(* So does the end of such a drain.                                        *)
LEMMA EndDrainKeeps ==
    ASSUME NEW x, NEW fs, TailOK(x, fs),
           x.drain.op = "window" => ~(x.raced \subseteq {"failed"})
    PROVE  TailOK(EndDrain(x), fs)
<1>1. x \in TailType /\ CallOK(x.drain, fs)
    BY DEF TailOK
<1> DEFINE y == EndDrain(x)
<1>2. /\ y \in TailType
      /\ y.at = x.at /\ y.model = x.model /\ y.open = x.open
      /\ y.earlier = x.earlier /\ y.raced = x.raced /\ y.drain = NoCall
    BY <1>1, EndingDrain
<1>3. CallOK(y.drain, fs)
    BY <1>1, <1>2, NextRead
<1> HIDE DEF y
<1>4. TailOK(y, fs)
    BY <1>2, <1>3, Draining
<1> QED
    BY <1>4 DEF y

(* A read asks for one byte at the least.                                  *)
LEMMA WindowSpan ==
    ASSUME NEW n \in Nat
    PROVE  Max({n, 1}) = IF n = 0 THEN 1 ELSE n
<1>1. CASE n = 0
  <2>1. \E x \in {n, 1} : \A y \in {n, 1} : x >= y
    BY <1>1
  <2>2. Max({n, 1}) \in {n, 1} /\ \A y \in {n, 1} : Max({n, 1}) >= y
    BY <2>1 DEF Max
  <2> QED
    BY <1>1, <2>2
<1>2. CASE n # 0
  <2>1. n \in {n, 1} /\ \A y \in {n, 1} : n >= y
    BY <1>2
  <2>2. Max({n, 1}) \in {n, 1} /\ \A y \in {n, 1} : Max({n, 1}) >= y
    BY <2>1 DEF Max
  <2> QED
    BY <1>2, <2>2
<1> QED
    BY <1>1, <1>2

(* The types in an answer that is true.                                    *)
LEMMA AnsweredText ==
    ASSUME NEW fs \in Seq(Seq(Bytes)), NEW c \in Calls, AnswerIsTrue(c, fs), Answered(c)
    PROVE  /\ c.answer.size \in Nat /\ c.answer.of \in Nat /\ c.answer.data \in Seq(Bytes)
           /\ c.answer.of \in DOMAIN fs
           /\ fs[c.answer.of] \in Seq(Bytes) /\ Len(fs[c.answer.of]) \in Nat
<1>1. c.answer \in Answers /\ c.answer.is = "ok"
    BY DEF Calls, Answered
<1>2. c.answer \in [is : {"ok"}, size : Nat, of : Nat, data : Seq(Bytes)]
    BY <1>1 DEF Answers
<1>3. c.answer.of \in DOMAIN fs
    BY DEF AnswerIsTrue
<1>4. fs[c.answer.of] \in Seq(Bytes)
    BY <1>3, ElementOfSeq, LenProperties
<1> QED
    BY <1>2, <1>3, <1>4, LenProperties

(* A model is replaced: an earlier window in flight is stale.              *)
LEMMA Replacing ==
    ASSUME NEW x, NEW fs, TailOK(x, fs), NEW y \in TailType, y.at = x.at,
           y.earlier = [x.earlier EXCEPT !.stale = x.earlier # NoCall],
           CallOK(y.open, fs), CallOK(y.drain, fs),
           y.open.op # "none" => y.at = "reading",
           Safe(y) => Holds(y.model, fs)
    PROVE  TailOK(y, fs)
<1>1. x.earlier \in Calls /\ CallOK(x.earlier, fs)
    BY DEF TailOK, CallOK
<1>2. /\ y.earlier.op = x.earlier.op /\ y.earlier.offset = x.earlier.offset
      /\ y.earlier.limit = x.earlier.limit /\ y.earlier.size = x.earlier.size
      /\ y.earlier.answer = x.earlier.answer /\ y.earlier.stale = (x.earlier # NoCall)
      /\ y.earlier \in Calls
    BY <1>1 DEF Calls
<1>3. CallOK(y.earlier, fs)
    BY <1>1, <1>2 DEF CallOK, AnswerIsTrue, Answered
<1>4. EarlierOK(y)
  <2> SUFFICES ASSUME x.earlier.op # "none" PROVE EarlierOK(y)
    BY <1>2 DEF EarlierOK
  <2>1. x.earlier # NoCall
    BY CallsAreOK
  <2> QED
    BY <1>2, <2>1 DEF TailOK, EarlierOK
<1> QED
    BY <1>3, <1>4 DEF TailOK

(* holdEmpty keeps the invariant: nothing is held, so nothing false.       *)
LEMMA HoldEmptyKeeps ==
    ASSUME NEW x, NEW fs, TailOK(x, fs)
    PROVE  /\ TailOK(HoldEmpty(x), fs) /\ HoldEmpty(x).at = x.at
           /\ HoldEmpty(x).drain = x.drain /\ HoldEmpty(x).model = Blank
<1> DEFINE u == [x EXCEPT !.awaiting = TRUE, !.model = Blank]
           v == Lost(u, "overtaken", x.model.offset > 0)
           y == Stales(v)
<1>1. /\ x \in TailType /\ CallOK(x.open, fs) /\ CallOK(x.drain, fs)
      /\ x.open.op # "none" => x.at = "reading"
    BY DEF TailOK
<1>2. /\ u \in TailType /\ u.model = Blank
      /\ u.at = x.at /\ u.open = x.open /\ u.drain = x.drain
      /\ u.earlier = x.earlier
    BY <1>1, BlankIsTyped DEF TailType
<1>6. HoldEmpty(x) = y
    BY DEF HoldEmpty
<1> HIDE DEF u
<1>3. /\ v \in TailType /\ v.model = Blank
      /\ v.at = x.at /\ v.open = x.open /\ v.drain = x.drain
      /\ v.earlier = x.earlier
  <2>1. "overtaken" \in Races
    BY DEF Races
  <2>2. v = u \/ v = Loses(u, "overtaken")
    BY DEF Lost, Loses
  <2> HIDE DEF v
  <2> QED
    BY <1>2, <2>1, <2>2, Losing
<1> HIDE DEF v
<1>4. /\ y \in TailType /\ y.model = Blank
      /\ y.at = x.at /\ y.open = x.open /\ y.drain = x.drain
      /\ y.earlier = [x.earlier EXCEPT !.stale = x.earlier # NoCall]
    BY <1>3, Staling
<1> HIDE DEF y
<1>5. TailOK(y, fs)
    BY <1>1, <1>4, Replacing DEF Holds
<1> QED
    BY <1>4, <1>5, <1>6

(* open that resolves keeps the invariant when what it shows holds.        *)
LEMMA OpenedKeeps ==
    ASSUME NEW x, NEW fs, TailOK(x, fs), x.at = "reading",
           x.raced \subseteq {"failed"} => Holds(x.model, fs)
    PROVE  TailOK(Opened(x), fs)
<1> DEFINE u == [x EXCEPT !.at = "open", !.open = NoCall]
           y == Opened(x)
<1>1. /\ x \in TailType /\ CallOK(x.drain, fs) /\ CallOK(x.earlier, fs)
      /\ x.earlier.op = "none"
    BY DEF TailOK, EarlierOK
<1>2. CallOK(NoCall, fs) /\ NoCall \in Calls /\ NoCall.op = "none"
    BY CallsAreOK DEF CallOK
<1>3. /\ u \in TailType
      /\ u.at = "open" /\ u.open = NoCall /\ u.model = x.model /\ u.drain = x.drain
      /\ u.earlier = x.earlier /\ u.raced = x.raced
    BY <1>1, <1>2 DEF TailType
<1>4. y = IF u.sub = None THEN ScheduleAwaitRetry(u) ELSE u
    BY DEF Opened
<1> HIDE DEF u
<1>5. /\ y \in TailType
      /\ y.at = "open" /\ y.open = NoCall /\ y.model = x.model /\ y.drain = x.drain
      /\ y.earlier = x.earlier /\ y.raced = x.raced
    BY <1>3, <1>4, Scheduling
<1> HIDE DEF y
<1>6. TailOK(y, fs)
    BY <1>1, <1>2, <1>5 DEF TailOK, EarlierOK, Safe
<1> QED
    BY <1>6 DEF y

\* What a window answered, when no byte was written since stat
LEMMA TakeWindowHolds ==
    ASSUME NEW fs \in Seq(Seq(Bytes)), NEW c, CallOK(c, fs), Answered(c), c.op = "window",
           NEW m, m = OpenTail(c.answer.data, c.answer.size, c.answer.of)
    PROVE  /\ m \in Models
           /\ c.answer.size <= c.size /\ (m.records # <<>> \/ c.limit >= c.size)
                => Holds(m, fs)
<1> DEFINE a == c.answer
           F == fs[c.answer.of]
<1>1. /\ a.size \in Nat /\ a.of \in Nat /\ a.data \in Seq(Bytes)
      /\ a.of \in DOMAIN fs
      /\ F \in Seq(Bytes) /\ a.size <= Len(F)
      /\ a.data = SubSeq(F, c.offset + 1, Least(c.offset + Max({c.limit, 1}), a.size))
    BY AnsweredText DEF CallOK, AnswerIsTrue
<1>2. m \in Models
    BY <1>1, OpenTailTyped
<1>3. c.offset \in Nat /\ c.limit \in Nat /\ c.size \in Nat
    BY DEF CallOK, Calls
<1>4. c.offset + c.limit = c.size /\ (c.limit = 0 => c.size = 0)
    BY DEF CallOK
<1>5. ASSUME a.size <= c.size, m.records # <<>> \/ c.limit >= c.size
      PROVE  Holds(m, fs)
  <2>1. Least(c.offset + Max({c.limit, 1}), a.size) = a.size
    <3>1. PICK k : k = c.offset + Max({c.limit, 1})
      OBVIOUS
    <3>2. (k \in Nat /\ k >= c.size) \/ (k \in Nat /\ c.size = 0)
      BY <1>3, <1>4, <3>1, WindowSpan
    <3>3. ~(k < a.size) \/ (k < a.size /\ FALSE)
      BY <1>1, <1>3, <1>5, <3>2
    <3> QED
      BY <3>1, <3>3 DEF Least
  <2>2. a.data = SubSeq(F, c.offset + 1, a.size)
    BY <1>1, <2>1
  <2>3. m.records # <<>> \/ c.offset = 0
    BY <1>3, <1>4, <1>5
  <2> HIDE DEF F
  <2>4. Stretch(m, F) /\ m.of = a.of
    <3>1. /\ c.offset \in Nat /\ a.size \in Nat /\ a.of \in Nat /\ F \in Seq(Bytes)
          /\ a.size <= Len(F)
          /\ OpenTail(a.data, a.size, a.of).records # <<>> \/ c.offset = 0
      BY <1>1, <1>3, <2>3
    <3>2. /\ Stretch(OpenTail(a.data, a.size, a.of), F)
          /\ OpenTail(a.data, a.size, a.of).of = a.of
      <4>1. PICK b : b = a.data
        OBVIOUS
      <4>2. /\ b = Piece(F, c.offset, a.size)
            /\ OpenTail(b, a.size, a.of).records # <<>> \/ c.offset = 0
        BY <2>2, <3>1, <4>1 DEF Piece
      <4>3. Stretch(OpenTail(b, a.size, a.of), F) /\ OpenTail(b, a.size, a.of).of = a.of
        BY <3>1, <4>2, OpenTailHolds
      <4> QED
        BY <4>1, <4>3
    <3> QED
      BY <3>2
  <2> QED
    BY <1>1, <2>4 DEF Holds, F
<1> QED
    BY <1>2, <1>5

-----------------------------------------------------------------------------
(* Windows                                                                 *)

\* TakeWindow, but for the job: a new model, and the races it may have lost
Windowed(x, c) ==
    LET a == c.answer
        m == OpenTail(a.data, a.size, a.of)
        older == a.of < x.model.of \/ (a.of = x.model.of /\ m.offset < x.model.offset)
    IN Stales(Lost(Lost([x EXCEPT !.model = m], "overtaken", older), "grew", a.size > c.size))
Done(x, c) ==
    LET a == c.answer
    IN OpenTail(a.data, a.size, a.of).records # <<>> \/ c.limit >= c.size
Wider(c) == WindowCall(c.size, Least(2 * c.limit, c.size))

(* A window that leaves the tail done, and that lost no race, holds.       *)
LEMMA Windowing ==
    ASSUME NEW x \in TailType, NEW fs \in Seq(Seq(Bytes)), NEW c, CallOK(c, fs), Answered(c),
           c.op = "window"
    PROVE  LET y == Windowed(x, c)
           IN  /\ y \in TailType /\ y.at = x.at /\ y.open = x.open /\ y.drain = x.drain
               /\ y.earlier = [x.earlier EXCEPT !.stale = x.earlier # NoCall]
               /\ Done(x, c) /\ y.raced \subseteq {"failed"} => Holds(y.model, fs)
               /\ CallOK(Wider(c), fs) /\ Wider(c).op = "window"
<1> DEFINE a == c.answer
           m == OpenTail(a.data, a.size, a.of)
           older == a.of < x.model.of \/ (a.of = x.model.of /\ m.offset < x.model.offset)
           u == [x EXCEPT !.model = m]
           v == Lost(u, "overtaken", older)
           w == Lost(v, "grew", a.size > c.size)
           y == Stales(w)
<1>1. Windowed(x, c) = y
    BY DEF Windowed
<1>2. /\ m \in Models
      /\ a.size <= c.size /\ (m.records # <<>> \/ c.limit >= c.size) => Holds(m, fs)
    BY TakeWindowHolds
<1>3. v = u \/ v = Loses(u, "overtaken")
    BY DEF Lost, Loses
<1>4. /\ w = v \/ w = Loses(v, "grew")
      /\ a.size > c.size => w = Loses(v, "grew")
    BY DEF Lost, Loses
<1>5. a.size \in Nat /\ c.size \in Nat /\ c.limit \in Nat
    BY AnsweredText DEF CallOK, Calls
<1> HIDE DEF a, m, older
<1>6. /\ u \in TailType /\ u.model = m /\ u.at = x.at /\ u.open = x.open
      /\ u.drain = x.drain /\ u.earlier = x.earlier
    BY <1>2 DEF TailType
<1> HIDE DEF u, v
<1>7. "overtaken" \in Races /\ "grew" \in Races
    BY DEF Races
<1>8. /\ v \in TailType /\ v.model = m /\ v.at = x.at /\ v.open = x.open
      /\ v.drain = x.drain /\ v.earlier = x.earlier
    BY <1>3, <1>6, <1>7, Losing
<1> HIDE DEF w
<1>9. /\ w \in TailType /\ w.model = m /\ w.at = x.at /\ w.open = x.open
      /\ w.drain = x.drain /\ w.earlier = x.earlier
      /\ a.size > c.size => "grew" \in w.raced
    BY <1>4, <1>7, <1>8, Losing
<1>10. /\ y \in TailType /\ y.model = m /\ y.at = x.at /\ y.open = x.open
       /\ y.drain = x.drain /\ y.raced = w.raced
       /\ y.earlier = [x.earlier EXCEPT !.stale = x.earlier # NoCall]
    BY <1>9, Staling
<1> HIDE DEF y
<1>11. Done(x, c) /\ y.raced \subseteq {"failed"} => Holds(y.model, fs)
  <2> SUFFICES ASSUME Done(x, c), y.raced \subseteq {"failed"} PROVE Holds(y.model, fs)
    OBVIOUS
  <2>1. "grew" \notin y.raced
    OBVIOUS
  <2>2. a.size <= c.size
    BY <1>5, <1>9, <1>10, <2>1
  <2>3. m.records # <<>> \/ c.limit >= c.size
    BY DEF Done, m, a
  <2> QED
    BY <1>2, <1>10, <2>2, <2>3
<1>12. CallOK(Wider(c), fs) /\ Wider(c).op = "window"
  <2>1. PICK n : n = Least(2 * c.limit, c.size)
    OBVIOUS
  <2>2. c.limit = 0 => c.size = 0
    BY DEF CallOK
  <2>3. n \in Nat /\ n <= c.size /\ (n = 0 => c.size = 0)
    BY <1>5, <2>1, <2>2 DEF Least
  <2>4. CallOK(WindowCall(c.size, n), fs) /\ WindowCall(c.size, n).op = "window"
    BY <1>5, <2>3, CallsAreOK
  <2> QED
    BY <2>1, <2>4 DEF Wider
<1> QED
    BY <1>1, <1>10, <1>11, <1>12

(* readTail, on a window: done with it, or with a wider one asked for.     *)
LEMMA TakeWindowIs ==
    ASSUME NEW x, NEW c, NEW job
    PROVE  TakeWindow(x, c, job) =
               IF Done(x, c) THEN [Settled(Windowed(x, c)) EXCEPT ![job] = NoCall]
               ELSE [Windowed(x, c) EXCEPT ![job] = Wider(c)]
BY DEF TakeWindow, Windowed, Done, Wider

(* A window of open: what it leaves holds once it has what it wants.       *)
LEMMA OpenTakesWindow ==
    ASSUME NEW x, NEW fs \in Seq(Seq(Bytes)), TailOK(x, fs), NEW z,
           x.open.op = "window", Answered(x.open), z = TakeWindow(x, x.open, "open")
    PROVE  /\ TailOK(z, fs) /\ z.at = "reading"
           /\ z.open = NoCall /\ z.raced \subseteq {"failed"} => Holds(z.model, fs)
<1> DEFINE y == Windowed(x, x.open)
<1>1. /\ x \in TailType /\ CallOK(x.open, fs) /\ CallOK(x.drain, fs) /\ x.at = "reading"
    BY DEF TailOK
<1>2. /\ y \in TailType /\ y.at = x.at /\ y.open = x.open /\ y.drain = x.drain
      /\ y.earlier = [x.earlier EXCEPT !.stale = x.earlier # NoCall]
      /\ Done(x, x.open) /\ y.raced \subseteq {"failed"} => Holds(y.model, fs)
      /\ CallOK(Wider(x.open), fs) /\ Wider(x.open).op = "window"
    BY <1>1, Windowing
<1>3. z = IF Done(x, x.open) THEN [Settled(y) EXCEPT !.open = NoCall]
          ELSE [y EXCEPT !.open = Wider(x.open)]
    BY TakeWindowIs
<1>4. CallOK(NoCall, fs) /\ NoCall \in Calls /\ NoCall.op = "none" /\ Wider(x.open) \in Calls
    BY <1>2, CallsAreOK DEF CallOK
<1> HIDE DEF y
<1>5. /\ z \in TailType /\ z.at = "reading" /\ z.drain = x.drain
      /\ z.model = y.model /\ z.raced = y.raced
      /\ z.earlier = [x.earlier EXCEPT !.stale = x.earlier # NoCall]
      /\ z.open = IF Done(x, x.open) THEN NoCall ELSE Wider(x.open)
  <2>1. CASE Done(x, x.open)
    <3>1. z = [Settled(y) EXCEPT !.open = NoCall]
      BY <1>3, <2>1
    <3>2. /\ Settled(y) \in TailType /\ Settled(y).at = "reading" /\ Settled(y).drain = x.drain
          /\ Settled(y).model = y.model /\ Settled(y).raced = y.raced
          /\ Settled(y).earlier = y.earlier
      BY <1>1, <1>2, Settling
    <3>3. /\ z \in TailType /\ z.at = "reading" /\ z.drain = x.drain
          /\ z.model = y.model /\ z.raced = y.raced /\ z.earlier = y.earlier
          /\ z.open = NoCall
      BY <1>4, <3>1, <3>2 DEF TailType
    <3> QED
      BY <1>2, <2>1, <3>3
  <2>2. CASE ~Done(x, x.open)
    <3>1. z = [y EXCEPT !.open = Wider(x.open)]
      BY <1>3, <2>2
    <3>3. /\ z \in TailType /\ z.at = "reading" /\ z.drain = x.drain
          /\ z.model = y.model /\ z.raced = y.raced /\ z.earlier = y.earlier
          /\ z.open = Wider(x.open)
      BY <1>1, <1>2, <1>4, <3>1 DEF TailType
    <3> QED
      BY <1>2, <2>2, <3>3
  <2> QED
    BY <2>1, <2>2
<1>6. CallOK(z.open, fs) /\ CallOK(z.drain, fs)
    BY <1>1, <1>2, <1>4, <1>5
<1>7. TailOK(z, fs)
    BY <1>1, <1>5, <1>6, Replacing DEF Safe, Shown
<1> QED
    BY <1>2, <1>4, <1>5, <1>7

(* A window of a drain: in between nothing is shown, and in the end it     *)
(* holds.                                                                  *)
LEMMA DrainTakesWindow ==
    ASSUME NEW x, NEW fs \in Seq(Seq(Bytes)), TailOK(x, fs), NEW z,
           x.drain.op = "window", Answered(x.drain), z = TakeWindow(x, x.drain, "drain")
    PROVE  TailOK(z, fs)
<1> DEFINE y == Windowed(x, x.drain)
<1>1. /\ x \in TailType /\ CallOK(x.open, fs) /\ CallOK(x.drain, fs)
      /\ x.open.op # "none" => x.at = "reading"
    BY DEF TailOK
<1>2. /\ y \in TailType /\ y.at = x.at /\ y.open = x.open /\ y.drain = x.drain
      /\ y.earlier = [x.earlier EXCEPT !.stale = x.earlier # NoCall]
      /\ Done(x, x.drain) /\ y.raced \subseteq {"failed"} => Holds(y.model, fs)
      /\ CallOK(Wider(x.drain), fs) /\ Wider(x.drain).op = "window"
    BY <1>1, Windowing
<1>3. z = IF Done(x, x.drain) THEN [Settled(y) EXCEPT !.drain = NoCall]
          ELSE [y EXCEPT !.drain = Wider(x.drain)]
    BY TakeWindowIs
<1>4. CallOK(NoCall, fs) /\ NoCall \in Calls /\ NoCall.op = "none" /\ Wider(x.drain) \in Calls
    BY <1>2, CallsAreOK DEF CallOK
<1> HIDE DEF y
<1>5. /\ z \in TailType /\ z.at = x.at /\ z.open = x.open
      /\ z.model = y.model /\ z.raced = y.raced /\ z.earlier = y.earlier
      /\ z.drain = IF Done(x, x.drain) THEN NoCall ELSE Wider(x.drain)
  <2>1. CASE Done(x, x.drain)
    <3>1. z = [Settled(y) EXCEPT !.drain = NoCall]
      BY <1>3, <2>1
    <3>2. /\ Settled(y) \in TailType /\ Settled(y).at = x.at /\ Settled(y).open = x.open
          /\ Settled(y).model = y.model /\ Settled(y).raced = y.raced
          /\ Settled(y).earlier = y.earlier
      BY <1>1, <1>2, Settling
    <3>3. /\ z \in TailType /\ z.at = x.at /\ z.open = x.open
          /\ z.model = y.model /\ z.raced = y.raced /\ z.earlier = y.earlier
          /\ z.drain = NoCall
      BY <1>4, <3>1, <3>2 DEF TailType
    <3> QED
      BY <2>1, <3>3
  <2>2. CASE ~Done(x, x.drain)
    <3>1. z = [y EXCEPT !.drain = Wider(x.drain)]
      BY <1>3, <2>2
    <3>3. /\ z \in TailType /\ z.at = x.at /\ z.open = x.open
          /\ z.model = y.model /\ z.raced = y.raced /\ z.earlier = y.earlier
          /\ z.drain = Wider(x.drain)
      BY <1>2, <1>4, <3>1 DEF TailType
    <3> QED
      BY <2>2, <3>3
  <2> QED
    BY <2>1, <2>2
<1>6. CallOK(z.open, fs) /\ CallOK(z.drain, fs)
    BY <1>1, <1>2, <1>4, <1>5
<1>8. Safe(z) => Holds(z.model, fs)
    BY <1>2, <1>5 DEF Safe, Shown
<1>9. z.earlier = [x.earlier EXCEPT !.stale = x.earlier # NoCall]
    BY <1>2, <1>5
<1> QED
    BY <1>1, <1>5, <1>6, <1>8, <1>9, Replacing

-----------------------------------------------------------------------------
(* The drain                                                               *)

(* A model that holds nothing is a stretch of any file.                    *)
LEMMA BlankHolds ==
    ASSUME NEW F \in Seq(Bytes)
    PROVE  Stretch(Blank, F) /\ Blank.start = 0 /\ Blank.offset = 0
<1>1. Piece(F, 0, 0) = <<>> /\ Len(F) \in Nat
    BY SubSeqEmpty, LenProperties DEF Piece
<1> QED
    BY <1>1, EmptyText DEF Stretch, Blank

(* What is appended to the model, and the races it may have lost.          *)
ChunkRead(x, c) ==
    LET a == c.answer
        raced == Lost(Lost(Settled(x), "overtaken", c.offset # x.model.offset),
                      "spliced", x.model.offset > 0 /\ a.of # x.model.of)
    IN [raced EXCEPT !.model = AppendTo(@, a.data, a.of)]

(* readToEnd, on a read: a rewind, the end of the pass, or one more read.  *)
LEMMA TakeChunkIs ==
    ASSUME NEW x, NEW c
    PROVE  TakeChunk(x, c) =
               IF c.answer.size < c.offset THEN ReadTail(Settled(x), "drain")
               ELSE IF c.answer.data = <<>> \/ c.offset + Len(c.answer.data) >= c.answer.size
                    THEN EndPass(ChunkRead(x, c))
                    ELSE [ChunkRead(x, c) EXCEPT
                             !.drain = ReadCall(ChunkRead(x, c).model.offset, ChunkBytes)]
BY DEF TakeChunk, ChunkRead

(* What a read from the end of the stretch answered makes it longer.       *)
LEMMA ChunkHolds ==
    ASSUME NEW fs \in Seq(Seq(Bytes)), NEW c, CallOK(c, fs), Answered(c), c.op = "read",
           c.answer.size >= c.offset, NEW m \in Models, Holds(m, fs),
           c.offset = m.offset, m.offset > 0 => c.answer.of = m.of
    PROVE  /\ Holds(AppendTo(m, c.answer.data, c.answer.of), fs)
           /\ c.answer.of # m.of => m.start = 0
<1> DEFINE a == c.answer
           F == fs[c.answer.of]
<1>1. /\ a.size \in Nat /\ a.of \in Nat /\ a.data \in Seq(Bytes)
      /\ a.of \in DOMAIN fs
      /\ F \in Seq(Bytes) /\ a.size <= Len(F)
      /\ a.data = SubSeq(F, c.offset + 1, Least(c.offset + Max({c.limit, 1}), a.size))
    BY AnsweredText DEF CallOK, AnswerIsTrue
<1>2. c.offset \in Nat /\ c.limit \in Nat /\ m.offset \in Nat /\ m.start \in Nat
    BY DEF CallOK, Calls, Models
<1>3. Stretch(m, F) /\ (a.of # m.of => m.start = 0)
  <2>1. CASE m = Blank
    BY <1>1, <2>1, BlankHolds
  <2>2. CASE m # Blank
    <3>1. m.of \in DOMAIN fs /\ Stretch(m, fs[m.of]) /\ fs[m.of] \in Seq(Bytes)
      BY <2>2, ElementOfSeq, LenProperties DEF Holds
    <3>2. CASE m.offset = 0
      BY <1>1, <1>2, <3>1, <3>2, NothingIsAStretch
    <3>3. CASE m.offset > 0
      BY <3>1, <3>3
    <3> QED
      BY <1>2, <3>2, <3>3
  <2> QED
    BY <2>1, <2>2
<1>4. PICK e : e = Least(c.offset + Max({c.limit, 1}), a.size)
    OBVIOUS
<1>5. e \in Nat /\ m.offset <= e /\ e <= Len(F)
  <2>1. PICK k : k = c.offset + Max({c.limit, 1})
    OBVIOUS
  <2>2. k \in Nat /\ m.offset <= k
    BY <1>2, <2>1, WindowSpan
  <2>3. Len(F) \in Nat
    BY <1>1, LenProperties
  <2>4. PICK n : n = a.size
    OBVIOUS
  <2>5. e = Least(k, n)
    BY <1>4, <2>1, <2>4
  <2>6. n \in Nat /\ n <= Len(F) /\ m.offset <= n
    BY <1>1, <2>4
  <2> QED
    BY <1>2, <2>2, <2>3, <2>5, <2>6 DEF Least
<1>6. PICK b : b = a.data
    OBVIOUS
<1>7. b = Piece(F, m.offset, e)
    BY <1>1, <1>4, <1>6 DEF Piece
<1> HIDE DEF F
<1>8. Stretch(AppendTo(m, b, a.of), F)
    BY <1>1, <1>3, <1>5, <1>7, AppendHolds
<1>9. AppendTo(m, b, a.of).of = a.of
    BY DEF AppendTo, Models
<1> QED
    BY <1>1, <1>3, <1>6, <1>8, <1>9 DEF Holds, F

(* A read that is appended keeps the invariant: what a second actor did to *)
(* the model or the file meanwhile is a race lost.                         *)
LEMMA ChunkReadKeeps ==
    ASSUME NEW x, NEW fs \in Seq(Seq(Bytes)), TailOK(x, fs),
           x.drain.op = "read", Answered(x.drain), x.drain.answer.size >= x.drain.offset
    PROVE  TailOK(ChunkRead(x, x.drain), fs) /\ ChunkRead(x, x.drain).drain = x.drain
<1> DEFINE c == x.drain
           a == c.answer
           late == c.offset # x.model.offset
           other == x.model.offset > 0 /\ a.of # x.model.of
           u == Settled(x)
           v == Lost(u, "overtaken", late)
           w == Lost(v, "spliced", other)
           n == AppendTo(x.model, a.data, a.of)
           y == ChunkRead(x, c)
<1>1. /\ x \in TailType /\ CallOK(x.open, fs) /\ CallOK(c, fs) /\ CallOK(x.earlier, fs)
      /\ x.open.op # "none" => x.at = "reading"
      /\ EarlierOK(x) /\ (Safe(x) => Holds(x.model, fs))
    BY DEF TailOK
<1>2. /\ u \in TailType
      /\ u.at = x.at /\ u.model = x.model /\ u.open = x.open
      /\ u.drain = x.drain /\ u.earlier = x.earlier /\ u.raced = x.raced
    BY <1>1, Settling
<1>3. v = u \/ v = Loses(u, "overtaken")
    BY DEF Lost, Loses
<1>4. late => v = Loses(u, "overtaken")
    BY DEF Lost, Loses
<1>5. w = v \/ w = Loses(v, "spliced")
    BY DEF Lost, Loses
<1>6. other => w = Loses(v, "spliced")
    BY DEF Lost, Loses
<1>7. y = [w EXCEPT !.model = AppendTo(w.model, a.data, a.of)]
    BY DEF ChunkRead
<1>8. "overtaken" \in Races /\ "spliced" \in Races
    BY DEF Races
<1> HIDE DEF u, v, w, y
<1>9. /\ v \in TailType
      /\ v.at = x.at /\ v.model = x.model /\ v.open = x.open
      /\ v.drain = x.drain /\ v.earlier = x.earlier
      /\ x.raced \subseteq v.raced /\ (late => "overtaken" \in v.raced)
    BY <1>2, <1>3, <1>4, <1>8, Losing
<1>10. /\ w \in TailType
       /\ w.at = x.at /\ w.model = x.model /\ w.open = x.open
       /\ w.drain = x.drain /\ w.earlier = x.earlier
       /\ v.raced \subseteq w.raced /\ (other => "spliced" \in w.raced)
    BY <1>9, <1>5, <1>6, <1>8, Losing
<1>11. x.model \in Models /\ a.data \in Seq(Bytes) /\ a.of \in Nat
    BY <1>1, AnsweredText DEF TailType, CallOK
<1>12. n \in Models /\ n.start = x.model.start /\ n.of = a.of
  <2>1. n \in Models
    BY <1>11, AppendTyped
  <2> QED
    BY <1>11, <2>1 DEF AppendTo, Models
<1> HIDE DEF n
<1>13. /\ y \in TailType /\ y.model = n
       /\ y.at = x.at /\ y.open = x.open /\ y.drain = x.drain
       /\ y.earlier = x.earlier /\ y.raced = w.raced
  <2>1. y = [w EXCEPT !.model = n]
    BY <1>7, <1>10 DEF n
  <2> QED
    BY <1>10, <1>12, <2>1 DEF TailType
<1>14. ASSUME Safe(y)
       PROVE  Safe(x) /\ Holds(n, fs) /\ (n.of # x.model.of => x.model.start = 0)
  <2>1. Safe(x)
    BY <1>9, <1>10, <1>13, <1>14 DEF Safe, Shown
  <2>2. "overtaken" \notin y.raced /\ "spliced" \notin y.raced
    BY <1>14 DEF Safe
  <2>3. ~late /\ ~other
    BY <1>9, <1>10, <1>13, <2>2
  <2>4. Holds(x.model, fs)
    BY <1>1, <2>1
  <2>5. Holds(n, fs) /\ (a.of # x.model.of => x.model.start = 0)
    BY <1>1, <1>11, <2>3, <2>4, ChunkHolds DEF n
  <2> QED
    BY <2>1, <2>5, <1>12
<1>15. EarlierOK(y)
  <2> SUFFICES ASSUME x.earlier.op # "none" PROVE EarlierOK(y)
    BY <1>13 DEF EarlierOK
  <2>1. ASSUME ~x.earlier.stale, Safe(y), Answered(x.earlier),
               x.earlier.answer.of = n.of
        PROVE  n.start <= x.earlier.answer.size
    <3>1. x.earlier.answer.size \in Nat
      BY <1>1, <2>1, AnsweredText DEF CallOK
    <3>2. CASE n.of = x.model.of
      BY <1>1, <1>12, <1>14, <2>1, <3>2 DEF EarlierOK
    <3>3. CASE n.of # x.model.of
      BY <1>12, <1>14, <2>1, <3>1, <3>3
    <3> QED
      BY <3>2, <3>3
  <2>2. /\ x.at \in {"open", "closed", "failed"}
        /\ x.earlier.op = "read"
        /\ ~x.earlier.stale => x.earlier.offset + x.earlier.limit = x.model.start
    BY <1>1 DEF EarlierOK
  <2> QED
    BY <1>12, <1>13, <2>1, <2>2 DEF EarlierOK
<1>16. TailOK(y, fs)
    BY <1>1, <1>13, <1>14, <1>15 DEF TailOK
<1> QED
    BY <1>13, <1>16 DEF y

(* So does all of readToEnd on an answer.                                  *)
LEMMA ChunkKeeps ==
    ASSUME NEW x, NEW fs \in Seq(Seq(Bytes)), TailOK(x, fs),
           x.drain.op = "read", Answered(x.drain)
    PROVE  TailOK(TakeChunk(x, x.drain), fs)
<1> DEFINE c == x.drain
           y == ChunkRead(x, c)
<1>1. x \in TailType /\ CallOK(c, fs)
    BY DEF TailOK
<1>2. c.answer.size \in Nat /\ c.offset \in Nat
    BY <1>1, AnsweredText DEF CallOK, Calls
<1>3. CASE c.answer.size < c.offset
  <2> DEFINE z == ReadTail(Settled(x), "drain")
  <2>1. TakeChunk(x, c) = z
    BY <1>3, TakeChunkIs
  <2>2. /\ Settled(x) \in TailType
        /\ Settled(x).at = x.at /\ Settled(x).model = x.model /\ Settled(x).open = x.open
        /\ Settled(x).earlier = x.earlier /\ Settled(x).raced = x.raced
    BY <1>1, Settling
  <2>3. CallOK(StatCall, fs) /\ StatCall \in Calls
    BY CallsAreOK, 0 \in Nat DEF CallOK
  <2>4. z = [Settled(x) EXCEPT !.drain = StatCall]
    BY DEF ReadTail
  <2> HIDE DEF z
  <2>5. /\ z \in TailType
        /\ z.at = x.at /\ z.model = x.model /\ z.open = x.open
        /\ z.earlier = x.earlier /\ z.raced = x.raced /\ z.drain = StatCall
    BY <2>2, <2>3, <2>4 DEF TailType
  <2>6. TailOK(z, fs)
    BY <2>3, <2>5, Draining
  <2> QED
    BY <2>1, <2>6
<1>4. CASE ~(c.answer.size < c.offset)
  <2>1. TailOK(y, fs) /\ y.drain = x.drain /\ y.drain.op # "window"
    BY <1>2, <1>4, ChunkReadKeeps
  <2> HIDE DEF y
  <2>2. TailOK(EndPass(y), fs)
    BY <2>1, EndPassKeeps
  <2>3. TailOK([y EXCEPT !.drain = ReadCall(y.model.offset, ChunkBytes)], fs)
    <3> DEFINE z == [y EXCEPT !.drain = ReadCall(y.model.offset, ChunkBytes)]
    <3>1. y \in TailType
      BY <2>1 DEF TailOK
    <3>2. /\ CallOK(ReadCall(y.model.offset, ChunkBytes), fs)
          /\ ReadCall(y.model.offset, ChunkBytes) \in Calls
      BY <3>1, NextRead DEF CallOK
    <3>3. /\ z \in TailType
          /\ z.at = y.at /\ z.model = y.model /\ z.open = y.open
          /\ z.earlier = y.earlier /\ z.raced = y.raced
          /\ z.drain = ReadCall(y.model.offset, ChunkBytes)
      BY <3>1, <3>2 DEF TailType
    <3> HIDE DEF z
    <3>4. TailOK(z, fs)
      BY <2>1, <3>2, <3>3, Draining
    <3> QED
      BY <3>4 DEF z
  <2>4. \/ TakeChunk(x, c) = EndPass(y)
        \/ TakeChunk(x, c) = [y EXCEPT !.drain = ReadCall(y.model.offset, ChunkBytes)]
    BY <1>4, TakeChunkIs DEF y
  <2> QED
    BY <2>2, <2>3, <2>4
<1> QED
    BY <1>3, <1>4

-----------------------------------------------------------------------------
(* The scroll up                                                           *)

(* What a scroll up has read, and the races it may have lost.              *)
Scrolled(x, c) ==
    LET a == c.answer
        m == IF a.data = <<>> THEN x.model ELSE Prepend(x.model, a.data)
    IN Lost(Lost([x EXCEPT !.model = m], "earlier", c.stale /\ m # x.model),
            "spliced", ~c.stale /\ a.of # x.model.of)

(* What a scroll up was answered, up to where the stretch begins, makes it *)
(* longer.                                                                 *)
LEMMA ScrollHolds ==
    ASSUME NEW fs \in Seq(Seq(Bytes)), NEW c, CallOK(c, fs), Answered(c), c.op = "read",
           NEW m \in Models, Holds(m, fs), c.offset + c.limit = m.start,
           c.answer.of = m.of, m.start <= c.answer.size
    PROVE  Holds(Prepend(m, c.answer.data), fs)
<1> DEFINE a == c.answer
           F == fs[c.answer.of]
<1>1. /\ a.size \in Nat /\ a.of \in Nat /\ a.data \in Seq(Bytes)
      /\ a.of \in DOMAIN fs
      /\ F \in Seq(Bytes) /\ a.size <= Len(F)
      /\ a.data = SubSeq(F, c.offset + 1, Least(c.offset + Max({c.limit, 1}), a.size))
    BY AnsweredText DEF CallOK, AnswerIsTrue
<1>2. c.offset \in Nat /\ c.limit \in Nat /\ c.limit >= 1 /\ m.start \in Nat
    BY DEF CallOK, Calls, Models
<1>3. c.offset < m.start /\ m.start # 0
    BY <1>2
<1>4. Stretch(m, F)
    BY <1>2, <1>3 DEF Holds, Blank
<1>5. Least(c.offset + Max({c.limit, 1}), a.size) = m.start
  <2>1. Max({c.limit, 1}) = c.limit
    <3>1. PICK k : k = c.limit
      OBVIOUS
    <3>2. k \in Nat /\ k # 0
      BY <1>2, <3>1
    <3>3. Max({k, 1}) = k
      BY <3>2, WindowSpan
    <3> QED
      BY <3>1, <3>3
  <2>2. PICK n : n = a.size
    OBVIOUS
  <2>3. n \in Nat /\ m.start <= n
    BY <1>1, <2>2
  <2>4. Least(m.start, n) = m.start
    BY <1>2, <2>3 DEF Least
  <2> QED
    BY <2>1, <2>2, <2>4
<1>6. a.data = Piece(F, c.offset, m.start)
    BY <1>1, <1>5 DEF Piece
<1>7. PICK b : b = a.data
    OBVIOUS
<1> HIDE DEF F
<1>8. Stretch(Prepend(m, b), F)
    BY <1>1, <1>2, <1>3, <1>4, <1>6, <1>7, PrependHolds
<1>9. Prepend(m, b).of = m.of
    BY DEF Prepend, Models
<1> QED
    BY <1>1, <1>7, <1>8, <1>9 DEF Holds, F

(* A scroll up that lost no race leaves a model that holds.                *)
LEMMA Scrolling ==
    ASSUME NEW x, NEW fs \in Seq(Seq(Bytes)), TailOK(x, fs),
           x.earlier.op # "none", Answered(x.earlier)
    PROVE  LET c == x.earlier
               y == Scrolled(x, c)
           IN  /\ y \in TailType /\ y.at = x.at /\ y.open = x.open /\ y.drain = x.drain
               /\ y.model = IF c.answer.data = <<>> THEN x.model
                            ELSE Prepend(x.model, c.answer.data)
               /\ Safe(y) => Holds(y.model, fs)
<1> DEFINE c == x.earlier
           a == c.answer
           n == IF a.data = <<>> THEN x.model ELSE Prepend(x.model, a.data)
           late == c.stale /\ n # x.model
           other == ~c.stale /\ a.of # x.model.of
           u == [x EXCEPT !.model = n]
           v == Lost(u, "earlier", late)
           y == Lost(v, "spliced", other)
<1>1. /\ x \in TailType /\ CallOK(c, fs) /\ EarlierOK(x) /\ (Safe(x) => Holds(x.model, fs))
      /\ x.model \in Models
    BY DEF TailOK, TailType
<1>2. a.data \in Seq(Bytes) /\ c.op = "read"
    BY <1>1, AnsweredText DEF CallOK, EarlierOK
<1>3. n \in Models
    BY <1>1, <1>2, PrependTyped
<1>4. Scrolled(x, c) = y
    BY DEF Scrolled
<1>5. v = u \/ v = Loses(u, "earlier")
    BY DEF Lost, Loses
<1>6. late => v = Loses(u, "earlier")
    BY DEF Lost, Loses
<1>7. y = v \/ y = Loses(v, "spliced")
    BY DEF Lost, Loses
<1>8. other => y = Loses(v, "spliced")
    BY DEF Lost, Loses
<1>9. "earlier" \in Races /\ "spliced" \in Races
    BY DEF Races
<1>10. ASSUME ~late, ~other, Safe(x) PROVE Holds(n, fs)
  <2>1. Holds(x.model, fs)
    BY <1>1, <1>10
  <2>2. CASE n = x.model
    BY <2>1, <2>2
  <2>3. CASE n # x.model
    <3>1. ~c.stale /\ a.of = x.model.of /\ n = Prepend(x.model, a.data)
      BY <1>10, <2>3
    <3>2. c.offset + c.limit = x.model.start /\ x.model.start <= a.size
      BY <1>1, <1>2, <1>10, <3>1 DEF EarlierOK
    <3> QED
      BY <1>1, <1>2, <2>1, <3>1, <3>2, ScrollHolds
  <2> QED
    BY <2>2, <2>3
<1> HIDE DEF n, late, other
<1>11. /\ u \in TailType /\ u.model = n /\ u.at = x.at /\ u.open = x.open
       /\ u.drain = x.drain /\ u.raced = x.raced
    BY <1>1, <1>3 DEF TailType
<1> HIDE DEF u, v, y
<1>12. /\ v \in TailType /\ v.model = n /\ v.at = x.at /\ v.open = x.open
       /\ v.drain = x.drain /\ x.raced \subseteq v.raced /\ (late => "earlier" \in v.raced)
    BY <1>5, <1>6, <1>9, <1>11, Losing
<1>13. /\ y \in TailType /\ y.model = n /\ y.at = x.at /\ y.open = x.open
       /\ y.drain = x.drain /\ v.raced \subseteq y.raced /\ (other => "spliced" \in y.raced)
    BY <1>7, <1>8, <1>9, <1>12, Losing
<1>14. ASSUME Safe(y) PROVE Holds(n, fs)
  <2>1. Safe(x)
    BY <1>12, <1>13, <1>14 DEF Safe, Shown
  <2>2. "earlier" \notin y.raced /\ "spliced" \notin y.raced
    BY <1>14 DEF Safe
  <2> QED
    BY <1>10, <1>12, <1>13, <2>1, <2>2
<1>15. n = IF a.data = <<>> THEN x.model ELSE Prepend(x.model, a.data)
    BY DEF n
<1> QED
    BY <1>4, <1>13, <1>14, <1>15

(* A tail whose scroll up has ended, or asks again from where it stands.   *)
LEMMA ScrollEnds ==
    ASSUME NEW x, NEW fs \in Seq(Seq(Bytes)), TailOK(x, fs),
           NEW y \in TailType, y.at = x.at, y.open = x.open, y.drain = x.drain,
           x.at \in {"open", "closed", "failed"},
           Safe(y) => Holds(y.model, fs),
           NEW c, NEW n \in Nat,
           c = NoCall \/ (n >= 1 /\ n <= y.model.start /\ c = ReadCall(y.model.start - n, n)),
           NEW z, z = [y EXCEPT !.earlier = c]
    PROVE  TailOK(z, fs)
<1>1. /\ CallOK(x.open, fs) /\ CallOK(x.drain, fs) /\ (x.open.op # "none" => x.at = "reading")
      /\ y.model.start \in Nat
    BY DEF TailOK, TailType, Models
<1>2. CallOK(NoCall, fs) /\ NoCall.op = "none"
    BY CallsAreOK, 0 \in Nat
<1>3. ASSUME n >= 1, n <= y.model.start, c = ReadCall(y.model.start - n, n)
      PROVE  /\ CallOK(c, fs) /\ c.op = "read" /\ c.offset + c.limit = y.model.start
             /\ c.answer = None
  <2>1. PICK from : from = y.model.start - n
    OBVIOUS
  <2>2. from \in Nat /\ from + n = y.model.start
    BY <1>1, <1>3, <2>1
  <2>3. c = ReadCall(from, n)
    BY <1>3, <2>1
  <2>4. CallOK(c, fs) /\ c.op = "read"
    <3>1. CallOK(ReadCall(from, n), fs) /\ ReadCall(from, n).op = "read"
      BY <1>3, <2>2, 0 \in Nat, CallsAreOK
    <3> QED
      BY <2>3, <3>1
  <2>5. c.offset = from /\ c.limit = n /\ c.answer = None
    BY <2>3 DEF ReadCall, NoCall
  <2> QED
    BY <2>2, <2>4, <2>5
<1>4. CallOK(c, fs)
    BY <1>2, <1>3
<1>5. /\ z \in TailType /\ z.at = x.at /\ z.open = x.open /\ z.drain = x.drain
      /\ z.model = y.model /\ z.raced = y.raced /\ z.earlier = c
    BY <1>4 DEF TailType, CallOK
<1>6. EarlierOK(z)
    BY <1>2, <1>3, <1>5 DEF EarlierOK, Answered
<1>7. Safe(z) => Safe(y)
    BY <1>5 DEF Safe, Shown
<1> QED
    BY <1>1, <1>4, <1>5, <1>6, <1>7 DEF TailOK

(* The step of the tail in EarlierReads.                                   *)
EarlierStep(x) ==
    LET c == x.earlier
        a == c.answer
        before == c.offset + c.limit
        m == IF a.data = <<>> THEN x.model ELSE Prepend(x.model, a.data)
        y == Lost(Lost([x EXCEPT !.model = m], "earlier", c.stale /\ m # x.model),
                  "spliced", ~c.stale /\ a.of # x.model.of)
        wider == Least(2 * c.limit, before)
    IN IF a.is # "ok" \/ m.start < before \/ c.limit >= before \/ wider > m.start
       THEN [(IF a.is = "ok" THEN y ELSE x) EXCEPT !.earlier = NoCall]
       ELSE [y EXCEPT !.earlier = ReadCall(m.start - wider, wider)]

(* loadEarlier keeps the invariant, on whatever answer.                    *)
LEMMA EarlierKeeps ==
    ASSUME NEW x, NEW fs \in Seq(Seq(Bytes)), TailOK(x, fs),
           x.earlier.op # "none", x.earlier.answer # None
    PROVE  TailOK(EarlierStep(x), fs)
<1> DEFINE c == x.earlier
           m == IF c.answer.data = <<>> THEN x.model ELSE Prepend(x.model, c.answer.data)
           y == Scrolled(x, c)
           before == c.offset + c.limit
           n == Least(2 * c.limit, before)
           z == EarlierStep(x)
<1>1. /\ x \in TailType /\ CallOK(c, fs) /\ EarlierOK(x) /\ (Safe(x) => Holds(x.model, fs))
    BY DEF TailOK
<1>2. x.at \in {"open", "closed", "failed"} /\ c.op = "read"
    BY <1>1 DEF EarlierOK
<1>3. c.offset \in Nat /\ c.limit \in Nat /\ c.limit >= 1
    BY <1>1, <1>2 DEF CallOK, Calls
<1>4. n \in Nat /\ n >= 1
    BY <1>3 DEF Least
<1>5. CASE c.answer.is # "ok"
  <2>1. z = [x EXCEPT !.earlier = NoCall]
    BY <1>5 DEF EarlierStep
  <2> HIDE DEF z
  <2>2. TailOK(z, fs)
    BY <1>1, <1>2, <2>1, 0 \in Nat, ScrollEnds
  <2> QED
    BY <2>2 DEF z
<1>6. CASE c.answer.is = "ok"
  <2>1. /\ y \in TailType /\ y.at = x.at /\ y.open = x.open /\ y.drain = x.drain
        /\ y.model = m
        /\ Safe(y) => Holds(y.model, fs)
    BY <1>6, Scrolling DEF Answered
  <2>2. /\ \/ z = [y EXCEPT !.earlier = NoCall]
           \/ ~(n > m.start) /\ z = [y EXCEPT !.earlier = ReadCall(m.start - n, n)]
    BY <1>6 DEF EarlierStep, Scrolled
  <2> HIDE DEF z, y, m, n
  <2>3. m.start \in Nat
    BY <2>1 DEF TailType, Models
  <2>4. ASSUME z = [y EXCEPT !.earlier = NoCall] PROVE TailOK(z, fs)
    BY <1>2, <1>4, <2>1, <2>4, ScrollEnds
  <2>5. ASSUME ~(n > m.start), z = [y EXCEPT !.earlier = ReadCall(m.start - n, n)]
        PROVE  TailOK(z, fs)
    <3>1. n <= y.model.start /\ z = [y EXCEPT !.earlier = ReadCall(y.model.start - n, n)]
      BY <1>4, <2>1, <2>3, <2>5
    <3> QED
      BY <1>2, <1>4, <2>1, <3>1, ScrollEnds
  <2> QED
    BY <2>2, <2>4, <2>5 DEF z
<1> QED
    BY <1>5, <1>6

(* A scroll up asks for what stands before the stretch.                    *)
LEMMA LoadsKeeps ==
    ASSUME NEW x, NEW fs \in Seq(Seq(Bytes)), TailOK(x, fs), x.at = "open",
           NEW want, want = Least(ChunkBytes, x.model.start), want > 0
    PROVE  TailOK([x EXCEPT !.earlier = ReadCall(x.model.start - want, want)], fs)
<1>1. x \in TailType /\ (Safe(x) => Holds(x.model, fs)) /\ x.model.start \in Nat
    BY DEF TailOK, TailType, Models
<1>2. want \in Nat /\ want >= 1 /\ want <= x.model.start
    BY <1>1, TranscriptAssumption DEF Least
<1> QED
    BY <1>1, <1>2, ScrollEnds

-----------------------------------------------------------------------------
(* Files that grow, and what the helper answers                            *)

(* The texts of fs stand, and may have grown at their ends.                *)
Grows(fs, gs) ==
    /\ Len(fs) <= Len(gs)
    /\ \A i \in 1 .. Len(fs) : /\ Len(fs[i]) <= Len(gs[i])
                               /\ \A k \in 1 .. Len(fs[i]) : gs[i][k] = fs[i][k]

(* A piece is a text, an empty one where it would end before it begins.    *)
LEMMA PieceTyped ==
    ASSUME NEW F \in Seq(Bytes), NEW s \in Nat, NEW e \in Nat, e <= Len(F)
    PROVE  Piece(F, s, e) \in Seq(Bytes)
<1>1. CASE s <= e
    BY <1>1, PieceIs
<1>2. CASE s > e
    BY <1>2, SubSeqEmpty, EmptySeq DEF Piece
<1> QED
    BY <1>1, <1>2

(* A piece of a file that grows stays as it is.                            *)
LEMMA PieceStays ==
    ASSUME NEW F \in Seq(Bytes), NEW G \in Seq(Bytes), Len(F) <= Len(G),
           \A k \in 1 .. Len(F) : G[k] = F[k],
           NEW s \in Nat, NEW e \in Nat, e <= Len(F)
    PROVE  Piece(G, s, e) = Piece(F, s, e)
<1>1. Len(F) \in Nat /\ Len(G) \in Nat
    BY LenProperties
<1>2. CASE s <= e
  <2>1. /\ Piece(F, s, e) \in Seq(Bytes) /\ Len(Piece(F, s, e)) = e - s
        /\ \A i \in 1 .. (e - s) : Piece(F, s, e)[i] = F[s + i]
    BY <1>2, PieceIs
  <2>2. /\ Piece(G, s, e) \in Seq(Bytes) /\ Len(Piece(G, s, e)) = e - s
        /\ \A i \in 1 .. (e - s) : Piece(G, s, e)[i] = G[s + i]
    <3>1. e <= Len(G)
      BY <1>1
    <3> QED
      BY <1>2, <3>1, PieceIs
  <2>3. \A i \in 1 .. (e - s) : s + i \in 1 .. Len(F)
    BY <1>1
  <2> QED
    BY <2>1, <2>2, <2>3, SeqEqual
<1>3. CASE s > e
    BY <1>3, SubSeqEmpty DEF Piece
<1> QED
    BY <1>2, <1>3

(* Where a read ends, at the most.                                         *)
LEMMA SpanEnds ==
    ASSUME NEW o \in Nat, NEW n \in Nat
    PROVE  o + Max({n, 1}) \in Nat
BY WindowSpan

(* What was true of the files stays true as they grow.                     *)
LEMMA AnswersStay ==
    ASSUME NEW fs \in Seq(Seq(Bytes)), NEW gs \in Seq(Seq(Bytes)), Grows(fs, gs),
           NEW c, CallOK(c, fs)
    PROVE  CallOK(c, gs)
<1> SUFFICES ASSUME Answered(c) PROVE AnswerIsTrue(c, gs)
    BY DEF CallOK, AnswerIsTrue
<1> DEFINE a == c.answer
           F == fs[a.of]
           G == gs[a.of]
<1>1. /\ c \in Calls /\ a.size \in Nat /\ a.of \in DOMAIN fs /\ F \in Seq(Bytes)
      /\ a.size <= Len(F) /\ Len(F) \in Nat
      /\ c.op # "stat" =>
           a.data = SubSeq(F, c.offset + 1, Least(c.offset + Max({c.limit, 1}), a.size))
    BY AnsweredText DEF CallOK, AnswerIsTrue
<1>2. /\ a.of \in DOMAIN gs /\ G \in Seq(Bytes) /\ Len(F) <= Len(G)
      /\ \A k \in 1 .. Len(F) : G[k] = F[k]
  <2>1. a.of \in 1 .. Len(fs) /\ Len(fs) \in Nat /\ Len(gs) \in Nat
    BY <1>1, LenProperties
  <2>2. a.of \in 1 .. Len(gs)
    BY <2>1 DEF Grows
  <2> QED
    BY <2>1, <2>2, LenProperties, ElementOfSeq DEF Grows
<1>3. PICK n : n = Least(c.offset + Max({c.limit, 1}), a.size)
    OBVIOUS
<1>4. c.offset \in Nat /\ c.limit \in Nat
    BY <1>1 DEF Calls
<1>5. n \in Nat /\ n <= Len(F)
  <2>1. PICK k : k = c.offset + Max({c.limit, 1})
    OBVIOUS
  <2>2. k \in Nat
    BY <1>4, <2>1, SpanEnds
  <2>3. PICK size : size = a.size
    OBVIOUS
  <2>4. n = Least(k, size)
    BY <1>3, <2>1, <2>3
  <2>5. size \in Nat /\ size <= Len(F)
    BY <1>1, <2>3
  <2> QED
    BY <1>1, <2>2, <2>4, <2>5 DEF Least
<1>6. PICK o : o = c.offset
    OBVIOUS
<1> HIDE DEF F, G
<1>7. Piece(G, o, n) = Piece(F, o, n)
    BY <1>1, <1>2, <1>4, <1>5, <1>6, PieceStays
<1>8. c.op # "stat" => a.data = SubSeq(G, c.offset + 1, n)
    BY <1>1, <1>3, <1>6, <1>7 DEF Piece
<1>9. Len(G) \in Nat
    BY <1>2, LenProperties
<1>10. a.size <= Len(G)
    BY <1>1, <1>2, <1>9
<1> QED
    BY <1>2, <1>3, <1>8, <1>10 DEF AnswerIsTrue, G

(* So does what a tail holds.                                              *)
LEMMA HoldsOn ==
    ASSUME NEW fs \in Seq(Seq(Bytes)), NEW gs \in Seq(Seq(Bytes)), Grows(fs, gs),
           NEW m \in Models, Holds(m, fs)
    PROVE  Holds(m, gs)
<1> SUFFICES ASSUME m.of \in DOMAIN fs, Stretch(m, fs[m.of]) PROVE Holds(m, gs)
    BY DEF Holds
<1>1. m.of \in 1 .. Len(fs) /\ Len(fs) \in Nat /\ Len(gs) \in Nat
    BY LenProperties
<1>2. m.of \in 1 .. Len(gs)
    BY <1>1 DEF Grows
<1>3. /\ fs[m.of] \in Seq(Bytes) /\ gs[m.of] \in Seq(Bytes) /\ m.of \in DOMAIN gs
      /\ Len(fs[m.of]) <= Len(gs[m.of])
      /\ \A k \in 1 .. Len(fs[m.of]) : gs[m.of][k] = fs[m.of][k]
    BY <1>1, <1>2, ElementOfSeq, LenProperties DEF Grows
<1>4. Stretch(m, gs[m.of])
    BY <1>3, StretchGrows
<1> QED
    BY <1>3, <1>4 DEF Holds

(* And so all that is claimed of a tail.                                   *)
LEMMA GrowthKeeps ==
    ASSUME NEW fs \in Seq(Seq(Bytes)), NEW gs \in Seq(Seq(Bytes)), Grows(fs, gs),
           NEW x, TailOK(x, fs)
    PROVE  TailOK(x, gs)
<1>1. CallOK(x.open, gs) /\ CallOK(x.drain, gs) /\ CallOK(x.earlier, gs)
    BY AnswersStay DEF TailOK
<1>2. Safe(x) => Holds(x.model, gs)
    BY HoldsOn DEF TailOK, TailType
<1> QED
    BY <1>1, <1>2 DEF TailOK

(* A file made anew begins empty, behind the ones before.                  *)
LEMMA MadeAnew ==
    ASSUME NEW fs \in Seq(Seq(Bytes))
    PROVE  Append(fs, <<>>) \in Seq(Seq(Bytes)) /\ Grows(fs, Append(fs, <<>>))
<1>1. <<>> \in Seq(Bytes) /\ Len(fs) \in Nat
    BY EmptySeq, LenProperties
<1>2. /\ Append(fs, <<>>) \in Seq(Seq(Bytes)) /\ Len(Append(fs, <<>>)) = Len(fs) + 1
      /\ \A i \in 1 .. Len(fs) : Append(fs, <<>>)[i] = fs[i]
    BY <1>1, AppendProperties
<1>3. \A i \in 1 .. Len(fs) : fs[i] \in Seq(Bytes) /\ Len(fs[i]) \in Nat
    BY ElementOfSeq, LenProperties
<1> QED
    BY <1>1, <1>2, <1>3 DEF Grows

(* One of the files grows, the others stay.                                *)
LEMMA LastGrows ==
    ASSUME NEW fs \in Seq(Seq(Bytes)), NEW n \in 1 .. Len(fs), NEW G \in Seq(Bytes),
           Len(fs[n]) <= Len(G), \A k \in 1 .. Len(fs[n]) : G[k] = fs[n][k],
           NEW gs, gs = [fs EXCEPT ![n] = G]
    PROVE  gs \in Seq(Seq(Bytes)) /\ Grows(fs, gs)
<1>1. PICK S : S = Seq(Bytes)
    OBVIOUS
<1>2. /\ gs \in Seq(S) /\ Len(gs) = Len(fs)
      /\ \A i \in 1 .. Len(fs) : gs[i] = IF i = n THEN G ELSE fs[i]
    BY <1>1, ExceptSeq
<1>3. \A i \in 1 .. Len(fs) : fs[i] \in Seq(Bytes) /\ Len(fs[i]) \in Nat
    BY ElementOfSeq, LenProperties
<1>4. ASSUME NEW i \in 1 .. Len(fs)
      PROVE  /\ Len(fs[i]) <= Len(gs[i])
             /\ \A k \in 1 .. Len(fs[i]) : gs[i][k] = fs[i][k]
  <2>1. CASE i = n
    <3>1. gs[i] = G
      BY <1>2, <2>1
    <3> QED
      BY <2>1, <3>1
  <2>2. CASE i # n
    <3>1. gs[i] = fs[i] /\ Len(fs[i]) \in Nat
      BY <1>2, <1>3, <2>2
    <3> QED
      BY <3>1
  <2> QED
    BY <2>1, <2>2
<1>5. Len(fs) \in Nat
    BY LenProperties
<1> QED
    BY <1>1, <1>2, <1>4, <1>5 DEF Grows

(* A byte is written to the last file.                                     *)
LEMMA OneByteMore ==
    ASSUME NEW fs \in Seq(Seq(Bytes)), fs # <<>>, NEW b \in Bytes,
           NEW gs, gs = [fs EXCEPT ![Len(fs)] = Append(fs[Len(fs)], b)]
    PROVE  gs \in Seq(Seq(Bytes)) /\ Grows(fs, gs)
<1>1. PICK n : n = Len(fs)
    OBVIOUS
<1>2. Len(fs) \in Nat \ {0}
    BY EmptySeq
<1>3. n \in 1 .. Len(fs) /\ fs[n] \in Seq(Bytes)
    BY <1>1, <1>2, ElementOfSeq
<1>4. PICK G : G = Append(fs[n], b)
    OBVIOUS
<1>5. /\ G \in Seq(Bytes) /\ Len(G) = Len(fs[n]) + 1
      /\ \A k \in 1 .. Len(fs[n]) : G[k] = fs[n][k]
      /\ Len(fs[n]) \in Nat
    BY <1>3, <1>4, AppendProperties, LenProperties
<1>6. Len(fs[n]) <= Len(G) /\ gs = [fs EXCEPT ![n] = G]
    BY <1>1, <1>4, <1>5
<1> QED
    BY <1>3, <1>5, <1>6, LastGrows

(* The helper's answers                                                    *)
Replies(fs, a) ==
    a.is = "ok" => /\ fs # <<>> /\ a.of = Len(fs) /\ a.size = Len(fs[Len(fs)])

IsReply(t, c, a) == a = Truth(t, c) \/ a = Failure

(* What the helper answers is true, and of the last file.                  *)
LEMMA RepliesAreTrue ==
    ASSUME NEW t \in Tails, files[t] \in Seq(Seq(Bytes)), NEW c, CallOK(c, files[t]),
           NEW a, IsReply(t, c, a)
    PROVE  LET d == [c EXCEPT !.answer = a]
           IN  /\ CallOK(d, files[t]) /\ Replies(files[t], a)
               /\ d.op = c.op /\ d.offset = c.offset /\ d.limit = c.limit
               /\ d.stale = c.stale /\ d.answer = a
<1> DEFINE fs == files[t]
           F == fs[Len(fs)]
           d == [c EXCEPT !.answer = a]
<1>1. c \in Calls /\ c.offset \in Nat /\ c.limit \in Nat
    BY DEF CallOK, Calls
<1>2. /\ d.op = c.op /\ d.offset = c.offset /\ d.limit = c.limit /\ d.size = c.size
      /\ d.stale = c.stale /\ d.answer = a
    BY <1>1 DEF Calls
<1>5. a = Truth(t, c) \/ a = Failure
    BY DEF IsReply
<1>3. CASE fs = <<>> \/ a = Failure
  <2>1. a.is # "ok" /\ a \in Answers
    BY <1>3, <1>5 DEF Truth, Failure, Answers
  <2>2. d \in Calls
    BY <1>1, <2>1 DEF Calls
  <2> QED
    BY <1>2, <2>1, <2>2 DEF CallOK, AnswerIsTrue, Answered, Replies
<1>4. CASE fs # <<>> /\ a = Truth(t, c)
  <2>1. /\ Len(fs) \in 1 .. Len(fs) /\ Len(fs) \in Nat /\ Len(fs) \in DOMAIN fs
        /\ F \in Seq(Bytes)
    <3>1. Len(fs) \in Nat \ {0}
      BY <1>4, EmptySeq
    <3>2. Len(fs) \in 1 .. Len(fs)
      BY <3>1
    <3> QED
      BY <3>1, <3>2, ElementOfSeq, LenProperties
  <2>2. Len(F) \in Nat
    BY <2>1, LenProperties
  <2>3. PICK n : n = Least(c.offset + Max({c.limit, 1}), Len(F))
    OBVIOUS
  <2>4. n \in Nat /\ n <= Len(F)
    <3>1. PICK k : k = c.offset + Max({c.limit, 1})
      OBVIOUS
    <3>2. k \in Nat
      BY <1>1, <3>1, SpanEnds
    <3> QED
      BY <2>2, <2>3, <3>1, <3>2 DEF Least
  <2>5. a = [is |-> "ok", size |-> Len(F), of |-> Len(fs),
             data |-> IF c.op = "stat" THEN <<>> ELSE SubSeq(F, c.offset + 1, n)]
    BY <1>4, <2>3 DEF Truth, File, Last
  <2>6. PICK o : o = c.offset
    OBVIOUS
  <2> HIDE DEF F
  <2>7. SubSeq(F, c.offset + 1, n) \in Seq(Bytes) /\ <<>> \in Seq(Bytes)
    BY <1>1, <2>1, <2>4, <2>6, PieceTyped, EmptySeq DEF Piece
  <2>8. /\ a.is = "ok" /\ a.size = Len(F) /\ a.of = Len(fs) /\ a \in Answers
        /\ c.op # "stat" => a.data = SubSeq(F, c.offset + 1, n)
    BY <2>1, <2>2, <2>5, <2>7 DEF Answers
  <2>9. d \in Calls
    BY <1>1, <2>8 DEF Calls
  <2>10. AnswerIsTrue(d, fs)
    <3>1. fs[a.of] = F /\ a.of \in DOMAIN fs /\ a.size <= Len(F)
      BY <2>1, <2>2, <2>8 DEF F
    <3>2. n = Least(d.offset + Max({d.limit, 1}), a.size)
      BY <1>2, <2>3, <2>8
    <3> QED
      BY <1>2, <2>8, <3>1, <3>2 DEF AnswerIsTrue
  <2> QED
    BY <1>2, <1>4, <2>8, <2>9, <2>10 DEF CallOK, Replies, F
<1> QED
    BY <1>3, <1>4, <1>5

(* An answer keeps the invariant: the last file is no shorter than what is *)
(* held of it.                                                             *)
LEMMA ServingKeeps ==
    ASSUME NEW t \in Tails, files[t] \in Seq(Seq(Bytes)),
           NEW x, TailOK(x, files[t]), NEW job \in Jobs,
           NEW a, IsReply(t, x[job], a)
    PROVE  TailOK([x EXCEPT ![job].answer = a], files[t])
<1> DEFINE fs == files[t]
           d == [x[job] EXCEPT !.answer = a]
           y == [x EXCEPT ![job] = d]
<1>0. [x EXCEPT ![job].answer = a] = y
    OBVIOUS
<1>1. /\ x \in TailType /\ CallOK(x.open, fs) /\ CallOK(x.drain, fs) /\ CallOK(x.earlier, fs)
      /\ x.open.op # "none" => x.at = "reading"
      /\ EarlierOK(x) /\ (Safe(x) => Holds(x.model, fs))
    BY DEF TailOK
<1>2. CallOK(x[job], fs)
    BY <1>1 DEF Jobs
<1>3. /\ CallOK(d, fs) /\ Replies(fs, a) /\ d \in Calls
      /\ d.op = x[job].op /\ d.offset = x[job].offset /\ d.limit = x[job].limit
      /\ d.stale = x[job].stale /\ d.answer = a
  <2>1. PICK c : c = x[job]
    OBVIOUS
  <2>2. CallOK(c, fs) /\ IsReply(t, c, a) /\ d = [c EXCEPT !.answer = a]
    BY <1>2, <2>1
  <2>3. /\ CallOK(d, fs) /\ Replies(fs, a)
        /\ d.op = c.op /\ d.offset = c.offset /\ d.limit = c.limit
        /\ d.stale = c.stale /\ d.answer = a
    <3>1. CallOK(c, files[t]) /\ IsReply(t, c, a)
      BY <2>2
    <3>2. CallOK([c EXCEPT !.answer = a], files[t]) /\ Replies(files[t], a)
      BY <3>1, RepliesAreTrue
    <3>3. LET e == [c EXCEPT !.answer = a]
          IN  /\ e.op = c.op /\ e.offset = c.offset /\ e.limit = c.limit
              /\ e.stale = c.stale /\ e.answer = a
      BY <3>1, RepliesAreTrue
    <3> QED
      BY <2>2, <3>2, <3>3
  <2> QED
    BY <2>1, <2>3 DEF CallOK
<1> HIDE DEF d
<1>4. CASE job = "open"
  <2>1. /\ y \in TailType /\ y.at = x.at /\ y.open = d /\ y.drain = x.drain
        /\ y.earlier = x.earlier /\ y.model = x.model /\ y.raced = x.raced
    BY <1>1, <1>3, <1>4 DEF TailType
  <2> HIDE DEF y
  <2> QED
    BY <1>0, <1>1, <1>3, <1>4, <2>1 DEF TailOK, EarlierOK, Safe, Shown
<1>5. CASE job = "drain"
  <2>1. /\ y \in TailType /\ y.at = x.at /\ y.open = x.open /\ y.drain = d
        /\ y.earlier = x.earlier /\ y.model = x.model /\ y.raced = x.raced
    BY <1>1, <1>3, <1>5 DEF TailType
  <2> HIDE DEF y
  <2> QED
    BY <1>0, <1>1, <1>3, <1>5, <2>1 DEF TailOK, EarlierOK, Safe, Shown
<1>6. CASE job = "earlier"
  <2>1. /\ y \in TailType /\ y.at = x.at /\ y.open = x.open /\ y.drain = x.drain
        /\ y.earlier = d /\ y.model = x.model /\ y.raced = x.raced
    BY <1>1, <1>3, <1>6 DEF TailType
  <2> HIDE DEF y
  <2>2. ASSUME Safe(y), a # None, a.is = "ok", a.of = y.model.of
        PROVE  y.model.start <= a.size
    <3>1. Holds(x.model, fs) /\ x.model \in Models
      BY <1>1, <2>1, <2>2 DEF Safe, Shown, TailType
    <3>2. fs # <<>> /\ a.of = Len(fs) /\ a.size = Len(fs[Len(fs)])
      BY <1>3, <2>2 DEF Replies
    <3>3. Len(fs[Len(fs)]) \in Nat
      <4>1. Len(fs) \in Nat \ {0}
        BY <3>2, EmptySeq
      <4>2. Len(fs) \in 1 .. Len(fs)
        BY <4>1
      <4> QED
        BY <4>2, ElementOfSeq, LenProperties
    <3>4. CASE x.model = Blank
      BY <2>1, <3>2, <3>3, <3>4 DEF Blank
    <3>5. CASE Stretch(x.model, fs[x.model.of])
      BY <2>1, <2>2, <3>1, <3>2, <3>3, <3>5 DEF Stretch, Models
    <3> QED
      BY <3>1, <3>4, <3>5 DEF Holds
  <2>3. EarlierOK(y)
    BY <1>1, <1>3, <1>6, <2>1, <2>2 DEF EarlierOK, Answered, Safe, Shown
  <2> QED
    BY <1>0, <1>1, <1>3, <2>1, <2>3 DEF TailOK, Safe, Shown
<1> QED
    BY <1>4, <1>5, <1>6 DEF Jobs

-----------------------------------------------------------------------------
(* A tail's steps keep its invariant                                       *)

(* A step that is about the watch, the knock, or a wait.                   *)
LEMMA Aside ==
    ASSUME NEW x, NEW fs, TailOK(x, fs), NEW y \in TailType,
           y.at = x.at, y.model = x.model, y.open = x.open, y.drain = x.drain,
           y.earlier = x.earlier, y.raced = x.raced
    PROVE  TailOK(y, fs)
BY DEF TailOK, EarlierOK, Safe, Shown

(* The steps of the subscription and of the knock.                         *)
LEMMA AskingKeeps ==
    ASSUME NEW x, NEW fs, TailOK(x, fs), NEW y,
           \/ x.at = "new" /\ y = [x EXCEPT !.at = "subscribing", !.ask = "sent"]
           \/ y = [x EXCEPT !.knock = "subscribing", !.ask = "sent"]
           \/ y = [x EXCEPT !.ask = "refused"]
           \/ \E id \in Nat : y = [x EXCEPT !.ask = "taken", !.given = id]
           \/ y = [x EXCEPT !.knock = "none", !.ask = "none", !.given = None]
           \/ y = [x EXCEPT !.knock = "refreshing"]
    PROVE  TailOK(y, fs)
<1>1. x \in TailType /\ CallOK(x.drain, fs) /\ CallOK(x.open, fs)
    BY DEF TailOK
<1>2. CASE x.at = "new" /\ y = [x EXCEPT !.at = "subscribing", !.ask = "sent"]
  <2>1. /\ y \in TailType /\ y.at = "subscribing" /\ y.model = x.model /\ y.open = x.open
        /\ y.drain = x.drain /\ y.earlier = x.earlier
    BY <1>1, <1>2 DEF TailType
  <2>2. y.open.op = "none" /\ y.earlier.op = "none"
    BY <1>2, <2>1 DEF TailOK, EarlierOK
  <2> QED
    BY <1>1, <2>1, <2>2, Keeping DEF Safe, Shown
<1>3. CASE \/ y = [x EXCEPT !.knock = "subscribing", !.ask = "sent"]
           \/ y = [x EXCEPT !.ask = "refused"]
           \/ y = [x EXCEPT !.knock = "refreshing"]
  <2>1. /\ y \in TailType /\ y.at = x.at /\ y.model = x.model /\ y.open = x.open
        /\ y.drain = x.drain /\ y.earlier = x.earlier /\ y.raced = x.raced
    BY <1>1, <1>3 DEF TailType
  <2> QED
    BY <2>1, Aside
<1>4. CASE \/ \E id \in Nat : y = [x EXCEPT !.ask = "taken", !.given = id]
           \/ y = [x EXCEPT !.knock = "none", !.ask = "none", !.given = None]
  <2>1. /\ y \in TailType /\ y.at = x.at /\ y.model = x.model /\ y.open = x.open
        /\ y.drain = x.drain /\ y.earlier = x.earlier /\ y.raced = x.raced
    BY <1>1, <1>4 DEF TailType
  <2> QED
    BY <2>1, Aside
<1> QED
    BY <1>2, <1>3, <1>4

(* A tail that listens is the same but for its subscription.               *)
LEMMA Listening ==
    ASSUME NEW x \in TailType
    PROVE  LET y == Listens(x)
           IN  /\ y \in TailType /\ y.at = x.at /\ y.model = x.model /\ y.open = x.open
               /\ y.drain = x.drain /\ y.earlier = x.earlier /\ y.raced = x.raced
BY DEF Listens, TailType

(* open goes on to its window once it listens.                             *)
LEMMA OpenListensKeeps ==
    ASSUME NEW x, NEW fs, TailOK(x, fs), x.at = "subscribing"
    PROVE  TailOK(ReadTail([Listens(x) EXCEPT !.at = "reading"], "open"), fs)
<1> DEFINE u == Listens(x)
           y == ReadTail([u EXCEPT !.at = "reading"], "open")
<1>1. x \in TailType /\ CallOK(x.drain, fs) /\ x.earlier.op = "none"
    BY DEF TailOK, EarlierOK
<1>2. /\ u \in TailType /\ u.model = x.model
      /\ u.drain = x.drain /\ u.earlier = x.earlier
    BY <1>1, Listening
<1>3. y = [u EXCEPT !.at = "reading", !.open = StatCall]
    BY DEF ReadTail
<1>4. CallOK(StatCall, fs) /\ StatCall \in Calls
    BY CallsAreOK, 0 \in Nat DEF CallOK
<1> HIDE DEF u, y
<1>5. /\ y \in TailType /\ y.at = "reading" /\ y.model = x.model /\ y.open = StatCall
      /\ y.drain = x.drain /\ y.earlier = x.earlier
    BY <1>2, <1>3, <1>4 DEF TailType
<1>6. TailOK(y, fs)
    BY <1>1, <1>4, <1>5, Keeping DEF Safe, Shown
<1> QED
    BY <1>6 DEF y, u

(* The first window is in order before it is answered.                     *)
LEMMA WindowIsAsked ==
    ASSUME NEW fs \in Seq(Seq(Bytes)), NEW size \in Nat
    PROVE  LET c == WindowCall(size, Least(WindowBytes, size))
           IN  CallOK(c, fs) /\ c.op = "window" /\ c \in Calls
<1>1. PICK n : n = Least(WindowBytes, size)
    OBVIOUS
<1>2. n \in Nat /\ n <= size /\ (n = 0 => size = 0)
    BY <1>1, TranscriptAssumption DEF Least
<1>3. CallOK(WindowCall(size, n), fs) /\ WindowCall(size, n).op = "window"
    BY <1>2, CallsAreOK
<1> QED
    BY <1>1, <1>3 DEF CallOK

(* Asking for it keeps the invariant.                                      *)
LEMMA AskWindowKeeps ==
    ASSUME NEW x, NEW fs \in Seq(Seq(Bytes)), TailOK(x, fs), NEW size \in Nat
    PROVE  /\ x.at = "reading" => TailOK(AskWindow(x, "open", size), fs)
           /\ TailOK(AskWindow(x, "drain", size), fs)
<1> DEFINE c == WindowCall(size, Least(WindowBytes, size))
           y == AskWindow(x, "open", size)
           z == AskWindow(x, "drain", size)
<1>1. CallOK(c, fs) /\ c.op = "window" /\ c \in Calls
    BY WindowIsAsked
<1>2. y = [x EXCEPT !.open = c] /\ z = [x EXCEPT !.drain = c]
    BY DEF AskWindow
<1>3. x \in TailType /\ CallOK(x.drain, fs) /\ CallOK(x.open, fs)
      /\ (x.open.op # "none" => x.at = "reading")
      /\ (x.earlier.op # "none" => x.at \in {"open", "closed", "failed"})
    BY DEF TailOK, EarlierOK
<1> HIDE DEF c, y, z
<1>4. /\ y \in TailType /\ y.at = x.at /\ y.model = x.model /\ y.open = c
      /\ y.drain = x.drain /\ y.earlier = x.earlier /\ y.raced = x.raced
    BY <1>1, <1>2, <1>3 DEF TailType
<1>5. ASSUME x.at = "reading" PROVE TailOK(y, fs)
    BY <1>1, <1>3, <1>4, <1>5, Keeping DEF Safe, Shown
<1>6. /\ z \in TailType /\ z.at = x.at /\ z.model = x.model /\ z.open = x.open
      /\ z.drain = c /\ z.earlier = x.earlier /\ z.raced = x.raced
    BY <1>1, <1>2, <1>3 DEF TailType
<1>7. TailOK(z, fs)
    BY <1>1, <1>6, Draining
<1> QED
    BY <1>5, <1>7 DEF y, z

(* So does a close.                                                        *)
LEMMA ShutKeeps ==
    ASSUME NEW x, NEW fs, TailOK(x, fs), NEW at \in {"closed", "failed"}
    PROVE  TailOK(Shut(x, at), fs)
<1> DEFINE y == Shut(x, at)
<1>1. x \in TailType /\ CallOK(x.drain, fs)
    BY DEF TailOK
<1>2. CallOK(NoCall, fs) /\ NoCall \in Calls /\ NoCall.op = "none"
    BY CallsAreOK, 0 \in Nat DEF CallOK
<1>3. /\ y \in TailType /\ y.at = at /\ y.model = x.model /\ y.open = NoCall
      /\ y.drain = x.drain /\ y.earlier = x.earlier
    BY <1>1, <1>2 DEF Shut, TailType
<1> HIDE DEF y
<1>4. TailOK(y, fs)
    BY <1>1, <1>2, <1>3, Keeping DEF Safe, Shown
<1> QED
    BY <1>4 DEF y

(* A drain that fails keeps the invariant: in a window it tears the model, *)
(* and that is a race lost.                                                *)
LEMMA FailingKeeps ==
    ASSUME NEW x, NEW fs, TailOK(x, fs)
    PROVE  TailOK(EndDrain(Lost(x, IF x.drain.op = "window" THEN "torn" ELSE "failed", TRUE)), fs)
<1>1. PICK race : race = IF x.drain.op = "window" THEN "torn" ELSE "failed"
    OBVIOUS
<1>2. race \in Races
    BY <1>1 DEF Races
<1> DEFINE y == Lost(x, race, TRUE)
<1>3. x \in TailType /\ CallOK(x.drain, fs)
    BY DEF TailOK
<1>4. y = Loses(x, race)
    BY DEF Lost, Loses
<1> HIDE DEF y
<1>5. /\ y \in TailType
      /\ y.at = x.at /\ y.model = x.model /\ y.open = x.open
      /\ y.drain = x.drain /\ y.earlier = x.earlier
      /\ x.raced \subseteq y.raced /\ race \in y.raced
    BY <1>2, <1>3, <1>4, Losing
<1>6. TailOK(y, fs)
    BY <1>3, <1>5, Draining
<1>7. y.drain.op = "window" => ~(y.raced \subseteq {"failed"})
    BY <1>1, <1>5
<1>8. TailOK(EndDrain(y), fs)
    BY <1>6, <1>7, EndDrainKeeps
<1> QED
    BY <1>1, <1>8 DEF y

(* The answers of open, and of the drain, as steps of the tail.            *)
OpenStep(x, y) ==
    LET c == x.open
        a == c.answer
        z == TakeWindow(x, c, "open")
    IN  \/ a.is = "ok" /\ c.op = "stat" /\ y = AskWindow(x, "open", a.size)
        \/ a.is = "ok" /\ c.op = "window" /\ y = IF z.open = NoCall THEN Opened(z) ELSE z
        \/ y = Opened(HoldEmpty(x))
        \/ y = Shut(x, "failed")
DrainStep(x, y) ==
    LET c == x.drain
        a == c.answer
        z == TakeWindow(x, c, "drain")
    IN  \/ a.is = "ok" /\ c.op = "read" /\ y = TakeChunk(x, c)
        \/ a.is = "ok" /\ c.op = "stat" /\ y = AskWindow(x, "drain", a.size)
        \/ a.is = "ok" /\ c.op = "window" /\ y = IF z.drain = NoCall THEN EndPass(z) ELSE z
        \/ c.op # "window" /\ y = EndPass(HoldEmpty(x))
        \/ y = EndDrain(Lost(x, IF c.op = "window" THEN "torn" ELSE "failed", TRUE))

(* open on an answer keeps the invariant.                                  *)
LEMMA OpenStepKeeps ==
    ASSUME NEW x, NEW fs \in Seq(Seq(Bytes)), TailOK(x, fs),
           x.open.op # "none", x.open.answer # None, NEW y, OpenStep(x, y)
    PROVE  TailOK(y, fs)
<1> DEFINE c == x.open
           a == c.answer
           z == TakeWindow(x, c, "open")
<1>1. x.at = "reading" /\ CallOK(c, fs)
    BY DEF TailOK
<1>2. CASE a.is = "ok" /\ c.op = "stat" /\ y = AskWindow(x, "open", a.size)
  <2>1. a.size \in Nat
    BY <1>1, <1>2, AnsweredText DEF CallOK, Answered
  <2> QED
    BY <1>1, <1>2, <2>1, AskWindowKeeps
<1>3. CASE a.is = "ok" /\ c.op = "window" /\ y = IF z.open = NoCall THEN Opened(z) ELSE z
  <2>1. /\ TailOK(z, fs) /\ z.at = "reading"
        /\ z.open = NoCall /\ z.raced \subseteq {"failed"} => Holds(z.model, fs)
    BY <1>3, OpenTakesWindow DEF Answered
  <2>2. y = IF z.open = NoCall THEN Opened(z) ELSE z
    BY <1>3
  <2> HIDE DEF z
  <2> QED
    BY <2>1, <2>2, OpenedKeeps
<1>4. CASE y = Opened(HoldEmpty(x))
  <2> DEFINE u == HoldEmpty(x)
  <2>1. TailOK(u, fs) /\ u.at = "reading" /\ Holds(u.model, fs)
    BY <1>1, HoldEmptyKeeps DEF Holds
  <2>2. y = Opened(u)
    BY <1>4
  <2> HIDE DEF u
  <2> QED
    BY <2>1, <2>2, OpenedKeeps
<1>5. CASE y = Shut(x, "failed")
    BY <1>5, ShutKeeps
<1> QED
    BY <1>2, <1>3, <1>4, <1>5 DEF OpenStep

(* The drain on an answer keeps the invariant.                             *)
LEMMA DrainStepKeeps ==
    ASSUME NEW x, NEW fs \in Seq(Seq(Bytes)), TailOK(x, fs),
           x.drain.op # "none", x.drain.answer # None, NEW y, DrainStep(x, y)
    PROVE  TailOK(y, fs)
<1> DEFINE c == x.drain
           a == c.answer
           z == TakeWindow(x, c, "drain")
<1>1. CallOK(c, fs)
    BY DEF TailOK
<1>2. CASE a.is = "ok" /\ c.op = "read" /\ y = TakeChunk(x, c)
    BY <1>2, ChunkKeeps DEF Answered
<1>3. CASE a.is = "ok" /\ c.op = "stat" /\ y = AskWindow(x, "drain", a.size)
  <2>1. a.size \in Nat
    BY <1>1, <1>3, AnsweredText DEF CallOK, Answered
  <2> QED
    BY <1>3, <2>1, AskWindowKeeps
<1>4. CASE a.is = "ok" /\ c.op = "window" /\ y = IF z.drain = NoCall THEN EndPass(z) ELSE z
  <2>1. TailOK(z, fs)
    BY <1>4, DrainTakesWindow DEF Answered
  <2>2. y = IF z.drain = NoCall THEN EndPass(z) ELSE z
    BY <1>4
  <2>3. NoCall.op = "none"
    BY DEF NoCall
  <2> HIDE DEF z
  <2> QED
    BY <2>1, <2>2, <2>3, EndPassKeeps
<1>5. CASE c.op # "window" /\ y = EndPass(HoldEmpty(x))
  <2> DEFINE u == HoldEmpty(x)
  <2>1. TailOK(u, fs) /\ u.drain = x.drain
    BY HoldEmptyKeeps
  <2>2. y = EndPass(u)
    BY <1>5
  <2> HIDE DEF u
  <2> QED
    BY <1>5, <2>1, <2>2, EndPassKeeps
<1>6. CASE y = EndDrain(Lost(x, IF c.op = "window" THEN "torn" ELSE "failed", TRUE))
    BY <1>6, FailingKeeps
<1> QED
    BY <1>2, <1>3, <1>4, <1>5, <1>6 DEF DrainStep

-----------------------------------------------------------------------------
(* The invariant, and what follows                                         *)

(* The inductive invariant: the files are texts, and every tail is in order. *)
TextsOK == files \in [Tails -> Seq(Seq(Bytes))]
WatchOK == watch \in Nat \cup {None} /\ minted \in Nat
TailsOK == tail \in [Tails -> TailType] /\ \A t \in Tails : TailOK(tail[t], files[t])
TranscriptInvariant == TextsOK /\ WatchOK /\ TailsOK

(* One tail's step, over files that stay.                                  *)
LEMMA OneTail ==
    ASSUME TailsOK, NEW t \in Tails, NEW y, TailOK(y, files[t]),
           tail' = [tail EXCEPT ![t] = y], files' = files
    PROVE  TailsOK'
<1>1. y \in TailType /\ tail \in [Tails -> TailType]
    BY DEF TailOK, TailsOK
<1>2. tail' \in [Tails -> TailType]
    BY <1>1
<1>3. ASSUME NEW s \in Tails PROVE TailOK(tail'[s], files'[s])
  <2>1. CASE s = t
    <3>1. tail'[s] = y /\ files'[s] = files[t]
      BY <1>1, <2>1
    <3> QED
      BY <3>1
  <2>2. CASE s # t
    <3>1. tail'[s] = tail[s] /\ files'[s] = files[s] /\ TailOK(tail[s], files[s])
      BY <1>1, <2>2 DEF TailsOK
    <3> QED
      BY <3>1
  <2> QED
    BY <2>1, <2>2
<1> QED
    BY <1>2, <1>3 DEF TailsOK

(* One file's growth, over tails that stay.                                *)
LEMMA OneFile ==
    ASSUME TextsOK, TailsOK, NEW t \in Tails, NEW gs \in Seq(Seq(Bytes)), Grows(files[t], gs),
           files' = [files EXCEPT ![t] = gs], tail' = tail
    PROVE  TextsOK' /\ TailsOK'
<1>1. files \in [Tails -> Seq(Seq(Bytes))] /\ tail \in [Tails -> TailType]
    BY DEF TextsOK, TailsOK
<1>2. files' \in [Tails -> Seq(Seq(Bytes))]
    BY <1>1
<1>3. ASSUME NEW s \in Tails PROVE TailOK(tail'[s], files'[s])
  <2>1. TailOK(tail[s], files[s]) /\ files[s] \in Seq(Seq(Bytes)) /\ tail'[s] = tail[s]
    BY <1>1 DEF TailsOK
  <2>2. CASE s = t
    <3>1. files'[s] = gs /\ TailOK(tail[s], gs)
      BY <1>1, <2>1, <2>2, GrowthKeeps
    <3> QED
      BY <2>1, <3>1
  <2>3. CASE s # t
    <3>1. files'[s] = files[s]
      BY <1>1, <2>3
    <3> QED
      BY <2>1, <3>1
  <2> QED
    BY <2>2, <2>3
<1> QED
    BY <1>1, <1>2, <1>3 DEF TextsOK, TailsOK

(* A file made anew keeps the invariant.                                   *)
LEMMA FileIsMadeKeeps ==
    ASSUME TextsOK, TailsOK, NEW t \in Tails, FileIsMade(t)
    PROVE  TextsOK' /\ TailsOK'
<1>1. files[t] \in Seq(Seq(Bytes))
    BY DEF TextsOK
<1>2. PICK gs : gs = Append(files[t], <<>>)
    OBVIOUS
<1>3. gs \in Seq(Seq(Bytes)) /\ Grows(files[t], gs)
    BY <1>1, <1>2, MadeAnew
<1>4. files' = [files EXCEPT ![t] = gs] /\ tail' = tail
    BY <1>2 DEF FileIsMade
<1> QED
    BY <1>3, <1>4, OneFile

(* A file that grows keeps the invariant: a byte begins a line or ends the *)
(* one before it.                                                          *)
LEMMA FileGrowsKeeps ==
    ASSUME TextsOK, TailsOK, NEW t \in Tails, FileGrows(t)
    PROVE  TextsOK' /\ TailsOK'
<1> DEFINE fs == files[t]
           bytes == File(t)
           starts == bytes = <<>> \/ Last(bytes).last
           line == IF starts THEN <<Len(files[t]), Len(bytes)>> ELSE Last(bytes).line
<1>1. fs \in Seq(Seq(Bytes)) /\ fs # <<>>
    BY DEF TextsOK, FileGrows
<1>2. Len(fs) \in Nat \ {0}
    BY <1>1, EmptySeq
<1>3. bytes = fs[Len(fs)] /\ bytes \in Seq(Bytes) /\ Len(bytes) \in Nat
  <2>1. Len(fs) \in 1 .. Len(fs)
    BY <1>2
  <2> QED
    BY <1>1, <2>1, ElementOfSeq, LenProperties DEF File, Last
<1>4. line \in Lines
  <2>1. CASE starts
    BY <1>2, <1>3, <2>1 DEF Lines
  <2>2. CASE ~starts
    <3>1. Len(bytes) \in Nat \ {0}
      BY <1>3, <2>2, EmptySeq
    <3>2. Len(bytes) \in 1 .. Len(bytes)
      BY <3>1
    <3>3. Last(bytes) \in Bytes
      BY <1>3, <3>2, ElementOfSeq DEF Last
    <3> QED
      BY <2>2, <3>3 DEF Bytes
  <2> QED
    BY <2>1, <2>2
<1>5. PICK last \in BOOLEAN :
        files' = [files EXCEPT ![t][Len(files[t])] =
                     Append(@, [line |-> line, first |-> starts, last |-> last])]
    BY DEF FileGrows
<1>6. PICK b : b = [line |-> line, first |-> starts, last |-> last]
    OBVIOUS
<1>7. b \in Bytes
  <2>1. starts \in BOOLEAN
    OBVIOUS
  <2> HIDE DEF line, starts
  <2> QED
    BY <1>4, <1>6, <2>1 DEF Bytes
<1>8. PICK gs : gs = [fs EXCEPT ![Len(fs)] = Append(fs[Len(fs)], b)]
    OBVIOUS
<1>9. gs \in Seq(Seq(Bytes)) /\ Grows(fs, gs)
    BY <1>1, <1>7, <1>8, OneByteMore
<1>10. files' = [files EXCEPT ![t] = gs]
    BY <1>5, <1>6, <1>8
<1>11. tail' = tail
    BY DEF FileGrows
<1> QED
    BY <1>9, <1>10, <1>11, OneFile

(* A subscription that is given, shared or refused keeps the invariant.    *)
LEMMA SubscribesKeeps ==
    ASSUME TextsOK, WatchOK, TailsOK, NEW t \in Tails, Subscribes(t)
    PROVE  TextsOK' /\ WatchOK' /\ TailsOK'
<1>1. TailOK(tail[t], files[t]) /\ tail \in [Tails -> TailType]
    BY DEF TailsOK
<1>2. files' = files /\ TextsOK'
    BY DEF Subscribes, TextsOK
<1>3. WatchOK'
    BY DEF Subscribes, WatchOK
<1>4. PICK x : x = tail[t]
    OBVIOUS
<1>5. \E y : /\ tail' = [tail EXCEPT ![t] = y]
             /\ \/ y = [x EXCEPT !.ask = "refused"]
                \/ \E id \in Nat : y = [x EXCEPT !.ask = "taken", !.given = id]
  <2>1. CASE watch # None /\ tail' = [tail EXCEPT ![t].ask = "taken", ![t].given = watch]
    <3>1. watch \in Nat
      BY <2>1 DEF WatchOK
    <3>2. tail' = [tail EXCEPT ![t] = [x EXCEPT !.ask = "taken", !.given = watch]]
      BY <1>1, <1>4, <2>1
    <3> QED
      BY <3>1, <3>2
  <2>2. CASE tail' = [tail EXCEPT ![t].ask = "taken", ![t].given = minted + 1]
    <3>1. minted + 1 \in Nat
      BY DEF WatchOK
    <3>2. tail' = [tail EXCEPT ![t] = [x EXCEPT !.ask = "taken", !.given = minted + 1]]
      BY <1>1, <1>4, <2>2
    <3> QED
      BY <3>1, <3>2
  <2>3. CASE tail' = [tail EXCEPT ![t].ask = "refused"]
    <3>1. tail' = [tail EXCEPT ![t] = [x EXCEPT !.ask = "refused"]]
      BY <1>1, <1>4, <2>3
    <3> QED
      BY <3>1
  <2> QED
    BY <2>1, <2>2, <2>3 DEF Subscribes
<1>6. PICK y : /\ tail' = [tail EXCEPT ![t] = y]
               /\ \/ y = [x EXCEPT !.ask = "refused"]
                  \/ \E id \in Nat : y = [x EXCEPT !.ask = "taken", !.given = id]
    BY <1>5
<1>7. TailOK(y, files[t])
    BY <1>1, <1>4, <1>6, AskingKeeps
<1> QED
    BY <1>2, <1>3, <1>6, <1>7, OneTail

(* So does the helper.                                                     *)
LEMMA ServesKeeps ==
    ASSUME TextsOK, TailsOK, NEW t \in Tails, NEW job \in Jobs, Serves(t, job)
    PROVE  TailsOK'
<1>1. /\ TailOK(tail[t], files[t]) /\ tail \in [Tails -> TailType]
      /\ files[t] \in Seq(Seq(Bytes))
    BY DEF TailsOK, TextsOK
<1>2. PICK x : x = tail[t]
    OBVIOUS
<1>3. PICK a : /\ a = Truth(t, tail[t][job]) \/ a = Failure
               /\ tail' = [tail EXCEPT ![t][job].answer = a]
    BY DEF Serves
<1>4. IsReply(t, x[job], a)
    BY <1>2, <1>3 DEF IsReply
<1>5. PICK y : y = [x EXCEPT ![job].answer = a]
    OBVIOUS
<1>6. TailOK(x, files[t])
    BY <1>1, <1>2
<1>7. TailOK(y, files[t])
    BY <1>1, <1>4, <1>5, <1>6, ServingKeeps
<1>8. tail' = [tail EXCEPT ![t] = y] /\ files' = files
    BY <1>2, <1>3, <1>5 DEF Serves
<1> QED
    BY <1>7, <1>8, OneTail

(* So do the answers to open,                                              *)
LEMMA OpenReadsKeeps ==
    ASSUME TextsOK, TailsOK, NEW t \in Tails, OpenReads(t)
    PROVE  TailsOK'
<1>1. PICK x : x = tail[t]
    OBVIOUS
<1>2. /\ TailOK(x, files[t]) /\ files[t] \in Seq(Seq(Bytes)) /\ files' = files
      /\ x.open.op # "none" /\ x.open.answer # None
    BY <1>1 DEF TailsOK, TextsOK, OpenReads
<1>3. PICK y : Becomes(t, y) /\ OpenStep(x, y)
    BY <1>1 DEF OpenReads, OpenStep
<1>4. TailOK(y, files[t])
    BY <1>2, <1>3, OpenStepKeeps
<1> QED
    BY <1>2, <1>3, <1>4, OneTail DEF Becomes

(* to the drain,                                                           *)
LEMMA DrainReadsKeeps ==
    ASSUME TextsOK, TailsOK, NEW t \in Tails, DrainReads(t)
    PROVE  TailsOK'
<1>1. PICK x : x = tail[t]
    OBVIOUS
<1>2. /\ TailOK(x, files[t]) /\ files[t] \in Seq(Seq(Bytes)) /\ files' = files
      /\ x.drain.op # "none" /\ x.drain.answer # None
    BY <1>1 DEF TailsOK, TextsOK, DrainReads, farVars
<1>3. PICK y : Becomes(t, y) /\ DrainStep(x, y)
    BY <1>1 DEF DrainReads, DrainStep
<1>4. TailOK(y, files[t])
    BY <1>2, <1>3, DrainStepKeeps
<1> QED
    BY <1>2, <1>3, <1>4, OneTail DEF Becomes

(* and to a scroll up.                                                     *)
LEMMA EarlierReadsKeeps ==
    ASSUME TextsOK, TailsOK, NEW t \in Tails, EarlierReads(t)
    PROVE  TailsOK'
<1>1. PICK x : x = tail[t]
    OBVIOUS
<1>2. /\ TailOK(x, files[t]) /\ files[t] \in Seq(Seq(Bytes)) /\ files' = files
      /\ x.earlier.op # "none" /\ x.earlier.answer # None
    BY <1>1 DEF TailsOK, TextsOK, EarlierReads, farVars
<1>3. Becomes(t, EarlierStep(x))
    BY <1>1 DEF EarlierReads, EarlierStep
<1>4. PICK y : y = EarlierStep(x)
    OBVIOUS
<1>5. TailOK(y, files[t])
    BY <1>2, <1>4, EarlierKeeps
<1> QED
    BY <1>2, <1>3, <1>4, <1>5, OneTail DEF Becomes

(* And the steps that await no answer.                                     *)
LEMMA LocalStepsKeep ==
    ASSUME TextsOK, TailsOK, NEW t \in Tails,
           TabOpens(t) \/ LoadsEarlier(t) \/ TabCloses(t) \/ OpenListens(t) \/ PushArrives(t)
              \/ KnockFires(t) \/ KnockListens(t)
    PROVE  TailsOK'
<1>1. PICK x : x = tail[t]
    OBVIOUS
<1>2. TailOK(x, files[t]) /\ x \in TailType
    BY <1>1 DEF TailsOK
<1>3. files' = files
    BY DEF TabOpens, LoadsEarlier, TabCloses, OpenListens, PushArrives, KnockFires,
           KnockListens, farVars
<1> SUFFICES \E y : TailOK(y, files[t]) /\ Becomes(t, y)
    BY <1>3, OneTail DEF Becomes
<1>4. CASE TabOpens(t)
  <2>1. PICK y : y = [x EXCEPT !.at = "subscribing", !.ask = "sent"]
    OBVIOUS
  <2>2. x.at = "new" /\ Becomes(t, y)
    BY <1>1, <1>4, <2>1 DEF TabOpens
  <2>3. TailOK(y, files[t])
    BY <1>2, <2>1, <2>2, AskingKeeps
  <2> QED
    BY <2>2, <2>3
<1>5. CASE LoadsEarlier(t)
  <2>1. PICK want : want = Least(ChunkBytes, x.model.start)
    OBVIOUS
  <2>2. /\ x.at = "open" /\ want > 0
        /\ Becomes(t, [x EXCEPT !.earlier = ReadCall(x.model.start - want, want)])
    BY <1>1, <1>5, <2>1 DEF LoadsEarlier
  <2>3. TailOK([x EXCEPT !.earlier = ReadCall(x.model.start - want, want)], files[t])
    <3>1. files[t] \in Seq(Seq(Bytes))
      BY DEF TextsOK
    <3> QED
      BY <1>2, <2>1, <2>2, <3>1, LoadsKeeps
  <2> QED
    BY <2>2, <2>3
<1>6. CASE TabCloses(t)
  <2>1. Becomes(t, Shut(x, "closed"))
    BY <1>1, <1>6 DEF TabCloses
  <2>2. TailOK(Shut(x, "closed"), files[t])
    BY <1>2, ShutKeeps
  <2> QED
    BY <2>1, <2>2
<1>7. CASE OpenListens(t)
  <2>1. /\ x.at = "subscribing"
        /\ Becomes(t, ReadTail([Listens(x) EXCEPT !.at = "reading"], "open"))
    BY <1>1, <1>7 DEF OpenListens
  <2>2. TailOK(ReadTail([Listens(x) EXCEPT !.at = "reading"], "open"), files[t])
    BY <1>2, <2>1, OpenListensKeeps
  <2> QED
    BY <2>1, <2>2
<1>8. CASE PushArrives(t)
  <2>1. Becomes(t, IF x.hears THEN Refresh(x) ELSE x)
    BY <1>1, <1>8 DEF PushArrives
  <2>2. TailOK(IF x.hears THEN Refresh(x) ELSE x, files[t])
    BY <1>2, RefreshKeeps
  <2> QED
    BY <2>1, <2>2
<1>9. CASE KnockFires(t)
  <2>1. Becomes(t, IF x.sub = None THEN [x EXCEPT !.knock = "subscribing", !.ask = "sent"]
                   ELSE Refresh([x EXCEPT !.knock = "refreshing"]))
    BY <1>1, <1>9 DEF KnockFires
  <2>2. TailOK([x EXCEPT !.knock = "subscribing", !.ask = "sent"], files[t])
    BY <1>2, AskingKeeps
  <2>3. TailOK([x EXCEPT !.knock = "refreshing"], files[t])
    BY <1>2, AskingKeeps
  <2>4. TailOK(Refresh([x EXCEPT !.knock = "refreshing"]), files[t])
    BY <2>3, RefreshKeeps
  <2> QED
    BY <2>1, <2>2, <2>4
<1>10. CASE KnockListens(t)
  <2>1. CASE Gone(x)
    <3>1. Becomes(t, [x EXCEPT !.knock = "none", !.ask = "none", !.given = None])
      BY <1>1, <1>10, <2>1 DEF KnockListens
    <3>2. TailOK([x EXCEPT !.knock = "none", !.ask = "none", !.given = None], files[t])
      BY <1>2, AskingKeeps
    <3> QED
      BY <3>1, <3>2
  <2>2. CASE ~Gone(x)
    <3>1. Becomes(t, Refresh([Listens(x) EXCEPT !.knock = "refreshing"]))
      BY <1>1, <1>10, <2>2 DEF KnockListens
    <3>2. TailOK(Listens(x), files[t])
      BY <1>2, Listening, Aside
    <3>3. TailOK([Listens(x) EXCEPT !.knock = "refreshing"], files[t])
      BY <3>2, AskingKeeps
    <3>4. TailOK(Refresh([Listens(x) EXCEPT !.knock = "refreshing"]), files[t])
      BY <3>3, RefreshKeeps
    <3> QED
      BY <3>1, <3>4
  <2> QED
    BY <2>1, <2>2
<1> QED
    BY <1>4, <1>5, <1>6, <1>7, <1>8, <1>9, <1>10

(* A tail to begin with shows nothing.                                     *)
LEMMA FreshIsOK ==
    ASSUME NEW fs
    PROVE  TailOK(Fresh, fs)
<1>1. CallOK(NoCall, fs) /\ NoCall \in Calls /\ NoCall.op = "none"
    BY CallsAreOK, 0 \in Nat DEF CallOK
<1>2. Fresh \in TailType
    BY <1>1, BlankIsTyped DEF Fresh, TailType
<1>3. /\ Fresh.open = NoCall /\ Fresh.drain = NoCall /\ Fresh.earlier = NoCall
      /\ Fresh.at = "new"
    BY DEF Fresh
<1> QED
    BY <1>1, <1>2, <1>3 DEF TailOK, EarlierOK, Safe, Shown

(* What a tail shows, what its calls were answered and what it asked for   *)
(* agree with the files, in every state.                                   *)
THEOREM TranscriptIsInvariant == TranscriptSpec => []TranscriptInvariant
<1>1. TranscriptInit => TranscriptInvariant
  <2> SUFFICES ASSUME TranscriptInit PROVE TranscriptInvariant
    OBVIOUS
  <2>1. <<>> \in Seq(Seq(Bytes))
    BY EmptySeq
  <2>2. TextsOK
    BY <2>1 DEF TranscriptInit, TextsOK
  <2>3. WatchOK
    BY DEF TranscriptInit, WatchOK
  <2>4. TailsOK
    <3>1. Fresh \in TailType
      BY FreshIsOK DEF TailOK
    <3>2. tail \in [Tails -> TailType]
      BY <3>1 DEF TranscriptInit
    <3>3. \A t \in Tails : tail[t] = Fresh
      BY DEF TranscriptInit
    <3> QED
      BY <3>2, <3>3, FreshIsOK DEF TailsOK
  <2> QED
    BY <2>2, <2>3, <2>4 DEF TranscriptInvariant
<1>2. TranscriptInvariant /\ [TranscriptNext]_transcriptVars => TranscriptInvariant'
  <2> SUFFICES ASSUME TranscriptInvariant, [TranscriptNext]_transcriptVars
               PROVE  TextsOK' /\ WatchOK' /\ TailsOK'
    BY DEF TranscriptInvariant
  <2>0. TextsOK /\ WatchOK /\ TailsOK
    BY DEF TranscriptInvariant
  <2>1. CASE UNCHANGED transcriptVars
    BY <2>0, <2>1 DEF transcriptVars, farVars, TextsOK, WatchOK, TailsOK
  <2>2. CASE DirectoryAppears
    BY <2>0, <2>2 DEF DirectoryAppears, TextsOK, WatchOK, TailsOK
  <2>3. CASE Unsubscribes
    <3>1. files' = files /\ tail' = tail /\ minted' = minted /\ watch' \in {watch, None}
      BY <2>3 DEF Unsubscribes
    <3> QED
      BY <2>0, <3>1 DEF TextsOK, WatchOK, TailsOK
  <2>4. ASSUME NEW t \in Tails, FileIsMade(t) \/ FileGrows(t)
        PROVE  TextsOK' /\ WatchOK' /\ TailsOK'
    <3>1. WatchOK'
      BY <2>0, <2>4 DEF FileIsMade, FileGrows, WatchOK
    <3> QED
      BY <2>0, <2>4, <3>1, FileIsMadeKeeps, FileGrowsKeeps
  <2>5. ASSUME NEW t \in Tails, Subscribes(t)
        PROVE  TextsOK' /\ WatchOK' /\ TailsOK'
    BY <2>0, <2>5, SubscribesKeeps
  <2>6. ASSUME NEW t \in Tails, NEW job \in Jobs, Serves(t, job)
        PROVE  TextsOK' /\ WatchOK' /\ TailsOK'
    <3>1. TextsOK' /\ WatchOK'
      BY <2>0, <2>6 DEF Serves, TextsOK, WatchOK
    <3> QED
      BY <2>0, <2>6, <3>1, ServesKeeps
  <2>7. ASSUME NEW t \in Tails,
               \/ TabOpens(t) \/ LoadsEarlier(t) \/ TabCloses(t) \/ OpenListens(t)
               \/ PushArrives(t) \/ KnockFires(t) \/ KnockListens(t)
        PROVE  TextsOK' /\ WatchOK' /\ TailsOK'
    <3>1. TextsOK' /\ WatchOK'
      BY <2>0, <2>7 DEF TabOpens, LoadsEarlier, TabCloses, OpenListens, PushArrives,
                        KnockFires, KnockListens, farVars, TextsOK, WatchOK
    <3> QED
      BY <2>0, <2>7, <3>1, LocalStepsKeep
  <2>8. ASSUME NEW t \in Tails, OpenReads(t) \/ DrainReads(t) \/ EarlierReads(t)
        PROVE  TextsOK' /\ WatchOK' /\ TailsOK'
    <3>1. TextsOK' /\ WatchOK'
      BY <2>0, <2>8 DEF OpenReads, DrainReads, EarlierReads, farVars, TextsOK, WatchOK
    <3> QED
      BY <2>0, <2>8, <3>1, OpenReadsKeeps, DrainReadsKeeps, EarlierReadsKeeps
  <2> QED
    BY <2>1, <2>2, <2>3, <2>4, <2>5, <2>6, <2>7, <2>8 DEF TranscriptNext
<1> QED
    BY <1>1, <1>2, PTL DEF TranscriptSpec

(* However writes, pushes, windows and scrolls up interleave, a tail that  *)
(* lost none of the named races holds a stretch of one file.               *)
THEOREM TailsHoldTheFile == TranscriptSpec => []HeldIsTheFile
<1>1. TranscriptInvariant => HeldIsTheFile
  <2> SUFFICES ASSUME TranscriptInvariant, NEW t \in Tails,
                      Shown(tail[t]), tail[t].raced \subseteq {"failed"}
               PROVE  Faithful(tail[t].model, t)
    BY DEF HeldIsTheFile
  <2>1. Holds(tail[t].model, files[t])
    BY DEF TranscriptInvariant, TailsOK, TailOK, Safe
  <2> QED
    BY <2>1 DEF Holds, Stretch, Piece, Faithful
<1> QED
    BY <1>1, TranscriptIsInvariant, PTL
=============================================================================
