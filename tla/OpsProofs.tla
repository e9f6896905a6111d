----------------------------- MODULE OpsProofs ------------------------------
(***************************************************************************)
(* Theorems about the read-only ops and about the script that answers them *)
(* where there is no helper: for any worktrees, requests, edits and caps,  *)
(* what git and the file hold reaches the client whole, and the script     *)
(* agrees with the helper except where the two are known to part.          *)
(***************************************************************************)
EXTENDS Fallback, RecursionProofs

-----------------------------------------------------------------------------
(* Reading the records of a status, as the script does                     *)

(* The statuses and entries of files.                                      *)
Statuses == {"added", "deleted", "renamed", "copied", "typechange", "modified", "conflicted", "untracked"}
FileEntry == [path : STRING, orig : STRING \cup {Nil}, staged : BOOLEAN, status : Statuses]

(* The recursion that the fold of the script is defined by.                *)
NoFiles == [files |-> <<>>, truncated |-> FALSE, renames |-> FALSE]
StatusFold(records) ==
    CHOOSE f : f = [s \in SUBSET DOMAIN records |->
                       IF s = {} THEN NoFiles ELSE ReadRecord(f[s \ {Max(s)}], records[Max(s)])]

(* The script's reading of the records of a status is the recursion of its *)
(* fold.                                                                   *)
LEMMA StatusFolds ==
   ASSUME NEW records
   PROVE FoldLeft(ReadRecord, NoFiles, records) = StatusFold(records)[DOMAIN records]
BY Zenon DEF FoldLeft, MapThenFoldSet, StatusFold

(* What the script has found at some record.                               *)
Found ==
    {f \in [files : Seq(FileEntry), truncated : BOOLEAN, renames : BOOLEAN] :
        f.renames => Len(f.files) > 0}

(* What a record of a status starts with.                                  *)
Tags == {"1", "2", "u", "?"}
TokenRecord == [tag : STRING \cup Tags, xy : STRING \X STRING, path : STRING]

(* set_xy gives one of the statuses.                                       *)
LEMMA SetXyType ==
    ASSUME NEW xy \in STRING \X STRING, NEW unmerged \in BOOLEAN
    PROVE  SetXy(xy, unmerged) \in Statuses
<1>1. LetterStatus(Letter(xy)) \in Statuses
    BY DEF LetterStatus, Statuses
<1>2. QED
    BY <1>1 DEF SetXy, Statuses

(* append_file gives a file entry, whatever the record.                    *)
LEMMA FileOfType ==
    ASSUME NEW rec \in TokenRecord
    PROVE  FileOf(rec) \in FileEntry
<1>1. rec.xy \in STRING \X STRING /\ rec.path \in STRING
    BY DEF TokenRecord
<1>2. SetXy(rec.xy, rec.tag = "u") \in Statuses
    BY <1>1, SetXyType
<1>3. QED
    BY <1>1, <1>2 DEF FileOf, FileEntry, Statuses

(* One read keeps the files found well formed: while an old path is due    *)
(* there is a file that waits for it.                                      *)
LEMMA ReadRecordType ==
    ASSUME NEW found \in Found, NEW rec \in TokenRecord
    PROVE  ReadRecord(found, rec) \in Found
<1>1. /\ found \in [files : Seq(FileEntry), truncated : BOOLEAN, renames : BOOLEAN]
      /\ found.files \in Seq(FileEntry) /\ Len(found.files) \in Nat
      /\ found.renames => Len(found.files) > 0
    BY DEF Found
<1>2. FileOf(rec) \in FileEntry
    BY FileOfType
<1>3. CASE found.truncated
    BY <1>3 DEF ReadRecord
<1>4. CASE ~ found.truncated /\ found.renames
    <2> DEFINE n == Len(found.files)
               files == [found.files EXCEPT ![n].orig = rec.path]
    <2>1. n \in 1 .. Len(found.files) /\ found.files[n] \in FileEntry
        BY <1>1, <1>4
    <2>2. rec.path \in STRING
        BY DEF TokenRecord
    <2>3. [found.files[n] EXCEPT !.orig = rec.path] \in FileEntry
        BY <2>1, <2>2 DEF FileEntry
    <2>4. files \in Seq(FileEntry) /\ Len(files) = Len(found.files)
        BY <1>1, <2>1, <2>3
    <2>5. ReadRecord(found, rec) = [found EXCEPT !.files = files, !.renames = FALSE]
        BY <1>1, <1>4 DEF ReadRecord
    <2> HIDE DEF files
    <2>6. QED
        BY <1>1, <2>4, <2>5 DEF Found
<1>5. CASE ~ found.truncated /\ ~ found.renames
    <2>1. Append(found.files, FileOf(rec)) \in Seq(FileEntry)
          /\ Len(Append(found.files, FileOf(rec))) = Len(found.files) + 1
        BY <1>1, <1>2
    <2>2. ReadRecord(found, rec) =
             IF Len(found.files) >= ListCap THEN [found EXCEPT !.truncated = TRUE]
             ELSE [found EXCEPT !.files = Append(found.files, FileOf(rec)), !.renames = rec.tag = "2"]
        BY <1>1, <1>5 DEF ReadRecord
    <2>3. CASE Len(found.files) >= ListCap
        BY <1>1, <1>5, <2>2, <2>3 DEF Found
    <2>4. CASE ~ (Len(found.files) >= ListCap)
        <3> DEFINE files == Append(found.files, FileOf(rec))
        <3>1. ReadRecord(found, rec) = [found EXCEPT !.files = files, !.renames = rec.tag = "2"]
            BY <2>2, <2>4
        <3>2. files \in Seq(FileEntry) /\ Len(files) > 0
            BY <1>1, <2>1
        <3>3. (rec.tag = "2") \in BOOLEAN
            OBVIOUS
        <3> HIDE DEF files
        <3>4. QED
            BY <1>1, <1>5, <3>1, <3>2, <3>3 DEF Found
    <2>5. QED
        BY <2>3, <2>4
<1>6. QED
    BY <1>3, <1>4, <1>5

StatusStep == [f \in Found |-> [rec \in TokenRecord |-> ReadRecord(f, rec)]]

(* Reading the records takes one step after the other.                     *)
LEMMA StatusRuns ==
    ASSUME NEW records \in Seq(TokenRecord)
    PROVE  \E run : Runs(run, records, Found, NoFiles, StatusStep,
                         FoldLeft(ReadRecord, NoFiles, records))
<1> DEFINE n == Len(records)
           next(s, f) == IF s = {} THEN NoFiles ELSE ReadRecord(f[s \ {Max(s)}], records[Max(s)])
           F == StatusFold(records)
<1>1. n \in Nat /\ DOMAIN records = 1 .. n /\ \A i \in 1 .. n : records[i] \in TokenRecord
    OBVIOUS
<1>2. NoFiles \in Found
    BY EmptySeq DEF NoFiles, Found
<1>3. StatusStep \in [Found -> [TokenRecord -> Found]]
      /\ \A f \in Found, rec \in TokenRecord : StatusStep[f][rec] = ReadRecord(f, rec)
    BY ReadRecordType DEF StatusStep
<1>4. \A s \in SUBSET (1 .. n) : s # {} => Max(s) \in 1 .. n /\ s \ {Max(s)} \in SUBSET (1 .. n)
    BY <1>1, LastPosition
<1>5. PICK g : FoldSolution(records, Found, NoFiles, StatusStep, g)
    BY <1>2, <1>3, FoldIsSolvable, Zenon
<1>6. /\ g \in [SUBSET (1 .. n) -> Found]
      /\ \A s \in SUBSET (1 .. n) : g[s] = FoldAt(records, NoFiles, StatusStep, s, g)
    BY <1>5 DEF FoldSolution
<1>7. ASSUME NEW s \in SUBSET (1 .. n) PROVE g[s] = next(s, g)
    <2>1. CASE s = {}
        BY <1>6, <2>1 DEF FoldAt
    <2>2. CASE s # {}
        <3>1. g[s \ {Max(s)}] \in Found /\ records[Max(s)] \in TokenRecord
            BY <1>1, <1>4, <1>6, <2>2
        <3>2. QED
            BY <1>3, <1>6, <2>2, <3>1 DEF FoldAt
    <2>3. QED
        BY <2>1, <2>2
<1>8. g = [s \in SUBSET (1 .. n) |-> next(s, g)]
    BY <1>6, <1>7
<1>9. F = [s \in SUBSET (1 .. n) |-> next(s, F)]
    BY <1>1, <1>8, Zenon DEF StatusFold
<1>10. FoldLeft(ReadRecord, NoFiles, records) = F[1 .. n]
    BY <1>1, StatusFolds, Zenon DEF F
<1> HIDE DEF F
<1>11. FoldedBy(F, records, Found, NoFiles, StatusStep)
    <2>1. ASSUME NEW s \in SUBSET (1 .. n)
          PROVE  /\ s = {} => F[s] = NoFiles
                 /\ s # {} /\ F[s \ {Max(s)}] \in Found =>
                        F[s] = StatusStep[F[s \ {Max(s)}]][records[Max(s)]]
        <3>1. F[s] = next(s, F)
            BY <1>9, Zenon
        <3>2. CASE s = {}
            BY <3>1, <3>2
        <3>3. CASE s # {} /\ F[s \ {Max(s)}] \in Found
            <4>1. records[Max(s)] \in TokenRecord
                BY <1>1, <1>4, <3>3
            <4>2. QED
                BY <1>3, <3>1, <3>3, <4>1
        <3>4. QED
            BY <3>2, <3>3
    <2>2. QED
        BY <2>1, Zenon DEF FoldedBy
<1>12. \E run : Runs(run, records, Found, NoFiles, StatusStep, F[1 .. Len(records)])
    BY <1>2, <1>3, <1>11, FoldRuns, Zenon
<1>13. QED
    BY <1>10, <1>12

(* An entry before the rest of a reply is one more file in it.             *)
LEMMA PrecededIs ==
    ASSUME NEW x, NEW s, NEW b
    PROVE  Preceded(x, [files |-> s, truncated |-> b]) = [files |-> <<x>> \o s, truncated |-> b]
BY DEF Preceded

-----------------------------------------------------------------------------
(* A pass over the tokens of git, as the helper does                       *)

(* A pass over a stream of tokens: at each one it knows whether to skip it, *)
(* what entry it starts, and where the next one does.                      *)
Parsed(E) == [files : Seq(E), truncated : BOOLEAN]
PassAt(len, pass, f, i, n) ==
    IF i > len THEN NoMore
    ELSE IF n >= ListCap THEN Cut
    ELSE IF pass[i].skip THEN f[i + 1][n]
    ELSE Preceded(pass[i].entry, f[pass[i].next][n + 1])
IsPass(len, w, E, pass) ==
    /\ len \in Nat /\ w \in Nat /\ w > 0
    /\ \A i \in 1 .. len : /\ pass[i].skip \in BOOLEAN /\ pass[i].entry \in E
                           /\ pass[i].next \in i + 1 .. len + w
Passes(len, w, pass, f) ==
    \A i \in 1 .. len + w : \A n \in 0 .. ListCap : f[i][n] = PassAt(len, pass, f, i, n)

(* The caps of a listing and of a chunk are positive.                      *)
LEMMA Caps == ListCap \in Nat /\ ListCap > 0 /\ ReadCap \in Nat /\ ReadCap > 0
BY OpsAssumption

(* The recursion of a pass has a solution.                                 *)
LEMMA PassIsSolvable ==
    ASSUME NEW len, NEW w, NEW E, NEW pass, IsPass(len, w, E, pass)
    PROVE  \E f : f \in [1 .. len + w -> [0 .. ListCap -> Parsed(E)]] /\ Passes(len, w, pass, f)
<1> DEFINE D == 1 .. len + w
           T == [0 .. ListCap -> Parsed(E)]
           rank == [i \in D |-> (len + w) - i]
           step == [i \in D |-> [f \in [D -> T] |-> [n \in 0 .. ListCap |-> PassAt(len, pass, f, i, n)]]]
<1>1. len \in Nat /\ w \in Nat /\ w > 0 /\ len + w \in Nat /\ ListCap \in Nat
    BY Caps DEF IsPass
<1>2. NoMore \in Parsed(E) /\ Cut \in Parsed(E)
    <2>1. <<>> \in Seq(E)
        BY EmptySeq
    <2>2. QED
        BY <2>1 DEF NoMore, Cut, Parsed
<1>3. ASSUME NEW x \in E, NEW rest \in Parsed(E) PROVE Preceded(x, rest) \in Parsed(E)
    <2>1. rest.files \in Seq(E) /\ <<x>> \in Seq(E)
        BY DEF Parsed
    <2>2. <<x>> \o rest.files \in Seq(E)
        BY <2>1, ConcatProperties
    <2>3. QED
        BY <2>2 DEF Preceded, Parsed
<1>4. \A i \in D : ~ (i > len) => /\ i \in 1 .. len /\ i + 1 \in D
                                  /\ pass[i].skip \in BOOLEAN /\ pass[i].entry \in E
                                  /\ pass[i].next \in D /\ pass[i].next > i
    BY <1>1 DEF IsPass
<1>5. \A n \in 0 .. ListCap : ~ (n >= ListCap) => n + 1 \in 0 .. ListCap
    BY <1>1
<1>6. ASSUME NEW f \in [D -> T], NEW i \in D, NEW n \in 0 .. ListCap
      PROVE  PassAt(len, pass, f, i, n) \in Parsed(E)
    <2>1. \A e \in D, m \in 0 .. ListCap : f[e][m] \in Parsed(E)
        OBVIOUS
    <2> HIDE DEF D, T
    <2>2. CASE i > len
        BY <1>2, <2>2 DEF PassAt
    <2>3. CASE ~ (i > len) /\ n >= ListCap
        BY <1>2, <2>3 DEF PassAt
    <2>4. CASE ~ (i > len) /\ ~ (n >= ListCap)
        <3>1. f[i + 1][n] \in Parsed(E) /\ f[pass[i].next][n + 1] \in Parsed(E)
            BY <1>4, <1>5, <2>1, <2>4
        <3>2. Preceded(pass[i].entry, f[pass[i].next][n + 1]) \in Parsed(E)
            BY <1>3, <1>4, <2>4, <3>1
        <3>3. QED
            BY <2>4, <3>1, <3>2, Zenon DEF PassAt
    <2>5. QED
        BY <2>2, <2>3, <2>4
<1>7. step \in [D -> [[D -> T] -> T]]
      /\ \A i \in D : \A f \in [D -> T] : step[i][f] = [n \in 0 .. ListCap |-> PassAt(len, pass, f, i, n)]
    BY <1>6
<1>8. rank \in [D -> 0 .. len + w] /\ \A i \in D : rank[i] = (len + w) - i
    BY <1>1
<1> HIDE DEF step, rank
<1>9. \A i \in D : \A g, h \in [D -> T] :
         (\A e \in D : rank[e] < rank[i] => g[e] = h[e]) => step[i][g] = step[i][h]
    <2> TAKE i \in D
    <2> TAKE g, h \in [D -> T]
    <2> HAVE \A e \in D : rank[e] < rank[i] => g[e] = h[e]
    <2>1. ~ (i > len) => g[i + 1] = h[i + 1] /\ g[pass[i].next] = h[pass[i].next]
        <3>1. SUFFICES ASSUME ~ (i > len) PROVE g[i + 1] = h[i + 1] /\ g[pass[i].next] = h[pass[i].next]
            OBVIOUS
        <3>2. i + 1 \in D /\ pass[i].next \in D /\ pass[i].next > i
            BY <1>4, <3>1
        <3>3. rank[i + 1] < rank[i] /\ rank[pass[i].next] < rank[i]
            <4>1. /\ rank[i] = (len + w) - i /\ rank[i + 1] = (len + w) - (i + 1)
                  /\ rank[pass[i].next] = (len + w) - pass[i].next
                BY <1>8, <3>2, Zenon
            <4>2. len + w \in Int /\ i \in Int /\ pass[i].next \in Int
                BY <1>1, <3>2
            <4>3. QED
                BY ONLY <3>2, <4>1, <4>2
        <3>4. QED
            BY <3>2, <3>3
    <2>2. ASSUME NEW n \in 0 .. ListCap PROVE PassAt(len, pass, g, i, n) = PassAt(len, pass, h, i, n)
        BY <2>1, Zenon DEF PassAt
    <2>3. [n \in 0 .. ListCap |-> PassAt(len, pass, g, i, n)] = [n \in 0 .. ListCap |-> PassAt(len, pass, h, i, n)]
        BY <2>2
    <2>4. step[i][g] = [n \in 0 .. ListCap |-> PassAt(len, pass, g, i, n)]
          /\ step[i][h] = [n \in 0 .. ListCap |-> PassAt(len, pass, h, i, n)]
        BY <1>7
    <2>5. QED
        BY <2>3, <2>4, Zenon
<1>10. T # {}
    <2>1. [n \in 0 .. ListCap |-> NoMore] \in T
        BY <1>2
    <2>2. QED
        BY <2>1
<1>11. Solvable(D, T, step)
    <2> HIDE DEF D, T
    <2>1. Descends(D, T, len + w, rank, step)
        BY <1>1, <1>7, <1>8, <1>9, <1>10, Zenon DEF Descends
    <2>2. QED
        BY <2>1, RecursionHasASolution, Zenon
<1>12. PICK f \in [D -> T] : \A i \in D : f[i] = step[i][f]
    BY <1>11, Zenon DEF Solvable
<1>13. Passes(len, w, pass, f)
    <2>1. \A i \in D : f[i] = [n \in 0 .. ListCap |-> PassAt(len, pass, f, i, n)]
        BY <1>7, <1>12, Zenon
    <2>2. QED
        BY <2>1, Zenon DEF Passes
<1>14. QED
    BY <1>13, Zenon

(* Where the entries of a stream stand in it.                              *)
Stands(len, pass, at, N, entries) ==
    /\ N \in Nat /\ at \in [1 .. N + 1 -> Nat \ {0}] /\ at[1] = 1 /\ at[N + 1] = len + 1
    /\ \A k \in 1 .. N : /\ at[k] <= len /\ ~ pass[at[k]].skip
                         /\ pass[at[k]].entry = entries[k] /\ pass[at[k]].next = at[k + 1]
Shown(N, entries) ==
    [files |-> [k \in 1 .. Least(N, ListCap) |-> entries[k]], truncated |-> N > ListCap]

(* A pass over a stream keeps the entries up to the cap, and knows whether *)
(* there were more.                                                        *)
LEMMA PassShows ==
    ASSUME NEW len, NEW w, NEW E, NEW pass, NEW f, NEW at, NEW N, NEW entries,
           IsPass(len, w, E, pass), Passes(len, w, pass, f), Stands(len, pass, at, N, entries)
    PROVE  f[1][0] = Shown(N, entries)
<1> DEFINE K == Least(N, ListCap)
           rest(m) == [files |-> [j \in 1 .. m |-> entries[(K - m) + j]], truncated |-> N > ListCap]
           good == {m \in Nat : m <= K => f[at[(K - m) + 1]][K - m] = rest(m)}
<1>1. len \in Nat /\ w \in Nat /\ w > 0 /\ ListCap \in Nat /\ N \in Nat
    BY Caps DEF IsPass, Stands
<1>2. K \in Nat /\ K <= N /\ K <= ListCap /\ (K = N \/ (K = ListCap /\ K < N))
    BY <1>1 DEF Least
<1> HIDE DEF K
<1>3. /\ \A k \in 1 .. N + 1 : at[k] \in Nat /\ at[k] >= 1
      /\ \A k \in 1 .. N : at[k] <= len
      /\ at[1] = 1 /\ at[N + 1] = len + 1
    BY <1>1 DEF Stands
<1>4. \A k \in 1 .. N : /\ ~ pass[at[k]].skip /\ pass[at[k]].entry = entries[k]
                        /\ pass[at[k]].next = at[k + 1] /\ entries[k] \in E
    BY <1>1, <1>3 DEF Stands, IsPass
<1>5. ASSUME NEW k \in 1 .. N + 1, NEW n \in 0 .. ListCap
      PROVE  f[at[k]][n] = PassAt(len, pass, f, at[k], n)
    <2>1. at[k] \in 1 .. len + w
        <3>1. CASE k = N + 1
            BY <1>1, <1>3, <3>1
        <3>2. CASE k # N + 1
            BY <1>1, <1>3, <3>2
        <3>3. QED
            BY <3>1, <3>2
    <2>2. QED
        BY <2>1 DEF Passes
<1>6. 0 \in good
    <2>1. K - 0 = K /\ K + 1 \in 1 .. N + 1 /\ K \in 0 .. ListCap
        BY <1>1, <1>2
    <2>2. f[at[K + 1]][K] = PassAt(len, pass, f, at[K + 1], K)
        BY <1>5, <2>1
    <2>3. rest(0) = [files |-> <<>>, truncated |-> N > ListCap]
        BY <2>1
    <2>4. ASSUME K = N PROVE f[at[K + 1]][K] = rest(0)
        <3>1. at[K + 1] > len /\ (N > ListCap) = FALSE
            BY <1>1, <1>2, <1>3, <2>4
        <3>2. f[at[K + 1]][K] = NoMore
            BY <2>2, <3>1, Zenon DEF PassAt
        <3>3. QED
            BY <2>3, <3>1, <3>2 DEF NoMore
    <2>5. ASSUME K = ListCap /\ K < N PROVE f[at[K + 1]][K] = rest(0)
        <3>1. K + 1 \in 1 .. N
            BY <1>1, <1>2, <2>5
        <3>2. ~ (at[K + 1] > len) /\ K >= ListCap /\ N > ListCap
            BY <1>1, <1>2, <1>3, <2>5, <3>1
        <3>3. f[at[K + 1]][K] = Cut
            BY <2>2, <3>2, Zenon DEF PassAt
        <3>4. QED
            BY <2>3, <3>2, <3>3 DEF Cut
    <2>6. f[at[(K - 0) + 1]][K - 0] = rest(0)
        BY <1>2, <2>1, <2>4, <2>5
    <2> HIDE DEF rest
    <2>7. QED
        BY <2>6
<1>7. ASSUME NEW m \in 0 .. K - 1, m \in good PROVE m + 1 \in good
    <2> DEFINE k == K - (m + 1)
    <2>1. /\ k \in Nat /\ k + 1 \in 1 .. N /\ k < ListCap /\ k \in 0 .. ListCap /\ K - m = k + 1
          /\ (K - m) + 1 = (k + 1) + 1 /\ k + 1 \in 1 .. N + 1 /\ (k + 1) + 1 \in 1 .. N + 1
          /\ m + 1 \in Nat /\ m <= K
        BY <1>1, <1>2
    <2> HIDE DEF k
    <2>2. f[at[(k + 1) + 1]][k + 1] = rest(m)
        BY <1>7, <2>1
    <2>3. f[at[k + 1]][k] = PassAt(len, pass, f, at[k + 1], k)
        BY <1>5, <2>1
    <2>4. ~ (at[k + 1] > len) /\ ~ (k >= ListCap)
        BY <1>1, <1>3, <2>1
    <2>5. ~ pass[at[k + 1]].skip /\ pass[at[k + 1]].entry = entries[k + 1]
          /\ pass[at[k + 1]].next = at[(k + 1) + 1]
        BY <1>4, <2>1
    <2>6. f[at[k + 1]][k] = Preceded(entries[k + 1], rest(m))
        BY <2>2, <2>3, <2>4, <2>5, Zenon DEF PassAt
    <2>7. Preceded(entries[k + 1], rest(m)) = rest(m + 1)
        <3> DEFINE s == [j \in 1 .. m |-> entries[(K - m) + j]]
                   r == [j \in 1 .. m + 1 |-> entries[(K - (m + 1)) + j]]
        <3>1. \A j \in 1 .. m : (K - m) + j \in 1 .. N
            BY <1>1, <1>2, <2>1
        <3>2. \A j \in 1 .. m + 1 : (K - (m + 1)) + j \in 1 .. N
            BY <1>1, <1>2, <2>1
        <3>3. s \in Seq(E) /\ Len(s) = m /\ m \in Nat
            BY <1>4, <3>1
        <3>4. r \in [1 .. m + 1 -> E]
            BY <1>4, <3>2
        <3>5. r[1] = entries[k + 1]
            BY <2>1 DEF k
        <3>6. ASSUME NEW j \in 1 .. m PROVE r[j + 1] = s[j]
            <4>1. j + 1 \in 1 .. m + 1 /\ (K - (m + 1)) + (j + 1) = (K - m) + j
                BY <1>2
            <4>2. QED
                BY <4>1
        <3>7. entries[k + 1] \in E
            BY <1>4, <2>1
        <3> HIDE DEF s, r
        <3>8. <<entries[k + 1]>> \o s = r
            BY <3>3, <3>4, <3>5, <3>6, <3>7, OneBefore
        <3>9. rest(m) = [files |-> s, truncated |-> N > ListCap]
              /\ rest(m + 1) = [files |-> r, truncated |-> N > ListCap]
            BY DEF s, r
        <3> HIDE DEF rest
        <3>10. Preceded(entries[k + 1], rest(m)) = [files |-> <<entries[k + 1]>> \o s, truncated |-> N > ListCap]
            <4> DEFINE cut == N > ListCap
            <4>1. rest(m) = [files |-> s, truncated |-> cut]
                BY <3>9, Zenon
            <4> HIDE DEF cut
            <4>2. Preceded(entries[k + 1], [files |-> s, truncated |-> cut]) =
                     [files |-> <<entries[k + 1]>> \o s, truncated |-> cut]
                BY ONLY PrecededIs, Zenon
            <4>3. QED
                BY <4>1, <4>2 DEF cut
        <3>11. QED
            BY <3>8, <3>9, <3>10, Zenon
    <2>8. f[at[(K - (m + 1)) + 1]][K - (m + 1)] = rest(m + 1)
        BY <2>6, <2>7 DEF k
    <2> HIDE DEF rest
    <2>9. QED
        BY <2>1, <2>8
<1>8. K \in good
    <2> HIDE DEF good
    <2>1. \A m \in 0 .. K : m \in good
        BY <1>2, <1>6, <1>7, InductionUpTo
    <2>2. K \in 0 .. K
        BY <1>2
    <2>3. QED
        BY <2>1, <2>2
<1>9. f[at[1]][0] = rest(K)
    <2>1. K - K = 0 /\ 0 + 1 = 1 /\ K <= K
        BY <1>2
    <2> HIDE DEF rest
    <2>2. QED
        BY <1>8, <2>1
<1>10. rest(K) = Shown(N, entries)
    <2>1. \A j \in 1 .. K : (K - K) + j = j
        BY <1>2
    <2>2. [j \in 1 .. K |-> entries[(K - K) + j]] = [j \in 1 .. K |-> entries[j]]
        BY <2>1
    <2>3. QED
        BY <2>2, Zenon DEF Shown, K
<1>11. QED
    BY <1>3, <1>9, <1>10

-----------------------------------------------------------------------------
(* git.status                                                              *)

(* parse_status: its recursion, and the pass over the tokens that it is.   *)
StatusAt(tokens, f, i, n) ==
    IF i > Len(tokens) THEN NoMore
    ELSE IF n >= ListCap THEN Cut
    ELSE LET rec == tokens[i]
             found(entry, next) == Preceded(entry, f[next][n + 1])
         IN CASE rec.tag = "1" ->
                   found(EntryFromXy(rec.xy, rec.path, Nil, FALSE), i + 1)
              [] rec.tag = "u" ->
                   found(EntryFromXy(rec.xy, rec.path, Nil, TRUE), i + 1)
              [] rec.tag = "2" ->
                   IF i < Len(tokens)
                   THEN found(EntryFromXy(rec.xy, rec.path, tokens[i + 1].path, FALSE), i + 2)
                   ELSE found(EntryFromXy(rec.xy, rec.path, Nil, FALSE), i + 1)
              [] rec.tag = "?" ->
                   found([path |-> rec.path, orig |-> Nil, staged |-> FALSE,
                          status |-> "untracked"], i + 1)
              [] OTHER -> f[i + 1][n]
StatusParse(tokens) ==
    CHOOSE f : f = [i \in 1..Len(tokens) + 2 |-> [n \in 0..ListCap |-> StatusAt(tokens, f, i, n)]]

(* parse_status is the recursion that its definition names.                *)
LEMMA ParseStatusIs ==
    ASSUME NEW tokens
    PROVE  ParseStatus(tokens) = StatusParse(tokens)[1][0]
BY Zenon DEF ParseStatus, StatusParse, StatusAt

HasOld(tokens, i) == tokens[i].tag = "2" /\ i < Len(tokens)
EntryAt(tokens, i) ==
    IF tokens[i].tag = "?"
    THEN [path |-> tokens[i].path, orig |-> Nil, staged |-> FALSE, status |-> "untracked"]
    ELSE EntryFromXy(tokens[i].xy, tokens[i].path,
                     IF HasOld(tokens, i) THEN tokens[i + 1].path ELSE Nil, tokens[i].tag = "u")
StatusPass(tokens) ==
    [i \in 1 .. Len(tokens) |->
        [skip |-> tokens[i].tag \notin {"1", "u", "2", "?"}, entry |-> EntryAt(tokens, i),
         next |-> IF HasOld(tokens, i) THEN i + 2 ELSE i + 1]]

(* What parse_status does at one token is what the pass says of it.        *)
LEMMA StatusAtIs ==
    ASSUME NEW tokens, Len(tokens) \in Nat, NEW f, NEW i \in 1 .. Len(tokens) + 2, NEW n
    PROVE  StatusAt(tokens, f, i, n) = PassAt(Len(tokens), StatusPass(tokens), f, i, n)
<1>1. CASE i > Len(tokens)
    BY <1>1 DEF StatusAt, PassAt
<1>2. CASE ~ (i > Len(tokens)) /\ n >= ListCap
    BY <1>2 DEF StatusAt, PassAt
<1>3. CASE ~ (i > Len(tokens)) /\ ~ (n >= ListCap)
    <2> DEFINE rec == tokens[i]
               p == StatusPass(tokens)[i]
               found(entry, next) == Preceded(entry, f[next][n + 1])
    <2>1. i \in 1 .. Len(tokens)
        BY <1>3
    <2>2. p = [skip |-> rec.tag \notin {"1", "u", "2", "?"}, entry |-> EntryAt(tokens, i),
               next |-> IF HasOld(tokens, i) THEN i + 2 ELSE i + 1]
        BY <2>1 DEF StatusPass
    <2>3. /\ p.skip <=> rec.tag \notin {"1", "u", "2", "?"}
          /\ p.entry = EntryAt(tokens, i)
          /\ p.next = IF HasOld(tokens, i) THEN i + 2 ELSE i + 1
        <3> DEFINE skips == rec.tag \notin {"1", "u", "2", "?"}
                   after == IF HasOld(tokens, i) THEN i + 2 ELSE i + 1
        <3>1. p = [skip |-> skips, entry |-> EntryAt(tokens, i), next |-> after]
            BY <2>2
        <3> HIDE DEF skips, after, p
        <3>2. p.skip = skips /\ p.entry = EntryAt(tokens, i) /\ p.next = after
            BY <3>1
        <3>3. QED
            BY <3>2, Zenon DEF skips, after
    <2> HIDE DEF p
    <2>4. PassAt(Len(tokens), StatusPass(tokens), f, i, n) = IF p.skip THEN f[i + 1][n] ELSE found(p.entry, p.next)
        BY <1>3, Zenon DEF PassAt, p
    <2>5. CASE rec.tag = "1"
        <3>1. StatusAt(tokens, f, i, n) = found(EntryFromXy(rec.xy, rec.path, Nil, FALSE), i + 1)
            BY <1>3, <2>5 DEF StatusAt
        <3>2. ~ p.skip /\ p.next = i + 1 /\ p.entry = EntryFromXy(rec.xy, rec.path, Nil, FALSE)
            BY <2>3, <2>5 DEF HasOld, EntryAt
        <3>3. QED
            BY <2>4, <3>1, <3>2
    <2>6. CASE rec.tag = "u"
        <3>1. StatusAt(tokens, f, i, n) = found(EntryFromXy(rec.xy, rec.path, Nil, TRUE), i + 1)
            BY <1>3, <2>6 DEF StatusAt
        <3>2. ~ p.skip /\ p.next = i + 1 /\ p.entry = EntryFromXy(rec.xy, rec.path, Nil, TRUE)
            BY <2>3, <2>6 DEF HasOld, EntryAt
        <3>3. QED
            BY <2>4, <3>1, <3>2
    <2>7. CASE rec.tag = "2" /\ i < Len(tokens)
        <3>1. StatusAt(tokens, f, i, n) = found(EntryFromXy(rec.xy, rec.path, tokens[i + 1].path, FALSE), i + 2)
            BY <1>3, <2>7 DEF StatusAt
        <3>2. ~ p.skip /\ p.next = i + 2 /\ p.entry = EntryFromXy(rec.xy, rec.path, tokens[i + 1].path, FALSE)
            BY <2>3, <2>7 DEF HasOld, EntryAt
        <3>3. QED
            BY <2>4, <3>1, <3>2
    <2>8. CASE rec.tag = "2" /\ ~ (i < Len(tokens))
        <3>1. StatusAt(tokens, f, i, n) = found(EntryFromXy(rec.xy, rec.path, Nil, FALSE), i + 1)
            BY <1>3, <2>8 DEF StatusAt
        <3>2. ~ p.skip /\ p.next = i + 1 /\ p.entry = EntryFromXy(rec.xy, rec.path, Nil, FALSE)
            BY <2>3, <2>8 DEF HasOld, EntryAt
        <3>3. QED
            BY <2>4, <3>1, <3>2
    <2>9. CASE rec.tag = "?"
        <3>1. StatusAt(tokens, f, i, n) =
                 found([path |-> rec.path, orig |-> Nil, staged |-> FALSE, status |-> "untracked"], i + 1)
            BY <1>3, <2>9 DEF StatusAt
        <3>2. ~ p.skip /\ p.next = i + 1
              /\ p.entry = [path |-> rec.path, orig |-> Nil, staged |-> FALSE, status |-> "untracked"]
            BY <2>3, <2>9 DEF HasOld, EntryAt
        <3>3. QED
            BY <2>4, <3>1, <3>2
    <2>10. CASE rec.tag \notin {"1", "u", "2", "?"}
        <3>1. StatusAt(tokens, f, i, n) = f[i + 1][n]
            BY <1>3, <2>10 DEF StatusAt
        <3>2. QED
            BY <2>3, <2>4, <2>10, <3>1
    <2>11. QED
        BY <2>5, <2>6, <2>7, <2>8, <2>9, <2>10
<1>4. QED
    BY <1>1, <1>2, <1>3

(* The recursion of parse_status is the pass.                              *)
LEMMA StatusParseIsPass ==
    ASSUME NEW S, NEW tokens \in Seq(S), NEW E, \A i \in 1 .. Len(tokens) : EntryAt(tokens, i) \in E
    PROVE  /\ IsPass(Len(tokens), 2, E, StatusPass(tokens))
           /\ Passes(Len(tokens), 2, StatusPass(tokens), StatusParse(tokens))
<1> DEFINE L == Len(tokens)
           pass == StatusPass(tokens)
           F == StatusParse(tokens)
<1>1. L \in Nat
    OBVIOUS
<1>2. ASSUME NEW i \in 1 .. L
      PROVE  /\ pass[i].skip \in BOOLEAN /\ pass[i].entry \in E
             /\ pass[i].next \in i + 1 .. L + 2
    <2>1. pass[i] = [skip |-> tokens[i].tag \notin {"1", "u", "2", "?"}, entry |-> EntryAt(tokens, i),
                     next |-> IF HasOld(tokens, i) THEN i + 2 ELSE i + 1]
        BY DEF StatusPass
    <2> HIDE DEF pass
    <2>2. i + 1 \in i + 1 .. L + 2 /\ i + 2 \in i + 1 .. L + 2
        BY <1>1
    <2>3. QED
        BY <2>1, <2>2
<1>3. IsPass(L, 2, E, pass)
    BY <1>1, <1>2 DEF IsPass
<1> HIDE DEF pass
<1>4. PICK g : g \in [1 .. L + 2 -> [0 .. ListCap -> Parsed(E)]] /\ Passes(L, 2, pass, g)
    BY <1>3, PassIsSolvable
<1>5. \A f : \A i \in 1 .. L + 2 : \A n \in 0 .. ListCap : StatusAt(tokens, f, i, n) = PassAt(L, pass, f, i, n)
    BY <1>1, StatusAtIs, Zenon DEF pass
<1>6. g = [i \in 1 .. L + 2 |-> [n \in 0 .. ListCap |-> StatusAt(tokens, g, i, n)]]
    <2>1. \A i \in 1 .. L + 2 : \A n \in 0 .. ListCap : g[i][n] = StatusAt(tokens, g, i, n)
        BY <1>4, <1>5, Zenon DEF Passes
    <2>2. \A i \in 1 .. L + 2 : g[i] = [n \in 0 .. ListCap |-> StatusAt(tokens, g, i, n)]
        BY <1>4, <2>1
    <2>3. QED
        BY <1>4, <2>2
<1>7. F = [i \in 1 .. L + 2 |-> [n \in 0 .. ListCap |-> StatusAt(tokens, F, i, n)]]
    BY <1>6, Zenon DEF StatusParse
<1> HIDE DEF F
<1>8. Passes(L, 2, pass, F)
    <2>1. ASSUME NEW i \in 1 .. L + 2, NEW n \in 0 .. ListCap PROVE F[i][n] = PassAt(L, pass, F, i, n)
        <3>1. F[i] = [m \in 0 .. ListCap |-> StatusAt(tokens, F, i, m)]
            BY <1>7, Zenon
        <3>2. F[i][n] = StatusAt(tokens, F, i, n)
            BY <3>1, Zenon
        <3>3. QED
            BY <1>5, <3>2, Zenon
    <2>2. QED
        BY <2>1, Zenon DEF Passes
<1>9. QED
    BY <1>3, <1>8 DEF F, pass

(* The file entry that a change makes.                                     *)
FileFor(c) ==
    [path |-> c.path, orig |-> IF c.tag = "2" THEN c.orig.path ELSE Nil,
     staged |-> c.tag # "?" /\ c.xy[1] \notin {".", "?"},
     status |-> IF c.tag = "?" THEN "untracked" ELSE SetXy(c.xy, c.tag = "u")]
FilesFor(cs) == [k \in 1 .. Len(cs) |-> FileFor(cs[k])]
Printing(cs) == [i \in DOMAIN cs |-> Porcelain(cs[i])]
RecordOf(c) == [tag |-> c.tag, xy |-> c.xy, path |-> c.path]

(* What git prints of a change is its record, and the old path of a rename. *)
LEMMA PorcelainIs ==
    ASSUME NEW c \in GitChange
    PROVE  /\ Porcelain(c) \in Seq(TokenRecord) /\ RecordOf(c) \in TokenRecord /\ c.orig \in TokenRecord
           /\ Porcelain(c)[1] = RecordOf(c)
           /\ c.tag = "2" => Len(Porcelain(c)) = 2 /\ Porcelain(c)[2] = c.orig
           /\ c.tag # "2" => Len(Porcelain(c)) = 1
<1>1. RecordOf(c) \in TokenRecord /\ c.orig \in TokenRecord
    <2>1. c.tag \in Tags /\ c.xy \in STRING \X STRING /\ c.path \in STRING /\ c.orig \in GitRecord
        BY DEF GitChange, Tags
    <2>2. c.tag \in STRING \cup Tags
        BY <2>1
    <2>3. RecordOf(c) \in TokenRecord
        BY <2>1, <2>2 DEF RecordOf, TokenRecord
    <2>4. c.orig \in TokenRecord
        BY <2>1 DEF GitRecord, TokenRecord
    <2>5. QED
        BY <2>3, <2>4
<1>2. CASE c.tag = "2"
    <2>1. Porcelain(c) = <<RecordOf(c)>> \o <<c.orig>>
        BY <1>2 DEF Porcelain, RecordOf
    <2>2. QED
        BY <1>1, <1>2, <2>1
<1>3. CASE c.tag # "2"
    <2>1. Porcelain(c) = <<RecordOf(c)>> \o <<>>
        BY <1>3 DEF Porcelain, RecordOf
    <2>2. QED
        BY <1>1, <1>3, <2>1
<1>4. QED
    BY <1>2, <1>3

(* In the tokens of the changes every change stands at a place of its own. *)
TokensAt(cs, tokens, at) ==
    /\ tokens \in Seq(TokenRecord)
    /\ at \in [1 .. Len(cs) + 1 -> Nat \ {0}] /\ at[1] = 1 /\ at[Len(cs) + 1] = Len(tokens) + 1
    /\ \A k \in 1 .. Len(cs) :
          /\ at[k] <= Len(tokens) /\ tokens[at[k]] = RecordOf(cs[k])
          /\ cs[k].tag = "2" => /\ at[k + 1] = at[k] + 2 /\ at[k] < Len(tokens)
                                /\ tokens[at[k] + 1] = cs[k].orig
          /\ cs[k].tag # "2" => at[k + 1] = at[k] + 1

(* There are such places in the tokens of any changes.                     *)
LEMMA TokensHavePlaces ==
    ASSUME NEW cs \in Seq(GitChange)
    PROVE  \E at : TokensAt(cs, FlattenSeq(Printing(cs)), at)
<1> DEFINE n == Len(cs)
           ss == Printing(cs)
           tokens == FlattenSeq(ss)
<1>1. n \in Nat /\ DOMAIN cs = 1 .. n /\ \A k \in 1 .. n : cs[k] \in GitChange
    OBVIOUS
<1>2. \A k \in 1 .. n : ss[k] = Porcelain(cs[k])
    BY <1>1 DEF Printing
<1>3. ss \in Seq(Seq(TokenRecord)) /\ Len(ss) = n
    BY <1>1, PorcelainIs DEF Printing
<1> HIDE DEF ss
<1>4. tokens \in Seq(TokenRecord) /\ \E at : Places(ss, at)
    BY <1>3, FlattenPlaces
<1>5. PICK at : Places(ss, at)
    BY <1>4
<1> HIDE DEF tokens
<1>6. /\ at \in [1 .. n + 1 -> Nat \ {0}] /\ at[1] = 1 /\ at[n + 1] = Len(tokens) + 1
      /\ \A k \in 1 .. n : /\ at[k + 1] = at[k] + Len(ss[k]) /\ at[k + 1] <= Len(tokens) + 1
                           /\ \A j \in 1 .. Len(ss[k]) : tokens[at[k] + j - 1] = ss[k][j]
    BY <1>3, <1>5 DEF Places, tokens
<1>7. ASSUME NEW k \in 1 .. n
      PROVE  /\ at[k] <= Len(tokens) /\ tokens[at[k]] = RecordOf(cs[k])
             /\ cs[k].tag = "2" => /\ at[k + 1] = at[k] + 2 /\ at[k] < Len(tokens)
                                   /\ tokens[at[k] + 1] = cs[k].orig
             /\ cs[k].tag # "2" => at[k + 1] = at[k] + 1
    <2>1. at[k] \in Nat /\ at[k + 1] \in Nat /\ Len(tokens) \in Nat
        <3>1. Len(tokens) \in Nat
            BY <1>4, LenProperties
        <3>2. k \in 1 .. n + 1 /\ k + 1 \in 1 .. n + 1
            BY <1>1
        <3>3. QED
            BY <1>6, <3>1, <3>2
    <2>2. /\ at[k + 1] = at[k] + Len(ss[k]) /\ at[k + 1] <= Len(tokens) + 1
          /\ \A j \in 1 .. Len(ss[k]) : tokens[at[k] + j - 1] = ss[k][j]
        BY <1>6
    <2>3. /\ ss[k][1] = RecordOf(cs[k])
          /\ cs[k].tag = "2" => Len(ss[k]) = 2 /\ ss[k][2] = cs[k].orig
          /\ cs[k].tag # "2" => Len(ss[k]) = 1
        BY <1>1, <1>2, PorcelainIs
    <2>4. 1 \in 1 .. Len(ss[k]) /\ at[k] + 1 - 1 = at[k] /\ at[k] + 2 - 1 = at[k] + 1
        BY <2>1, <2>3
    <2>5. tokens[at[k]] = RecordOf(cs[k])
        BY <2>2, <2>3, <2>4
    <2>6. ASSUME cs[k].tag = "2"
          PROVE  at[k + 1] = at[k] + 2 /\ at[k] < Len(tokens) /\ tokens[at[k] + 1] = cs[k].orig
        <3>1. 2 \in 1 .. Len(ss[k])
            BY <2>3, <2>6
        <3>2. QED
            <4>1. at[k + 1] = at[k] + 2
                BY <2>2, <2>3, <2>6
            <4>2. tokens[at[k] + 2 - 1] = cs[k].orig
                BY <2>2, <2>3, <2>6, <3>1
            <4>3. at[k] < Len(tokens)
                BY <2>1, <2>2, <4>1
            <4>4. QED
                BY <2>4, <4>1, <4>2, <4>3
    <2>7. cs[k].tag # "2" => at[k + 1] = at[k] + 1
        BY <2>2, <2>3
    <2>8. at[k] <= Len(tokens)
        BY <2>1, <2>2, <2>6, <2>7
    <2>9. QED
        BY <2>5, <2>6, <2>7, <2>8
<1>8. TokensAt(cs, tokens, at)
    BY <1>4, <1>6, <1>7, Zenon DEF TokensAt
<1>9. QED
    BY <1>8, Zenon DEF tokens, ss

(* What parse_status makes of what git prints of some changes.             *)
THEOREM ParseStatusShows ==
    ASSUME NEW cs \in Seq(GitChange)
    PROVE  ParseStatus(FlattenSeq(Printing(cs))) = Shown(Len(cs), FilesFor(cs))
<1> DEFINE N == Len(cs)
           tokens == FlattenSeq(Printing(cs))
           L == Len(tokens)
           pass == StatusPass(tokens)
           E == {EntryAt(tokens, i) : i \in 1 .. L}
<1>1. PICK at : TokensAt(cs, tokens, at)
    BY TokensHavePlaces
<1> HIDE DEF tokens
<1>2. /\ tokens \in Seq(TokenRecord) /\ L \in Nat /\ N \in Nat
      /\ at \in [1 .. N + 1 -> Nat \ {0}] /\ at[1] = 1 /\ at[N + 1] = L + 1
    BY <1>1 DEF TokensAt
<1>3. IsPass(L, 2, E, pass) /\ Passes(L, 2, pass, StatusParse(tokens))
    BY <1>2, StatusParseIsPass
<1>4. ASSUME NEW k \in 1 .. N
      PROVE  /\ at[k] <= L /\ ~ pass[at[k]].skip
             /\ pass[at[k]].entry = FilesFor(cs)[k] /\ pass[at[k]].next = at[k + 1]
    <2> DEFINE c == cs[k]
               i == at[k]
    <2>1. c \in GitChange /\ c.tag \in {"1", "2", "u", "?"}
        <3>1. c \in GitChange
            BY <1>2
        <3>2. QED
            BY <3>1, Zenon DEF GitChange
    <2>2. i \in 1 .. L
        BY <1>1, <1>2 DEF TokensAt
    <2>3. /\ tokens[i].tag = c.tag /\ tokens[i].xy = c.xy /\ tokens[i].path = c.path
          /\ c.tag = "2" => i < L /\ tokens[i + 1] = c.orig /\ at[k + 1] = i + 2
          /\ c.tag # "2" => at[k + 1] = i + 1
        <3>1. /\ tokens[i] = RecordOf(c)
              /\ c.tag = "2" => i < L /\ tokens[i + 1] = c.orig /\ at[k + 1] = i + 2
              /\ c.tag # "2" => at[k + 1] = i + 1
            BY <1>1, Zenon DEF TokensAt
        <3>2. RecordOf(c).tag = c.tag /\ RecordOf(c).xy = c.xy /\ RecordOf(c).path = c.path
            BY DEF RecordOf
        <3>3. QED
            BY <3>1, <3>2, Zenon
    <2> DEFINE skips == tokens[i].tag \notin {"1", "u", "2", "?"}
               after == IF HasOld(tokens, i) THEN i + 2 ELSE i + 1
    <2>4. pass[i] = [skip |-> skips, entry |-> EntryAt(tokens, i), next |-> after]
        BY <2>2 DEF StatusPass
    <2> HIDE DEF skips, after, pass, c, i
    <2>5. pass[i].skip = skips /\ pass[i].entry = EntryAt(tokens, i) /\ pass[i].next = after
        BY <2>4
    <2>6. ~ skips
        BY <2>1, <2>3 DEF skips
    <2>7. HasOld(tokens, i) <=> c.tag = "2"
        BY <2>3 DEF HasOld
    <2>8. after = at[k + 1]
        BY <2>3, <2>7 DEF after
    <2>9. EntryAt(tokens, i) = FileFor(c)
        <3>1. CASE c.tag = "?"
            BY <2>3, <3>1 DEF EntryAt, FileFor
        <3>2. CASE c.tag = "2"
            <4>1. tokens[i + 1].path = c.orig.path
                BY <2>3, <3>2
            <4>2. EntryAt(tokens, i) = EntryFromXy(c.xy, c.path, c.orig.path, FALSE)
                BY <2>3, <2>7, <3>2, <4>1 DEF EntryAt
            <4>3. FileFor(c) = [path |-> c.path, orig |-> c.orig.path,
                                staged |-> c.xy[1] \notin {".", "?"}, status |-> LetterStatus(Letter(c.xy))]
                BY <3>2 DEF FileFor, SetXy
            <4>4. QED
                BY <4>2, <4>3 DEF EntryFromXy
        <3>3. CASE c.tag = "1"
            <4>1. EntryAt(tokens, i) = EntryFromXy(c.xy, c.path, Nil, FALSE)
                BY <2>3, <2>7, <3>3 DEF EntryAt
            <4>2. FileFor(c) = [path |-> c.path, orig |-> Nil,
                                staged |-> c.xy[1] \notin {".", "?"}, status |-> LetterStatus(Letter(c.xy))]
                BY <3>3 DEF FileFor, SetXy
            <4>3. QED
                BY <4>1, <4>2 DEF EntryFromXy
        <3>4. CASE c.tag = "u"
            <4>1. EntryAt(tokens, i) = EntryFromXy(c.xy, c.path, Nil, TRUE)
                BY <2>3, <2>7, <3>4 DEF EntryAt
            <4>2. FileFor(c) = [path |-> c.path, orig |-> Nil,
                                staged |-> c.xy[1] \notin {".", "?"}, status |-> "conflicted"]
                BY <3>4 DEF FileFor, SetXy
            <4>3. QED
                BY <4>1, <4>2 DEF EntryFromXy
        <3>5. QED
            BY <2>1, <3>1, <3>2, <3>3, <3>4
    <2>10. FilesFor(cs)[k] = FileFor(c)
        BY DEF FilesFor, c
    <2>11. i <= L
        BY <1>2, <2>2
    <2>12. QED
        BY <2>5, <2>6, <2>8, <2>9, <2>10, <2>11 DEF i
<1>5. Stands(L, pass, at, N, FilesFor(cs))
    <2> HIDE DEF pass, L, N
    <2>1. QED
        BY <1>2, <1>4, Zenon DEF Stands
<1>6. StatusParse(tokens)[1][0] = Shown(N, FilesFor(cs))
    <2> HIDE DEF pass, L, N, E
    <2>1. QED
        BY <1>3, <1>5, PassShows
<1>7. QED
    BY <1>6, ParseStatusIs DEF tokens

-----------------------------------------------------------------------------
(* git.status of the script                                                *)

(* What the script has found after the records of the first m changes.     *)
AfterChanges(cs, m) ==
    [files |-> [k \in 1 .. Least(m, ListCap) |-> FileFor(cs[k])], truncated |-> m > ListCap,
     renames |-> FALSE]

(* A change makes a file entry.                                            *)
LEMMA FileForType ==
    ASSUME NEW c \in GitChange
    PROVE  /\ FileFor(c) \in FileEntry /\ FileOf(RecordOf(c)) \in FileEntry
           /\ c.tag # "2" => FileFor(c) = FileOf(RecordOf(c))
           /\ c.tag = "2" => FileFor(c) = [FileOf(RecordOf(c)) EXCEPT !.orig = c.orig.path]
<1> DEFINE rec == RecordOf(c)
<1>1. rec \in TokenRecord /\ c.orig \in TokenRecord
    BY PorcelainIs
<1>2. rec.tag = c.tag /\ rec.xy = c.xy /\ rec.path = c.path
    BY DEF RecordOf
<1> HIDE DEF rec
<1>3. FileOf(rec) \in FileEntry
    BY <1>1, FileOfType
<1>4. FileOf(rec) =
        [path |-> c.path, orig |-> Nil, staged |-> c.tag # "?" /\ c.xy[1] \notin {".", "?"},
         status |-> IF c.tag = "?" THEN "untracked" ELSE SetXy(c.xy, c.tag = "u")]
    BY <1>2 DEF FileOf
<1>5. CASE c.tag # "2"
    <2>1. FileFor(c) = FileOf(rec)
        BY <1>4, <1>5 DEF FileFor
    <2>2. QED
        BY <1>3, <1>5, <2>1 DEF rec
<1>6. CASE c.tag = "2"
    <2>1. FileFor(c) =
            [path |-> c.path, orig |-> c.orig.path, staged |-> c.tag # "?" /\ c.xy[1] \notin {".", "?"},
             status |-> IF c.tag = "?" THEN "untracked" ELSE SetXy(c.xy, c.tag = "u")]
        BY <1>6 DEF FileFor
    <2>2. FileFor(c) = [FileOf(rec) EXCEPT !.orig = c.orig.path]
        BY <1>4, <2>1
    <2>3. c.orig.path \in STRING
        BY <1>1 DEF TokenRecord
    <2>4. [FileOf(rec) EXCEPT !.orig = c.orig.path] \in FileEntry
        BY <1>3, <2>3 DEF FileEntry
    <2>5. QED
        BY <1>3, <1>6, <2>2, <2>4 DEF rec
<1>7. QED
    BY <1>5, <1>6

(* One change read: its record, and the next one where it is a rename.     *)
LEMMA ChangeIsRead ==
    ASSUME NEW cs \in Seq(GitChange), NEW m \in 0 .. Len(cs) - 1
    PROVE  /\ AfterChanges(cs, m) \in Found
           /\ ReadRecord(AfterChanges(cs, m), RecordOf(cs[m + 1])) \in Found
           /\ cs[m + 1].tag # "2" =>
                  ReadRecord(AfterChanges(cs, m), RecordOf(cs[m + 1])) = AfterChanges(cs, m + 1)
           /\ cs[m + 1].tag = "2" =>
                  ReadRecord(ReadRecord(AfterChanges(cs, m), RecordOf(cs[m + 1])), cs[m + 1].orig)
                      = AfterChanges(cs, m + 1)
<1> DEFINE c == cs[m + 1]
           rec == RecordOf(c)
           files(n) == [k \in 1 .. Least(n, ListCap) |-> FileFor(cs[k])]
           A == AfterChanges(cs, m)
           f == FileOf(rec)
<1>1. m \in Nat /\ m + 1 \in 1 .. Len(cs) /\ Len(cs) \in Nat /\ ListCap \in Nat /\ c \in GitChange
    BY Caps
<1>2. /\ Least(m, ListCap) \in Nat /\ Least(m, ListCap) <= m
      /\ m < ListCap => Least(m, ListCap) = m /\ Least(m + 1, ListCap) = m + 1
      /\ m >= ListCap => Least(m, ListCap) = ListCap /\ Least(m + 1, ListCap) = ListCap
    BY <1>1 DEF Least
<1>3. \A n \in 0 .. Len(cs) : files(n) \in Seq(FileEntry) /\ Len(files(n)) = Least(n, ListCap)
    <2> TAKE n \in 0 .. Len(cs)
    <2>1. Least(n, ListCap) \in Nat /\ Least(n, ListCap) <= n
        BY <1>1 DEF Least
    <2>2. \A k \in 1 .. Least(n, ListCap) : FileFor(cs[k]) \in FileEntry
        BY <1>1, <2>1, FileForType
    <2>3. QED
        BY <2>1, <2>2
<1>4. A = [files |-> files(m), truncated |-> m > ListCap, renames |-> FALSE]
      /\ AfterChanges(cs, m + 1) = [files |-> files(m + 1), truncated |-> m + 1 > ListCap, renames |-> FALSE]
    BY DEF AfterChanges
<1>5. rec \in TokenRecord /\ c.orig \in TokenRecord /\ rec.tag = c.tag /\ f \in FileEntry
    BY <1>1, PorcelainIs, FileForType DEF RecordOf
<1>6. /\ c.tag # "2" => FileFor(c) = f
      /\ c.tag = "2" => FileFor(c) = [f EXCEPT !.orig = c.orig.path]
    BY <1>1, FileForType
<1>7. m \in 0 .. Len(cs) /\ m + 1 \in 0 .. Len(cs)
    BY <1>1
<1>8. m < ListCap => files(m + 1) = Append(files(m), FileFor(c))
    <2> SUFFICES ASSUME m < ListCap PROVE files(m + 1) = Append(files(m), FileFor(c))
        OBVIOUS
    <2>1. files(m) \in [1 .. m -> FileEntry] /\ files(m + 1) \in [1 .. m + 1 -> FileEntry]
        <3>1. files(m) \in Seq(FileEntry) /\ Len(files(m)) = m
            BY <1>2, <1>3, <1>7
        <3>2. files(m + 1) \in Seq(FileEntry) /\ Len(files(m + 1)) = m + 1
            BY <1>2, <1>3, <1>7
        <3> HIDE DEF files
        <3>3. QED
            BY <1>1, <3>1, <3>2
    <2>2. files(m + 1)[m + 1] = FileFor(c) /\ \A i \in 1 .. m : files(m + 1)[i] = files(m)[i]
        BY <1>1, <1>2
    <2> HIDE DEF files
    <2>3. QED
        BY <1>1, <2>1, <2>2, OneMore
<1>9. m >= ListCap => files(m + 1) = files(m)
    BY <1>2
<1>10. files(m) \in Seq(FileEntry) /\ Len(files(m)) = Least(m, ListCap)
    BY <1>3, <1>7
<1> HIDE DEF files, A, f, rec, c
<1>11. A \in Found
    <2>1. (m > ListCap) \in BOOLEAN
        OBVIOUS
    <2>2. QED
        BY <1>4, <1>10, <2>1 DEF Found
<1>12. ReadRecord(A, rec) \in Found
    BY <1>5, <1>11, ReadRecordType
<1>13. CASE m > ListCap
    <2>1. (m > ListCap) = TRUE /\ (m + 1 > ListCap) = TRUE /\ m >= ListCap
        BY <1>1, <1>13
    <2>2. A = AfterChanges(cs, m + 1) /\ A.truncated
        BY <1>4, <1>9, <2>1
    <2>3. ReadRecord(A, rec) = A /\ ReadRecord(A, c.orig) = A
        BY <2>2, Zenon DEF ReadRecord
    <2>4. QED
        BY <1>11, <1>12, <2>2, <2>3 DEF A, c, rec
<1>14. CASE m = ListCap
    <2>1. (m > ListCap) = FALSE /\ (m + 1 > ListCap) = TRUE /\ m >= ListCap
        BY <1>1, <1>14
    <2>2. /\ A = [files |-> files(m), truncated |-> FALSE, renames |-> FALSE]
          /\ AfterChanges(cs, m + 1) = [files |-> files(m), truncated |-> TRUE, renames |-> FALSE]
        BY <1>4, <1>9, <2>1
    <2>3. ~ A.truncated /\ ~ A.renames /\ A.files = files(m) /\ Len(A.files) >= ListCap
        BY <1>1, <1>2, <1>10, <2>1, <2>2
    <2>4. ReadRecord(A, rec) = [A EXCEPT !.truncated = TRUE]
        BY <2>3, Zenon DEF ReadRecord
    <2>5. ReadRecord(A, rec) = AfterChanges(cs, m + 1)
        BY <2>2, <2>4
    <2>6. AfterChanges(cs, m + 1).truncated
        BY <2>2
    <2>7. ReadRecord(AfterChanges(cs, m + 1), c.orig) = AfterChanges(cs, m + 1)
        BY <2>6, Zenon DEF ReadRecord
    <2>8. QED
        BY <1>11, <1>12, <2>5, <2>7 DEF A, c, rec
<1>15. CASE m < ListCap
    <2>1. (m > ListCap) = FALSE /\ (m + 1 > ListCap) = FALSE
        BY <1>1, <1>15
    <2>2. /\ A = [files |-> files(m), truncated |-> FALSE, renames |-> FALSE]
          /\ AfterChanges(cs, m + 1) = [files |-> Append(files(m), FileFor(c)), truncated |-> FALSE, renames |-> FALSE]
        BY <1>4, <1>8, <1>15, <2>1
    <2>3. ~ A.truncated /\ ~ A.renames /\ A.files = files(m) /\ ~ (Len(A.files) >= ListCap)
        BY <1>1, <1>2, <1>10, <1>15, <2>2
    <2>4. ReadRecord(A, rec) = [A EXCEPT !.files = Append(@, f), !.renames = rec.tag = "2"]
        BY <2>3, Zenon DEF ReadRecord, f
    <2>5. ReadRecord(A, rec) = [files |-> Append(files(m), f), truncated |-> FALSE, renames |-> c.tag = "2"]
        BY <1>5, <2>2, <2>4
    <2>6. CASE c.tag # "2"
        <3>1. (c.tag = "2") = FALSE
            BY <2>6
        <3>2. ReadRecord(A, rec) = AfterChanges(cs, m + 1)
            BY <1>6, <2>2, <2>5, <2>6, <3>1
        <3>3. QED
            BY <1>11, <1>12, <2>6, <3>2 DEF A, c, rec
    <2>7. CASE c.tag = "2"
        <3> DEFINE fs == Append(files(m), f)
                   R == ReadRecord(A, rec)
        <3>1. (c.tag = "2") = TRUE
            BY <2>7
        <3>2. R = [files |-> fs, truncated |-> FALSE, renames |-> TRUE]
            BY <2>5, <3>1
        <3>3. fs \in Seq(FileEntry) /\ Len(fs) = Len(files(m)) + 1 /\ Len(fs) \in 1 .. Len(fs) /\ fs[Len(fs)] = f
            BY <1>5, <1>10
        <3> HIDE DEF fs, R
        <3>4. R.files = fs /\ ~ R.truncated /\ R.renames
            BY <3>2
        <3> DEFINE new == [fs EXCEPT ![Len(fs)].orig = c.orig.path]
        <3>5. ReadRecord(R, c.orig) = [R EXCEPT !.files = new, !.renames = FALSE]
            <4>1. R \in [files : Seq(FileEntry), truncated : BOOLEAN, renames : BOOLEAN]
                BY <3>2, <3>3
            <4>2. QED
                BY <3>3, <3>4, <4>1 DEF ReadRecord
        <3>6. ReadRecord(R, c.orig) = [files |-> new, truncated |-> FALSE, renames |-> FALSE]
            <4> HIDE DEF new
            <4>1. QED
                BY <3>2, <3>5
        <3>7. [fs EXCEPT ![Len(fs)].orig = c.orig.path] = Append(files(m), FileFor(c))
            <4>1. [fs EXCEPT ![Len(fs)].orig = c.orig.path] = [fs EXCEPT ![Len(fs)] = FileFor(c)]
                BY <1>6, <2>7, <3>3
            <4>2. FileFor(c) \in FileEntry
                BY <1>1, FileForType
            <4>3. [fs EXCEPT ![Len(fs)] = FileFor(c)] = Append(files(m), FileFor(c))
                BY <1>5, <1>10, <4>2, LastReplaced DEF fs
            <4>4. QED
                BY <4>1, <4>3
        <3>8. ReadRecord(R, c.orig) = AfterChanges(cs, m + 1)
            BY <2>2, <3>6, <3>7
        <3>9. QED
            BY <1>11, <1>12, <2>7, <3>8 DEF A, c, rec, R
    <2>8. QED
        BY <2>6, <2>7
<1>16. QED
    BY <1>1, <1>13, <1>14, <1>15

(* What the script makes of what git prints of some changes is what the    *)
(* helper makes of it.                                                     *)
LEMMA ScriptStatusShows ==
    ASSUME NEW cs \in Seq(GitChange)
    PROVE  FoldLeft(ReadRecord, NoFiles, FlattenSeq(Printing(cs))) = AfterChanges(cs, Len(cs))
<1> DEFINE N == Len(cs)
           tokens == FlattenSeq(Printing(cs))
           L == Len(tokens)
           result == FoldLeft(ReadRecord, NoFiles, tokens)
<1>1. PICK at : TokensAt(cs, tokens, at)
    BY TokensHavePlaces
<1> HIDE DEF tokens, result
<1>2. /\ tokens \in Seq(TokenRecord) /\ L \in Nat /\ N \in Nat
      /\ at \in [1 .. N + 1 -> Nat \ {0}] /\ at[1] = 1 /\ at[N + 1] = L + 1
    BY <1>1 DEF TokensAt
<1>3. PICK run : Runs(run, tokens, Found, NoFiles, StatusStep, result)
    BY <1>2, StatusRuns DEF result
<1>4. /\ run \in [0 .. L -> Found] /\ run[0] = NoFiles /\ result = run[L]
      /\ \A i \in 1 .. L : run[i] = StatusStep[run[i - 1]][tokens[i]]
    BY <1>3 DEF Runs
<1>5. \A f \in Found, rec \in TokenRecord : StatusStep[f][rec] = ReadRecord(f, rec)
    BY ReadRecordType DEF StatusStep
<1>6. \A i \in 1 .. L : run[i] = ReadRecord(run[i - 1], tokens[i])
    <2> TAKE i \in 1 .. L
    <2>1. tokens[i] \in TokenRecord /\ i - 1 \in 0 .. L
        BY <1>2
    <2>2. run[i - 1] \in Found
        BY <1>4, <2>1
    <2>3. QED
        BY <1>4, <1>5, <2>1, <2>2
<1> DEFINE good == {m \in Nat : m <= N => run[at[m + 1] - 1] = AfterChanges(cs, m)}
<1>7. 0 \in good
    <2>1. at[0 + 1] - 1 = 0
        BY <1>2
    <2>2. AfterChanges(cs, 0) = NoFiles
        <3>1. Least(0, ListCap) = 0 /\ (0 > ListCap) = FALSE
            BY Caps DEF Least
        <3> DEFINE files == [k \in 1 .. Least(0, ListCap) |-> FileFor(cs[k])]
        <3>2. files = <<>>
            BY <3>1
        <3>3. AfterChanges(cs, 0) = [files |-> files, truncated |-> 0 > ListCap, renames |-> FALSE]
            BY DEF AfterChanges
        <3> HIDE DEF files
        <3>4. QED
            BY <3>1, <3>2, <3>3 DEF NoFiles
    <2>3. QED
        BY <1>4, <2>1, <2>2
<1>8. ASSUME NEW m \in 0 .. N - 1, m \in good PROVE m + 1 \in good
    <2> DEFINE k == m + 1
               i == at[k]
               c == cs[k]
               A == AfterChanges(cs, m)
               B == AfterChanges(cs, k)
    <2>1. k \in 1 .. N /\ k \in Nat /\ m <= N /\ k \in 1 .. N + 1 /\ k + 1 \in 1 .. N + 1
        BY <1>2
    <2>2. i \in 1 .. L /\ at[k + 1] \in Nat
        <3>1. at[k] \in Nat \ {0} /\ at[k + 1] \in Nat
            BY <1>2, <2>1
        <3>2. at[k] <= L
            BY <1>1, <2>1, Zenon DEF TokensAt
        <3>3. QED
            BY <1>2, <3>1, <3>2
    <2>3. run[i - 1] = A
        BY <1>8, <2>1
    <2>4. /\ A \in Found
          /\ ReadRecord(A, RecordOf(c)) \in Found
          /\ c.tag # "2" => ReadRecord(A, RecordOf(c)) = B
          /\ c.tag = "2" => ReadRecord(ReadRecord(A, RecordOf(c)), c.orig) = B
        BY ChangeIsRead
    <2>5. /\ tokens[i] = RecordOf(c)
          /\ c.tag = "2" => at[k + 1] = i + 2 /\ i < L /\ tokens[i + 1] = c.orig
          /\ c.tag # "2" => at[k + 1] = i + 1
        BY <1>1, <2>1, Zenon DEF TokensAt
    <2> HIDE DEF i, c, A, B, k
    <2>6. run[i] = ReadRecord(A, RecordOf(c))
        BY <1>6, <2>2, <2>3, <2>5
    <2>7. CASE c.tag # "2"
        <3>1. at[k + 1] - 1 = i
            BY <2>2, <2>5, <2>7
        <3>2. QED
            BY <2>1, <2>4, <2>6, <2>7, <3>1 DEF B, k
    <2>8. CASE c.tag = "2"
        <3>1. at[k + 1] - 1 = i + 1 /\ i + 1 \in 1 .. L /\ (i + 1) - 1 = i
            <4>1. at[k + 1] = i + 2 /\ i < L
                BY <2>5, <2>8, Zenon
            <4> HIDE DEF L
            <4>2. QED
                BY <1>2, <2>2, <4>1
        <3>2. run[i + 1] = ReadRecord(run[i], c.orig)
            BY <1>6, <2>5, <2>8, <3>1
        <3>3. QED
            BY <2>1, <2>4, <2>6, <2>8, <3>1, <3>2 DEF B, k
    <2>9. QED
        BY <2>7, <2>8
<1>9. N \in good
    <2> HIDE DEF good
    <2>1. \A m \in 0 .. N : m \in good
        BY <1>2, <1>7, <1>8, InductionUpTo
    <2>2. QED
        BY <1>2, <2>1
<1>10. run[at[N + 1] - 1] = AfterChanges(cs, N)
    BY <1>2, <1>9
<1>11. at[N + 1] - 1 = L
    BY <1>2
<1>12. QED
    BY <1>4, <1>10, <1>11 DEF result, tokens

(* The statuses of the two, of the same changes.                           *)
ReplyFor(shown) ==
    [files |-> shown.files, truncated |-> shown.truncated,
     clean |-> shown.files = <<>> /\ ~shown.truncated]

(* What the script has found at the end are the files the helper shows.    *)
LEMMA ShownFiles ==
    ASSUME NEW cs \in Seq(GitChange)
    PROVE  /\ AfterChanges(cs, Len(cs)).files = Shown(Len(cs), FilesFor(cs)).files
           /\ AfterChanges(cs, Len(cs)).truncated = Shown(Len(cs), FilesFor(cs)).truncated
<1>1. Len(cs) \in Nat /\ ListCap \in Nat
    BY Caps
<1>2. Least(Len(cs), ListCap) <= Len(cs) /\ Least(Len(cs), ListCap) \in Nat
    BY <1>1 DEF Least
<1>3. \A k \in 1 .. Least(Len(cs), ListCap) : FilesFor(cs)[k] = FileFor(cs[k])
    BY <1>1, <1>2 DEF FilesFor
<1>4. [k \in 1 .. Least(Len(cs), ListCap) |-> FilesFor(cs)[k]]
         = [k \in 1 .. Least(Len(cs), ListCap) |-> FileFor(cs[k])]
    BY <1>3
<1>5. AfterChanges(cs, Len(cs)).files = Shown(Len(cs), FilesFor(cs)).files
    BY <1>4 DEF AfterChanges, Shown
<1>6. AfterChanges(cs, Len(cs)).truncated = Shown(Len(cs), FilesFor(cs)).truncated
    BY DEF AfterChanges, Shown
<1>7. QED
    BY <1>5, <1>6

(* op_git_status of the script and git.status of the helper make the same  *)
(* reply of what git prints of any changes (git.rs op_git_status,          *)
(* ops/git.rs parse_status).                                               *)
THEOREM StatusesAgree ==
    ASSUME NEW cs \in Seq(GitChange)
    PROVE  StatusOf(FlattenSeq(Printing(cs))) = ReplyFor(ParseStatus(FlattenSeq(Printing(cs))))
<1> DEFINE found == FoldLeft(ReadRecord, NoFiles, FlattenSeq(Printing(cs)))
           parsed == ParseStatus(FlattenSeq(Printing(cs)))
<1>1. StatusOf(FlattenSeq(Printing(cs))) =
         [files |-> found.files, truncated |-> found.truncated,
          clean |-> found.files = <<>> /\ ~found.truncated]
    BY Zenon DEF StatusOf, NoFiles
<1>2. found.files = parsed.files /\ found.truncated = parsed.truncated
    BY ParseStatusShows, ScriptStatusShows, ShownFiles, Zenon
<1> HIDE DEF found, parsed
<1>3. QED
    BY <1>1, <1>2, Zenon DEF ReplyFor, parsed

-----------------------------------------------------------------------------
(* git.diff                                                                *)

(* parse_name_status: its recursion, and the pass over the tokens that it is. *)
NameAt(tokens, f, i, n) ==
    IF i > Len(tokens) THEN NoMore
    ELSE IF n >= ListCap THEN Cut
    ELSE LET renamed == tokens[i] \in {"R", "C"}
         IN Preceded([path |-> tokens[IF renamed THEN i + 2 ELSE i + 1],
                      orig |-> IF renamed THEN tokens[i + 1] ELSE Nil,
                      status |-> LetterStatus(tokens[i])],
                     f[IF renamed THEN i + 3 ELSE i + 2][n + 1])
NameParse(tokens) ==
    CHOOSE f : f = [i \in 1..Len(tokens) + 3 |-> [n \in 0..ListCap |-> NameAt(tokens, f, i, n)]]

(* parse_name_status is the recursion that its definition names.           *)
LEMMA ParseNameIs ==
    ASSUME NEW tokens
    PROVE  ParseNameStatus(tokens) = NameParse(tokens)[1][0]
BY Zenon DEF ParseNameStatus, NameParse, NameAt

Renamed(tokens, i) == tokens[i] \in {"R", "C"}
NameEntry(tokens, i) ==
    [path |-> tokens[IF Renamed(tokens, i) THEN i + 2 ELSE i + 1],
     orig |-> IF Renamed(tokens, i) THEN tokens[i + 1] ELSE Nil,
     status |-> LetterStatus(tokens[i])]
NamePass(tokens) ==
    [i \in 1 .. Len(tokens) |->
        [skip |-> FALSE, entry |-> NameEntry(tokens, i),
         next |-> IF Renamed(tokens, i) THEN i + 3 ELSE i + 2]]

(* The recursion of parse_name_status is the pass.                         *)
LEMMA NameParseIsPass ==
    ASSUME NEW S, NEW tokens \in Seq(S)
    PROVE  /\ IsPass(Len(tokens), 3, {NameEntry(tokens, i) : i \in 1 .. Len(tokens)}, NamePass(tokens))
           /\ Passes(Len(tokens), 3, NamePass(tokens), NameParse(tokens))
<1> DEFINE L == Len(tokens)
           pass == NamePass(tokens)
           F == NameParse(tokens)
           E == {NameEntry(tokens, i) : i \in 1 .. L}
           after(i) == IF Renamed(tokens, i) THEN i + 3 ELSE i + 2
<1>1. L \in Nat
    OBVIOUS
<1>2. ASSUME NEW i \in 1 .. L
      PROVE  /\ pass[i].skip = FALSE /\ pass[i].entry = NameEntry(tokens, i)
             /\ pass[i].next = after(i) /\ NameEntry(tokens, i) \in E
             /\ after(i) \in i + 1 .. L + 3
    <2>1. pass[i] = [skip |-> FALSE, entry |-> NameEntry(tokens, i), next |-> after(i)]
        BY DEF NamePass
    <2>2. i + 2 \in i + 1 .. L + 3 /\ i + 3 \in i + 1 .. L + 3
        BY <1>1
    <2>3. after(i) \in i + 1 .. L + 3
        BY <2>2
    <2> HIDE DEF pass, after
    <2>4. pass[i].skip = FALSE /\ pass[i].entry = NameEntry(tokens, i) /\ pass[i].next = after(i)
        BY <2>1
    <2>5. NameEntry(tokens, i) \in E
        OBVIOUS
    <2>6. QED
        BY <2>3, <2>4, <2>5
<1>3. IsPass(L, 3, E, pass)
    <2> HIDE DEF pass, E, L, after
    <2>1. \A i \in 1 .. L : /\ pass[i].skip \in BOOLEAN /\ pass[i].entry \in E
                            /\ pass[i].next \in i + 1 .. L + 3
        BY <1>2
    <2>2. 3 \in Nat /\ 3 > 0
        OBVIOUS
    <2>3. QED
        BY <1>1, <2>1, <2>2, Zenon DEF IsPass
<1> HIDE DEF pass, E
<1>4. PICK g : g \in [1 .. L + 3 -> [0 .. ListCap -> Parsed(E)]] /\ Passes(L, 3, pass, g)
    BY <1>3, PassIsSolvable
<1>5. ASSUME NEW f, NEW i \in 1 .. L + 3, NEW n
      PROVE  NameAt(tokens, f, i, n) = PassAt(L, pass, f, i, n)
    <2>1. CASE i > L
        BY <2>1, Zenon DEF NameAt, PassAt
    <2>2. CASE ~ (i > L)
        <3>1. i \in 1 .. L
            BY <1>1, <2>2
        <3>2. pass[i].skip = FALSE /\ pass[i].entry = NameEntry(tokens, i) /\ pass[i].next = after(i)
            BY <1>2, <3>1
        <3>3. NameAt(tokens, f, i, n) =
                IF n >= ListCap THEN Cut ELSE Preceded(NameEntry(tokens, i), f[after(i)][n + 1])
            BY <2>2, Zenon DEF NameAt, NameEntry, Renamed
        <3>4. PassAt(L, pass, f, i, n) =
                IF n >= ListCap THEN Cut ELSE Preceded(NameEntry(tokens, i), f[after(i)][n + 1])
            <4> HIDE DEF after
            <4>1. QED
                BY <2>2, <3>2, Zenon DEF PassAt
        <3>5. QED
            BY <3>3, <3>4
    <2>3. QED
        BY <2>1, <2>2
<1>6. g = [i \in 1 .. L + 3 |-> [n \in 0 .. ListCap |-> NameAt(tokens, g, i, n)]]
    <2>1. \A i \in 1 .. L + 3 : \A n \in 0 .. ListCap : g[i][n] = NameAt(tokens, g, i, n)
        BY <1>4, <1>5, Zenon DEF Passes
    <2>2. \A i \in 1 .. L + 3 : g[i] = [n \in 0 .. ListCap |-> NameAt(tokens, g, i, n)]
        BY <1>4, <2>1
    <2>3. QED
        BY <1>4, <2>2
<1>7. F = [i \in 1 .. L + 3 |-> [n \in 0 .. ListCap |-> NameAt(tokens, F, i, n)]]
    BY <1>6, Zenon DEF NameParse
<1> HIDE DEF F
<1>8. Passes(L, 3, pass, F)
    <2>1. ASSUME NEW i \in 1 .. L + 3, NEW n \in 0 .. ListCap PROVE F[i][n] = PassAt(L, pass, F, i, n)
        <3>1. F[i] = [m \in 0 .. ListCap |-> NameAt(tokens, F, i, m)]
            BY <1>7, Zenon
        <3>2. F[i][n] = NameAt(tokens, F, i, n)
            BY <3>1, Zenon
        <3>3. QED
            BY <1>5, <3>2, Zenon
    <2>2. QED
        BY <2>1, Zenon DEF Passes
<1>9. QED
    BY <1>3, <1>8 DEF F, pass, E

(* The changes git diffs, and what it prints of them.                      *)
TrackedChange == {c \in GitChange : c.tag # "?" /\ (c.tag = "2" <=> Letter(c.xy) \in {"R", "C"})}
NamesOf(ds) == [i \in DOMAIN ds |-> NameStatus(ds[i])]
NameFileFor(c) ==
    [path |-> c.path, orig |-> IF c.tag = "2" THEN c.orig.path ELSE Nil,
     status |-> LetterStatus(Letter(c.xy))]
NameFilesFor(ds) == [k \in 1 .. Len(ds) |-> NameFileFor(ds[k])]

(* What git prints of a change that it diffs: its letter, and its path or  *)
(* both paths.                                                             *)
LEMMA NameStatusIs ==
    ASSUME NEW c \in TrackedChange
    PROVE  /\ NameStatus(c) \in Seq(STRING) /\ NameStatus(c)[1] = Letter(c.xy)
           /\ c.tag = "2" => /\ Len(NameStatus(c)) = 3 /\ Letter(c.xy) \in {"R", "C"}
                             /\ NameStatus(c)[2] = c.orig.path /\ NameStatus(c)[3] = c.path
           /\ c.tag # "2" => /\ Len(NameStatus(c)) = 2 /\ Letter(c.xy) \notin {"R", "C"}
                             /\ NameStatus(c)[2] = c.path
<1>1. c \in GitChange /\ (c.tag = "2" <=> Letter(c.xy) \in {"R", "C"})
    BY DEF TrackedChange
<1>2. c.xy \in STRING \X STRING /\ c.path \in STRING /\ c.orig \in GitRecord
    BY <1>1 DEF GitChange
<1>3. c.xy[1] \in STRING /\ c.xy[2] \in STRING /\ c.orig.path \in STRING
    BY <1>2 DEF GitRecord
<1>4. Letter(c.xy) \in STRING
    BY <1>3 DEF Letter
<1> DEFINE letter == Letter(c.xy)
<1> HIDE DEF letter
<1>5. CASE c.tag = "2"
    <2>1. NameStatus(c) = <<letter, c.orig.path, c.path>>
        BY <1>1, <1>5 DEF NameStatus, letter
    <2>2. letter \in STRING
        BY <1>4 DEF letter
    <2>3. QED
        BY <1>1, <1>2, <1>3, <1>5, <2>1, <2>2 DEF letter
<1>6. CASE c.tag # "2"
    <2>1. NameStatus(c) = <<letter, c.path>>
        BY <1>1, <1>6 DEF NameStatus, letter
    <2>2. letter \in STRING
        BY <1>4 DEF letter
    <2>3. QED
        BY <1>1, <1>2, <1>3, <1>6, <2>1, <2>2 DEF letter
<1>7. QED
    BY <1>5, <1>6

(* What parse_name_status makes of what git prints of some changes.        *)
THEOREM ParseNameShows ==
    ASSUME NEW ds \in Seq(TrackedChange)
    PROVE  ParseNameStatus(FlattenSeq(NamesOf(ds))) = Shown(Len(ds), NameFilesFor(ds))
<1> DEFINE N == Len(ds)
           ss == NamesOf(ds)
           tokens == FlattenSeq(ss)
           L == Len(tokens)
           pass == NamePass(tokens)
           E == {NameEntry(tokens, i) : i \in 1 .. L}
<1>1. N \in Nat /\ DOMAIN ds = 1 .. N /\ \A k \in 1 .. N : ds[k] \in TrackedChange
    OBVIOUS
<1>2. \A k \in 1 .. N : ss[k] = NameStatus(ds[k])
    BY <1>1 DEF NamesOf
<1>3. ss \in Seq(Seq(STRING)) /\ Len(ss) = N
    BY <1>1, NameStatusIs DEF NamesOf
<1> HIDE DEF ss
<1>4. tokens \in Seq(STRING) /\ \E at : Places(ss, at)
    BY <1>3, FlattenPlaces
<1>5. PICK at : Places(ss, at)
    BY <1>4
<1> HIDE DEF tokens
<1>6. L \in Nat
    BY <1>4, LenProperties
<1>7. /\ at \in [1 .. N + 1 -> Nat \ {0}] /\ at[1] = 1 /\ at[N + 1] = L + 1
      /\ \A k \in 1 .. N : /\ at[k + 1] = at[k] + Len(ss[k]) /\ at[k + 1] <= L + 1
                           /\ \A j \in 1 .. Len(ss[k]) : tokens[at[k] + j - 1] = ss[k][j]
    BY <1>3, <1>5 DEF Places, tokens
<1>8. IsPass(L, 3, E, pass) /\ Passes(L, 3, pass, NameParse(tokens))
    BY <1>4, NameParseIsPass
<1>9. ASSUME NEW k \in 1 .. N
      PROVE  /\ at[k] <= L /\ ~ pass[at[k]].skip
             /\ pass[at[k]].entry = NameFilesFor(ds)[k] /\ pass[at[k]].next = at[k + 1]
    <2> DEFINE c == ds[k]
               i == at[k]
               s == ss[k]
               after == IF Renamed(tokens, i) THEN i + 3 ELSE i + 2
    <2>1. i \in Nat /\ i >= 1 /\ at[k + 1] \in Nat
        <3>1. k \in 1 .. N + 1 /\ k + 1 \in 1 .. N + 1
            BY <1>1
        <3>2. QED
            BY <1>7, <3>1
    <2>2. /\ s[1] = Letter(c.xy)
          /\ c.tag = "2" => /\ Len(s) = 3 /\ Letter(c.xy) \in {"R", "C"}
                            /\ s[2] = c.orig.path /\ s[3] = c.path
          /\ c.tag # "2" => /\ Len(s) = 2 /\ Letter(c.xy) \notin {"R", "C"}
                            /\ s[2] = c.path
        BY <1>1, <1>2, NameStatusIs
    <2>3. /\ at[k + 1] = i + Len(s) /\ at[k + 1] <= L + 1
          /\ \A j \in 1 .. Len(s) : tokens[i + j - 1] = s[j]
        BY <1>7
    <2> HIDE DEF c, i, s
    <2>4. i + 1 - 1 = i /\ i + 2 - 1 = i + 1 /\ i + 3 - 1 = i + 2
        BY <2>1
    <2>5. Len(s) \in {2, 3} /\ 1 \in 1 .. Len(s) /\ 2 \in 1 .. Len(s) /\ (Len(s) = 3 => 3 \in 1 .. Len(s))
        BY <2>2
    <2>6. tokens[i] = Letter(c.xy) /\ tokens[i + 1] = s[2] /\ (Len(s) = 3 => tokens[i + 2] = s[3])
        BY <2>2, <2>3, <2>4, <2>5, Zenon
    <2>7. i <= L /\ i \in 1 .. L
        BY <1>6, <2>1, <2>3, <2>5
    <2>8. pass[i] = [skip |-> FALSE, entry |-> NameEntry(tokens, i), next |-> after]
        BY <2>7 DEF NamePass
    <2> HIDE DEF pass, after
    <2>9. pass[i].skip = FALSE /\ pass[i].entry = NameEntry(tokens, i) /\ pass[i].next = after
        BY <2>8
    <2>10. NameFilesFor(ds)[k] = NameFileFor(c)
        BY DEF NameFilesFor, c
    <2>11. CASE c.tag = "2"
        <3>1. Renamed(tokens, i) /\ after = at[k + 1]
            BY <2>2, <2>3, <2>6, <2>11 DEF Renamed, after
        <3>2. NameEntry(tokens, i) = NameFileFor(c)
            BY <2>2, <2>6, <2>11, <3>1 DEF NameEntry, NameFileFor
        <3>3. QED
            BY <2>7, <2>9, <2>10, <3>1, <3>2 DEF i
    <2>12. CASE c.tag # "2"
        <3>1. ~ Renamed(tokens, i) /\ after = at[k + 1]
            BY <2>2, <2>3, <2>6, <2>12 DEF Renamed, after
        <3>2. NameEntry(tokens, i) = NameFileFor(c)
            BY <2>2, <2>6, <2>12, <3>1 DEF NameEntry, NameFileFor
        <3>3. QED
            BY <2>7, <2>9, <2>10, <3>1, <3>2 DEF i
    <2>13. QED
        BY <2>11, <2>12
<1>10. Stands(L, pass, at, N, NameFilesFor(ds))
    <2> HIDE DEF pass, L, N
    <2>1. QED
        BY <1>1, <1>7, <1>9, Zenon DEF Stands
<1>11. NameParse(tokens)[1][0] = Shown(N, NameFilesFor(ds))
    <2> HIDE DEF pass, L, N, E
    <2>1. QED
        BY <1>8, <1>10, PassShows
<1>12. QED
    BY <1>11, ParseNameIs DEF tokens, ss

-----------------------------------------------------------------------------
(* Counting records: git.log                                               *)

(* What is counted, and what is kept of it.                                *)
Items == [id : Nat, counts : BOOLEAN]
Lists == [entries : Seq(Items), truncated : BOOLEAN]
ScriptPage(items, n) == FoldLeft(LAMBDA list, rec : PageOne(list, rec, n), NoEntries, items)
CountFold(items, n) ==
    CHOOSE f : f = [s \in SUBSET DOMAIN items |->
                       IF s = {} THEN NoEntries ELSE CountOne(f[s \ {Max(s)}], items[Max(s)], n)]
CountStep(n) == [list \in Lists |-> [item \in Items |-> CountOne(list, item, n)]]

(* What the helper counts is the recursion of its fold.                    *)
LEMMA CountFolds ==
    ASSUME NEW items, NEW n
    PROVE  Counted(items, n) = CountFold(items, n)[DOMAIN items]
BY Zenon DEF FoldLeft, MapThenFoldSet, CountFold, Counted

(* One item counted leaves a list.                                         *)
LEMMA CountOneType ==
    ASSUME NEW list \in Lists, NEW item \in Items, NEW n
    PROVE  CountOne(list, item, n) \in Lists
<1>1. list \in [entries : Seq(Items), truncated : BOOLEAN] /\ list.entries \in Seq(Items)
    BY DEF Lists
<1>2. Append(list.entries, item) \in Seq(Items)
    BY <1>1
<1>3. QED
    BY <1>1, <1>2 DEF CountOne, Lists

(* Counting takes one item after the other.                                *)
LEMMA CountRuns ==
    ASSUME NEW items \in Seq(Items), NEW n
    PROVE  \E run : Runs(run, items, Lists, NoEntries, CountStep(n), Counted(items, n))
<1> DEFINE L == Len(items)
           next(s, f) == IF s = {} THEN NoEntries ELSE CountOne(f[s \ {Max(s)}], items[Max(s)], n)
           F == CountFold(items, n)
           step == CountStep(n)
<1>1. L \in Nat /\ DOMAIN items = 1 .. L /\ \A i \in 1 .. L : items[i] \in Items
    OBVIOUS
<1>2. NoEntries \in Lists
    BY EmptySeq DEF NoEntries, Lists
<1>3. step \in [Lists -> [Items -> Lists]]
      /\ \A f \in Lists, item \in Items : step[f][item] = CountOne(f, item, n)
    BY CountOneType DEF CountStep
<1> HIDE DEF step
<1>4. \A s \in SUBSET (1 .. L) : s # {} => Max(s) \in 1 .. L /\ s \ {Max(s)} \in SUBSET (1 .. L)
    BY <1>1, LastPosition
<1>5. PICK g : FoldSolution(items, Lists, NoEntries, step, g)
    BY <1>2, <1>3, FoldIsSolvable, Zenon
<1>6. /\ g \in [SUBSET (1 .. L) -> Lists]
      /\ \A s \in SUBSET (1 .. L) : g[s] = FoldAt(items, NoEntries, step, s, g)
    BY <1>5 DEF FoldSolution
<1>7. ASSUME NEW s \in SUBSET (1 .. L) PROVE g[s] = next(s, g)
    <2>1. CASE s = {}
        BY <1>6, <2>1 DEF FoldAt
    <2>2. CASE s # {}
        <3>1. g[s \ {Max(s)}] \in Lists /\ items[Max(s)] \in Items
            BY <1>1, <1>4, <1>6, <2>2
        <3>2. QED
            BY <1>3, <1>6, <2>2, <3>1 DEF FoldAt
    <2>3. QED
        BY <2>1, <2>2
<1>8. g = [s \in SUBSET (1 .. L) |-> next(s, g)]
    BY <1>6, <1>7
<1>9. F = [s \in SUBSET (1 .. L) |-> next(s, F)]
    BY <1>1, <1>8, Zenon DEF CountFold
<1>10. Counted(items, n) = F[1 .. L]
    BY <1>1, CountFolds, Zenon DEF F
<1> HIDE DEF F
<1>11. FoldedBy(F, items, Lists, NoEntries, step)
    <2>1. ASSUME NEW s \in SUBSET (1 .. L)
          PROVE  /\ s = {} => F[s] = NoEntries
                 /\ s # {} /\ F[s \ {Max(s)}] \in Lists => F[s] = step[F[s \ {Max(s)}]][items[Max(s)]]
        <3>1. F[s] = next(s, F)
            BY <1>9, Zenon
        <3>2. CASE s = {}
            BY <3>1, <3>2
        <3>3. CASE s # {} /\ F[s \ {Max(s)}] \in Lists
            <4>1. items[Max(s)] \in Items
                BY <1>1, <1>4, <3>3
            <4>2. QED
                BY <1>3, <3>1, <3>3, <4>1
        <3>4. QED
            BY <3>2, <3>3
    <2>2. QED
        BY <2>1, Zenon DEF FoldedBy
<1>12. \E run : Runs(run, items, Lists, NoEntries, step, F[1 .. Len(items)])
    BY <1>2, <1>3, <1>11, FoldRuns, Zenon
<1>13. QED
    BY <1>10, <1>12 DEF step

PageFold(items, n) ==
    CHOOSE f : f = [s \in SUBSET DOMAIN items |->
                       IF s = {} THEN NoEntries ELSE PageOne(f[s \ {Max(s)}], items[Max(s)], n)]
PageStep(n) == [list \in Lists |-> [item \in Items |-> PageOne(list, item, n)]]

(* What the script counts is the recursion of its fold.                    *)
LEMMA PageFolds ==
    ASSUME NEW items, NEW n
    PROVE  ScriptPage(items, n) = PageFold(items, n)[DOMAIN items]
BY Zenon DEF FoldLeft, MapThenFoldSet, PageFold, ScriptPage

(* One record read leaves a list.                                          *)
LEMMA PageOneType ==
    ASSUME NEW list \in Lists, NEW item \in Items, NEW n
    PROVE  PageOne(list, item, n) \in Lists
<1>1. list \in [entries : Seq(Items), truncated : BOOLEAN] /\ list.entries \in Seq(Items)
    BY DEF Lists
<1>2. Append(list.entries, item) \in Seq(Items)
    BY <1>1
<1>3. QED
    BY <1>1, <1>2 DEF PageOne, Lists

(* The script takes one record after the other.                            *)
LEMMA PageRuns ==
    ASSUME NEW items \in Seq(Items), NEW n
    PROVE  \E run : Runs(run, items, Lists, NoEntries, PageStep(n), ScriptPage(items, n))
<1> DEFINE L == Len(items)
           next(s, f) == IF s = {} THEN NoEntries ELSE PageOne(f[s \ {Max(s)}], items[Max(s)], n)
           F == PageFold(items, n)
           step == PageStep(n)
<1>1. L \in Nat /\ DOMAIN items = 1 .. L /\ \A i \in 1 .. L : items[i] \in Items
    OBVIOUS
<1>2. NoEntries \in Lists
    BY EmptySeq DEF NoEntries, Lists
<1>3. step \in [Lists -> [Items -> Lists]]
      /\ \A f \in Lists, item \in Items : step[f][item] = PageOne(f, item, n)
    BY PageOneType DEF PageStep
<1> HIDE DEF step
<1>4. \A s \in SUBSET (1 .. L) : s # {} => Max(s) \in 1 .. L /\ s \ {Max(s)} \in SUBSET (1 .. L)
    BY <1>1, LastPosition
<1>5. PICK g : FoldSolution(items, Lists, NoEntries, step, g)
    BY <1>2, <1>3, FoldIsSolvable, Zenon
<1>6. /\ g \in [SUBSET (1 .. L) -> Lists]
      /\ \A s \in SUBSET (1 .. L) : g[s] = FoldAt(items, NoEntries, step, s, g)
    BY <1>5 DEF FoldSolution
<1>7. ASSUME NEW s \in SUBSET (1 .. L) PROVE g[s] = next(s, g)
    <2>1. CASE s = {}
        BY <1>6, <2>1 DEF FoldAt
    <2>2. CASE s # {}
        <3>1. g[s \ {Max(s)}] \in Lists /\ items[Max(s)] \in Items
            BY <1>1, <1>4, <1>6, <2>2
        <3>2. QED
            BY <1>3, <1>6, <2>2, <3>1 DEF FoldAt
    <2>3. QED
        BY <2>1, <2>2
<1>8. g = [s \in SUBSET (1 .. L) |-> next(s, g)]
    BY <1>6, <1>7
<1>9. F = [s \in SUBSET (1 .. L) |-> next(s, F)]
    BY <1>1, <1>8, Zenon DEF PageFold
<1>10. ScriptPage(items, n) = F[1 .. L]
    BY <1>1, PageFolds, Zenon DEF F
<1> HIDE DEF F
<1>11. FoldedBy(F, items, Lists, NoEntries, step)
    <2>1. ASSUME NEW s \in SUBSET (1 .. L)
          PROVE  /\ s = {} => F[s] = NoEntries
                 /\ s # {} /\ F[s \ {Max(s)}] \in Lists => F[s] = step[F[s \ {Max(s)}]][items[Max(s)]]
        <3>1. F[s] = next(s, F)
            BY <1>9, Zenon
        <3>2. CASE s = {}
            BY <3>1, <3>2
        <3>3. CASE s # {} /\ F[s \ {Max(s)}] \in Lists
            <4>1. items[Max(s)] \in Items
                BY <1>1, <1>4, <3>3
            <4>2. QED
                BY <1>3, <3>1, <3>3, <4>1
        <3>4. QED
            BY <3>2, <3>3
    <2>2. QED
        BY <2>1, Zenon DEF FoldedBy
<1>12. \E run : Runs(run, items, Lists, NoEntries, step, F[1 .. Len(items)])
    BY <1>2, <1>3, <1>11, FoldRuns, Zenon
<1>13. QED
    BY <1>10, <1>12 DEF step

(* The record of a commit, and the second one where its subject splits it. *)
HeadOf(q) == [id |-> q.id, counts |-> TRUE]
TailOf(q) == [id |-> q.id, counts |-> FALSE]
PrintedAll(qs) == [i \in DOMAIN qs |-> Printed(qs[i])]

(* git prints one record of a commit, or two where its subject splits.     *)
LEMMA PrintedIs ==
    ASSUME NEW q \in GitCommit
    PROVE  /\ Printed(q) \in Seq(Items) /\ HeadOf(q) \in Items /\ TailOf(q) \in Items
           /\ Printed(q)[1] = HeadOf(q)
           /\ q.split => Len(Printed(q)) = 2 /\ Printed(q)[2] = TailOf(q)
           /\ ~ q.split => Len(Printed(q)) = 1
<1>1. q.id \in Nat /\ q.split \in BOOLEAN
    BY DEF GitCommit
<1>2. HeadOf(q) \in Items /\ TailOf(q) \in Items
    BY <1>1 DEF HeadOf, TailOf, Items
<1> DEFINE h == HeadOf(q)
           t == TailOf(q)
<1>3. /\ q.split => Printed(q) = <<h>> \o <<t>>
      /\ ~ q.split => Printed(q) = <<h>> \o <<>>
    BY Zenon DEF Printed, HeadOf, TailOf
<1> HIDE DEF h, t
<1>4. h \in Items /\ t \in Items
    BY <1>2 DEF h, t
<1>5. /\ <<h>> \o <<t>> \in Seq(Items) /\ Len(<<h>> \o <<t>>) = 2
      /\ (<<h>> \o <<t>>)[1] = h /\ (<<h>> \o <<t>>)[2] = t
    BY <1>4
<1>6. <<h>> \o <<>> \in Seq(Items) /\ Len(<<h>> \o <<>>) = 1 /\ (<<h>> \o <<>>)[1] = h
    BY <1>4
<1>7. /\ Printed(q) \in Seq(Items) /\ Printed(q)[1] = h
      /\ q.split => Len(Printed(q)) = 2 /\ Printed(q)[2] = t
      /\ ~ q.split => Len(Printed(q)) = 1
    BY <1>3, <1>5, <1>6, Zenon
<1>8. QED
    BY <1>2, <1>7 DEF h, t

(* In what git prints of some commits every one has a place of its own.    *)
RecordsAt(qs, tokens, at) ==
    /\ tokens \in Seq(Items)
    /\ at \in [1 .. Len(qs) + 1 -> Nat \ {0}] /\ at[1] = 1 /\ at[Len(qs) + 1] = Len(tokens) + 1
    /\ \A k \in 1 .. Len(qs) :
          /\ at[k] <= Len(tokens) /\ tokens[at[k]] = HeadOf(qs[k])
          /\ qs[k].split => /\ at[k + 1] = at[k] + 2 /\ at[k] < Len(tokens)
                            /\ tokens[at[k] + 1] = TailOf(qs[k])
          /\ ~ qs[k].split => at[k + 1] = at[k] + 1

(* There are such places in the records of any commits.                    *)
LEMMA RecordsHavePlaces ==
    ASSUME NEW qs \in Seq(GitCommit)
    PROVE  \E at : RecordsAt(qs, FlattenSeq(PrintedAll(qs)), at)
<1> DEFINE n == Len(qs)
           ss == PrintedAll(qs)
           tokens == FlattenSeq(ss)
<1>1. n \in Nat /\ DOMAIN qs = 1 .. n /\ \A k \in 1 .. n : qs[k] \in GitCommit
    OBVIOUS
<1>2. \A k \in 1 .. n : ss[k] = Printed(qs[k])
    BY <1>1 DEF PrintedAll
<1>3. ss \in Seq(Seq(Items)) /\ Len(ss) = n
    BY <1>1, PrintedIs DEF PrintedAll
<1> HIDE DEF ss
<1>4. tokens \in Seq(Items) /\ \E at : Places(ss, at)
    BY <1>3, FlattenPlaces
<1>5. PICK at : Places(ss, at)
    BY <1>4
<1> HIDE DEF tokens
<1>6. /\ at \in [1 .. n + 1 -> Nat \ {0}] /\ at[1] = 1 /\ at[n + 1] = Len(tokens) + 1
      /\ \A k \in 1 .. n : /\ at[k + 1] = at[k] + Len(ss[k]) /\ at[k + 1] <= Len(tokens) + 1
                           /\ \A j \in 1 .. Len(ss[k]) : tokens[at[k] + j - 1] = ss[k][j]
    BY <1>3, <1>5 DEF Places, tokens
<1>7. ASSUME NEW k \in 1 .. n
      PROVE  /\ at[k] <= Len(tokens) /\ tokens[at[k]] = HeadOf(qs[k])
             /\ qs[k].split => /\ at[k + 1] = at[k] + 2 /\ at[k] < Len(tokens)
                               /\ tokens[at[k] + 1] = TailOf(qs[k])
             /\ ~ qs[k].split => at[k + 1] = at[k] + 1
    <2>1. at[k] \in Nat /\ at[k + 1] \in Nat /\ Len(tokens) \in Nat
        <3>1. Len(tokens) \in Nat
            BY <1>4, LenProperties
        <3>2. k \in 1 .. n + 1 /\ k + 1 \in 1 .. n + 1
            BY <1>1
        <3>3. QED
            BY <1>6, <3>1, <3>2
    <2>2. /\ at[k + 1] = at[k] + Len(ss[k]) /\ at[k + 1] <= Len(tokens) + 1
          /\ \A j \in 1 .. Len(ss[k]) : tokens[at[k] + j - 1] = ss[k][j]
        BY <1>6
    <2>3. /\ ss[k][1] = HeadOf(qs[k])
          /\ qs[k].split => Len(ss[k]) = 2 /\ ss[k][2] = TailOf(qs[k])
          /\ ~ qs[k].split => Len(ss[k]) = 1
        BY <1>1, <1>2, PrintedIs
    <2>4. 1 \in 1 .. Len(ss[k]) /\ at[k] + 1 - 1 = at[k] /\ at[k] + 2 - 1 = at[k] + 1
        BY <2>1, <2>3
    <2>5. tokens[at[k]] = HeadOf(qs[k])
        BY <2>2, <2>3, <2>4
    <2>6. ASSUME qs[k].split
          PROVE  at[k + 1] = at[k] + 2 /\ at[k] < Len(tokens) /\ tokens[at[k] + 1] = TailOf(qs[k])
        <3>1. 2 \in 1 .. Len(ss[k])
            BY <2>3, <2>6
        <3>2. at[k + 1] = at[k] + 2
            BY <2>2, <2>3, <2>6
        <3>3. tokens[at[k] + 2 - 1] = TailOf(qs[k])
            BY <2>2, <2>3, <2>6, <3>1
        <3>4. at[k] < Len(tokens)
            BY <2>1, <2>2, <3>2
        <3>5. QED
            BY <2>4, <3>2, <3>3, <3>4
    <2>7. ~ qs[k].split => at[k + 1] = at[k] + 1
        BY <2>2, <2>3
    <2>8. at[k] <= Len(tokens)
        BY <2>1, <2>2, <2>6, <2>7
    <2>9. QED
        BY <2>5, <2>6, <2>7, <2>8
<1>8. RecordsAt(qs, tokens, at)
    BY <1>4, <1>6, <1>7, Zenon DEF RecordsAt
<1>9. QED
    BY <1>8, Zenon DEF tokens, ss

(* What is counted after the records of the first m commits.               *)
AfterCommits(qs, n, m) ==
    [entries |-> [k \in 1 .. Least(m, n) |-> HeadOf(qs[k])],
     truncated |-> m > n \/ (m = n /\ qs[m].split)]

(* One more commit: its record, and the second one where there is one.     *)
LEMMA CommitIsCounted ==
    ASSUME NEW qs \in Seq(GitCommit), NEW n \in Nat \ {0}, NEW m \in 0 .. Len(qs) - 1
    PROVE  /\ ~ qs[m + 1].split =>
                  CountOne(AfterCommits(qs, n, m), HeadOf(qs[m + 1]), n) = AfterCommits(qs, n, m + 1)
           /\ qs[m + 1].split =>
                  CountOne(CountOne(AfterCommits(qs, n, m), HeadOf(qs[m + 1]), n), TailOf(qs[m + 1]), n)
                      = AfterCommits(qs, n, m + 1)
<1> DEFINE q == qs[m + 1]
           h == HeadOf(q)
           t == TailOf(q)
           heads(k) == [j \in 1 .. Least(k, n) |-> HeadOf(qs[j])]
           A == AfterCommits(qs, n, m)
           B == AfterCommits(qs, n, m + 1)
           C == CountOne(A, h, n)
<1>1. m \in Nat /\ m + 1 \in 1 .. Len(qs) /\ Len(qs) \in Nat /\ n \in Nat /\ n # 0 /\ q \in GitCommit
    OBVIOUS
<1>2. /\ Least(m, n) \in Nat /\ Least(m, n) <= m
      /\ m < n => Least(m, n) = m /\ Least(m + 1, n) = m + 1
      /\ m >= n => Least(m, n) = n /\ Least(m + 1, n) = n
    BY <1>1 DEF Least
<1>3. \A k \in 0 .. Len(qs) : heads(k) \in Seq(Items) /\ Len(heads(k)) = Least(k, n)
    <2> TAKE k \in 0 .. Len(qs)
    <2>1. Least(k, n) \in Nat /\ Least(k, n) <= k
        BY <1>1 DEF Least
    <2>2. \A j \in 1 .. Least(k, n) : HeadOf(qs[j]) \in Items
        BY <1>1, <2>1, PrintedIs
    <2>3. QED
        BY <2>1, <2>2
<1>4. m \in 0 .. Len(qs) /\ m + 1 \in 0 .. Len(qs)
    BY <1>1
<1>5. h.counts /\ ~ t.counts /\ h \in Items
    BY <1>1, PrintedIs DEF HeadOf, TailOf
<1>6. A = [entries |-> heads(m), truncated |-> m > n \/ (m = n /\ qs[m].split)]
      /\ B = [entries |-> heads(m + 1), truncated |-> m + 1 > n \/ (m + 1 = n /\ q.split)]
    BY DEF AfterCommits
<1>7. m < n => heads(m + 1) = Append(heads(m), h)
    <2> SUFFICES ASSUME m < n PROVE heads(m + 1) = Append(heads(m), h)
        OBVIOUS
    <2>1. heads(m) \in [1 .. m -> Items] /\ heads(m + 1) \in [1 .. m + 1 -> Items]
        <3>1. heads(m) \in Seq(Items) /\ Len(heads(m)) = m
            BY <1>2, <1>3, <1>4
        <3>2. heads(m + 1) \in Seq(Items) /\ Len(heads(m + 1)) = m + 1
            BY <1>2, <1>3, <1>4
        <3> HIDE DEF heads
        <3>3. QED
            BY <1>1, <3>1, <3>2
    <2>2. heads(m + 1)[m + 1] = h /\ \A i \in 1 .. m : heads(m + 1)[i] = heads(m)[i]
        BY <1>1, <1>2
    <2> HIDE DEF heads
    <2>3. QED
        BY <1>1, <2>1, <2>2, OneMore
<1>8. m >= n => heads(m + 1) = heads(m)
    BY <1>2
<1>9. heads(m) \in Seq(Items) /\ Len(heads(m)) = Least(m, n)
      /\ heads(m + 1) \in Seq(Items) /\ Len(heads(m + 1)) = Least(m + 1, n)
    BY <1>3, <1>4
<1> HIDE DEF heads, A, B, h, t, q
<1>10. CASE m > n \/ (m = n /\ qs[m].split)
    <2>1. (m > n \/ (m = n /\ qs[m].split)) = TRUE /\ (m + 1 > n \/ (m + 1 = n /\ q.split)) = TRUE /\ m >= n
        BY <1>1, <1>10
    <2>2. A = B /\ A.truncated
        BY <1>6, <1>8, <2>1
    <2>3. CountOne(A, h, n) = A /\ CountOne(A, t, n) = A
        BY <2>2, Zenon DEF CountOne
    <2>4. QED
        BY <2>2, <2>3 DEF A, B, h, t, q
<1>11. CASE m = n /\ ~ qs[m].split
    <2>1. (m > n \/ (m = n /\ qs[m].split)) = FALSE /\ (m + 1 > n \/ (m + 1 = n /\ q.split)) = TRUE /\ m >= n
        BY <1>1, <1>11
    <2>2. /\ A = [entries |-> heads(m), truncated |-> FALSE]
          /\ B = [entries |-> heads(m), truncated |-> TRUE]
        BY <1>6, <1>8, <2>1
    <2>3. ~ A.truncated /\ A.entries = heads(m) /\ Len(A.entries) >= n
        BY <1>1, <1>2, <1>9, <2>1, <2>2
    <2>4. CountOne(A, h, n) = [A EXCEPT !.truncated = TRUE]
        BY <2>3, Zenon DEF CountOne
    <2>5. CountOne(A, h, n) = B
        BY <2>2, <2>4
    <2>6. B.truncated
        BY <2>2
    <2>7. CountOne(B, t, n) = B
        BY <2>6, Zenon DEF CountOne
    <2>8. QED
        BY <2>5, <2>7 DEF A, B, h, t, q
<1>12. CASE m < n
    <2>1. (m > n \/ (m = n /\ qs[m].split)) = FALSE
        BY <1>1, <1>12
    <2>2. A = [entries |-> heads(m), truncated |-> FALSE]
        BY <1>6, <2>1
    <2>3. ~ A.truncated /\ A.entries = heads(m) /\ ~ (Len(A.entries) >= n)
        BY <1>1, <1>2, <1>9, <1>12, <2>2
    <2>4. C = [A EXCEPT !.entries = Append(@, h)]
        BY <1>5, <2>3, Zenon DEF CountOne
    <2>5. C = [entries |-> heads(m + 1), truncated |-> FALSE]
        BY <1>7, <1>12, <2>2, <2>4
    <2> HIDE DEF C
    <2>6. CASE ~ q.split
        <3>1. (m + 1 > n \/ (m + 1 = n /\ q.split)) = FALSE
            BY <1>1, <1>12, <2>6
        <3>2. C = B
            BY <1>6, <2>5, <3>1
        <3>3. QED
            BY <2>6, <3>2 DEF A, B, C, h, t, q
    <2>7. CASE q.split /\ m + 1 = n
        <3>1. (m + 1 > n \/ (m + 1 = n /\ q.split)) = TRUE
            BY <2>7
        <3>2. B = [entries |-> heads(m + 1), truncated |-> TRUE]
            BY <1>6, <3>1
        <3>3. ~ C.truncated /\ Len(C.entries) >= n
            BY <1>1, <1>2, <1>9, <1>12, <2>5, <2>7
        <3>4. CountOne(C, t, n) = [C EXCEPT !.truncated = TRUE]
            BY <3>3, Zenon DEF CountOne
        <3>5. CountOne(C, t, n) = B
            BY <2>5, <3>2, <3>4
        <3>6. QED
            BY <2>7, <3>5 DEF A, B, C, h, t, q
    <2>8. CASE q.split /\ m + 1 # n
        <3>1. (m + 1 > n \/ (m + 1 = n /\ q.split)) = FALSE
            BY <1>1, <1>12, <2>8
        <3>2. C = B
            BY <1>6, <2>5, <3>1
        <3>3. ~ C.truncated /\ ~ (Len(C.entries) >= n)
            BY <1>1, <1>2, <1>9, <1>12, <2>5, <2>8
        <3>4. CountOne(C, t, n) = C
            BY <1>5, <3>3, Zenon DEF CountOne
        <3>5. QED
            BY <2>8, <3>2, <3>4 DEF A, B, C, h, t, q
    <2>9. QED
        BY <2>6, <2>7, <2>8
<1>13. QED
    BY <1>1, <1>10, <1>11, <1>12

(* Counting what git prints of some commits.                               *)
LEMMA CommitsAreCounted ==
    ASSUME NEW qs \in Seq(GitCommit), NEW n \in Nat \ {0}, NEW tokens, NEW at, NEW run,
           RecordsAt(qs, tokens, at), run[0] = NoEntries,
           \A i \in 1 .. Len(tokens) : run[i] = CountOne(run[i - 1], tokens[i], n)
    PROVE  run[Len(tokens)] = AfterCommits(qs, n, Len(qs))
<1> DEFINE N == Len(qs)
           L == Len(tokens)
           good == {m \in Nat : m <= N => run[at[m + 1] - 1] = AfterCommits(qs, n, m)}
<1>2. /\ tokens \in Seq(Items) /\ N \in Nat
      /\ at \in [1 .. N + 1 -> Nat \ {0}] /\ at[1] = 1 /\ at[N + 1] = L + 1
    BY DEF RecordsAt
<1>3. L \in Nat
    BY <1>2, LenProperties
<1>4. \A i \in 1 .. L : run[i] = CountOne(run[i - 1], tokens[i], n)
    OBVIOUS
<1>7. 0 \in good
    <2>1. at[0 + 1] - 1 = 0
        BY <1>2
    <2>2. AfterCommits(qs, n, 0) = NoEntries
        <3>1. Least(0, n) = 0 /\ (0 > n \/ (0 = n /\ qs[0].split)) = FALSE
            BY DEF Least
        <3> DEFINE heads == [k \in 1 .. Least(0, n) |-> HeadOf(qs[k])]
        <3>2. heads = <<>>
            BY <3>1
        <3>3. AfterCommits(qs, n, 0) = [entries |-> heads, truncated |-> 0 > n \/ (0 = n /\ qs[0].split)]
            BY DEF AfterCommits
        <3> HIDE DEF heads
        <3>4. QED
            BY <3>1, <3>2, <3>3 DEF NoEntries
    <2>3. QED
        BY <2>1, <2>2
<1>8. ASSUME NEW m \in 0 .. N - 1, m \in good PROVE m + 1 \in good
    <2> DEFINE k == m + 1
               i == at[k]
               q == qs[k]
               A == AfterCommits(qs, n, m)
               B == AfterCommits(qs, n, k)
    <2>1. k \in 1 .. N /\ k \in Nat /\ m <= N /\ k \in 1 .. N + 1 /\ k + 1 \in 1 .. N + 1
        BY <1>2
    <2>2. /\ at[k] <= L /\ tokens[i] = HeadOf(q)
          /\ q.split => at[k + 1] = i + 2 /\ i < L /\ tokens[i + 1] = TailOf(q)
          /\ ~ q.split => at[k + 1] = i + 1
        BY <2>1, Zenon DEF RecordsAt
    <2>3. i \in 1 .. L /\ at[k + 1] \in Nat
        <3>1. at[k] \in Nat \ {0} /\ at[k + 1] \in Nat \ {0} /\ at[k] <= L
            BY <1>2, <2>1, <2>2
        <3> HIDE DEF k, L
        <3>2. QED
            BY <1>3, <3>1
    <2>4. run[i - 1] = A
        BY <1>8, <2>1
    <2>5. /\ ~ q.split => CountOne(A, HeadOf(q), n) = B
          /\ q.split => CountOne(CountOne(A, HeadOf(q), n), TailOf(q), n) = B
        BY CommitIsCounted
    <2> HIDE DEF i, q, A, B, k
    <2>6. run[i] = CountOne(A, HeadOf(q), n)
        BY <1>4, <2>2, <2>3, <2>4
    <2>7. CASE ~ q.split
        <3>1. at[k + 1] - 1 = i
            BY <2>2, <2>3, <2>7
        <3>2. QED
            BY <2>1, <2>5, <2>6, <2>7, <3>1 DEF B, k
    <2>8. CASE q.split
        <3>1. at[k + 1] - 1 = i + 1 /\ i + 1 \in 1 .. L /\ (i + 1) - 1 = i
            BY <1>3, <2>2, <2>3, <2>8
        <3>2. run[i + 1] = CountOne(run[i], TailOf(q), n)
            BY <1>4, <2>2, <2>8, <3>1
        <3>3. QED
            BY <2>1, <2>5, <2>6, <2>8, <3>1, <3>2 DEF B, k
    <2>9. QED
        BY <2>7, <2>8
<1>9. N \in good
    <2> HIDE DEF good
    <2>1. \A m \in 0 .. N : m \in good
        BY <1>2, <1>7, <1>8, InductionUpTo
    <2>2. QED
        BY <1>2, <2>1
<1>10. run[at[N + 1] - 1] = AfterCommits(qs, n, N)
    BY <1>2, <1>9
<1>11. at[N + 1] - 1 = L
    BY <1>2, <1>3
<1>12. QED
    BY <1>10, <1>11

(* What git.log makes of what git prints of some commits.                  *)
LEMMA CountedCommits ==
    ASSUME NEW qs \in Seq(GitCommit), NEW n \in Nat \ {0}
    PROVE  Counted(FlattenSeq(PrintedAll(qs)), n) = AfterCommits(qs, n, Len(qs))
<1> DEFINE tokens == FlattenSeq(PrintedAll(qs))
           L == Len(tokens)
<1>1. PICK at : RecordsAt(qs, tokens, at)
    BY RecordsHavePlaces
<1> HIDE DEF tokens
<1>2. tokens \in Seq(Items) /\ L \in Nat
    <2>1. tokens \in Seq(Items)
        BY <1>1 DEF RecordsAt
    <2>2. QED
        BY <2>1, LenProperties
<1>3. PICK run : Runs(run, tokens, Lists, NoEntries, CountStep(n), Counted(tokens, n))
    BY <1>2, CountRuns
<1>4. /\ run \in [0 .. L -> Lists] /\ run[0] = NoEntries /\ Counted(tokens, n) = run[L]
      /\ \A i \in 1 .. L : run[i] = CountStep(n)[run[i - 1]][tokens[i]]
    BY <1>3 DEF Runs
<1>5. \A i \in 1 .. L : run[i] = CountOne(run[i - 1], tokens[i], n)
    <2> TAKE i \in 1 .. L
    <2>1. tokens[i] \in Items /\ i - 1 \in 0 .. L
        BY <1>2
    <2>2. run[i - 1] \in Lists
        BY <1>4, <2>1
    <2>3. CountStep(n)[run[i - 1]][tokens[i]] = CountOne(run[i - 1], tokens[i], n)
        BY <2>1, <2>2 DEF CountStep
    <2>4. QED
        BY <1>4, <2>3
<1>6. run[L] = AfterCommits(qs, n, Len(qs))
    <2>1. run[0] = NoEntries
        BY <1>4, Zenon
    <2>2. QED
        BY ONLY <1>1, <1>5, <2>1, qs \in Seq(GitCommit), n \in Nat \ {0}, CommitsAreCounted, Zenon
<1>7. QED
    BY <1>4, <1>6 DEF tokens

(* What the script makes of them where none of them prints two records.    *)
LEMMA ScriptCountsCommits ==
    ASSUME NEW qs \in Seq(GitCommit), NEW n \in Nat \ {0}, \A k \in 1 .. Len(qs) : ~ qs[k].split
    PROVE  ScriptPage(FlattenSeq(PrintedAll(qs)), n) = AfterCommits(qs, n, Len(qs))
<1> DEFINE tokens == FlattenSeq(PrintedAll(qs))
           L == Len(tokens)
           N == Len(qs)
<1>1. PICK at : RecordsAt(qs, tokens, at)
    BY RecordsHavePlaces
<1> HIDE DEF tokens
<1>2. tokens \in Seq(Items) /\ L \in Nat /\ N \in Nat
    <2>1. tokens \in Seq(Items)
        BY <1>1 DEF RecordsAt
    <2>2. QED
        BY <2>1, LenProperties
<1>3. PICK run : Runs(run, tokens, Lists, NoEntries, PageStep(n), ScriptPage(tokens, n))
    BY <1>2, PageRuns
<1>4. /\ run \in [0 .. L -> Lists] /\ run[0] = NoEntries /\ ScriptPage(tokens, n) = run[L]
      /\ \A i \in 1 .. L : run[i] = PageStep(n)[run[i - 1]][tokens[i]]
    BY <1>3 DEF Runs
<1>5. \A k \in 1 .. N : at[k] = k /\ tokens[k] = HeadOf(qs[k])
    <2>1. /\ at[1] = 1
          /\ \A k \in 1 .. N : at[k + 1] = at[k] + 1 /\ tokens[at[k]] = HeadOf(qs[k])
        BY <1>1, Zenon DEF RecordsAt
    <2> DEFINE good == {k \in Nat : k < N => at[k + 1] = k + 1}
    <2>2. 0 \in good
        BY <2>1
    <2>3. ASSUME NEW k \in 0 .. N - 1, k \in good PROVE k + 1 \in good
        <3>1. k + 1 \in 1 .. N /\ at[k + 1] = k + 1
            BY <1>2, <2>3
        <3>2. QED
            BY <2>1, <3>1
    <2>4. \A k \in 0 .. N : k \in good
        <3> HIDE DEF good, N
        <3>1. QED
            BY <1>2, <2>2, <2>3, InductionUpTo
    <2>5. ASSUME NEW k \in 1 .. N PROVE at[k] = k
        <3>1. k - 1 \in 0 .. N /\ k - 1 < N /\ (k - 1) + 1 = k
            BY <1>2
        <3>2. QED
            BY <2>4, <3>1
    <2>6. QED
        BY <2>1, <2>5
<1>6. L = N
    <2>1. at[N + 1] = L + 1 /\ at[1] = 1 /\ \A k \in 1 .. N : at[k + 1] = at[k] + 1
        BY <1>1, Zenon DEF RecordsAt
    <2>2. CASE N = 0
        BY <1>2, <2>1, <2>2
    <2>3. CASE N # 0
        <3>1. N \in 1 .. N
            BY <1>2, <2>3
        <3>2. at[N + 1] = N + 1
            BY <1>5, <2>1, <3>1
        <3>3. QED
            BY <1>2, <2>1, <3>2
    <2>4. QED
        BY <2>2, <2>3
<1>7. \A i \in 1 .. L : run[i] = CountOne(run[i - 1], tokens[i], n)
    <2> TAKE i \in 1 .. L
    <2>1. tokens[i] \in Items /\ i - 1 \in 0 .. L
        BY <1>2
    <2>2. run[i - 1] \in Lists
        BY <1>4, <2>1
    <2>3. PageStep(n)[run[i - 1]][tokens[i]] = PageOne(run[i - 1], tokens[i], n)
        BY <2>1, <2>2 DEF PageStep
    <2>4. tokens[i].counts
        <3>1. tokens[i] = HeadOf(qs[i])
            BY <1>5, <1>6
        <3>2. HeadOf(qs[i]).counts
            BY DEF HeadOf
        <3>3. QED
            BY <3>1, <3>2
    <2>5. PageOne(run[i - 1], tokens[i], n) = CountOne(run[i - 1], tokens[i], n)
        BY <2>4, Zenon DEF PageOne, CountOne
    <2>6. QED
        BY <1>4, <2>3, <2>5
<1>8. run[L] = AfterCommits(qs, n, Len(qs))
    BY <1>1, <1>4, <1>7, CommitsAreCounted
<1>9. QED
    BY <1>4, <1>8 DEF tokens

-----------------------------------------------------------------------------
(* Pages and chunks                                                        *)

(* What a prefix holds.                                                    *)
LEMMA PrefixIs ==
    ASSUME NEW S, NEW s \in Seq(S), NEW n \in Nat
    PROVE  /\ Prefix(s, n) \in Seq(S) /\ Len(Prefix(s, n)) = Least(Len(s), n)
           /\ \A i \in 1 .. Least(Len(s), n) : Prefix(s, n)[i] = s[i]
<1> DEFINE m == IF n < Len(s) THEN n ELSE Len(s)
<1>1. Len(s) \in Nat /\ m \in Nat /\ m <= Len(s) /\ m = Least(Len(s), n)
    BY DEF Least
<1> HIDE DEF m
<1>2. SubSeq(s, 1, m) \in Seq(S) /\ Len(SubSeq(s, 1, m)) = m /\ \A i \in 1 .. m : SubSeq(s, 1, m)[i] = s[i]
    BY <1>1
<1>3. Prefix(s, n) = SubSeq(s, 1, m)
    BY DEF Prefix, m
<1>4. QED
    BY <1>1, <1>2, <1>3

(* Clamped from 1 upwards, a size is within its cap.                       *)
LEMMA ClampIs ==
    ASSUME NEW limit \in Nat, NEW high \in Nat \ {0}
    PROVE  Clamp(limit, 1, high) \in 1 .. high
BY DEF Clamp

(* The commits git is asked for at some place of the history.              *)
Page(cs, a, n) == Prefix(SubSeq(cs, a + 1, Len(cs)), n)

(* They are the commits from that place on, as many as there are or as are *)
(* asked for.                                                              *)
LEMMA PageIs ==
    ASSUME NEW cs \in Seq(GitCommit), NEW a \in Nat, NEW n \in Nat
    PROVE  /\ Page(cs, a, n) \in Seq(GitCommit)
           /\ a <= Len(cs) => Len(Page(cs, a, n)) = Least(Len(cs) - a, n)
           /\ Len(Page(cs, a, n)) + a <= Len(cs) \/ Len(Page(cs, a, n)) = 0
           /\ \A i \in 1 .. Len(Page(cs, a, n)) :
                 Page(cs, a, n)[i] = SubSeq(cs, a + 1, Len(cs))[i] /\ Page(cs, a, n)[i] = cs[a + i]
<1> DEFINE N == Len(cs)
           s == SubSeq(cs, a + 1, N)
<1>1. N \in Nat /\ \A i \in a + 1 .. N : cs[i] \in GitCommit
    OBVIOUS
<1>2. /\ s \in Seq(GitCommit) /\ Len(s) = IF a + 1 <= N THEN N - (a + 1) + 1 ELSE 0
      /\ \A i \in 1 .. N - (a + 1) + 1 : s[i] = cs[(a + 1) + i - 1]
    <2>1. a + 1 \in Int /\ N \in Int
        BY <1>1
    <2>2. QED
        BY <1>1, <2>1, SubSeqProperties
<1>3. Len(s) = (IF a <= N THEN N - a ELSE 0) /\ Len(s) \in Nat
    BY <1>1, <1>2
<1>4. \A i \in 1 .. Len(s) : s[i] = cs[a + i]
    <2> TAKE i \in 1 .. Len(s)
    <2>1. i \in 1 .. N - (a + 1) + 1 /\ (a + 1) + i - 1 = a + i
        BY <1>1, <1>3
    <2>2. QED
        BY <1>2, <2>1
<1> HIDE DEF s
<1>5. /\ Prefix(s, n) \in Seq(GitCommit) /\ Len(Prefix(s, n)) = Least(Len(s), n)
      /\ \A i \in 1 .. Least(Len(s), n) : Prefix(s, n)[i] = s[i]
    BY <1>2, PrefixIs
<1>6. Least(Len(s), n) \in Nat /\ Least(Len(s), n) <= Len(s)
    BY <1>3, LeastIs
<1>7. Page(cs, a, n) = Prefix(s, n)
    BY DEF Page, s
<1>8. \A i \in 1 .. Least(Len(s), n) : Prefix(s, n)[i] = s[i] /\ Prefix(s, n)[i] = cs[a + i]
    <2> DEFINE L == Least(Len(s), n)
               p == Prefix(s, n)
    <2> HIDE DEF L, p
    <2> SUFFICES ASSUME NEW i \in 1 .. L
                 PROVE  p[i] = s[i] /\ p[i] = cs[a + i]
        BY DEF L, p
    <2>1. L \in Nat /\ L <= Len(s) /\ p[i] = s[i]
        BY <1>5, <1>6 DEF L, p
    <2>2. i \in 1 .. Len(s)
        BY <1>3, <2>1
    <2>3. QED
        BY <1>4, <2>1, <2>2, Zenon
<1>9. a <= N => Len(Page(cs, a, n)) = Least(N - a, n)
    BY <1>3, <1>5, <1>7
<1>10. Len(Page(cs, a, n)) + a <= N \/ Len(Page(cs, a, n)) = 0
    BY <1>1, <1>3, <1>5, <1>6, <1>7
<1>11. QED
    BY <1>5, <1>7, <1>8, <1>9, <1>10 DEF s

(* git log prints the records of those commits.                            *)
LEMMA LogRecordsAre ==
    ASSUME tree.commits \in Seq(GitCommit), NEW a \in Nat, NEW n \in Nat
    PROVE  LogRecords(a, n) = FlattenSeq(PrintedAll(Page(tree.commits, a, n)))
<1> DEFINE shown == SubSeq(tree.commits, a + 1, Len(tree.commits))
           qs == Page(tree.commits, a, n)
<1>1. LogRecords(a, n) = FlattenSeq([i \in DOMAIN qs |-> Printed(shown[i])])
    BY DEF LogRecords, Page
<1>2. /\ qs \in Seq(GitCommit)
      /\ \A i \in 1 .. Len(qs) : qs[i] = shown[i]
    BY PageIs
<1> HIDE DEF shown, qs
<1>3. DOMAIN qs = 1 .. Len(qs)
    BY <1>2
<1>4. [i \in DOMAIN qs |-> Printed(shown[i])] = [i \in DOMAIN qs |-> Printed(qs[i])]
    BY <1>2, <1>3
<1>5. QED
    BY <1>1, <1>4 DEF PrintedAll, qs

(* One page of the log.                                                    *)
LEMMA LogPage ==
    ASSUME tree.commits \in Seq(GitCommit), Discover(tree.dirs) # 0,
           NEW limit \in Nat, NEW a \in 0 .. Len(tree.commits)
    PROVE  LET n == Clamp(limit, 1, ListCap)
               page == LogOp(limit, a)
           IN /\ n \in Nat \ {0} /\ page.limit = n
              /\ page.commits \in Seq(Items) /\ Len(page.commits) \in Nat /\ page.truncated \in BOOLEAN
              /\ a + Len(page.commits) <= Len(tree.commits)
              /\ \A j \in 1 .. Len(page.commits) : page.commits[j] = HeadOf(tree.commits[a + j])
              /\ page.truncated => Len(page.commits) = n
              /\ ~ page.truncated => a + Len(page.commits) = Len(tree.commits)
<1> DEFINE cs == tree.commits
           n == Clamp(limit, 1, ListCap)
           page == LogOp(limit, a)
           qs == Page(cs, a, n + 1)
           M == Len(qs)
           heads == [k \in 1 .. Least(M, n) |-> HeadOf(qs[k])]
<1>1. n \in Nat \ {0} /\ n + 1 \in Nat /\ a \in Nat /\ cs \in Seq(GitCommit) /\ Len(cs) \in Nat /\ a <= Len(cs)
    <2>1. Clamp(limit, 1, ListCap) \in 1 .. ListCap
        BY Caps, ClampIs
    <2>2. ListCap \in Nat
        BY Caps
    <2>3. n \in Nat \ {0}
        BY <2>1, <2>2
    <2> HIDE DEF n
    <2>4. QED
        BY <2>3
<1>2. /\ qs \in Seq(GitCommit) /\ M = Least(Len(cs) - a, n + 1) /\ M \in Nat
      /\ \A i \in 1 .. M : qs[i] = cs[a + i] /\ qs[i] \in GitCommit
    <2> DEFINE top == n + 1
    <2>1. cs \in Seq(GitCommit) /\ top \in Nat /\ a \in Nat /\ a <= Len(cs)
        BY <1>1
    <2> HIDE DEF top, cs
    <2>2. /\ Page(cs, a, top) \in Seq(GitCommit) /\ Len(Page(cs, a, top)) = Least(Len(cs) - a, top)
          /\ \A i \in 1 .. Len(Page(cs, a, top)) : Page(cs, a, top)[i] = cs[a + i]
        BY <2>1, PageIs
    <2>3. /\ qs \in Seq(GitCommit) /\ M = Least(Len(cs) - a, n + 1)
          /\ \A i \in 1 .. M : qs[i] = cs[a + i]
        BY <2>2 DEF top, cs
    <2> HIDE DEF qs
    <2>4. M \in Nat /\ \A i \in 1 .. M : qs[i] \in GitCommit
        BY <2>3
    <2>5. QED
        BY <2>3, <2>4
<1>3. Counted(LogRecords(a, n + 1), n) = AfterCommits(qs, n, M)
    BY <1>1, <1>2, LogRecordsAre, CountedCommits
<1>4. page = [commits |-> AfterCommits(qs, n, M).entries, limit |-> n,
              truncated |-> AfterCommits(qs, n, M).truncated]
    BY <1>3, Zenon DEF LogOp, InRepo
<1>5. AfterCommits(qs, n, M) = [entries |-> heads, truncated |-> M > n \/ (M = n /\ qs[M].split)]
    BY DEF AfterCommits
<1> HIDE DEF n, page, qs, M, heads
<1>6. page.commits = heads /\ page.limit = n /\ page.truncated = (M > n \/ (M = n /\ qs[M].split))
    BY <1>4, <1>5
<1>7. /\ Least(M, n) \in Nat /\ Least(M, n) <= M /\ Least(M, n) <= n
      /\ M <= n => Least(M, n) = M
      /\ n <= M => Least(M, n) = n
    BY <1>1, <1>2, LeastIs
<1> DEFINE L == Least(M, n)
           R == Len(cs) - a
<1>8. R \in Nat /\ a + R = Len(cs)
    BY <1>1
<1>9. M = Least(R, n + 1)
    BY <1>2
<1> HIDE DEF R
<1>10. M <= R /\ (R <= n + 1 => M = R) /\ (n + 1 <= R => M = n + 1)
    <2> DEFINE top == n + 1
    <2>1. top \in Nat
        BY <1>1
    <2>2. M = Least(R, top)
        BY <1>9
    <2> HIDE DEF top
    <2>3. M <= R /\ (R <= top => M = R) /\ (top <= R => M = top)
        BY <1>8, <2>1, <2>2, LeastIs
    <2>4. QED
        BY <2>3 DEF top
<1>11. /\ heads \in Seq(Items) /\ Len(heads) = L
      /\ \A j \in 1 .. L : heads[j] = HeadOf(cs[a + j])
    <2>0. L \in Nat /\ L <= M
        BY <1>7
    <2>1. ASSUME NEW k \in 1 .. L
          PROVE  HeadOf(qs[k]) \in Items /\ qs[k] = cs[a + k]
        <3>1. k \in 1 .. M
            BY <1>2, <2>0
        <3>2. QED
            BY <3>1, <1>2, PrintedIs
    <2> HIDE DEF L
    <2>2. heads = [k \in 1 .. L |-> HeadOf(qs[k])]
        BY DEF heads, L
    <2>3. heads \in [1 .. L -> Items]
        BY <2>1, <2>2
    <2>4. QED
        BY <2>0, <2>1, <2>2, <2>3
<1> HIDE DEF L
<1>12. L \in Nat /\ L <= M /\ L <= n /\ (M <= n => L = M) /\ (n <= M => L = n)
    BY <1>7 DEF L
<1>13. a + L <= Len(cs)
    BY <1>1, <1>2, <1>12, <1>8, <1>10
<1>14. page.truncated => L = n
    <2>1. CASE M > n
        BY <1>1, <1>2, <2>1, <1>12
    <2>2. CASE M = n /\ qs[M].split
        BY <1>1, <1>2, <2>2, <1>12
    <2>3. QED
        BY <1>6, <2>1, <2>2
<1>15. ~ page.truncated => a + L = Len(cs)
    <2>1. SUFFICES ASSUME ~ (M > n)
                   PROVE  a + L = Len(cs)
        BY <1>6
    <2>2. M <= n
        BY <1>1, <1>2, <2>1
    <2>3. L = M /\ M = R
        BY <1>1, <1>2, <1>12, <1>8, <1>10, <2>2
    <2>4. QED
        BY <1>8, <2>3
<1>16. page.truncated \in BOOLEAN
    BY <1>6
<1>17. QED
    BY <1>1, <1>6, <1>12, <1>11, <1>13, <1>14, <1>15, <1>16 DEF n, page, heads

(* What asking for page after page, or chunk after chunk, gathers.         *)
PageAt(limit, f, a) ==
    LogOp(limit, a).commits
    \o IF LogOp(limit, a).truncated THEN f[a + LogOp(limit, a).limit] ELSE <<>>
AllPages(limit) == CHOOSE f : f = [a \in 0 .. Len(tree.commits) |-> PageAt(limit, f, a)]
ChunkAt(limit, f, a) ==
    ReadOp(a, limit).data
    \o IF ReadOp(a, limit).eof THEN <<>> ELSE f[a + Len(ReadOp(a, limit).data)]
AllChunks(limit) == CHOOSE f : f = [a \in 0 .. Len(tree.bytes) |-> ChunkAt(limit, f, a)]
IdsOf(records) == [i \in DOMAIN records |-> records[i].id]

(* PagesMeet, told of these.                                               *)
LEMMA PagesMeetIs ==
    ASSUME Answered("git.log") => IdsOf(AllPages(asked.limit)[0]) = IdsOf(tree.commits),
           Answered("fs.read") /\ ~ LooksBinary(tree.bytes) => AllChunks(asked.limit)[0] = tree.bytes
    PROVE  PagesMeet
BY Zenon DEF PagesMeet, AllPages, PageAt, AllChunks, ChunkAt, IdsOf

(* git.log, page after page of any size: every commit once and in order.   *)
THEOREM PagesAreWhole ==
    ASSUME tree.commits \in Seq(GitCommit), Discover(tree.dirs) # 0, NEW limit \in Nat
    PROVE  AllPages(limit)[0] = [k \in 1 .. Len(tree.commits) |-> HeadOf(tree.commits[k])]
<1> DEFINE cs == tree.commits
           N == Len(cs)
           whole == [k \in 1 .. N |-> HeadOf(cs[k])]
           piece == [a \in 0 .. N |-> LogOp(limit, a).commits]
           more == [a \in 0 .. N |-> LogOp(limit, a).truncated]
           size == Clamp(limit, 1, ListCap)
<1>1. N \in Nat /\ \A k \in 1 .. N : HeadOf(cs[k]) \in Items
    BY PrintedIs
<1>2. whole \in Seq(Items) /\ Len(whole) = N /\ \A k \in 1 .. N : whole[k] = HeadOf(cs[k])
    BY <1>1
<1>3. ASSUME NEW a \in 0 .. N
      PROVE  /\ size \in Nat \ {0} /\ LogOp(limit, a).limit = size
             /\ piece[a] \in Seq(Items) /\ more[a] \in BOOLEAN
             /\ a + Len(piece[a]) <= N
             /\ \A j \in 1 .. Len(piece[a]) : piece[a][j] = HeadOf(cs[a + j])
             /\ more[a] => Len(piece[a]) = size
             /\ ~ more[a] => a + Len(piece[a]) = N
    <2>1. piece[a] = LogOp(limit, a).commits /\ more[a] = LogOp(limit, a).truncated
        OBVIOUS
    <2> HIDE DEF piece, more
    <2>2. /\ size \in Nat \ {0} /\ LogOp(limit, a).limit = size
          /\ LogOp(limit, a).commits \in Seq(Items) /\ LogOp(limit, a).truncated \in BOOLEAN
          /\ a + Len(LogOp(limit, a).commits) <= N
          /\ \A j \in 1 .. Len(LogOp(limit, a).commits) :
                 LogOp(limit, a).commits[j] = HeadOf(cs[a + j])
          /\ LogOp(limit, a).truncated => Len(LogOp(limit, a).commits) = size
          /\ ~ LogOp(limit, a).truncated => a + Len(LogOp(limit, a).commits) = N
        BY LogPage, Zenon
    <2>3. QED
        BY <2>1, <2>2, Zenon
<1> HIDE DEF whole, size
<1>4. Pieces(Items, whole, piece, more)
    <2>1. ASSUME NEW a \in 0 .. Len(whole)
          PROVE  /\ piece[a] \in Seq(Items)
                 /\ a + Len(piece[a]) <= Len(whole)
                 /\ \A j \in 1 .. Len(piece[a]) : piece[a][j] = whole[a + j]
                 /\ more[a] => Len(piece[a]) > 0
                 /\ ~ more[a] => a + Len(piece[a]) = Len(whole)
        <3>1. a \in 0 .. N
            BY <1>2
        <3> HIDE DEF piece, more
        <3>2. /\ piece[a] \in Seq(Items)
              /\ a + Len(piece[a]) <= N
              /\ more[a] => Len(piece[a]) > 0
              /\ ~ more[a] => a + Len(piece[a]) = N
            BY <1>3, <3>1
        <3>3. ASSUME NEW j \in 1 .. Len(piece[a]) PROVE piece[a][j] = whole[a + j]
            <4>1. Len(piece[a]) \in Nat
                BY <3>2, LenProperties
            <4>2. a + j \in 1 .. N
                BY <1>1, <3>1, <3>2, <4>1
            <4>3. piece[a][j] = HeadOf(cs[a + j])
                BY <1>3, <3>1
            <4>4. QED
                BY <1>2, <4>2, <4>3
        <3>4. QED
            BY <1>2, <3>2, <3>3
    <2> HIDE DEF piece, more
    <2>2. QED
        BY <1>2, <2>1, Zenon DEF Pieces
<1>5. ASSUME NEW f, NEW a \in 0 .. N PROVE PageAt(limit, f, a) = Gather(piece, more, f, a)
    <2>1. piece[a] = LogOp(limit, a).commits /\ more[a] = LogOp(limit, a).truncated
        OBVIOUS
    <2>2. more[a] => Len(piece[a]) = LogOp(limit, a).limit
        BY <1>3
    <2> HIDE DEF piece, more
    <2>3. CASE more[a]
        BY <2>1, <2>2, <2>3, Zenon DEF PageAt, Gather
    <2>4. CASE ~ more[a]
        BY <2>1, <2>4, Zenon DEF PageAt, Gather
    <2>5. QED
        BY <2>3, <2>4
<1> HIDE DEF piece, more, N
<1>6. PICK g : g = [a \in 0 .. Len(whole) |-> Gather(piece, more, g, a)]
    BY <1>4, GatherIsSolvable
<1>7. ASSUME NEW f
      PROVE  [a \in 0 .. N |-> PageAt(limit, f, a)] = [a \in 0 .. Len(whole) |-> Gather(piece, more, f, a)]
    BY <1>2, <1>5
<1>8. g = [a \in 0 .. N |-> PageAt(limit, g, a)]
    BY <1>6, <1>7, Zenon
<1>9. AllPages(limit) = [a \in 0 .. N |-> PageAt(limit, AllPages(limit), a)]
    BY <1>8, Zenon DEF AllPages, N
<1>10. AllPages(limit) = [a \in 0 .. Len(whole) |-> Gather(piece, more, AllPages(limit), a)]
    BY <1>7, <1>9, Zenon
<1>11. AllPages(limit)[0] = whole
    <2> DEFINE h == AllPages(limit)
    <2>1. h = [a \in 0 .. Len(whole) |-> Gather(piece, more, h, a)]
        BY <1>10
    <2> HIDE DEF h
    <2>2. h[0] = whole
        BY <1>4, <2>1, GatheredIsWhole
    <2>3. QED
        BY <2>2 DEF h
<1>12. QED
    BY <1>11 DEF whole, N

(* The chunks of a file without a NUL, whatever size is asked for.         *)
LEMMA ChunkIs ==
    ASSUME tree.bytes \in Seq(STRING), ~ LooksBinary(tree.bytes), NEW skip \in Nat,
           NEW limit \in Nat, "error" \notin DOMAIN ReadOp(skip, limit),
           NEW a \in 0 .. Len(tree.bytes)
    PROVE  LET chunk == ReadOp(a, limit)
           IN /\ chunk.data \in Seq(STRING)
              /\ a + Len(chunk.data) <= Len(tree.bytes)
              /\ \A j \in 1 .. Len(chunk.data) : chunk.data[j] = tree.bytes[a + j]
              /\ ~ chunk.eof => Len(chunk.data) > 0
              /\ chunk.eof => a + Len(chunk.data) = Len(tree.bytes)
<1> DEFINE bs == tree.bytes
           N == Len(bs)
           n == Clamp(limit, 1, ReadCap)
           e == IF a + n < N THEN a + n ELSE N
           data == SubSeq(bs, a + 1, e)
<1>1. /\ ~ (Nowhere \/ tree.kind = "dangling")
      /\ tree.kind \in {"file", "link_to_file"}
      /\ ~ (Len(tree.bytes) > FileCap)
      /\ tree.readable
      /\ ~ LooksBinary(Prefix(tree.bytes, SniffBytes))
    BY Zenon DEF ReadOp, Refuse, IoError
<1>2. /\ N \in Nat /\ a \in Nat /\ a <= N /\ ReadCap \in Nat \ {0} /\ bs \in Seq(STRING)
      /\ (IF a < N THEN a ELSE N) = a
    BY OpsAssumption
<1>3. n \in Nat \ {0}
    <2>1. n \in 1 .. ReadCap
        BY <1>2, ClampIs
    <2> HIDE DEF n
    <2>2. QED
        BY <1>2, <2>1
<1> HIDE DEF n
<1>4. e \in Nat /\ a <= e /\ e <= N /\ (e = a => e = N)
    BY <1>2, <1>3
<1> HIDE DEF N, bs
<1>5. /\ data \in Seq(STRING) /\ Len(data) = e - a
      /\ \A j \in 1 .. e - a : data[j] = bs[a + j] /\ a + j \in 1 .. N
    <2> HIDE DEF e
    <2>1. \A i \in 1 .. N : bs[i] \in STRING
        BY <1>2 DEF N
    <2>2. QED
        BY <1>2, <1>4, <2>1, SubSeqProperties DEF N
<1> HIDE DEF data, e
<1>6. ~ LooksBinary(data)
    <2>1. ASSUME NEW j \in 1 .. e - a PROVE data[j] # "nul"
        <3>1. data[j] = bs[a + j] /\ a + j \in DOMAIN bs
            BY <1>2, <1>5 DEF N
        <3>2. QED
            BY <3>1 DEF LooksBinary, ToSet, bs
    <2>2. QED
        BY <1>4, <1>5, <2>1 DEF LooksBinary, ToSet
<1>7. ReadOp(a, limit) = [data |-> data, eof |-> a + Len(data) >= N, size |-> N]
    BY <1>1, <1>2, <1>6, Zenon DEF ReadOp, data, e, n, N, bs
<1>8. ReadOp(a, limit).data = data /\ ReadOp(a, limit).eof = (a + Len(data) >= N)
    BY <1>7
<1>9. data \in Seq(STRING) /\ a + Len(data) <= N /\ \A j \in 1 .. Len(data) : data[j] = bs[a + j]
    BY <1>2, <1>4, <1>5
<1>10. (~ (a + Len(data) >= N) => Len(data) > 0) /\ (a + Len(data) >= N => a + Len(data) = N)
    BY <1>2, <1>4, <1>5
<1> DEFINE over == a + Len(data) >= N
<1>11. (~ over => Len(data) > 0) /\ (over => a + Len(data) = N) /\ ReadOp(a, limit).eof = over
    BY <1>8, <1>10
<1> HIDE DEF over
<1>12. QED
    BY <1>8, <1>9, <1>11, Zenon DEF N, bs

(* fs.read, chunk after chunk of any size: every byte once and in order.   *)
THEOREM ChunksAreWhole ==
    ASSUME tree.bytes \in Seq(STRING), ~ LooksBinary(tree.bytes), NEW skip \in Nat,
           NEW limit \in Nat, "error" \notin DOMAIN ReadOp(skip, limit)
    PROVE  AllChunks(limit)[0] = tree.bytes
<1> DEFINE whole == tree.bytes
           N == Len(whole)
           piece == [a \in 0 .. N |-> ReadOp(a, limit).data]
           more == [a \in 0 .. N |-> ~ ReadOp(a, limit).eof]
<1>1. whole \in Seq(STRING)
    OBVIOUS
<1>2. Pieces(STRING, whole, piece, more)
    <2>1. ASSUME NEW a \in 0 .. N
          PROVE  /\ piece[a] \in Seq(STRING)
                 /\ a + Len(piece[a]) <= N
                 /\ \A j \in 1 .. Len(piece[a]) : piece[a][j] = whole[a + j]
                 /\ more[a] => Len(piece[a]) > 0
                 /\ ~ more[a] => a + Len(piece[a]) = N
        <3>1. piece[a] = ReadOp(a, limit).data /\ (more[a] <=> ~ ReadOp(a, limit).eof)
            OBVIOUS
        <3> HIDE DEF piece, more
        <3> DEFINE chunk == ReadOp(a, limit)
        <3>2. /\ chunk.data \in Seq(STRING)
              /\ a + Len(chunk.data) <= N
              /\ \A j \in 1 .. Len(chunk.data) : chunk.data[j] = whole[a + j]
              /\ ~ chunk.eof => Len(chunk.data) > 0
              /\ chunk.eof => a + Len(chunk.data) = N
            BY ChunkIs, Zenon
        <3> HIDE DEF chunk
        <3>3. piece[a] = chunk.data /\ (more[a] <=> ~ chunk.eof)
            BY <3>1 DEF chunk
        <3>4. QED
            BY <3>2, <3>3, Zenon
    <2> HIDE DEF piece, more
    <2>2. QED
        BY <1>1, <2>1, Zenon DEF Pieces
<1>3. ASSUME NEW f, NEW a \in 0 .. N PROVE ChunkAt(limit, f, a) = Gather(piece, more, f, a)
    <2>1. piece[a] = ReadOp(a, limit).data /\ (more[a] <=> ~ ReadOp(a, limit).eof)
        OBVIOUS
    <2> HIDE DEF piece, more
    <2>2. CASE more[a]
        BY <2>1, <2>2, Zenon DEF ChunkAt, Gather
    <2>3. CASE ~ more[a]
        BY <2>1, <2>3, Zenon DEF ChunkAt, Gather
    <2>4. QED
        BY <2>2, <2>3
<1> HIDE DEF piece, more
<1>4. PICK g : g = [a \in 0 .. N |-> Gather(piece, more, g, a)]
    BY <1>2, GatherIsSolvable
<1>5. ASSUME NEW f
      PROVE  [a \in 0 .. N |-> ChunkAt(limit, f, a)] = [a \in 0 .. N |-> Gather(piece, more, f, a)]
    <2> HIDE DEF N
    <2>1. QED
        BY <1>3
<1>6. g = [a \in 0 .. N |-> ChunkAt(limit, g, a)]
    BY <1>4, <1>5, Zenon
<1>7. AllChunks(limit) = [a \in 0 .. N |-> ChunkAt(limit, AllChunks(limit), a)]
    BY <1>6, Zenon DEF AllChunks
<1>8. AllChunks(limit) = [a \in 0 .. N |-> Gather(piece, more, AllChunks(limit), a)]
    BY <1>5, <1>7, Zenon
<1> DEFINE h == AllChunks(limit)
<1>9. h = [a \in 0 .. N |-> Gather(piece, more, h, a)]
    BY <1>8
<1> HIDE DEF h
<1>10. h[0] = whole
    BY <1>2, <1>9, GatheredIsWhole
<1>11. QED
    BY <1>10 DEF h

-----------------------------------------------------------------------------
(* The replies of the helper                                               *)

(* Files that show some changes, told of a reply.                          *)
ComesBack(files, cut, changes) ==
    /\ Len(files) = Len(Prefix(changes, ListCap))
    /\ \A i \in DOMAIN files :
          /\ files[i].path = Prefix(changes, ListCap)[i].path
          /\ files[i].orig = IF Prefix(changes, ListCap)[i].tag = "2"
                             THEN Prefix(changes, ListCap)[i].orig.path ELSE Nil
    /\ cut = (Len(changes) > ListCap)

(* ChangesComeBack, told of one reply.                                     *)
LEMMA ChangesComeBackIs ==
    ASSUME Answered("git.status") => /\ ComesBack(answer.files, answer.truncated, tree.changes)
                                     /\ answer.clean = (tree.changes = <<>>),
           Answered("git.diff") => ComesBack(answer.files, answer.truncated, Tracked)
    PROVE  ChangesComeBack
BY Zenon DEF ChangesComeBack, ComesBack

(* Files that carry the paths of the changes, one by one up to the cap.    *)
Carries(file, c) == file.path = c.path /\ file.orig = IF c.tag = "2" THEN c.orig.path ELSE Nil

(* Such files come back.                                                   *)
LEMMA ShownComesBack ==
    ASSUME NEW S, NEW cs \in Seq(S), NEW entries,
           \A k \in 1 .. Len(cs) : Carries(entries[k], cs[k])
    PROVE  ComesBack(Shown(Len(cs), entries).files, Shown(Len(cs), entries).truncated, cs)
<1> DEFINE N == Len(cs)
           K == Least(N, ListCap)
           files == Shown(N, entries).files
<1>1. N \in Nat /\ ListCap \in Nat
    BY Caps
<1>2. K \in Nat /\ K <= N
    BY <1>1, LeastIs
<1>3. files = [k \in 1 .. K |-> entries[k]] /\ Shown(N, entries).truncated = (N > ListCap)
    BY DEF Shown
<1>4. /\ Len(Prefix(cs, ListCap)) = K
      /\ \A i \in 1 .. K : Prefix(cs, ListCap)[i] = cs[i]
    BY <1>1, PrefixIs
<1> HIDE DEF K, N, files
<1>5. Len(files) = K /\ DOMAIN files = 1 .. K
    BY <1>2, <1>3
<1>6. ASSUME NEW i \in 1 .. K
      PROVE  /\ files[i].path = Prefix(cs, ListCap)[i].path
             /\ files[i].orig = IF Prefix(cs, ListCap)[i].tag = "2"
                                THEN Prefix(cs, ListCap)[i].orig.path ELSE Nil
    <2>1. i \in 1 .. N
        BY <1>1, <1>2
    <2>2. files[i] = entries[i] /\ Prefix(cs, ListCap)[i] = cs[i]
        BY <1>3, <1>4
    <2>3. Carries(entries[i], cs[i])
        BY <2>1 DEF N
    <2>4. QED
        BY <2>2, <2>3, Zenon DEF Carries
<1>7. QED
    BY <1>3, <1>4, <1>5, <1>6, Zenon DEF ComesBack, N, files

(* The changes of a worktree are changes, and those git diffs are tracked  *)
(* ones.                                                                   *)
LEMMA TrackedIs ==
    ASSUME IsWorktree(tree)
    PROVE  tree.changes \in Seq(GitChange) /\ Tracked \in Seq(TrackedChange)
<1> DEFINE cs == tree.changes
           ss == [i \in DOMAIN cs |-> IF cs[i].tag = "?" THEN <<>> ELSE <<cs[i]>>]
<1>1. tree \in Worktree /\ \A c \in ToSet(cs) : c.tag = "2" <=> Letter(c.xy) \in {"R", "C"}
    BY Zenon DEF IsWorktree
<1>2. cs \in Seq(GitChange)
    BY <1>1 DEF Worktree
<1>3. Len(cs) \in Nat /\ DOMAIN cs = 1 .. Len(cs)
    BY <1>2
<1>4. ASSUME NEW i \in 1 .. Len(cs), cs[i].tag # "?"
      PROVE  cs[i] \in TrackedChange
    <2>1. cs[i] \in GitChange /\ cs[i] \in ToSet(cs)
        BY <1>2, <1>3 DEF ToSet
    <2> DEFINE c == cs[i]
    <2>2. c \in GitChange /\ c.tag # "?" /\ (c.tag = "2" <=> Letter(c.xy) \in {"R", "C"})
        BY <1>1, <1>4, <2>1
    <2> HIDE DEF c
    <2>3. c \in TrackedChange
        BY <2>2, Zenon DEF TrackedChange
    <2>4. QED
        BY <2>3 DEF c
<1>5. ASSUME NEW i \in 1 .. Len(cs) PROVE ss[i] \in Seq(TrackedChange)
    <2>1. ss[i] = IF cs[i].tag = "?" THEN <<>> ELSE <<cs[i]>>
        BY <1>3
    <2>2. CASE cs[i].tag = "?"
        BY <2>1, <2>2, EmptySeq
    <2>3. CASE cs[i].tag # "?"
        <3> DEFINE c == cs[i]
        <3>1. c \in TrackedChange /\ ss[i] = <<c>>
            BY <1>4, <2>1, <2>3
        <3> HIDE DEF c, ss
        <3>2. <<c>> \in Seq(TrackedChange)
            BY <3>1
        <3>3. QED
            BY <3>1, <3>2
    <2>4. QED
        BY <2>2, <2>3
<1>6. DOMAIN ss = 1 .. Len(cs)
    BY <1>3
<1>7. Tracked = FlattenSeq(ss)
    BY Zenon DEF Tracked
<1> HIDE DEF ss
<1>8. ss \in Seq(Seq(TrackedChange))
    <2>1. ss = [i \in 1 .. Len(cs) |-> ss[i]]
        BY <1>6 DEF ss
    <2>2. QED
        BY <1>3, <1>5, <2>1
<1>9. Tracked \in Seq(TrackedChange)
    BY <1>7, <1>8, FlattenPlaces
<1>10. QED
    BY <1>2, <1>9

(* git.status: the changes come back, and clean says that there are none.  *)
LEMMA StatusComesBack ==
    ASSUME IsWorktree(tree), "error" \notin DOMAIN StatusOp
    PROVE  /\ ComesBack(StatusOp.files, StatusOp.truncated, tree.changes)
           /\ StatusOp.clean = (tree.changes = <<>>)
<1> DEFINE cs == tree.changes
           parsed == ParseStatus(StatusTokens)
           N == Len(cs)
<1>1. cs \in Seq(GitChange)
    BY TrackedIs
<1>2. Discover(tree.dirs) # 0
    BY Zenon DEF StatusOp, InRepo, Refuse
<1>3. StatusOp = [files |-> parsed.files, truncated |-> parsed.truncated,
                  clean |-> parsed.files = <<>> /\ ~parsed.truncated]
    BY <1>2, Zenon DEF StatusOp, InRepo
<1>4. parsed = Shown(N, FilesFor(cs))
    BY <1>1, ParseStatusShows DEF StatusTokens, Printing
<1>5. ASSUME NEW k \in 1 .. N PROVE Carries(FilesFor(cs)[k], cs[k])
    BY DEF Carries, FilesFor, FileFor
<1>6. ComesBack(parsed.files, parsed.truncated, cs)
    BY <1>1, <1>4, <1>5, ShownComesBack
<1>7. parsed.files = [k \in 1 .. Least(N, ListCap) |-> FilesFor(cs)[k]] /\ parsed.truncated = (N > ListCap)
    BY <1>4 DEF Shown
<1>8. N \in Nat /\ ListCap \in Nat \ {0} /\ (N = 0 <=> cs = <<>>)
    BY <1>1, OpsAssumption
<1> HIDE DEF parsed, N
<1>9. (parsed.files = <<>> /\ ~parsed.truncated) <=> cs = <<>>
    <2>1. Least(N, ListCap) \in Nat /\ (Least(N, ListCap) = 0 <=> N = 0)
        BY <1>8 DEF Least
    <2>2. parsed.files = <<>> <=> Least(N, ListCap) = 0
        <3> DEFINE K == Least(N, ListCap)
        <3> HIDE DEF K
        <3>1. K \in Nat /\ parsed.files = [k \in 1 .. K |-> FilesFor(cs)[k]]
            BY <1>7, <2>1 DEF K
        <3>2. Len(parsed.files) = K /\ DOMAIN parsed.files = 1 .. K
            BY <3>1
        <3>3. parsed.files = <<>> => K = 0
            BY <3>1, <3>2
        <3>4. K = 0 => parsed.files = <<>>
            BY <3>1
        <3>5. QED
            BY <3>3, <3>4 DEF K
    <2>3. N = 0 => ~parsed.truncated
        <3>1. N = 0 => ~ (N > ListCap)
            BY <1>8
        <3>2. QED
            BY <1>7, <3>1, Zenon
    <2>4. QED
        BY <1>8, <2>1, <2>2, <2>3
<1> DEFINE clean == parsed.files = <<>> /\ ~parsed.truncated
<1>10. clean = (cs = <<>>)
    BY <1>9
<1> HIDE DEF clean
<1>11. StatusOp.files = parsed.files /\ StatusOp.truncated = parsed.truncated /\ StatusOp.clean = clean
    BY <1>3 DEF clean
<1>12. QED
    BY <1>6, <1>10, <1>11, Zenon

(* git.diff: the tracked changes come back.                                *)
LEMMA DiffComesBack ==
    ASSUME IsWorktree(tree), NEW filesOnly \in BOOLEAN, "error" \notin DOMAIN DiffOp(filesOnly)
    PROVE  ComesBack(DiffOp(filesOnly).files, DiffOp(filesOnly).truncated, Tracked)
<1> DEFINE named == ParseNameStatus(NameTokens)
           ds == Tracked
           over == filesOnly \/ tree.patch > PatchCap
           diff == IF over THEN Nil ELSE tree.patch
           N == Len(ds)
<1>1. ds \in Seq(TrackedChange)
    BY TrackedIs
<1>2. Discover(tree.dirs) # 0
    BY Zenon DEF DiffOp, InRepo, Refuse
<1>3. DiffOp(filesOnly) = [files |-> named.files, truncated |-> named.truncated,
                           filesOnly |-> over, diff |-> diff]
    BY <1>2, Zenon DEF DiffOp, InRepo
<1>4. named = Shown(N, NameFilesFor(ds))
    BY <1>1, ParseNameShows DEF NameTokens, NamesOf
<1>5. ASSUME NEW k \in 1 .. N PROVE Carries(NameFilesFor(ds)[k], ds[k])
    BY DEF Carries, NameFilesFor, NameFileFor
<1>6. ComesBack(named.files, named.truncated, ds)
    BY <1>1, <1>4, <1>5, ShownComesBack
<1> HIDE DEF named, over, diff, ds
<1>7. DiffOp(filesOnly).files = named.files /\ DiffOp(filesOnly).truncated = named.truncated
    BY <1>3
<1>8. QED
    BY <1>6, <1>7, Zenon DEF ds

-----------------------------------------------------------------------------
(* The helper                                                              *)

(* The invariant of one request.                                           *)
OpsInv ==
    /\ IsWorktree(tree)
    /\ asked # Nil => /\ asked \in OpRequest
                      /\ answer \in {Dispatch(asked), Refuse("git_failed")}

(* The answer is what the worktree, which no request changes, gives for the*)
(* request (dispatch of ops/mod.rs), or a failure of git.                  *)
THEOREM OpsInvariant == OpsSpec => []OpsInv
<1>1. OpsInit => OpsInv
    BY WorktreesAssumption DEF OpsInit, OpsInv
<1>2. OpsInv /\ [OpsNext]_opsVars => OpsInv'
    <2> SUFFICES ASSUME OpsInv, [OpsNext]_opsVars PROVE OpsInv'
        OBVIOUS
    <2>1. CASE UNCHANGED opsVars
        <3>1. tree' = tree /\ asked' = asked /\ answer' = answer
            BY <2>1 DEF opsVars
        <3>2. Dispatch(asked)' = Dispatch(asked)
            BY <3>1, Zenon
               DEF Dispatch, StatusOp, DiffOp, BranchesOp, LogOp, ListOp, StatOp, ReadOp, InRepo,
                   StatusTokens, NameTokens, Tracked, LogRecords, Nowhere, IoError
        <3>3. QED
            BY <3>1, <3>2 DEF OpsInv
    <2>2. ASSUME NEW req \in OpRequests, Ask(req) PROVE OpsInv'
        <3>1. tree' = tree /\ asked' = req
            BY <2>2 DEF Ask
        <3>2. Dispatch(asked)' = Dispatch(req)
            BY <3>1, Zenon
               DEF Dispatch, StatusOp, DiffOp, BranchesOp, LogOp, ListOp, StatOp, ReadOp, InRepo,
                   StatusTokens, NameTokens, Tracked, LogRecords, Nowhere, IoError
        <3>3. answer' \in {Dispatch(req), Refuse("git_failed")}
            BY <2>2, Zenon DEF Ask
        <3>4. req \in OpRequest
            BY OpRequestsAssumption
        <3>5. QED
            BY <3>1, <3>2, <3>3, <3>4 DEF OpsInv
    <2>3. QED
        BY <2>1, <2>2 DEF OpsNext
<1>3. QED
    BY <1>1, <1>2, PTL DEF OpsSpec

(* A refusal is an error.                                                  *)
LEMMA RefusalIsAnError ==
    ASSUME NEW code
    PROVE  "error" \in DOMAIN Refuse(code)
BY DEF Refuse

(* A request that was answered got what its op makes of the worktree.      *)
LEMMA AnswerIs ==
    ASSUME OpsInv, NEW op, Answered(op)
    PROVE  asked \in OpRequest /\ asked.op = op /\ answer = Dispatch(asked)
<1>1. /\ asked \in OpRequest /\ asked.op = op /\ "error" \notin DOMAIN answer
      /\ answer = Dispatch(asked) \/ answer = Refuse("git_failed")
    BY Zenon DEF OpsInv, Answered
<1>2. QED
    BY <1>1, RefusalIsAnError, Zenon

(* What git and the file hold reaches the client whole, for any worktrees, *)
(* any requests and any caps: every change as itself and in order, every   *)
(* commit page after page, every byte chunk after chunk (ops/git.rs,       *)
(* ops/fs.rs).                                                             *)
THEOREM RepliesWhole == OpsSpec => []RepliesAreWhole
<1>1. OpsInv => RepliesAreWhole
    <2> SUFFICES ASSUME OpsInv PROVE RepliesAreWhole
        OBVIOUS
    <2>1. IsWorktree(tree) /\ tree \in Worktree
        BY Zenon DEF OpsInv, IsWorktree
    <2>2. tree.commits \in Seq(GitCommit) /\ tree.bytes \in Seq(STRING)
        BY <2>1 DEF Worktree
    <2>3. ASSUME Answered("git.status")
          PROVE  /\ ComesBack(answer.files, answer.truncated, tree.changes)
                 /\ answer.clean = (tree.changes = <<>>)
        <3>1. asked.op = "git.status" /\ answer = Dispatch(asked) /\ "error" \notin DOMAIN answer
            BY <2>3, AnswerIs DEF Answered
        <3>2. answer = StatusOp
            BY <3>1 DEF Dispatch
        <3>3. QED
            BY <2>1, <3>1, <3>2, StatusComesBack, Zenon
    <2>4. ASSUME Answered("git.diff")
          PROVE  ComesBack(answer.files, answer.truncated, Tracked)
        <3>1. /\ asked.op = "git.diff" /\ answer = Dispatch(asked) /\ "error" \notin DOMAIN answer
              /\ asked \in OpRequest
            BY <2>4, AnswerIs DEF Answered
        <3>2. answer = DiffOp(asked.filesOnly)
            BY <3>1 DEF Dispatch
        <3>3. asked.filesOnly \in BOOLEAN
            BY <3>1 DEF OpRequest
        <3>4. QED
            BY <2>1, <3>1, <3>2, <3>3, DiffComesBack, Zenon
    <2>5. ASSUME Answered("git.log")
          PROVE  IdsOf(AllPages(asked.limit)[0]) = IdsOf(tree.commits)
        <3>1. /\ asked.op = "git.log" /\ answer = Dispatch(asked) /\ "error" \notin DOMAIN answer
              /\ asked \in OpRequest
            BY <2>5, AnswerIs DEF Answered
        <3>2. answer = LogOp(asked.limit, asked.skip)
            BY <3>1 DEF Dispatch
        <3>3. Discover(tree.dirs) # 0
            BY <3>1, <3>2, RefusalIsAnError, Zenon DEF LogOp, InRepo
        <3>4. asked.limit \in Nat
            BY <3>1 DEF OpRequest
        <3>5. AllPages(asked.limit)[0] = [k \in 1 .. Len(tree.commits) |-> HeadOf(tree.commits[k])]
            BY <2>2, <3>3, <3>4, PagesAreWhole
        <3>6. DOMAIN tree.commits = 1 .. Len(tree.commits) /\ Len(tree.commits) \in Nat
            BY <2>2
        <3>7. IdsOf([k \in 1 .. Len(tree.commits) |-> HeadOf(tree.commits[k])]) = IdsOf(tree.commits)
            BY <3>6 DEF IdsOf, HeadOf
        <3>8. QED
            BY <3>5, <3>7, Zenon
    <2>6. ASSUME Answered("fs.read"), ~ LooksBinary(tree.bytes)
          PROVE  AllChunks(asked.limit)[0] = tree.bytes
        <3>1. /\ asked.op = "fs.read" /\ answer = Dispatch(asked) /\ "error" \notin DOMAIN answer
              /\ asked \in OpRequest
            BY <2>6, AnswerIs DEF Answered
        <3>2. answer = ReadOp(asked.skip, asked.limit)
            BY <3>1 DEF Dispatch
        <3>3. asked.limit \in Nat /\ asked.skip \in Nat /\ "error" \notin DOMAIN ReadOp(asked.skip, asked.limit)
            <4>1. asked.limit \in Nat /\ asked.skip \in Nat
                BY <3>1 DEF OpRequest
            <4>2. QED
                BY <3>1, <3>2, <4>1, Zenon
        <3>4. QED
            BY <2>2, <2>6, <3>3, ChunksAreWhole, Zenon
    <2>7. ChangesComeBack
        BY <2>3, <2>4, ChangesComeBackIs
    <2>8. PagesMeet
        BY <2>5, <2>6, PagesMeetIs
    <2>9. QED
        BY <2>7, <2>8 DEF RepliesAreWhole
<1>2. QED
    BY <1>1, OpsInvariant, PTL

-----------------------------------------------------------------------------
(* git.discover, of both                                                   *)

(* Both find the directory that holds `.git`, where none is a link.        *)
WalkAt(dirs, i, f) == IF i > Len(dirs) THEN 0 ELSE IF IsRepoDir(dirs[i]) THEN i ELSE f[i + 1]
Walk(dirs) == CHOOSE f : f = [i \in 1 .. Len(dirs) + 1 |-> WalkAt(dirs, i, f)]

(* git.discover is the recursion that its definition names.                *)
LEMMA DiscoverIs == \A dirs : Discover(dirs) = Walk(dirs)[1]
BY Zenon DEF Discover, Walk, WalkAt

(* The first repository from some directory upwards, 0 for none.           *)
FirstRepo(dirs, i, r) ==
    /\ r = 0 => \A j \in i .. Len(dirs) : ~ IsRepoDir(dirs[j])
    /\ r # 0 => /\ r \in i .. Len(dirs) /\ IsRepoDir(dirs[r])
                /\ \A j \in i .. r - 1 : ~ IsRepoDir(dirs[j])

(* The walk upwards has a value at every directory.                        *)
LEMMA WalkIsDefined ==
    ASSUME NEW dirs \in Seq(STRING)
    PROVE  \A i \in 1 .. Len(dirs) + 1 : Walk(dirs)[i] = WalkAt(dirs, i, Walk(dirs)) /\ Walk(dirs)[i] \in Nat
<1> DEFINE N == Len(dirs)
           D == 1 .. N + 1
           rank == [i \in D |-> N + 1 - i]
           step == [i \in D |-> [g \in [D -> Nat] |-> WalkAt(dirs, i, g)]]
<1>1. N \in Nat
    OBVIOUS
<1> HIDE DEF N
<1>2. rank \in [D -> 0 .. N] /\ \A i \in D : rank[i] = N + 1 - i
    BY <1>1
<1>3. ASSUME NEW i \in D PROVE i \in Nat /\ (~ (i > N) => i + 1 \in D /\ rank[i + 1] < rank[i])
    BY <1>1, <1>2
<1>4. ASSUME NEW i \in D, NEW g \in [D -> Nat]
      PROVE  step[i][g] = WalkAt(dirs, i, g) /\ WalkAt(dirs, i, g) \in Nat
    <2>1. step[i][g] = WalkAt(dirs, i, g)
        OBVIOUS
    <2>2. ~ (i > N) => g[i + 1] \in Nat
        BY <1>3
    <2>3. WalkAt(dirs, i, g) \in Nat
        BY <1>3, <2>2 DEF WalkAt, N
    <2>4. QED
        BY <2>1, <2>3
<1>5. step \in [D -> [[D -> Nat] -> Nat]]
    BY <1>4
<1>6. \A i \in D : \A g, h \in [D -> Nat] :
          (\A e \in D : rank[e] < rank[i] => g[e] = h[e]) => step[i][g] = step[i][h]
    <2> HIDE DEF step, rank
    <2> TAKE i \in D
    <2> TAKE g, h \in [D -> Nat]
    <2> HAVE \A e \in D : rank[e] < rank[i] => g[e] = h[e]
    <2>1. ~ (i > N) => g[i + 1] = h[i + 1]
        BY <1>3
    <2>2. WalkAt(dirs, i, g) = WalkAt(dirs, i, h)
        BY <2>1 DEF WalkAt, N
    <2>3. QED
        BY <1>4, <2>2, Zenon
<1> HIDE DEF step, rank, D
<1>7. Solvable(D, Nat, step)
    <2>1. Nat # {}
        OBVIOUS
    <2>2. Descends(D, Nat, N, rank, step)
        BY <1>1, <1>2, <1>5, <1>6, <2>1, Zenon DEF Descends
    <2>3. QED
        BY <2>2, RecursionHasASolution
<1>8. PICK f \in [D -> Nat] : \A i \in D : f[i] = step[i][f]
    BY <1>7 DEF Solvable
<1>9. \A i \in D : f[i] = WalkAt(dirs, i, f)
    BY <1>4, <1>8, Zenon
<1>10. f = [i \in D |-> WalkAt(dirs, i, f)]
    BY <1>9
<1>11. Walk(dirs) = [i \in D |-> WalkAt(dirs, i, Walk(dirs))]
    BY <1>10, Zenon DEF Walk, D, N
<1> DEFINE g == Walk(dirs)
<1>12. g = [i \in D |-> WalkAt(dirs, i, g)]
    BY <1>11
<1> HIDE DEF g
<1>13. \A i \in D : g[i] = WalkAt(dirs, i, g)
    BY <1>12
<1> DEFINE good == {m \in Nat : \A i \in D : N + 1 - i <= m => g[i] \in Nat}
<1>14. 0 \in good
    <2>1. ASSUME NEW i \in D, N + 1 - i <= 0 PROVE g[i] \in Nat
        <3>1. i > N
            BY <1>1, <2>1 DEF D
        <3>2. QED
            BY <1>13, <3>1 DEF WalkAt, N
    <2>2. QED
        BY <2>1
<1>15. ASSUME NEW m \in 0 .. N - 1, m \in good PROVE m + 1 \in good
    <2>1. ASSUME NEW i \in D, N + 1 - i <= m + 1 PROVE g[i] \in Nat
        <3>1. i \in Nat /\ (~ (i > N) => i + 1 \in D /\ N + 1 - (i + 1) <= m)
            BY <1>1, <2>1 DEF D
        <3>2. ~ (i > N) => g[i + 1] \in Nat
            BY <1>15, <3>1
        <3>3. g[i] = WalkAt(dirs, i, g)
            BY <1>13
        <3>4. QED
            BY <3>1, <3>2, <3>3 DEF WalkAt, N
    <2>2. QED
        BY <2>1
<1> HIDE DEF good
<1>16. N \in good
    <2>1. \A m \in 0 .. N : m \in good
        BY <1>1, <1>14, <1>15, InductionUpTo
    <2>2. QED
        BY <1>1, <2>1
<1>17. \A i \in D : N + 1 - i <= N
    BY <1>1 DEF D
<1>18. \A i \in D : g[i] \in Nat
    BY <1>16, <1>17 DEF good
<1>19. QED
    BY <1>13, <1>18 DEF g, D, N

(* git.discover finds the first directory upwards that is a repository.    *)
LEMMA DiscoverFindsFirst ==
    ASSUME NEW dirs \in Seq(STRING)
    PROVE  Discover(dirs) \in Nat /\ FirstRepo(dirs, 1, Discover(dirs))
<1> DEFINE N == Len(dirs)
           D == 1 .. N + 1
           g == Walk(dirs)
           good == {m \in Nat : \A i \in D : N + 1 - i <= m => FirstRepo(dirs, i, g[i])}
<1>1. N \in Nat
    OBVIOUS
<1>2. \A i \in D : g[i] = WalkAt(dirs, i, g) /\ g[i] \in Nat
    BY WalkIsDefined
<1> HIDE DEF g, N
<1>3. 0 \in good
    <2>1. ASSUME NEW i \in D, N + 1 - i <= 0 PROVE FirstRepo(dirs, i, g[i])
        <3>1. i > N /\ i .. N = {}
            BY <1>1, <2>1
        <3>2. g[i] = 0
            BY <1>2, <3>1 DEF WalkAt, N
        <3>3. QED
            BY <3>1, <3>2 DEF FirstRepo, N
    <2>2. QED
        BY <2>1
<1>4. ASSUME NEW m \in 0 .. N - 1, m \in good PROVE m + 1 \in good
    <2>1. ASSUME NEW i \in D, N + 1 - i <= m + 1 PROVE FirstRepo(dirs, i, g[i])
        <3>1. g[i] = WalkAt(dirs, i, g)
            BY <1>2
        <3>2. CASE i > N
            <4>1. i .. N = {} /\ g[i] = 0
                BY <1>1, <3>1, <3>2 DEF WalkAt, N
            <4>2. QED
                BY <4>1 DEF FirstRepo, N
        <3>3. CASE ~ (i > N) /\ IsRepoDir(dirs[i])
            <4>1. g[i] = i
                BY <3>1, <3>3 DEF WalkAt, N
            <4>2. i # 0 /\ i \in i .. N /\ i .. i - 1 = {}
                BY <1>1, <3>3
            <4>3. QED
                BY <3>3, <4>1, <4>2 DEF FirstRepo, N
        <3>4. CASE ~ (i > N) /\ ~ IsRepoDir(dirs[i])
            <4> DEFINE r == g[i + 1]
            <4>1. g[i] = r
                BY <3>1, <3>4 DEF WalkAt, N
            <4>2. i + 1 \in D /\ N + 1 - (i + 1) <= m
                BY <1>1, <2>1, <3>4
            <4>3. FirstRepo(dirs, i + 1, r) /\ r \in Nat
                BY <1>2, <1>4, <4>2
            <4> HIDE DEF r
            <4>4. \A j \in i .. N : j = i \/ j \in i + 1 .. N
                BY <1>1
            <4>5. CASE r = 0
                BY <3>4, <4>1, <4>3, <4>4, <4>5 DEF FirstRepo, N
            <4>6. CASE r # 0
                <5>1. /\ r \in i + 1 .. N /\ IsRepoDir(dirs[r])
                      /\ \A j \in i + 1 .. r - 1 : ~ IsRepoDir(dirs[j])
                    BY <4>3, <4>6, Zenon DEF FirstRepo, N
                <5>2. r \in i .. N /\ \A j \in i .. r - 1 : j = i \/ j \in i + 1 .. r - 1
                    BY <1>1, <5>1
                <5>3. \A j \in i .. r - 1 : ~ IsRepoDir(dirs[j])
                    BY <3>4, <5>1, <5>2, Zenon
                <5>4. QED
                    BY <4>1, <4>6, <5>1, <5>2, <5>3, Zenon DEF FirstRepo, N
            <4>7. QED
                BY <4>5, <4>6
        <3>5. QED
            BY <3>2, <3>3, <3>4
    <2>2. QED
        BY <2>1
<1> HIDE DEF good
<1>5. N \in good
    <2>1. \A m \in 0 .. N : m \in good
        BY <1>1, <1>3, <1>4, InductionUpTo
    <2>2. QED
        BY <1>1, <2>1
<1>6. 1 \in D /\ N + 1 - 1 <= N
    BY <1>1
<1>7. FirstRepo(dirs, 1, g[1]) /\ g[1] \in Nat
    BY <1>2, <1>5, <1>6 DEF good
<1>8. QED
    BY <1>7, DiscoverIs, Zenon DEF g

(* The script's discover_root finds the same one.                          *)
LEMMA RootsAgree ==
    ASSUME tree.dirs \in Seq(STRING), "link" \notin ToSet(tree.dirs)
    PROVE  ScriptRoot = Discover(tree.dirs)
<1> DEFINE dirs == tree.dirs
           N == Len(dirs)
           found == {i \in DOMAIN dirs : dirs[i] \in {"dir", "file", "link"}}
           r == Discover(dirs)
<1>1. N \in Nat /\ DOMAIN dirs = 1 .. N
    OBVIOUS
<1>2. r \in Nat /\ FirstRepo(dirs, 1, r)
    BY DiscoverFindsFirst
<1>3. \A i \in 1 .. N : dirs[i] # "link"
    BY <1>1 DEF ToSet
<1>4. found = {i \in 1 .. N : IsRepoDir(dirs[i])}
    BY <1>1, <1>3 DEF IsRepoDir
<1>5. ScriptRoot = IF found = {} THEN 0 ELSE Min(found)
    BY Zenon DEF ScriptRoot
<1> HIDE DEF found, r
<1>6. CASE r = 0
    <2>1. found = {}
        BY <1>2, <1>4, <1>6 DEF FirstRepo
    <2>2. QED
        BY <1>5, <1>6, <2>1 DEF r
<1>7. CASE r # 0
    <2>1. r \in 1 .. N /\ IsRepoDir(dirs[r]) /\ \A j \in 1 .. r - 1 : ~ IsRepoDir(dirs[j])
        BY <1>2, <1>7 DEF FirstRepo
    <2>2. r \in found
        BY <1>4, <2>1
    <2>3. ASSUME NEW j \in found PROVE r <= j
        BY <1>1, <1>4, <2>1
    <2>4. found \subseteq Nat
        BY <1>1, <1>4
    <2>5. \A x \in found : (\A y \in found : x <= y) => x = r
        BY <2>2, <2>3, <2>4
    <2>6. Min(found) = r
        BY <2>2, <2>3, <2>5, Zenon DEF Min
    <2>7. QED
        BY <1>5, <2>2, <2>6 DEF r
<1>8. QED
    BY <1>6, <1>7

-----------------------------------------------------------------------------
(* fs.list, fs.stat and fs.read, of both                                   *)

(* Sorted names are as many as there are different ones.                   *)
LEMMA SortedIsShort ==
    ASSUME NEW names \in Seq(Nat)
    PROVE  /\ Cardinality(ToSet(names)) \in Nat /\ Cardinality(ToSet(names)) <= Len(names)
           /\ DOMAIN Sorted(names) = 1 .. Cardinality(ToSet(names))
           /\ Len(Sorted(names)) = Cardinality(ToSet(names))
           /\ Sorted(names) = [i \in 1 .. Cardinality(ToSet(names)) |-> Sorted(names)[i]]
<1> DEFINE N == Len(names)
           S == ToSet(names)
           C == Cardinality(S)
           D == 1 .. N
           f == [i \in D |-> names[i]]
<1>1. N \in Nat /\ DOMAIN names = D
    OBVIOUS
<1>2. IsFiniteSet(D) /\ Cardinality(D) = N
    <2>1. 1 \in Int /\ N \in Int
        BY <1>1
    <2>2. IsFiniteSet(1 .. N) /\ Cardinality(1 .. N) = IF 1 > N THEN 0 ELSE N - 1 + 1
        BY <2>1, FS_Interval, Zenon
    <2>3. QED
        BY <1>1, <2>2
<1>3. S = {names[i] : i \in D}
    BY <1>1, Zenon DEF ToSet
<1>4. f \in Surjection(D, S)
    BY <1>3 DEF Surjection
<1> HIDE DEF f, D, S
<1>5. IsFiniteSet(S) /\ Cardinality(S) <= Cardinality(D)
    BY <1>2, <1>4, FS_Surjection
<1>6. C \in Nat /\ C <= N
    BY <1>2, <1>5, FS_CardinalityType
<1>7. Sorted(names) = [i \in 1 .. C |-> CHOOSE x \in S : Cardinality({y \in S : y < x}) = i - 1]
    BY Zenon DEF Sorted, S
<1> DEFINE sorted == Sorted(names)
<1> HIDE DEF C, sorted
<1>8. DOMAIN sorted = 1 .. C /\ Len(sorted) = C /\ sorted = [i \in 1 .. C |-> sorted[i]]
    <2>1. sorted = [i \in 1 .. C |-> sorted[i]]
        BY <1>7 DEF sorted
    <2>2. QED
        BY <1>6, <2>1
<1>9. QED
    BY <1>6, <1>8 DEF sorted, C, S, N

(* A list that fits is kept as it is.                                      *)
LEMMA PrefixOfShort ==
    ASSUME NEW s, NEW N \in Nat, DOMAIN s = 1 .. N, Len(s) = N, s = [i \in 1 .. N |-> s[i]],
           NEW n \in Nat, N <= n
    PROVE  Prefix(s, n) = s
<1>1. (IF n < Len(s) THEN n ELSE Len(s)) = N
    OBVIOUS
<1>2. SubSeq(s, 1, N) = s
    OBVIOUS
<1>3. QED
    BY <1>1, <1>2, Zenon DEF Prefix

(* fs.list: the same listing where it fits, and the same refusals.         *)
LEMMA ListsAgree ==
    ASSUME tree.names \in Seq(Nat), ~ tree.hidden, Len(tree.names) <= ListCap
    PROVE  ScriptList = ListOp
<1> DEFINE names == tree.names
           C == Cardinality(ToSet(names))
           sorted == Sorted(names)
<1>1. Len(names) \in Nat /\ ListCap \in Nat
    BY Caps
<1>2. C \in Nat /\ C <= Len(names) /\ DOMAIN sorted = 1 .. C /\ Len(sorted) = C
    BY SortedIsShort
<1>3. sorted = [i \in 1 .. C |-> sorted[i]]
    BY SortedIsShort
<1> HIDE DEF sorted, C
<1>4. Prefix(sorted, ListCap) = sorted
    <2>1. C <= ListCap
        BY <1>1, <1>2
    <2>2. QED
        BY <1>1, <1>2, <1>3, <2>1, PrefixOfShort
<1>5. Prefix(names, ListCap) = names
    <2>1. DOMAIN names = 1 .. Len(names) /\ names = [i \in 1 .. Len(names) |-> names[i]]
        OBVIOUS
    <2>2. QED
        BY <1>1, <2>1, PrefixOfShort
<1>6. (Len(sorted) > ListCap) = FALSE /\ (Len(names) > ListCap) = FALSE
    BY <1>1, <1>2
<1>7. Listed(sorted, ListCap) = [entries |-> sorted, truncated |-> FALSE]
    BY <1>4, <1>6, Zenon DEF Listed
<1>8. Listed(names, ListCap) = [entries |-> names, truncated |-> FALSE]
    BY <1>5, <1>6, Zenon DEF Listed
<1>9. [entries |-> Sorted(Listed(names, ListCap).entries), truncated |-> Listed(names, ListCap).truncated]
        = Listed(sorted, ListCap)
    BY <1>7, <1>8 DEF sorted
<1>10. IoError = Refuse("not_found")
    BY Zenon DEF IoError
<1>11. QED
    BY <1>9, <1>10, Zenon DEF ScriptList, ListOp, sorted

(* fs.stat: the same kind, and the same refusals.                          *)
LEMMA StatsAgree ==
    ASSUME ~ tree.hidden
    PROVE  ScriptStat = StatOp
BY Zenon DEF ScriptStat, StatOp, IoError

(* The elements behind the first a and up to the e-th.                     *)
LEMMA StretchIs ==
    ASSUME NEW S, NEW s, NEW a \in Nat, NEW e \in Nat, a <= e,
           \A i \in a + 1 .. e : s[i] \in S
    PROVE  /\ SubSeq(s, a + 1, e) \in Seq(S) /\ Len(SubSeq(s, a + 1, e)) = e - a
           /\ \A j \in 1 .. e - a : SubSeq(s, a + 1, e)[j] = s[a + j]
<1> DEFINE m == a + 1
           t == SubSeq(s, m, e)
<1>1. m \in Int /\ e \in Int /\ \A i \in m .. e : s[i] \in S
    OBVIOUS
<1> HIDE DEF m
<1>2. /\ t \in Seq(S) /\ Len(t) = IF m <= e THEN e - m + 1 ELSE 0
      /\ \A i \in 1 .. e - m + 1 : t[i] = s[m + i - 1]
    BY ONLY <1>1, SubSeqProperties DEF t
<1> HIDE DEF t
<1>3. t \in Seq(S) /\ Len(t) = e - a /\ \A j \in 1 .. e - a : t[j] = s[a + j]
    BY <1>2 DEF m
<1>4. QED
    BY <1>3 DEF t, m

(* Where the script looks at a chunk and where the helper does, both find  *)
(* a NUL or neither does.                                                  *)
THEOREM ReadsAgree ==
    ASSUME tree.bytes \in Seq(STRING), ~ tree.hidden, NEW skip \in Nat, NEW limit \in Nat
    PROVE  ScriptRead(skip, limit) = ReadOp(skip, limit)
<1> DEFINE bs == tree.bytes
           N == Len(bs)
           n == Clamp(limit, 1, ReadCap)
           a == IF skip < N THEN skip ELSE N
           e == IF a + n < N THEN a + n ELSE N
           chunk == SubSeq(bs, a + 1, e)
           data == Prefix(SubSeq(bs, a + 1, N), n)
           head == Prefix(bs, SniffBytes)
<1>1. N \in Nat /\ ReadCap \in Nat \ {0} /\ SniffBytes \in Nat /\ bs \in Seq(STRING)
    BY OpsAssumption
<1>2. n \in Nat \ {0}
    <2>1. n \in 1 .. ReadCap
        BY <1>1, ClampIs
    <2> HIDE DEF n
    <2>2. QED
        BY <1>1, <2>1
<1>3. a \in Nat /\ a <= N /\ (IF skip > N THEN N ELSE skip) = a
    BY <1>1
<1> HIDE DEF n, a
<1>4. e \in Nat /\ a <= e /\ e <= N /\ e - a \in Nat /\ e - a = Least(N - a, n)
    BY <1>1, <1>2, <1>3 DEF Least
<1> HIDE DEF e, bs, N
<1>5. N = Len(bs) /\ \A i \in 1 .. N : bs[i] \in STRING
    BY <1>1 DEF N
<1>6. /\ chunk \in Seq(STRING) /\ Len(chunk) = e - a
      /\ \A j \in 1 .. e - a : chunk[j] = bs[a + j]
    <2>1. \A i \in a + 1 .. e : bs[i] \in STRING
        BY <1>3, <1>4, <1>5
    <2>2. QED
        BY ONLY <1>3, <1>4, <2>1, StretchIs DEF chunk
<1>7. data \in Seq(STRING) /\ Len(data) = e - a /\ \A j \in 1 .. e - a : data[j] = bs[a + j]
    <2> DEFINE rest == SubSeq(bs, a + 1, N)
    <2>1. /\ rest \in Seq(STRING) /\ Len(rest) = N - a
          /\ \A j \in 1 .. N - a : rest[j] = bs[a + j]
        <3>1. \A i \in a + 1 .. N : bs[i] \in STRING
            BY <1>3, <1>5
        <3>2. QED
            BY ONLY <1>1, <1>3, <3>1, StretchIs DEF rest
    <2> HIDE DEF rest
    <2>2. /\ Prefix(rest, n) \in Seq(STRING) /\ Len(Prefix(rest, n)) = Least(Len(rest), n)
          /\ \A i \in 1 .. Least(Len(rest), n) : Prefix(rest, n)[i] = rest[i]
        BY <1>2, <2>1, PrefixIs
    <2>3. data = Prefix(rest, n)
        BY DEF rest
    <2> HIDE DEF data
    <2>4. Least(Len(rest), n) = e - a
        BY <1>4, <2>1
    <2>5. \A i \in 1 .. e - a : i \in 1 .. N - a
        BY <1>1, <1>3, <1>4
    <2>6. \A i \in 1 .. e - a : data[i] = bs[a + i]
        BY <2>1, <2>2, <2>3, <2>4, <2>5, Zenon
    <2>7. QED
        BY <2>2, <2>3, <2>4, <2>6
<1> HIDE DEF chunk, data
<1>8. data = chunk
    <2>1. Len(data) = Len(chunk)
        BY <1>6, <1>7
    <2>2. \A j \in 1 .. Len(data) : data[j] = chunk[j]
        BY <1>6, <1>7
    <2>3. QED
        BY <1>6, <1>7, <2>1, <2>2, SeqEqual
<1>9. /\ head \in Seq(STRING) /\ Len(head) = Least(N, SniffBytes)
      /\ \A i \in 1 .. Least(N, SniffBytes) : head[i] = bs[i]
    BY <1>1, PrefixIs DEF N
<1> HIDE DEF head
<1>10. N = 0 => ~ LooksBinary(head)
    <2>1. N = 0 => Len(head) = 0
        BY <1>1, <1>9 DEF Least
    <2>2. Len(head) = 0 => head = <<>>
        BY <1>9
    <2>3. ~ LooksBinary(<<>>)
        BY DEF LooksBinary, ToSet
    <2>4. QED
        BY <2>1, <2>2, <2>3
<1>11. a + Len(data) = e
    BY <1>3, <1>4, <1>7
<1>12. LooksBinary(data) /\ ~ (e > SniffBytes) => LooksBinary(head)
    <2> SUFFICES ASSUME LooksBinary(data), ~ (e > SniffBytes) PROVE LooksBinary(head)
        OBVIOUS
    <2>1. PICK j \in 1 .. e - a : data[j] = "nul"
        <3>1. DOMAIN data = 1 .. e - a
            BY <1>4, <1>7
        <3>2. QED
            BY <3>1 DEF LooksBinary, ToSet
    <2>2. a + j \in 1 .. Least(N, SniffBytes)
        BY <1>1, <1>3, <1>4 DEF Least
    <2>3. head[a + j] = "nul" /\ a + j \in DOMAIN head
        <3>1. DOMAIN head = 1 .. Least(N, SniffBytes)
            BY <1>9
        <3>2. QED
            BY <1>7, <1>9, <2>1, <2>2, <3>1
    <2>4. QED
        BY <2>3 DEF LooksBinary, ToSet
<1>13. (N > 0 /\ LooksBinary(head)) \/ (e > SniffBytes /\ LooksBinary(data))
          <=> LooksBinary(head) \/ LooksBinary(chunk)
    <2>1. ~ (N > 0) => ~ LooksBinary(head)
        BY <1>1, <1>10
    <2>2. QED
        BY <2>1, <1>8, <1>12, Zenon
<1>14. ScriptRead(skip, limit) =
          IF NotThere THEN Refuse("not_found")
          ELSE IF tree.kind \notin {"file", "link_to_file"} THEN Refuse("unreadable")
          ELSE IF N > FileCap THEN Refuse("too_large")
          ELSE IF ~tree.readable THEN Refuse("unreadable")
          ELSE IF (N > 0 /\ LooksBinary(head)) \/ (e > SniffBytes /\ LooksBinary(data))
               THEN Refuse("binary")
          ELSE [data |-> data, eof |-> e >= N, size |-> N]
    BY <1>3, <1>11, Zenon DEF ScriptRead, data, head, n, bs, N
<1>15. ReadOp(skip, limit) =
          IF Nowhere \/ tree.kind = "dangling" THEN IoError
          ELSE IF tree.kind \notin {"file", "link_to_file"} THEN Refuse("unreadable")
          ELSE IF N > FileCap THEN Refuse("too_large")
          ELSE IF ~tree.readable THEN Refuse("unreadable")
          ELSE IF LooksBinary(head) \/ LooksBinary(chunk) THEN Refuse("binary")
          ELSE [data |-> chunk, eof |-> e >= N, size |-> N]
    <2>1. a + Len(chunk) = e
        BY <1>8, <1>11
    <2>2. QED
        BY <2>1, Zenon DEF ReadOp, chunk, head, n, a, e, bs, N
<1>16. IoError = Refuse("not_found") /\ (NotThere <=> Nowhere \/ tree.kind = "dangling")
    BY Zenon DEF IoError, NotThere
<1> DEFINE inScript == (N > 0 /\ LooksBinary(head)) \/ (e > SniffBytes /\ LooksBinary(data))
           inHelper == LooksBinary(head) \/ LooksBinary(chunk)
           reply == [data |-> data, eof |-> e >= N, size |-> N]
<1>17. inScript <=> inHelper
    BY <1>13
<1>18. ScriptRead(skip, limit) =
          IF NotThere THEN Refuse("not_found")
          ELSE IF tree.kind \notin {"file", "link_to_file"} THEN Refuse("unreadable")
          ELSE IF N > FileCap THEN Refuse("too_large")
          ELSE IF ~tree.readable THEN Refuse("unreadable")
          ELSE IF inScript THEN Refuse("binary") ELSE reply
    BY <1>14
<1>19. ReadOp(skip, limit) =
          IF Nowhere \/ tree.kind = "dangling" THEN IoError
          ELSE IF tree.kind \notin {"file", "link_to_file"} THEN Refuse("unreadable")
          ELSE IF N > FileCap THEN Refuse("too_large")
          ELSE IF ~tree.readable THEN Refuse("unreadable")
          ELSE IF inHelper THEN Refuse("binary") ELSE reply
    BY <1>8, <1>15, Zenon
<1> HIDE DEF inScript, inHelper, reply
<1>20. CASE NotThere
    BY <1>16, <1>18, <1>19, <1>20, Zenon
<1>21. CASE ~ NotThere /\ tree.kind \notin {"file", "link_to_file"}
    <2>1. ScriptRead(skip, limit) = Refuse("unreadable") /\ ReadOp(skip, limit) = Refuse("unreadable")
        BY <1>16, <1>18, <1>19, <1>21, Zenon
    <2>2. QED
        BY <2>1, Zenon
<1> DEFINE there == ~ NotThere /\ tree.kind \in {"file", "link_to_file"}
<1>22. there => /\ ~ NotThere /\ ~ (Nowhere \/ tree.kind = "dangling")
                /\ ~ (tree.kind \notin {"file", "link_to_file"})
    BY <1>16
<1> HIDE DEF there
<1>23. CASE there /\ N > FileCap
    <2>1. ScriptRead(skip, limit) = Refuse("too_large") /\ ReadOp(skip, limit) = Refuse("too_large")
        BY <1>18, <1>19, <1>22, <1>23, Zenon
    <2>2. QED
        BY <2>1, Zenon
<1>24. CASE there /\ ~ (N > FileCap) /\ ~ tree.readable
    <2>1. ScriptRead(skip, limit) = Refuse("unreadable") /\ ReadOp(skip, limit) = Refuse("unreadable")
        BY <1>18, <1>19, <1>22, <1>24, Zenon
    <2>2. QED
        BY <2>1, Zenon
<1>25. CASE there /\ ~ (N > FileCap) /\ tree.readable /\ inScript
    <2>1. ScriptRead(skip, limit) = Refuse("binary") /\ ReadOp(skip, limit) = Refuse("binary")
        BY <1>17, <1>18, <1>19, <1>22, <1>25, Zenon
    <2>2. QED
        BY <2>1, Zenon
<1>26. CASE there /\ ~ (N > FileCap) /\ tree.readable /\ ~ inScript
    <2>1. ScriptRead(skip, limit) = reply /\ ReadOp(skip, limit) = reply
        BY <1>17, <1>18, <1>19, <1>22, <1>26, Zenon
    <2>2. QED
        BY <2>1, Zenon
<1>27. QED
    <2>1. NotThere \/ (~ NotThere /\ tree.kind \notin {"file", "link_to_file"}) \/ there
        BY Zenon DEF there
    <2>2. QED
        BY <1>20, <1>21, <1>23, <1>24, <1>25, <1>26, <2>1, Zenon

-----------------------------------------------------------------------------
(* git.log and git.status, of both                                         *)

(* git.log: the same page of the same commits, where none prints two       *)
(* records.                                                                *)
THEOREM LogsAgree ==
    ASSUME tree.commits \in Seq(GitCommit), ~ \E c \in ToSet(tree.commits) : c.split,
           Discover(tree.dirs) # 0, NEW limit \in Nat, NEW skip \in Nat
    PROVE  ScriptLog(limit, skip) = LogOp(limit, skip)
<1> DEFINE cs == tree.commits
           n == Clamp(limit, 1, ListCap)
           qs == Page(cs, skip, n + 1)
           M == Len(qs)
           after == AfterCommits(qs, n, M)
<1>1. n \in Nat \ {0} /\ n + 1 \in Nat
    <2>1. n \in 1 .. ListCap /\ ListCap \in Nat
        BY Caps, ClampIs
    <2> HIDE DEF n
    <2>2. QED
        BY <2>1
<1>2. qs \in Seq(GitCommit) /\ M \in Nat /\ (M + skip <= Len(cs) \/ M = 0)
    <2> DEFINE top == n + 1
    <2>1. cs \in Seq(GitCommit) /\ top \in Nat
        BY <1>1
    <2> HIDE DEF top, cs
    <2>2. /\ Page(cs, skip, top) \in Seq(GitCommit)
          /\ Len(Page(cs, skip, top)) + skip <= Len(cs) \/ Len(Page(cs, skip, top)) = 0
        BY <2>1, PageIs
    <2>3. qs \in Seq(GitCommit) /\ (Len(qs) + skip <= Len(cs) \/ Len(qs) = 0)
        BY <2>2 DEF top, cs
    <2> HIDE DEF qs
    <2>4. QED
        BY <2>3
<1>3. qs \in Seq(GitCommit) /\ \A i \in 1 .. M : qs[i] = cs[skip + i]
    BY <1>1, PageIs
<1> HIDE DEF n, qs, M
<1>4. ASSUME NEW k \in 1 .. M PROVE ~ qs[k].split
    <2>1. M \in Nat
        BY <1>3 DEF M
    <2>2. skip + k \in 1 .. Len(cs) /\ DOMAIN cs = 1 .. Len(cs)
        BY <1>2, <2>1
    <2>3. cs[skip + k] \in ToSet(cs)
        BY <2>2 DEF ToSet
    <2>4. QED
        BY <1>3, <2>3, Zenon
<1>5. LogRecords(skip, n + 1) = FlattenSeq(PrintedAll(qs))
    BY <1>1, LogRecordsAre DEF qs
<1>6. Counted(LogRecords(skip, n + 1), n) = AfterCommits(qs, n, M)
    BY <1>1, <1>3, <1>5, CountedCommits DEF M
<1>7. ScriptPage(LogRecords(skip, n + 1), n) = AfterCommits(qs, n, M)
    <2>1. \A k \in 1 .. Len(qs) : ~ qs[k].split
        BY <1>4 DEF M
    <2>2. QED
        BY <1>1, <1>3, <1>5, <2>1, ScriptCountsCommits, Zenon DEF M
<1>8. ScriptLog(limit, skip) = [commits |-> after.entries, limit |-> n, truncated |-> after.truncated]
    BY <1>7, Zenon DEF ScriptLog, ScriptPage, n
<1>9. LogOp(limit, skip) = [commits |-> after.entries, limit |-> n, truncated |-> after.truncated]
    BY <1>6, Zenon DEF LogOp, InRepo, n
<1>10. QED
    BY <1>8, <1>9, Zenon

(* git.status: the same reply.                                             *)
LEMMA StatusIs ==
    ASSUME IsWorktree(tree), Discover(tree.dirs) # 0
    PROVE  StatusOf(StatusTokens) = StatusOp
<1> DEFINE cs == tree.changes
           tokens == FlattenSeq(Printing(cs))
           parsed == ParseStatus(tokens)
<1>1. StatusTokens = tokens
    BY Zenon DEF StatusTokens, Printing
<1>2. StatusOp = [files |-> parsed.files, truncated |-> parsed.truncated,
                  clean |-> parsed.files = <<>> /\ ~parsed.truncated]
    BY <1>1, Zenon DEF StatusOp, InRepo
<1>3. StatusOf(tokens) = ReplyFor(parsed)
    BY TrackedIs, StatusesAgree
<1>4. QED
    BY <1>1, <1>2, <1>3, Zenon DEF ReplyFor

-----------------------------------------------------------------------------
(* The fallback                                                            *)

(* The invariant of the fallback loop.                                     *)
FallbackInv ==
    /\ IsWorktree(tree)
    /\ line # Nil => line \in OpRequest
    /\ frame # Nil => line # Nil
    /\ stream = "open" => line # Nil /\ line.op = "git.status"
    /\ FallbackAgrees

(* A frame is one the helper answers, or the two are known to part.        *)
Agrees(reply) == reply \in {Dispatch(line), Refuse("git_failed")} \/ Apart(line.op)

(* Each frame the script writes for a line agrees.                         *)
LEMMA OpsOfALine ==
    ASSUME IsWorktree(tree), line \in OpRequest
    PROVE  /\ line.op = "fs.list" => Agrees(ScriptList)
           /\ line.op = "fs.stat" => Agrees(ScriptStat)
           /\ line.op = "fs.read" => Agrees(ScriptRead(line.skip, line.limit))
           /\ line.op = "git.discover" => Agrees(InScriptRepo([root |-> ScriptRoot]))
           /\ line.op = "git.log" => Agrees(InScriptRepo(ScriptLog(line.limit, line.skip)))
           /\ line.op = "git.status" =>
                 /\ ScriptRoot = 0 => Agrees(Refuse("not_a_repo"))
                 /\ ScriptRoot # 0 => Agrees(StatusOf(StatusTokens))
<1>1. /\ tree.dirs \in Seq(STRING) /\ tree.names \in Seq(Nat) /\ tree.bytes \in Seq(STRING)
      /\ tree.commits \in Seq(GitCommit)
    <2>1. tree \in Worktree
        BY Zenon DEF IsWorktree
    <2>2. QED
        BY <2>1 DEF Worktree
<1>2. line.limit \in Nat /\ line.skip \in Nat
    BY DEF OpRequest
<1>3. "link" \notin ToSet(tree.dirs) => ScriptRoot = Discover(tree.dirs)
    BY <1>1, RootsAgree
<1>4. ASSUME line.op = "fs.list" PROVE Agrees(ScriptList)
    <2>1. Dispatch(line) = ListOp /\ (Apart(line.op) <=> tree.hidden \/ Len(tree.names) > ListCap)
        BY <1>4 DEF Dispatch, Apart
    <2>2. ~ (Len(tree.names) > ListCap) => Len(tree.names) <= ListCap
        BY <1>1, Caps
    <2>3. QED
        BY <1>1, <2>1, <2>2, ListsAgree, Zenon DEF Agrees
<1>5. ASSUME line.op = "fs.stat" PROVE Agrees(ScriptStat)
    <2>1. Dispatch(line) = StatOp /\ (Apart(line.op) <=> tree.hidden)
        BY <1>5 DEF Dispatch, Apart
    <2>2. QED
        BY <2>1, StatsAgree, Zenon DEF Agrees
<1>6. ASSUME line.op = "fs.read" PROVE Agrees(ScriptRead(line.skip, line.limit))
    <2>1. Dispatch(line) = ReadOp(line.skip, line.limit) /\ (Apart(line.op) <=> tree.hidden)
        BY <1>6 DEF Dispatch, Apart
    <2>2. QED
        BY <1>1, <1>2, <2>1, ReadsAgree, Zenon DEF Agrees
<1>7. ASSUME line.op = "git.discover" PROVE Agrees(InScriptRepo([root |-> ScriptRoot]))
    <2>1. /\ Dispatch(line) = InRepo([root |-> Discover(tree.dirs)])
          /\ Apart(line.op) <=> "link" \in ToSet(tree.dirs)
        BY <1>7 DEF Dispatch, Apart
    <2>2. QED
        BY <1>3, <2>1, Zenon DEF Agrees, InScriptRepo, InRepo
<1>8. ASSUME line.op = "git.log" PROVE Agrees(InScriptRepo(ScriptLog(line.limit, line.skip)))
    <2>1. /\ Dispatch(line) = LogOp(line.limit, line.skip)
          /\ Apart(line.op) <=> "link" \in ToSet(tree.dirs) \/ \E c \in ToSet(tree.commits) : c.split
        BY <1>8 DEF Dispatch, Apart
    <2>2. Discover(tree.dirs) = 0 => LogOp(line.limit, line.skip) = Refuse("not_a_repo")
        BY Zenon DEF LogOp, InRepo
    <2>3. CASE Apart(line.op)
        BY <2>3 DEF Agrees
    <2>4. CASE ~ Apart(line.op) /\ Discover(tree.dirs) = 0
        BY <1>3, <2>1, <2>2, <2>4, Zenon DEF Agrees, InScriptRepo
    <2>5. CASE ~ Apart(line.op) /\ Discover(tree.dirs) # 0
        <3>1. ScriptLog(line.limit, line.skip) = LogOp(line.limit, line.skip)
            BY <1>1, <1>2, <2>1, <2>5, LogsAgree, Zenon
        <3>2. ScriptRoot # 0
            BY <1>3, <2>1, <2>5, Zenon
        <3>3. QED
            BY <2>1, <3>1, <3>2, Zenon DEF Agrees, InScriptRepo
    <2>6. QED
        BY <2>3, <2>4, <2>5
<1>9. ASSUME line.op = "git.status"
      PROVE  /\ ScriptRoot = 0 => Agrees(Refuse("not_a_repo"))
             /\ ScriptRoot # 0 => Agrees(StatusOf(StatusTokens))
    <2>1. Dispatch(line) = StatusOp /\ ("link" \in ToSet(tree.dirs) => Apart(line.op))
        BY <1>9 DEF Dispatch, Apart
    <2>2. Discover(tree.dirs) = 0 => StatusOp = Refuse("not_a_repo")
        BY Zenon DEF StatusOp, InRepo
    <2>3. Discover(tree.dirs) # 0 => StatusOf(StatusTokens) = StatusOp
        BY StatusIs
    <2>4. QED
        BY <1>3, <2>1, <2>2, <2>3, Zenon DEF Agrees
<1>10. QED
    BY <1>4, <1>5, <1>6, <1>7, <1>8, <1>9

(* What the helper would answer depends on the worktree and the line alone.*)
LEMMA DispatchStays ==
    ASSUME UNCHANGED <<tree, line>>
    PROVE  Dispatch(line)' = Dispatch(line)
BY Zenon DEF Dispatch, StatusOp, DiffOp, BranchesOp, LogOp, ListOp, StatOp, ReadOp, InRepo,
             StatusTokens, NameTokens, Tracked, LogRecords, Nowhere, IoError

(* A frame that agrees when it is written agrees then.                     *)
LEMMA AgreeingFrame ==
    ASSUME Agrees(frame'), UNCHANGED <<tree, line>>, Apart(line.op) => Apart(line.op)'
    PROVE  FallbackAgrees'
BY DispatchStays, Zenon DEF FallbackAgrees, Agrees

(* A step that writes one frame, where it agrees if it is to, keeps the    *)
(* invariant.                                                              *)
LEMMA FramedAgrees ==
    ASSUME FallbackInv, NEW reply, Frames(reply), line # Nil,
           tools = {"base64", "git"} /\ line.op \in FsOps \cup GitOps => Agrees(reply)
    PROVE  FallbackInv'
<1>1. /\ frame' = reply /\ tree' = tree /\ line' = line /\ stream' = stream /\ tools' = tools
    BY DEF Frames, opsVars
<1>2. FallbackAgrees'
    <2>1. CASE tools = {"base64", "git"} /\ line.op \in FsOps \cup GitOps
        <3>1. Agrees(frame')
            BY <1>1, <2>1
        <3>2. Apart(line.op) => Apart(line.op)'
            BY <1>1 DEF Apart
        <3>3. QED
            BY <1>1, <3>1, <3>2, AgreeingFrame
    <2>2. CASE ~ (tools = {"base64", "git"} /\ line.op \in FsOps \cup GitOps)
        BY <1>1, <2>2, Zenon DEF FallbackAgrees
    <2>3. QED
        BY <2>1, <2>2
<1>3. QED
    BY <1>1, <1>2 DEF FallbackInv

(* A frame answers the line that was taken, a status stream is open only   *)
(* for git.status, and every frame agrees.                                 *)
THEOREM FallbackInvariant == FallbackSpec => []FallbackInv
<1>1. FallbackInit => FallbackInv
    BY WorktreesAssumption DEF FallbackInit, OpsInit, FallbackInv, FallbackAgrees
<1>2. FallbackInv /\ [FallbackNext]_<<opsVars, fallbackVars>> => FallbackInv'
    <2> SUFFICES ASSUME FallbackInv, [FallbackNext]_<<opsVars, fallbackVars>> PROVE FallbackInv'
        OBVIOUS
    <2>0. IsWorktree(tree) /\ (line # Nil => line \in OpRequest)
        BY DEF FallbackInv
    <2>1. CASE UNCHANGED <<opsVars, fallbackVars>>
        <3>1. tree' = tree /\ line' = line /\ frame' = frame /\ stream' = stream /\ tools' = tools
            BY <2>1 DEF opsVars, fallbackVars
        <3>2. FallbackAgrees'
            <4>1. Apart(line.op)' <=> Apart(line.op)
                BY <3>1 DEF Apart
            <4>2. FallbackAgrees
                BY DEF FallbackInv
            <4>3. QED
                BY <3>1, <4>1, <4>2, DispatchStays, Zenon DEF FallbackAgrees
        <3>3. QED
            BY <3>1, <3>2 DEF FallbackInv
    <2>2. ASSUME NEW req \in OpRequests, Takes(req) PROVE FallbackInv'
        <3>1. /\ line = Nil /\ line' = req /\ frame' = frame /\ stream' = stream /\ tree' = tree
            BY <2>2 DEF Takes, opsVars
        <3>2. frame = Nil /\ stream # "open" /\ req \in OpRequest
            BY <3>1, OpRequestsAssumption DEF FallbackInv
        <3>3. QED
            BY <3>1, <3>2 DEF FallbackInv, FallbackAgrees
    <2>3. CASE CannotServe
        <3>1. line # Nil
            BY <2>3 DEF CannotServe, Handles
        <3>2. CASE "base64" \notin tools /\ Frames(Refuse("internal"))
            BY <3>1, <3>2, FramedAgrees
        <3>3. CASE line.op \notin FsOps \cup GitOps /\ Frames(Refuse("bad_request"))
            BY <3>1, <3>3, FramedAgrees
        <3>4. CASE "git" \notin tools /\ Frames(Refuse("internal"))
            BY <3>1, <3>4, FramedAgrees
        <3>5. QED
            BY <2>3, <3>2, <3>3, <3>4 DEF CannotServe
    <2>4. CASE ServesFs
        <3>1. line # Nil /\ line.op \in {"fs.list", "fs.stat", "fs.read"}
            BY <2>4 DEF ServesFs, Handles, FsOps
        <3> DEFINE reply == CASE line.op = "fs.list" -> ScriptList
                              [] line.op = "fs.stat" -> ScriptStat
                              [] line.op = "fs.read" -> ScriptRead(line.skip, line.limit)
        <3>2. Frames(reply)
            BY <2>4, Zenon DEF ServesFs
        <3>3. Agrees(reply)
            <4>1. /\ line.op = "fs.list" => reply = ScriptList
                  /\ line.op = "fs.stat" => reply = ScriptStat
                  /\ line.op = "fs.read" => reply = ScriptRead(line.skip, line.limit)
                OBVIOUS
            <4> HIDE DEF reply
            <4>2. QED
                BY <2>0, <3>1, <4>1, OpsOfALine, Zenon
        <3> HIDE DEF reply
        <3>4. QED
            BY <3>1, <3>2, <3>3, FramedAgrees
    <2>5. CASE ServesGit
        <3>1. line # Nil /\ line.op \in {"git.discover", "git.log"}
            BY <2>5 DEF ServesGit, Handles
        <3>2. CASE Frames(InScriptRepo(IF line.op = "git.discover" THEN [root |-> ScriptRoot]
                                       ELSE ScriptLog(line.limit, line.skip)))
            <4> DEFINE reply == InScriptRepo(IF line.op = "git.discover" THEN [root |-> ScriptRoot]
                                             ELSE ScriptLog(line.limit, line.skip))
            <4>1. /\ line.op = "git.discover" => reply = InScriptRepo([root |-> ScriptRoot])
                  /\ line.op # "git.discover" => reply = InScriptRepo(ScriptLog(line.limit, line.skip))
                BY Zenon
            <4>2. Frames(reply)
                BY <3>2
            <4> HIDE DEF reply
            <4>3. Agrees(reply)
                BY <2>0, <3>1, <4>1, OpsOfALine, Zenon
            <4>4. QED
                BY <3>1, <4>2, <4>3, FramedAgrees
        <3>3. CASE Frames(Refuse("git_failed"))
            <4>1. Agrees(Refuse("git_failed"))
                BY Zenon DEF Agrees
            <4>2. QED
                BY <3>1, <3>3, <4>1, FramedAgrees
        <3>4. QED
            BY <2>5, <3>2, <3>3 DEF ServesGit
    <2>6. CASE ChecksStatus
        <3>1. line # Nil /\ line.op = "git.status" /\ frame = Nil
            BY <2>6 DEF ChecksStatus, Handles
        <3>2. CASE ScriptRoot = 0 /\ Frames(Refuse("not_a_repo"))
            <4>1. Agrees(Refuse("not_a_repo"))
                BY <2>0, <3>1, <3>2, OpsOfALine, Zenon
            <4>2. QED
                BY <3>1, <3>2, <4>1, FramedAgrees
        <3>3. CASE Frames(Refuse("git_failed"))
            <4>1. Agrees(Refuse("git_failed"))
                BY Zenon DEF Agrees
            <4>2. QED
                BY <3>1, <3>3, <4>1, FramedAgrees
        <3>4. CASE stream' = "open" /\ UNCHANGED <<opsVars, tools, line, frame>>
            <4>1. tree' = tree /\ line' = line /\ frame' = Nil
                BY <3>1, <3>4 DEF opsVars
            <4>2. QED
                BY <3>1, <4>1 DEF FallbackInv, FallbackAgrees
        <3>5. QED
            BY <2>6, <3>2, <3>3, <3>4 DEF ChecksStatus
    <2>7. CASE StreamsStatus
        <3>1. /\ stream = "open" /\ tree' = tree /\ line' = line
              /\ line # Nil /\ line.op = "git.status" /\ line \in OpRequest
            BY <2>7 DEF StreamsStatus, opsVars, FallbackInv
        <3>2. Apart(line.op) => Apart(line.op)'
            BY <3>1 DEF Apart
        <3>3. FallbackAgrees'
            <4>1. CASE stream' = "failed"
                <5>1. Apart(line.op)'
                    BY <3>1, <4>1 DEF Apart
                <5>2. QED
                    BY <5>1 DEF FallbackAgrees
            <4>2. CASE ScriptRoot # 0 /\ frame' = StatusOf(StatusTokens)
                <5>1. Agrees(frame')
                    BY <2>0, <3>1, <4>2, OpsOfALine, Zenon
                <5>2. QED
                    BY <3>1, <3>2, <5>1, AgreeingFrame
            <4>3. QED
                BY <2>7, <4>1, <4>2 DEF StreamsStatus
        <3>4. stream' # "open"
            BY <2>7 DEF StreamsStatus
        <3>5. QED
            BY <2>0, <3>1, <3>3, <3>4 DEF FallbackInv
    <2>8. ASSUME NEW edited \in Edits, WorktreeChanges(edited) PROVE FallbackInv'
        <3>1. /\ tree' = edited /\ line' = line /\ frame' = Nil /\ stream' = stream
              /\ IsWorktree(edited)
            BY <2>8, EditsAssumption DEF WorktreeChanges, fallbackVars
        <3>2. QED
            BY <3>1 DEF FallbackInv, FallbackAgrees
    <2>9. QED
        BY <2>1, <2>2, <2>3, <2>4, <2>5, <2>6, <2>7, <2>8 DEF FallbackNext
<1>3. QED
    BY <1>1, <1>2, PTL DEF FallbackSpec

(* The script answers what the helper answers, error codes and all, for any*)
(* hosts, worktrees, edits and requests, except where the two are known to *)
(* part (remote/fs.rs, remote/git.rs against ops/).                        *)
THEOREM FallbackAgreement == FallbackSpec => []FallbackAgrees
<1>1. FallbackInv => FallbackAgrees
    BY DEF FallbackInv
<1>2. QED
    BY <1>1, FallbackInvariant, PTL
=============================================================================
