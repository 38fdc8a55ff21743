--------------------------- MODULE EncodingProofs ---------------------------
(***************************************************************************)
(* What the conversions do to a text of any length.  First common.Chunks,  *)
(* for chunks of any size: the arithmetic of its indices, on which both    *)
(* directions of the chunked RSA rest.  Then RSADecrypt of RSAEncrypt, by  *)
(* induction over the blocks that append has gathered.  Last what gzip and *)
(* JSON give back, and that each of them refuses what another one wrote.   *)
(***************************************************************************)
EXTENDS Encoding, MetricsProofs, SequenceTheorems, TLAPS

\* Division with remainder.
LEMMA Quotient ==
  ASSUME NEW n \in Nat, NEW s \in Nat \ {0}
  PROVE  /\ n \div s \in Nat
         /\ (n \div s) * s <= n
         /\ n < (n \div s) * s + s
BY Z3

\* The products that the bounds of two chunks are compared by.
LEMMA Monotone ==
  ASSUME NEW a \in Nat, NEW b \in Nat, NEW s \in Nat, a <= b
  PROVE  a * s <= b * s
BY Z3

LEMMA Distributes ==
  ASSUME NEW a \in Int, NEW s \in Nat
  PROVE  (a - 1) * s = a * s - s /\ a * s \in Int
BY Z3

\* A text is as long as its numbering.
LEMMA SameEnds ==
  ASSUME NEW a \in Nat, NEW b \in Nat, 1..a = 1..b
  PROVE  a = b
<1>1. \A i \in Nat \ {0} : i <= a <=> i <= b
  OBVIOUS
<1>2. CASE a = 0
  BY <1>1, <1>2
<1>3. CASE a # 0
  BY <1>1, <1>3
<1> QED BY <1>2, <1>3
-----------------------------------------------------------------------------
\* The cells chunk i stands for: it starts within the text, and all chunks but the
\* last are full.
LEMMA ChunkEnds ==
  ASSUME NEW n \in Nat \ {0}, NEW size \in Nat \ {0},
         NEW i \in 1..((n - 1) \div size + 1)
  PROVE  LET from == (i - 1) * size
             to == IF i * size < n THEN i * size ELSE n
         IN /\ from \in Nat /\ to \in 1..n /\ to - from \in 1..size
            /\ i # (n - 1) \div size + 1 => to - from = size
<1> DEFINE q == (n - 1) \div size
<1>1. q \in Nat /\ q * size <= n - 1 /\ n - 1 < q * size + size
  BY Quotient
<1>2. i \in Nat /\ i - 1 \in Nat /\ i - 1 <= q
  BY <1>1
<1>3. (i - 1) * size = i * size - size /\ i * size \in Int
  BY <1>2, Distributes
<1>4. (i - 1) * size <= q * size /\ q * size \in Int
  BY <1>1, <1>2, Monotone, Distributes
<1>5. 0 * size <= (i - 1) * size
  BY <1>2, Monotone
<1>6. CASE i - 1 = q
  BY <1>1, <1>2, <1>3, <1>5, <1>6
<1>7. CASE i - 1 # q
  <2>1. i <= q
    BY <1>1, <1>2, <1>7
  <2>2. i * size <= q * size
    BY <1>1, <1>2, <2>1, Monotone
  <2> QED BY <1>1, <1>2, <1>3, <1>4, <1>5, <2>1, <2>2
<1> QED BY <1>6, <1>7

\* The definition, for a text and a size that are not refused.
LEMMA ChunkIs ==
  ASSUME NEW arr, arr # <<>>, NEW size \in Nat \ {0}
  PROVE  /\ DOMAIN Chunks(arr, size) = 1..((Len(arr) - 1) \div size + 1)
         /\ \A i \in DOMAIN Chunks(arr, size) :
              Chunks(arr, size)[i] =
                SubSeq(arr, (i - 1) * size + 1,
                       IF i * size < Len(arr) THEN i * size ELSE Len(arr))
<1>1. ~(arr = <<>> \/ size <= 0)
  OBVIOUS
<1>2. Chunks(arr, size) =
        [i \in 1..((Len(arr) - 1) \div size + 1) |->
           SubSeq(arr, (i - 1) * size + 1, IF i * size < Len(arr) THEN i * size ELSE Len(arr))]
  BY <1>1, Zenon DEF Chunks
<1> QED BY <1>2, Zenon

\* Every chunk has a cell at least and as many as asked for at most, and only the
\* last may have fewer: what is cut off is exactly what RSAEncrypt can encrypt and
\* RSADecrypt glues together (crypto.go:16 and 38).
THEOREM ChunksAreFull ==
  ASSUME NEW S, NEW arr \in Seq(S), arr # <<>>, NEW size \in Nat \ {0},
         NEW i \in DOMAIN Chunks(arr, size)
  PROVE  /\ Chunks(arr, size)[i] \in Seq(S)
         /\ Len(Chunks(arr, size)[i]) \in 1..size
         /\ i + 1 \in DOMAIN Chunks(arr, size) => Len(Chunks(arr, size)[i]) = size
<1> DEFINE n == Len(arr)
           from == (i - 1) * size
           to == IF i * size < n THEN i * size ELSE n
<1>1. n \in Nat \ {0}
  BY EmptySeq
<1>2. /\ DOMAIN Chunks(arr, size) = 1..((n - 1) \div size + 1)
      /\ Chunks(arr, size)[i] = SubSeq(arr, from + 1, to)
  BY ChunkIs
<1>3. /\ from \in Nat /\ to \in 1..n /\ to - from \in 1..size
      /\ i # (n - 1) \div size + 1 => to - from = size
  BY <1>1, <1>2, ChunkEnds
<1>4. /\ SubSeq(arr, from + 1, to) \in Seq(S)
      /\ Len(SubSeq(arr, from + 1, to)) = to - from
  <2>1. from + 1 \in 1..(n + 1) /\ to \in 0..n /\ from + 1 <= to
    BY <1>1, <1>3
  <2> HIDE DEF from, to
  <2> QED BY <2>1, <1>1, <1>3, SubSeqProperties
<1>5. i + 1 \in DOMAIN Chunks(arr, size) => i # (n - 1) \div size + 1
  BY <1>2
<1> QED BY <1>2, <1>3, <1>4, <1>5

\* Cell j of chunk i is cell (i - 1) * size + j of the text.
LEMMA ChunkCells ==
  ASSUME NEW S, NEW arr \in Seq(S), arr # <<>>, NEW size \in Nat \ {0},
         NEW i \in DOMAIN Chunks(arr, size), NEW j \in 1..Len(Chunks(arr, size)[i])
  PROVE  Chunks(arr, size)[i][j] = arr[(i - 1) * size + j]
<1> DEFINE n == Len(arr)
           from == (i - 1) * size
           to == IF i * size < n THEN i * size ELSE n
<1>1. n \in Nat \ {0}
  BY EmptySeq
<1>2. /\ i \in 1..((n - 1) \div size + 1)
      /\ Chunks(arr, size)[i] = SubSeq(arr, from + 1, to)
  BY ChunkIs
<1>3. from \in Nat /\ to \in 1..n /\ to - from \in 1..size
  BY <1>1, <1>2, ChunkEnds
<1>4. j \in 1..Len(SubSeq(arr, from + 1, to))
  BY <1>2
<1>5. SubSeq(arr, from + 1, to)[j] = arr[from + j]
  <2>1. from + 1 \in 1..(n + 1) /\ to \in 0..n /\ from + 1 <= to
    BY <1>1, <1>3
  <2> HIDE DEF from, to
  <2>2. /\ Len(SubSeq(arr, from + 1, to)) = to - from
        /\ \A m \in 1..(to - from) : SubSeq(arr, from + 1, to)[m] = arr[from + m]
    BY <2>1, <1>1, <1>3, SubSeqProperties
  <2> QED BY <2>2, <1>4
<1> QED BY <1>2, <1>5

\* Nothing is lost, nothing is doubled and nothing changes its place: each cell of
\* the text is in the one chunk that its index says (j is at most size).
THEOREM ChunksAreAll ==
  ASSUME NEW S, NEW arr \in Seq(S), arr # <<>>, NEW size \in Nat \ {0},
         NEW k \in 1..Len(arr)
  PROVE  \E i \in DOMAIN Chunks(arr, size) : \E j \in 1..Len(Chunks(arr, size)[i]) :
           k = (i - 1) * size + j /\ Chunks(arr, size)[i][j] = arr[k]
<1> DEFINE n == Len(arr)
           q == (n - 1) \div size
           p == (k - 1) \div size
           j == k - p * size
<1>1. n \in Nat \ {0} /\ k - 1 \in Nat /\ k - 1 <= n - 1
  BY EmptySeq
<1>2. q \in Nat /\ q * size <= n - 1 /\ n - 1 < q * size + size
  BY <1>1, Quotient
<1>3. p \in Nat /\ p * size <= k - 1 /\ k - 1 < p * size + size
  BY <1>1, Quotient
<1>4. p * size \in Int /\ q * size \in Int /\ (q + 1) * size = q * size + size
  <2>1. (q + 1 - 1) * size = (q + 1) * size - size /\ (q + 1) * size \in Int
    BY <1>2, Distributes
  <2>2. p * size \in Int /\ q * size \in Int /\ q + 1 - 1 = q
    BY <1>2, <1>3, Distributes
  <2> QED BY <2>1, <2>2
<1>5. p <= q
  <2> SUFFICES ASSUME ~(p <= q) PROVE FALSE
    OBVIOUS
  <2>1. q + 1 <= p
    BY <1>2, <1>3
  <2>2. (q + 1) * size <= p * size
    BY <2>1, <1>2, <1>3, Monotone
  <2> QED BY <2>2, <1>1, <1>2, <1>3, <1>4
<1>6. DOMAIN Chunks(arr, size) = 1..(q + 1)
  BY ChunkIs
<1>7. p + 1 \in DOMAIN Chunks(arr, size) /\ (p + 1) - 1 = p
  BY <1>2, <1>3, <1>5, <1>6
<1>8. j \in 1..size
  BY <1>1, <1>3, <1>4
<1>9. j \in 1..Len(Chunks(arr, size)[p + 1])
  <2>1. CASE p + 1 = q + 1
    <3>1. Chunks(arr, size)[p + 1] =
            SubSeq(arr, ((p + 1) - 1) * size + 1,
                   IF (p + 1) * size < n THEN (p + 1) * size ELSE n)
      BY <1>7, ChunkIs
    <3>2. p = q
      BY <1>2, <1>3, <2>1
    <3>3. ~((p + 1) * size < n)
      BY <3>2, <1>1, <1>2, <1>4
    <3>4. Len(SubSeq(arr, p * size + 1, n)) = n - p * size
      <4>1. p * size + 1 <= n /\ 0 * size <= p * size
        BY <1>1, <1>3, <1>4, Monotone
      <4>2. p * size + 1 \in 1..(n + 1)
        BY <4>1, <1>1, <1>4
      <4> HIDE DEF p, n
      <4> QED BY <4>1, <4>2, <1>1, <1>4, SubSeqProperties
    <3> QED BY <3>1, <3>3, <3>4, <1>1, <1>4, <1>7, <1>8
  <2>2. CASE p + 1 # q + 1
    <3>1. (p + 1) + 1 \in DOMAIN Chunks(arr, size)
      BY <2>2, <1>2, <1>3, <1>5, <1>6
    <3> QED BY <3>1, <1>7, <1>8, ChunksAreFull
  <2> QED BY <2>1, <2>2
<1>10. k = ((p + 1) - 1) * size + j
  BY <1>1, <1>4, <1>7
<1>11. Chunks(arr, size)[p + 1][j] = arr[k]
  <2> HIDE DEF p, j
  <2>1. Chunks(arr, size)[p + 1][j] = arr[((p + 1) - 1) * size + j]
    BY <1>7, <1>9, ChunkCells
  <2> QED BY <2>1, <1>10
<1> QED BY <1>7, <1>9, <1>10, <1>11

-----------------------------------------------------------------------------
(* Cells and blocks *)

\* An encoding is as long as it says, and its cells are numbered.
LEMMA CellsAre ==
  ASSUME NEW kind, NEW arg, NEW n \in Nat,
         NEW C, \A i \in 1..n : <<kind, arg, i>> \in C
  PROVE  /\ Cells(kind, arg, n) \in Seq(C)
         /\ Len(Cells(kind, arg, n)) = n
         /\ \A i \in 1..n : Cells(kind, arg, n)[i] = <<kind, arg, i>>
<1> DEFINE c == Cells(kind, arg, n)
<1>1. DOMAIN c = 1..n /\ \A i \in 1..n : c[i] = <<kind, arg, i>>
  BY DEF Cells
<1>2. c \in [1..n -> C]
  BY DEF Cells
<1> HIDE DEF c
<1>3. c \in Seq(C)
  BY <1>2, SeqDef
<1>4. Len(c) = n
  <2>1. Len(c) \in Nat /\ DOMAIN c = 1..Len(c)
    BY <1>3, LenProperties
  <2> QED BY <2>1, <1>1, SameEnds
<1> QED BY <1>1, <1>3, <1>4 DEF c

LEMMA CellsLen ==
  ASSUME NEW kind, NEW arg, NEW n \in Nat
  PROVE  Len(Cells(kind, arg, n)) = n
<1> DEFINE C == {<<kind, arg, i>> : i \in 1..n}
<1>1. \A i \in 1..n : <<kind, arg, i>> \in C
  OBVIOUS
<1> HIDE DEF C
<1> QED BY <1>1, CellsAre

\* A block of a chunk that leaves room for the padding.
LEMMA Block ==
  ASSUME NEW S, NEW chunk \in Seq(S), NEW key \in RSAKeys,
         KeySize[key] > Overhead, Len(chunk) <= KeySize[key] - Overhead
  PROVE  /\ EncryptOAEP(chunk, key) \in Seq(Cipher(S))
         /\ Len(EncryptOAEP(chunk, key)) = KeySize[key]
         /\ EncryptOAEP(chunk, key)[1] = <<"rsa", <<key, chunk>>, 1>>
         /\ DecryptOAEP(EncryptOAEP(chunk, key), key) = chunk
<1> DEFINE K == KeySize[key]
           arg == <<key, chunk>>
           block == EncryptOAEP(chunk, key)
<1>1. K \in Nat \ {0} /\ Overhead \in Nat
  BY KeySizeAssumption, BlocksAssumption
<1>2. block = Cells("rsa", arg, K)
  <2>1. Len(chunk) \in Nat /\ ~(Len(chunk) > K - Overhead)
    BY <1>1
  <2> QED BY <2>1, Zenon DEF EncryptOAEP
<1>3. \A i \in 1..K : <<"rsa", arg, i>> \in Cipher(S)
  BY <1>1 DEF Cipher
<1> HIDE DEF K, arg
<1>4. /\ Cells("rsa", arg, K) \in Seq(Cipher(S)) /\ Len(Cells("rsa", arg, K)) = K
      /\ \A i \in 1..K : Cells("rsa", arg, K)[i] = <<"rsa", arg, i>>
  BY <1>1, <1>3, CellsAre
<1>5. block[1] = <<"rsa", arg, 1>> /\ Len(block) = K /\ block \in Seq(Cipher(S))
  BY <1>1, <1>2, <1>4
<1> HIDE DEF block
<1>6. block # <<>>
  BY <1>1, <1>5, EmptySeq
<1>7. Whole(block, "rsa", K)
  <2>1. block[1][1] = "rsa" /\ block[1][2] = arg
    BY <1>5
  <2> QED BY <1>2, <1>6, <2>1, Zenon DEF Whole
<1>8. block[1][2][1] = key /\ block[1][2][2] = chunk
  BY <1>5 DEF arg
<1>9. DecryptOAEP(block, key) = chunk
  BY <1>7, <1>8 DEF DecryptOAEP, K
<1> QED BY <1>5, <1>9 DEF block, K, arg

\* No chunk that RSAEncrypt cuts is too long for its key, and each block is the
\* key's size and gives its chunk back: RSADecrypt goes wrong on its lengths only.
THEOREM BlocksOpen ==
  ASSUME NEW S, NEW secret \in Seq(S), secret # <<>>,
         NEW key \in RSAKeys, KeySize[key] > Overhead,
         NEW i \in DOMAIN Chunks(secret, KeySize[key] - Overhead)
  PROVE  LET chunk == Chunks(secret, KeySize[key] - Overhead)[i]
             block == EncryptOAEP(chunk, key)
         IN Len(block) = KeySize[key] /\ DecryptOAEP(block, key) = chunk
<1> DEFINE size == KeySize[key] - Overhead
           chunk == Chunks(secret, size)[i]
<1>1. size \in Nat \ {0} /\ KeySize[key] \in Nat /\ Overhead \in Nat
  BY KeySizeAssumption, BlocksAssumption
<1>2. chunk \in Seq(S) /\ Len(chunk) \in 1..size
  BY <1>1, ChunksAreFull
<1> HIDE DEF chunk
<1>3. Len(chunk) <= KeySize[key] - Overhead
  BY <1>1, <1>2
<1> QED BY <1>2, <1>3, Block DEF chunk
-----------------------------------------------------------------------------
(* Gluing the parts again *)

Then(s, t) == s \o t

\* A solution of the recursion of Gathering, up to its n-th part.
Glues(g, parts, n) ==
  g = [i \in 0..n |-> IF i = 0 THEN <<>> ELSE Then(g[i - 1], parts[i])]

LEMMA GatheringExists ==
  ASSUME NEW parts, NEW n \in Nat
  PROVE  \E g : Glues(g, parts, n)
<1> DEFINE T == {k \in 0..n : \E g : Glues(g, parts, k)}
<1>1. 0 \in T
  <2>1. Glues([i \in 0..0 |-> <<>>], parts, 0)
    BY DEF Glues
  <2> QED BY <2>1
<1>2. ASSUME NEW k \in 0..(n - 1), k \in T
      PROVE  k + 1 \in T
  <2>1. PICK g : Glues(g, parts, k)
    BY <1>2
  <2> DEFINE h == [i \in 0..(k + 1) |-> IF i = k + 1 THEN Then(g[k], parts[k + 1]) ELSE g[i]]
  <2>2. \A i \in 0..k : h[i] = g[i]
    OBVIOUS
  <2>3. \A i \in 0..k : g[i] = IF i = 0 THEN <<>> ELSE Then(g[i - 1], parts[i])
    BY <2>1 DEF Glues
  <2>4. ASSUME NEW i \in 0..(k + 1)
        PROVE  h[i] = IF i = 0 THEN <<>> ELSE Then(h[i - 1], parts[i])
    <3>1. CASE i = k + 1
      <4>1. h[i] = Then(g[k], parts[k + 1]) /\ i # 0 /\ i - 1 = k
        BY <3>1
      <4>2. h[k] = g[k]
        BY <2>2
      <4> HIDE DEF h
      <4> QED BY <3>1, <4>1, <4>2
    <3>2. CASE i # k + 1 /\ i # 0
      <4>1. i \in 0..k /\ i - 1 \in 0..k
        BY <3>2
      <4> HIDE DEF h
      <4> QED BY <2>2, <2>3, <3>2, <4>1
    <3>3. CASE i = 0
      <4> HIDE DEF h
      <4> QED BY <2>2, <2>3, <3>3
    <3> QED BY <3>1, <3>2, <3>3
  <2>5. Glues(h, parts, k + 1)
    BY <2>4 DEF Glues
  <2> HIDE DEF h
  <2> QED BY <2>5
<1>3. n \in T
  <2> HIDE DEF T
  <2>1. \A i \in 0..n : i \in T
    BY <1>1, <1>2, NatInduct
  <2> QED BY <2>1
<1> QED BY <1>3

\* One round after the other.
LEMMA GatheringStep ==
  ASSUME NEW parts, Len(parts) \in Nat
  PROVE  /\ Gathering(parts)[0] = <<>>
         /\ \A k \in 1..Len(parts) : Gathering(parts)[k] = Gathering(parts)[k - 1] \o parts[k]
<1> DEFINE n == Len(parts)
           r == Gathering(parts)
<1>1. Glues(r, parts, n)
  <2>1. \E g : Glues(g, parts, n)
    BY GatheringExists
  <2> QED BY <2>1, Zenon DEF Gathering, Glues, Then
<1> HIDE DEF r, n
<1>2. \A i \in 0..n : r[i] = IF i = 0 THEN <<>> ELSE Then(r[i - 1], parts[i])
  BY <1>1 DEF Glues
<1>3. n \in Nat
  BY DEF n
<1>4. \A k \in 1..n : r[k] = Then(r[k - 1], parts[k])
  BY <1>2, <1>3
<1>5. r[0] = <<>>
  BY <1>2, <1>3
<1> QED BY <1>4, <1>5, Zenon DEF r, n, Then

\* The chunks are a list of texts, one more than full chunks fit before the last cell.
LEMMA ChunkList ==
  ASSUME NEW S, NEW arr \in Seq(S), arr # <<>>, NEW size \in Nat \ {0}
  PROVE  /\ Chunks(arr, size) \in Seq(Seq(S))
         /\ Len(Chunks(arr, size)) = (Len(arr) - 1) \div size + 1
         /\ Len(Chunks(arr, size)) \in Nat \ {0}
<1> DEFINE N == (Len(arr) - 1) \div size + 1
           c == Chunks(arr, size)
<1>1. Len(arr) \in Nat \ {0} /\ Len(arr) - 1 \in Nat
  BY EmptySeq
<1>2. N \in Nat \ {0}
  BY <1>1, Quotient
<1>3. c = [i \in 1..N |-> c[i]]
  <2>1. ~(arr = <<>> \/ size <= 0)
    OBVIOUS
  <2> QED BY <2>1, Zenon DEF Chunks
<1>4. DOMAIN c = 1..N
  BY ChunkIs
<1>5. \A i \in DOMAIN c : c[i] \in Seq(S)
  BY ChunksAreFull
<1> HIDE DEF c, N
<1>6. c \in [1..N -> Seq(S)]
  BY <1>3, <1>4, <1>5
<1>7. c \in Seq(Seq(S))
  BY <1>6, <1>2, SeqDef
<1>8. Len(c) = N
  <2>1. Len(c) \in Nat /\ DOMAIN c = 1..Len(c)
    BY <1>7, LenProperties
  <2> QED BY <2>1, <1>2, <1>4, SameEnds
<1> QED BY <1>2, <1>7, <1>8 DEF c, N

\* What was cut is whole again when the chunks are glued in their order.
LEMMA GluedChunks ==
  ASSUME NEW S, NEW arr \in Seq(S), arr # <<>>, NEW size \in Nat \ {0}
  PROVE  Gathering(Chunks(arr, size))[Len(Chunks(arr, size))] = arr
<1> DEFINE n == Len(arr)
           N == (n - 1) \div size + 1
           c == Chunks(arr, size)
           g == Gathering(c)
           to(k) == IF k * size < n THEN k * size ELSE n
           T == {k \in 0..N : g[k] = SubSeq(arr, 1, to(k))}
<1>1. n \in Nat \ {0}
  BY EmptySeq
<1>2. N \in Nat \ {0} /\ Len(c) = N /\ DOMAIN c = 1..N
  BY ChunkList, ChunkIs
<1>0. N \in Nat \ {0}
  BY <1>2
<1>3. \A k \in 1..N : c[k] = SubSeq(arr, (k - 1) * size + 1, to(k))
  BY <1>2, ChunkIs
<1>4. \A k \in 1..N : g[k] = g[k - 1] \o c[k]
  BY <1>2, GatheringStep
<1>5. \A k \in 1..N : /\ (k - 1) * size \in Nat /\ (k - 1) * size < n
                      /\ to(k) \in 1..n /\ to(k) - (k - 1) * size \in 1..size
  <2> SUFFICES ASSUME NEW k \in 1..N
               PROVE  /\ (k - 1) * size \in Nat /\ (k - 1) * size < n
                      /\ to(k) \in 1..n /\ to(k) - (k - 1) * size \in 1..size
    OBVIOUS
  <2>1. /\ (k - 1) * size \in Nat /\ to(k) \in 1..n
        /\ to(k) - (k - 1) * size \in 1..size
    BY <1>1, ChunkEnds
  <2> HIDE DEF to
  <2> QED BY <2>1, <1>1
<1>6. n <= N * size
  <2>1. N - 1 \in Nat /\ n - 1 < (N - 1) * size + size
    BY <1>1, Quotient
  <2>2. (N - 1) * size = N * size - size /\ N * size \in Int
    BY <1>2, Distributes
  <2> HIDE DEF N
  <2> QED BY <2>1, <2>2, <1>1, <1>2
<1> HIDE DEF c, g, N, n
<1>7. 0 \in T
  <2>0. g[0] = <<>>
    BY <1>0, <1>2, GatheringStep DEF g
  <2>1. to(0) = 0
    BY <1>1
  <2>2. SubSeq(arr, 1, 0) = <<>>
    BY SubSeqEmpty
  <2> HIDE DEF to
  <2>3. g[0] = SubSeq(arr, 1, to(0))
    BY <2>0, <2>1, <2>2, Zenon
  <2>4. 0 \in 0..N
    BY <1>0
  <2> QED BY <2>3, <2>4, Zenon
<1>8. ASSUME NEW k \in 0..(N - 1), k \in T
      PROVE  k + 1 \in T
  <2>1. k + 1 \in 1..N /\ (k + 1) - 1 = k
    BY <1>2
  <2>2. /\ k * size \in Nat /\ k * size < n /\ to(k + 1) \in 1..n
        /\ to(k + 1) - k * size \in 1..size
    BY <2>1, <1>5
  <2>3. to(k) = k * size
    BY <2>2
  <2>4. c[k + 1] = SubSeq(arr, k * size + 1, to(k + 1))
    BY <2>1, <1>3
  <2>5. g[k + 1] = g[k] \o c[k + 1]
    BY <2>1, <1>4
  <2> DEFINE a == k * size
             b == to(k + 1)
  <2>6. a \in Nat /\ a < n /\ b \in 1..n /\ b - a \in 1..size
    BY <2>2
  <2>7. g[k] = SubSeq(arr, 1, a)
    BY <1>8, <2>3
  <2> HIDE DEF a, b, to
  <2>8. SubSeq(arr, 1, a) \o SubSeq(arr, a + 1, b) = SubSeq(arr, 1, b)
    <3>1. 1 \in 1..(Len(arr) + 1) /\ a \in (1 - 1)..Len(arr) /\ b \in a..Len(arr)
      BY <2>6, <1>1 DEF n
    <3> QED BY <3>1, ConcatAdjacentSubSeq
  <2>9. g[k + 1] = SubSeq(arr, 1, b)
    BY <2>4, <2>5, <2>7, <2>8 DEF a, b
  <2> QED BY <2>1, <2>9 DEF b
<1>9. N \in T
  <2> HIDE DEF T
  <2>1. \A k \in 0..N : k \in T
    BY <1>2, <1>7, <1>8, NatInduct
  <2> QED BY <2>1, <1>2
<1>10. to(N) = n
  <2>1. N * size \in Int
    BY <1>2, Distributes
  <2> QED BY <1>1, <1>6, <2>1
<1>11. g[N] = SubSeq(arr, 1, n)
  BY <1>9, <1>10
<1>12. SubSeq(arr, 1, n) = arr
  BY SubSeqFull DEF n
<1> QED BY <1>2, <1>11, <1>12 DEF c, g

\* Blocks of one length, glued: each is found again where its number says.
LEMMA GluedBlocks ==
  ASSUME NEW S, NEW parts \in Seq(Seq(S)), NEW K \in Nat,
         \A i \in 1..Len(parts) : Len(parts[i]) = K
  PROVE  LET body == Gathering(parts)[Len(parts)]
         IN /\ body \in Seq(S) /\ Len(body) = Len(parts) * K
            /\ \A i \in 1..Len(parts) : \A j \in 1..K :
                  body[(i - 1) * K + j] = parts[i][j]
<1> DEFINE N == Len(parts)
           g == Gathering(parts)
           Holds(k) == /\ g[k] \in Seq(S) /\ Len(g[k]) = k * K
                       /\ \A i \in 1..k : \A j \in 1..K :
                             g[k][(i - 1) * K + j] = parts[i][j]
           T == {k \in 0..N : Holds(k)}
<1>1. N \in Nat /\ \A i \in 1..N : parts[i] \in Seq(S)
  BY LenProperties
<1>2. \A k \in 1..N : g[k] = g[k - 1] \o parts[k]
  BY <1>1, GatheringStep
<1>3. \A i \in 1..N : Len(parts[i]) = K
  OBVIOUS
<1> HIDE DEF g, N
<1>4. 0 \in T
  <2>1. 0 * K = 0
    OBVIOUS
  <2>2. g[0] = <<>>
    BY <1>1, GatheringStep DEF g, N
  <2>3. g[0] \in Seq(S) /\ Len(g[0]) = 0
    BY <2>2, EmptySeq
  <2> QED BY <2>1, <2>3, <1>1
<1>5. ASSUME NEW k \in 0..(N - 1), k \in T
      PROVE  k + 1 \in T
  <2>1. k + 1 \in 1..N /\ (k + 1) - 1 = k /\ k \in Nat
    BY <1>1
  <2> DEFINE old == g[k]
             new == parts[k + 1]
  <2>2. old \in Seq(S) /\ new \in Seq(S) /\ Len(old) = k * K /\ Len(new) = K
    BY <2>1, <1>1, <1>3, <1>5
  <2>3. g[k + 1] = old \o new
    BY <2>1, <1>2
  <2>4. \A i \in 1..k : \A j \in 1..K : old[(i - 1) * K + j] = parts[i][j]
    BY <1>5
  <2>5. (k + 1) * K = k * K + K /\ k * K \in Nat
    <3>1. ((k + 1) - 1) * K = (k + 1) * K - K /\ (k + 1) * K \in Int
      BY <2>1, Distributes
    <3>2. k * K \in Int /\ 0 * K <= k * K
      BY <2>1, Distributes, Monotone
    <3> QED BY <3>1, <3>2, <2>1
  <2> HIDE DEF old, new
  <2>0. /\ old \o new \in Seq(S)
        /\ Len(old \o new) = Len(old) + Len(new)
        /\ \A x \in 1..(Len(old) + Len(new)) :
              (old \o new)[x] = IF x <= Len(old) THEN old[x] ELSE new[x - Len(old)]
    BY <2>2, ConcatProperties
  <2>6. /\ old \o new \in Seq(S)
        /\ Len(old \o new) = k * K + K
        /\ \A x \in 1..(k * K + K) :
              (old \o new)[x] = IF x <= k * K THEN old[x] ELSE new[x - k * K]
    BY <2>0, <2>2
  <2>7. ASSUME NEW i \in 1..(k + 1), NEW j \in 1..K
        PROVE  (old \o new)[(i - 1) * K + j] = parts[i][j]
    <3> DEFINE before == k * K
               p == (i - 1) * K
               x == p + j
    <3>1. CASE i = k + 1
      <4>1. (i - 1) * K = k * K
        BY <3>1
      <4>2. before \in Nat /\ p = before
        BY <4>1, <2>5
      <4>3. x = before + j /\ x \in 1..(before + K) /\ ~(x <= before) /\ x - before = j
        <5> HIDE DEF before, p
        <5> QED BY <4>2
      <4> HIDE DEF x
      <4>4. (old \o new)[x] = new[j]
        BY <4>3, <2>6
      <4> QED BY <4>4, <3>1 DEF x, new
    <3>2. CASE i # k + 1
      <4>1. i \in 1..k /\ i - 1 \in Nat
        BY <3>2, <2>1
      <4>2. i * K <= k * K /\ (i - 1) * K = i * K - K /\ i * K \in Int
        BY <4>1, <2>1, Monotone, Distributes
      <4>3. 0 * K <= (i - 1) * K
        BY <4>1, Monotone
      <4>4. x \in 1..(before + K) /\ x <= before
        <5>1. before \in Nat /\ p \in Int /\ 0 <= p /\ p + K <= before
          BY <4>2, <4>3, <2>5
        <5> HIDE DEF before, p
        <5> QED BY <5>1
      <4>5. old[x] = parts[i][j]
        BY <4>1, <2>4
      <4> HIDE DEF x
      <4>6. (old \o new)[x] = old[x]
        BY <4>4, <2>6
      <4> QED BY <4>5, <4>6 DEF x
    <3> QED BY <3>1, <3>2
  <2>8. Holds(k + 1)
    BY <2>3, <2>5, <2>6, <2>7
  <2> HIDE DEF Holds
  <2> QED BY <2>1, <2>8
<1>6. N \in T
  <2> HIDE DEF T
  <2>1. \A k \in 0..N : k \in T
    BY <1>1, <1>4, <1>5, NatInduct
  <2> QED BY <2>1, <1>1
<1> QED BY <1>6 DEF N, g
-----------------------------------------------------------------------------
(* Encrypting and decrypting whole texts *)

\* The chunks RSAEncrypt cuts, and their blocks.
Cut(secret, key) == Chunks(secret, KeySize[key] - Overhead)

Blocks(secret, key) ==
  [i \in DOMAIN Cut(secret, key) |-> EncryptOAEP(Cut(secret, key)[i], key)]

\* What RSAEncrypt sends: the blocks of the chunks, one after the other.
LEMMA Encrypted ==
  ASSUME NEW S, NEW secret \in Seq(S), secret # <<>>, NEW key \in RSAKeys,
         KeySize[key] > Overhead, Failed \notin Seq(Cipher(S))
  PROVE  LET c == Cut(secret, key)
             blocks == Blocks(secret, key)
         IN /\ blocks \in Seq(Seq(Cipher(S))) /\ Len(blocks) = Len(c)
            /\ \A i \in 1..Len(c) : Len(blocks[i]) = KeySize[key]
            /\ \A i \in 1..Len(c) : blocks[i] = EncryptOAEP(c[i], key)
            /\ RSAEncrypt(secret, key) = Gathering(blocks)[Len(blocks)]
<1> DEFINE size == KeySize[key] - Overhead
           c == Cut(secret, key)
           N == Len(c)
           blocks == Blocks(secret, key)
<1>1. size \in Nat \ {0} /\ KeySize[key] \in Nat /\ Overhead \in Nat
  BY KeySizeAssumption, BlocksAssumption
<1>2. c \in Seq(Seq(S)) /\ N \in Nat \ {0}
  BY <1>1, ChunkList DEF Cut
<1>3. DOMAIN c = 1..N
  BY <1>2, LenProperties
<1>4. \A i \in DOMAIN c : c[i] \in Seq(S) /\ Len(c[i]) \in 1..size
  BY <1>1, ChunksAreFull DEF Cut
<1> HIDE DEF c
<1>5. \A i \in DOMAIN c : /\ EncryptOAEP(c[i], key) \in Seq(Cipher(S))
                          /\ Len(EncryptOAEP(c[i], key)) = KeySize[key]
  <2> SUFFICES ASSUME NEW i \in DOMAIN c
               PROVE  /\ EncryptOAEP(c[i], key) \in Seq(Cipher(S))
                      /\ Len(EncryptOAEP(c[i], key)) = KeySize[key]
    OBVIOUS
  <2>1. c[i] \in Seq(S) /\ Len(c[i]) <= KeySize[key] - Overhead
    BY <1>1, <1>4
  <2> QED BY <2>1, Block
<1>0. blocks = [i \in DOMAIN c |-> EncryptOAEP(c[i], key)]
  BY DEF Blocks, c
<1> HIDE DEF blocks
<1>6. \A i \in 1..N : blocks[i] = EncryptOAEP(c[i], key)
  BY <1>0, <1>3
<1>7. blocks \in [1..N -> Seq(Cipher(S))]
  BY <1>0, <1>3, <1>5
<1>8. RSAEncrypt(secret, key) = Joined(blocks)
  BY DEF RSAEncrypt, c, blocks, Cut, Blocks
<1>9. DOMAIN blocks = 1..N
  BY <1>0, <1>3
<1> HIDE DEF N
<1>10. blocks \in Seq(Seq(Cipher(S)))
  BY <1>2, <1>7, SeqDef
<1>11. Len(blocks) = N
  <2>1. Len(blocks) \in Nat /\ DOMAIN blocks = 1..Len(blocks)
    BY <1>10, LenProperties
  <2> QED BY <2>1, <1>2, <1>9, SameEnds
<1>12. ~ \E i \in DOMAIN blocks : blocks[i] = Failed
  BY <1>3, <1>5, <1>6, <1>9
<1>13. RSAEncrypt(secret, key) = Gathering(blocks)[Len(blocks)]
  BY <1>8, <1>12 DEF Joined
<1> QED BY <1>3, <1>5, <1>6, <1>10, <1>11, <1>13 DEF blocks, c, N

\* The server cuts the blocks apart again if its chunks have their size, or if there
\* is one block, and its chunks are longer.
LEMMA Recut ==
  ASSUME NEW S, NEW parts \in Seq(Seq(S)), parts # <<>>, NEW K \in Nat \ {0},
         \A i \in 1..Len(parts) : Len(parts[i]) = K,
         NEW size \in Nat \ {0}, K = size \/ (K < size /\ Len(parts) = 1)
  PROVE  Chunks(Gathering(parts)[Len(parts)], size) = parts
<1> DEFINE body == Gathering(parts)[Len(parts)]
           N == Len(parts)
           n == Len(body)
           q == (n - 1) \div size
<1>1. N \in Nat \ {0} /\ \A i \in 1..N : parts[i] \in Seq(S)
  BY EmptySeq, LenProperties
<1>2. body \in Seq(S) /\ n = N * K
  BY GluedBlocks
<1>3. \A i \in 1..N : \A j \in 1..K : body[(i - 1) * K + j] = parts[i][j]
  BY GluedBlocks
<1>4. \A i \in 1..N : Len(parts[i]) = K
  OBVIOUS
<1> HIDE DEF body, N
<1>5. n \in Nat \ {0}
  <2>1. 1 * K <= N * K /\ N * K \in Int
    BY <1>1, Monotone, Distributes
  <2> HIDE DEF n
  <2> QED BY <2>1, <1>2
<1>6. body # <<>>
  BY <1>5, EmptySeq
<1>7. q \in Nat /\ q * size <= n - 1 /\ n - 1 < q * size + size
  BY <1>5, Quotient
<1> HIDE DEF n
<1>8. q + 1 = N
  <2>1. CASE K = size
    <3>1. q * K <= N * K - 1 /\ N * K < q * K + K + 1 /\ q \in Nat
      <4> DEFINE p == q * K
      <4>1. p <= n - 1 /\ n - 1 < p + K
        BY <1>7, <2>1
      <4>2. p \in Int
        BY <1>7, Distributes
      <4> HIDE DEF p, q
      <4>3. p <= n - 1 /\ n < p + K + 1
        BY <1>5, <4>1, <4>2
      <4> QED BY <1>2, <1>7, <4>3 DEF p
    <3>2. (q + 1) * K = q * K + K /\ q * K \in Int /\ N * K \in Int
      <4>1. ((q + 1) - 1) * K = (q + 1) * K - K /\ (q + 1) * K \in Int
        BY <1>7, Distributes
      <4>2. q * K \in Int /\ N * K \in Int /\ (q + 1) - 1 = q
        BY <1>1, <1>7, Distributes
      <4> QED BY <4>1, <4>2
    <3> HIDE DEF q
    <3>3. q + 1 <= N
      <4> SUFFICES ASSUME N <= q PROVE FALSE
        BY <1>1, <3>1
      <4>1. N * K <= q * K
        BY <1>1, <3>1, Monotone
      <4> QED BY <4>1, <3>1, <3>2
    <3>4. N <= q + 1
      <4> SUFFICES ASSUME q + 2 <= N PROVE FALSE
        BY <1>1, <3>1
      <4>1. (q + 2) * K <= N * K
        BY <1>1, <3>1, Monotone
      <4>2. ((q + 2) - 1) * K = (q + 2) * K - K /\ (q + 2) - 1 = q + 1 /\ (q + 2) * K \in Int
        BY <3>1, Distributes
      <4> QED BY <4>1, <4>2, <3>1, <3>2
    <3> QED BY <3>1, <3>3, <3>4, <1>1
  <2>2. CASE K < size /\ N = 1
    <3>1. n = K
      BY <1>2, <2>2
    <3>2. q * size < size
      BY <3>1, <1>5, <1>7, <2>2
    <3> HIDE DEF q
    <3>3. ~(1 <= q)
      <4> SUFFICES ASSUME 1 <= q PROVE FALSE
        OBVIOUS
      <4>1. 1 * size <= q * size /\ q * size \in Int
        BY <1>7, Monotone, Distributes
      <4> QED BY <4>1, <3>2
    <3> QED BY <3>3, <1>7, <2>2
  <2> QED BY <2>1, <2>2 DEF N
<1>9. /\ Chunks(body, size) \in Seq(Seq(S)) /\ Len(Chunks(body, size)) = N
      /\ DOMAIN Chunks(body, size) = 1..N
  BY <1>2, <1>6, <1>8, ChunkList, ChunkIs DEF n
<1>10. ASSUME NEW i \in 1..N
       PROVE  Chunks(body, size)[i] = parts[i]
  <2> DEFINE from == (i - 1) * K
             c == Chunks(body, size)[i]
  <2>1. c = SubSeq(body, (i - 1) * size + 1, IF i * size < n THEN i * size ELSE n)
    BY <1>6, <1>9, ChunkIs DEF n
  <2>2. /\ from \in Nat /\ from + K <= n /\ i * K = from + K /\ i * K \in Int
    <3>1. i - 1 \in Nat /\ i \in Nat /\ i <= N
      BY <1>1
    <3>2. 0 * K <= (i - 1) * K /\ i * K <= N * K
      BY <3>1, <1>1, Monotone
    <3>3. (i - 1) * K = i * K - K /\ i * K \in Int
      BY <3>1, Distributes
    <3>4. 0 * K = 0
      OBVIOUS
    <3> QED BY <3>2, <3>3, <3>4, <1>2
  <2>3. (i - 1) * size = from /\ (IF i * size < n THEN i * size ELSE n) = from + K
    <3>1. CASE K = size
      <4>1. i * size = from + K /\ (i - 1) * size = from
        BY <2>2, <3>1
      <4> HIDE DEF from
      <4> QED BY <4>1, <2>2, <1>5
    <3>2. CASE K < size /\ N = 1
      <4>1. i = 1 /\ n = K /\ (i - 1) * size = 0 /\ from = 0 /\ i * size = size
        BY <3>2, <1>2
      <4> HIDE DEF from
      <4> QED BY <4>1, <3>2
    <3> QED BY <3>1, <3>2 DEF N
  <2>4. c = SubSeq(body, from + 1, from + K)
    BY <2>1, <2>3, Zenon
  <2> HIDE DEF from
  <2>5. \A j \in 1..K : body[from + j] = parts[i][j]
    BY <1>3 DEF from
  <2>6. /\ SubSeq(body, from + 1, from + K) \in Seq(S)
        /\ Len(SubSeq(body, from + 1, from + K)) = K
        /\ \A j \in 1..K : SubSeq(body, from + 1, from + K)[j] = body[from + j]
    <3> DEFINE a == from + 1
               b == from + K
    <3>1. a \in Int /\ b \in Int /\ a <= b /\ b - a + 1 = K /\ a \in 1..n /\ b \in 1..n
      BY <2>2, <1>5
    <3>2. \A j \in 1..K : a + j - 1 = from + j
      BY <2>2
    <3> HIDE DEF a, b
    <3>3. \A x \in a..b : body[x] \in S
      BY <1>2, <1>5, <3>1, ElementOfSeq DEF n
    <3>4. /\ SubSeq(body, a, b) \in Seq(S)
          /\ Len(SubSeq(body, a, b)) = IF a <= b THEN b - a + 1 ELSE 0
          /\ \A j \in 1..(b - a + 1) : SubSeq(body, a, b)[j] = body[a + j - 1]
      BY <3>1, <3>3, SubSeqProperties
    <3>5. /\ SubSeq(body, a, b) \in Seq(S) /\ Len(SubSeq(body, a, b)) = K
          /\ \A j \in 1..K : SubSeq(body, a, b)[j] = body[from + j]
      BY <3>1, <3>2, <3>4
    <3> QED BY <3>5 DEF a, b
  <2> HIDE DEF c
  <2>7. /\ c \in Seq(S) /\ parts[i] \in Seq(S) /\ Len(c) = Len(parts[i])
        /\ \A j \in 1..Len(c) : c[j] = parts[i][j]
    BY <2>4, <2>5, <2>6, <1>1, <1>4
  <2>8. c = parts[i]
    BY <2>7, SeqEqual
  <2> QED BY <2>8 DEF c
<1>11. parts \in Seq(Seq(S)) /\ Len(parts) = N
  BY DEF N
<1> HIDE DEF q
<1>12. Chunks(body, size) = parts
  BY <1>9, <1>10, <1>11, SeqEqual
<1> QED BY <1>12 DEF body

\* The first chunk of the server decides where the lengths do not fit: it must be a
\* whole block of the server's own key.
LEMMA FirstChunk ==
  ASSUME NEW S, NEW body \in Seq(S), body # <<>>, NEW size \in Nat \ {0}
  PROVE  LET first == Chunks(body, size)[1]
         IN /\ 1 \in DOMAIN Chunks(body, size)
            /\ Len(first) = (IF size < Len(body) THEN size ELSE Len(body))
            /\ first[1] = body[1]
<1> DEFINE n == Len(body)
           first == Chunks(body, size)[1]
           to == IF size < n THEN size ELSE n
<1>1. n \in Nat \ {0}
  BY EmptySeq
<1>2. 1 \in DOMAIN Chunks(body, size)
  <2>1. (n - 1) \div size \in Nat
    BY <1>1, Quotient
  <2> QED BY <2>1, ChunkIs
<1>3. first = SubSeq(body, 1, to)
  <2>1. first = SubSeq(body, (1 - 1) * size + 1, IF 1 * size < n THEN 1 * size ELSE n)
    BY <1>2, ChunkIs
  <2>2. (1 - 1) * size + 1 = 1 /\ 1 * size = size
    OBVIOUS
  <2> QED BY <2>1, <2>2
<1>4. to \in 1..n
  BY <1>1
<1> HIDE DEF n, to, first
<1>5. \A x \in 1..to : body[x] \in S
  BY <1>1, <1>4, ElementOfSeq DEF n
<1>6. /\ Len(SubSeq(body, 1, to)) = IF 1 <= to THEN to - 1 + 1 ELSE 0
      /\ \A i \in 1..(to - 1 + 1) : SubSeq(body, 1, to)[i] = body[1 + i - 1]
  BY <1>1, <1>4, <1>5, SubSeqProperties
<1>7. Len(first) = to /\ first[1] = body[1]
  BY <1>1, <1>3, <1>4, <1>6
<1> QED BY <1>2, <1>7 DEF to, n, first

LEMMA Undecipherable ==
  ASSUME NEW S, NEW body \in Seq(S), body # <<>>, NEW key \in RSAKeys,
         LET first == Chunks(body, ServerBlock)[1]
         IN first[1][1] # "rsa" \/ first[1][2][1] # key \/ Len(first) # KeySize[key]
  PROVE  RSADecrypt(body, key) = Failed
<1> DEFINE c == Chunks(body, ServerBlock)
           clear == [i \in DOMAIN c |-> DecryptOAEP(c[i], key)]
<1>1. ServerBlock \in Nat \ {0} /\ KeySize[key] \in Nat
  BY KeySizeAssumption, BlocksAssumption
<1>2. 1 \in DOMAIN c
  BY <1>1, FirstChunk
<1>3. RSADecrypt(body, key) = Joined(clear)
  BY DEF RSADecrypt
<1>4. \/ c[1][1][1] # "rsa" \/ c[1][1][2][1] # key
      \/ Len(c[1]) # KeySize[key]
  OBVIOUS
<1> HIDE DEF c
<1>5. DecryptOAEP(c[1], key) = Failed
  <2>1. CASE c[1][1][1] # "rsa" \/ c[1][1][2][1] # key
    BY <2>1 DEF DecryptOAEP, Whole
  <2>2. CASE Len(c[1]) # KeySize[key]
    <3>1. Len(Cells("rsa", c[1][1][2], KeySize[key])) = KeySize[key]
      BY <1>1, CellsLen
    <3>2. ~Whole(c[1], "rsa", KeySize[key])
      BY <2>2, <3>1, Zenon DEF Whole
    <3> QED BY <3>2 DEF DecryptOAEP
  <2> QED BY <1>4, <2>1, <2>2
<1>6. 1 \in DOMAIN clear /\ clear[1] = Failed
  BY <1>2, <1>5
<1> HIDE DEF clear
<1> QED BY <1>3, <1>6 DEF Joined

\* What goes out is never an error, and without room for the padding it is nothing.
LEMMA Ciphertext ==
  ASSUME NEW S, NEW secret \in Seq(S), secret # <<>>, NEW key \in RSAKeys,
         Failed \notin Seq(Cipher(S))
  PROVE  /\ KeySize[key] <= Overhead => RSAEncrypt(secret, key) = <<>>
         /\ KeySize[key] > Overhead =>
              /\ RSAEncrypt(secret, key) \in Seq(Cipher(S)) \ {<<>>}
              /\ Len(RSAEncrypt(secret, key)) = Len(Cut(secret, key)) * KeySize[key]
              /\ RSAEncrypt(secret, key)[1] = <<"rsa", <<key, Cut(secret, key)[1]>>, 1>>
<1> DEFINE K == KeySize[key]
           size == K - Overhead
           c == Cut(secret, key)
           blocks == Blocks(secret, key)
           body == RSAEncrypt(secret, key)
<1>1. K \in Nat /\ Overhead \in Nat \ {0}
  BY KeySizeAssumption, BlocksAssumption
<1>2. CASE K <= Overhead
  <2>1. c = <<>>
    BY <1>1, <1>2 DEF Chunks, Cut
  <2>2. body = Joined(blocks)
    BY DEF RSAEncrypt, Blocks, Cut
  <2>3. blocks = <<>>
    BY <2>1 DEF Blocks
  <2>4. Gathering(<<>>)[Len(<<>>)] = <<>>
    BY GatheringStep
  <2>5. Joined(<<>>) = <<>>
    BY <2>4 DEF Joined
  <2>6. body = <<>>
    BY <2>2, <2>3, <2>5
  <2> QED BY <1>1, <1>2, <2>6
<1>3. CASE K > Overhead
  <2>1. size \in Nat \ {0} /\ K \in Nat \ {0}
    BY <1>1, <1>3
  <2>2. Len(c) \in Nat \ {0}
    BY <2>1, ChunkList DEF Cut
  <2>3. /\ blocks \in Seq(Seq(Cipher(S))) /\ Len(blocks) = Len(c)
        /\ \A i \in 1..Len(c) : Len(blocks[i]) = K
        /\ \A i \in 1..Len(c) : blocks[i] = EncryptOAEP(c[i], key)
        /\ body = Gathering(blocks)[Len(blocks)]
    BY <1>3, Encrypted
  <2>4. EncryptOAEP(c[1], key)[1] = <<"rsa", <<key, c[1]>>, 1>>
    <3>1. 1 \in DOMAIN c
      BY <2>1, FirstChunk DEF Cut
    <3>2. c[1] \in Seq(S) /\ Len(c[1]) \in 1..size
      BY <2>1, <3>1, ChunksAreFull DEF Cut
    <3> HIDE DEF c
    <3>3. Len(c[1]) <= KeySize[key] - Overhead
      BY <2>1, <3>2
    <3> QED BY <1>3, <3>2, <3>3, Block
  <2> HIDE DEF blocks, c, K, size, body
  <2>5. /\ body \in Seq(Cipher(S)) /\ Len(body) = Len(c) * K
        /\ \A i \in 1..Len(c) : \A j \in 1..K : body[(i - 1) * K + j] = blocks[i][j]
    <3>1. \A i \in 1..Len(blocks) : Len(blocks[i]) = K
      BY <2>3
    <3> DEFINE glued == Gathering(blocks)[Len(blocks)]
    <3>2. /\ glued \in Seq(Cipher(S)) /\ Len(glued) = Len(blocks) * K
          /\ \A i \in 1..Len(blocks) : \A j \in 1..K : glued[(i - 1) * K + j] = blocks[i][j]
      BY <2>1, <2>3, <3>1, GluedBlocks
    <3> HIDE DEF glued
    <3>3. body = glued /\ Len(blocks) = Len(c)
      BY <2>3 DEF glued
    <3> QED BY <3>2, <3>3
  <2>6. body[1] = blocks[1][1]
    <3>1. 1 \in 1..Len(c) /\ 1 \in 1..K
      BY <2>1, <2>2
    <3>2. body[(1 - 1) * K + 1] = blocks[1][1]
      BY <2>5, <3>1
    <3>3. (1 - 1) * K + 1 = 1
      BY <2>1
    <3> QED BY <3>2, <3>3
  <2>7. body # <<>>
    <3>1. 1 * K <= Len(c) * K /\ 1 * K = K /\ Len(c) * K \in Int
      BY <2>1, <2>2, Monotone, Distributes
    <3>2. Len(body) # 0
      BY <2>1, <2>5, <3>1
    <3> QED BY <3>2, EmptySeq
  <2>8. blocks[1] = EncryptOAEP(c[1], key)
    BY <2>2, <2>3
  <2> QED BY <1>1, <1>3, <2>4, <2>5, <2>6, <2>7, <2>8 DEF K, size, c, body
<1> QED BY <1>1, <1>2, <1>3

\* One block, or more: the number of chunks that RSAEncrypt cuts.
LEMMA OneBlock ==
  ASSUME NEW S, NEW secret \in Seq(S), secret # <<>>, NEW key \in RSAKeys,
         KeySize[key] > Overhead
  PROVE  /\ Len(Cut(secret, key)) \in Nat \ {0}
         /\ Len(Cut(secret, key)) = 1 <=> Len(secret) <= KeySize[key] - Overhead
<1> DEFINE n == Len(secret)
           size == KeySize[key] - Overhead
           q == (n - 1) \div size
<1>1. n \in Nat \ {0} /\ n - 1 \in Nat /\ size \in Nat \ {0}
  BY EmptySeq, KeySizeAssumption, BlocksAssumption
<1>2. q \in Nat /\ q * size <= n - 1 /\ n - 1 < q * size + size
  BY <1>1, Quotient
<1>3. Len(Cut(secret, key)) = q + 1
  BY <1>1, ChunkList DEF Cut
<1>4. q * size \in Int
  BY <1>1, <1>2, Distributes
<1> HIDE DEF n, size, q
<1>5. ASSUME q = 0
      PROVE  n <= size
  BY <1>1, <1>2, <1>5
<1>6. ASSUME n <= size
      PROVE  q = 0
  <2> SUFFICES ASSUME 1 <= q PROVE FALSE
    BY <1>2
  <2>1. 1 * size <= q * size /\ 1 * size = size
    BY <1>1, <1>2, Monotone
  <2> QED BY <1>1, <1>2, <1>4, <1>6, <2>1
<1>7. q + 1 = 1 <=> n <= size
  BY <1>2, <1>5, <1>6
<1> QED BY <1>2, <1>3, <1>7 DEF n, size

\* The chunks decrypted, if the server cuts the body where the agent has glued it.
LEMMA Deciphered ==
  ASSUME NEW S, NEW secret \in Seq(S), secret # <<>>, NEW key \in RSAKeys,
         KeySize[key] > Overhead, Failed \notin Seq(S), Failed \notin Seq(Cipher(S)),
         Decodable(key, Len(secret))
  PROVE  RSADecrypt(RSAEncrypt(secret, key), key) = secret
<1> DEFINE K == KeySize[key]
           size == K - Overhead
           c == Cut(secret, key)
           N == Len(c)
           blocks == Blocks(secret, key)
           body == RSAEncrypt(secret, key)
           clear == [i \in DOMAIN blocks |-> DecryptOAEP(blocks[i], key)]
<1>1. K \in Nat \ {0} /\ size \in Nat \ {0} /\ ServerBlock \in Nat \ {0}
  BY KeySizeAssumption, BlocksAssumption
<1>2. /\ blocks \in Seq(Seq(Cipher(S))) /\ Len(blocks) = N
      /\ \A i \in 1..N : Len(blocks[i]) = K
      /\ \A i \in 1..N : blocks[i] = EncryptOAEP(c[i], key)
      /\ body = Gathering(blocks)[Len(blocks)]
  BY Encrypted
<1>3. /\ c \in Seq(Seq(S)) /\ N \in Nat \ {0} /\ DOMAIN c = 1..N
  <2>1. c \in Seq(Seq(S)) /\ N \in Nat \ {0}
    BY <1>1, ChunkList DEF Cut
  <2> HIDE DEF c
  <2> QED BY <2>1, LenProperties
<1>4. \A i \in DOMAIN c : c[i] \in Seq(S) /\ Len(c[i]) \in 1..size
  BY <1>1, ChunksAreFull DEF Cut
<1>5. Gathering(c)[N] = secret
  BY <1>1, GluedChunks DEF Cut
<1>6. K = ServerBlock \/ (K < ServerBlock /\ N = 1)
  BY OneBlock DEF Decodable
<1> HIDE DEF K, size, c, N, blocks, body
<1>7. blocks # <<>> /\ \A i \in 1..Len(blocks) : Len(blocks[i]) = K
  BY <1>2, <1>3, EmptySeq
<1>8. Chunks(body, ServerBlock) = blocks
  <2>1. Chunks(Gathering(blocks)[Len(blocks)], ServerBlock) = blocks
    BY <1>1, <1>2, <1>6, <1>7, Recut
  <2> QED BY <1>2, <2>1
<1>9. DOMAIN blocks = 1..N
  BY <1>2, LenProperties
<1>10. ASSUME NEW i \in 1..N
       PROVE  DecryptOAEP(blocks[i], key) = c[i]
  <2>1. c[i] \in Seq(S) /\ Len(c[i]) <= KeySize[key] - Overhead
    <3>1. c[i] \in Seq(S) /\ Len(c[i]) \in 1..size
      BY <1>3, <1>4
    <3> QED BY <3>1, <1>1 DEF size, K
  <2>2. DecryptOAEP(EncryptOAEP(c[i], key), key) = c[i]
    BY <2>1, Block
  <2> QED BY <1>2, <2>2
<1>11. clear = c
  <2>1. clear = [i \in 1..N |-> c[i]]
    BY <1>9, <1>10
  <2>2. c = [i \in 1..N |-> c[i]]
    <3>1. c \in [1..N -> Seq(S)]
      BY <1>3, LenProperties DEF N
    <3> QED BY <3>1
  <2> QED BY <2>1, <2>2
<1>12. RSADecrypt(body, key) = Joined(clear)
  BY <1>8 DEF RSADecrypt
<1>13. Joined(c) = secret
  <2>1. ~ \E i \in DOMAIN c : c[i] = Failed
    BY <1>4
  <2> QED BY <2>1, <1>5 DEF Joined, N
<1> QED BY <1>11, <1>12, <1>13 DEF body

\* The RSA of the program gives a text back exactly for the same key, if the key is
\* the one RSADecrypt is written for or shorter and the text fits one block; it gives
\* nothing, and no error, with a key too short to hold anything (crypto.go).
THEOREM RoundTrip ==
  ASSUME NEW S, NEW secret \in Seq(S), secret # <<>>,
         Failed \notin Seq(S), Failed \notin Seq(Cipher(S)),
         NEW key \in RSAKeys, NEW other \in RSAKeys
  PROVE  RSADecrypt(RSAEncrypt(secret, key), other) =
           IF KeySize[key] <= Overhead THEN <<>>
           ELSE IF key = other /\ Decodable(key, Len(secret)) THEN secret ELSE Failed
<1> DEFINE K == KeySize[key]
           N == Len(Cut(secret, key))
           body == RSAEncrypt(secret, key)
           first == Chunks(body, ServerBlock)[1]
<1>1. K \in Nat /\ ServerBlock \in Nat \ {0} /\ Overhead \in Nat
  BY KeySizeAssumption, BlocksAssumption
<1>2. CASE K <= Overhead
  <2>1. body = <<>>
    BY <1>2, Ciphertext
  <2>2. Chunks(<<>>, ServerBlock) = <<>>
    BY DEF Chunks
  <2>3. RSADecrypt(<<>>, other) = Joined(<<>>)
    BY <2>2 DEF RSADecrypt
  <2>4. Gathering(<<>>)[Len(<<>>)] = <<>>
    BY GatheringStep
  <2>5. Joined(<<>>) = <<>>
    BY <2>4 DEF Joined
  <2> QED BY <1>2, <2>1, <2>3, <2>5
<1>3. CASE K > Overhead /\ ~(key = other /\ Decodable(key, Len(secret)))
  <2>1. /\ body \in Seq(Cipher(S)) /\ body # <<>> /\ Len(body) = N * K
        /\ body[1] = <<"rsa", <<key, Cut(secret, key)[1]>>, 1>>
    BY <1>3, Ciphertext
  <2>2. N \in Nat \ {0} /\ (N = 1 <=> Len(secret) <= K - Overhead)
    BY <1>3, OneBlock
  <2> HIDE DEF body, N
  <2>3. /\ Len(first) = (IF ServerBlock < Len(body) THEN ServerBlock ELSE Len(body))
        /\ first[1] = body[1]
    BY <1>1, <2>1, FirstChunk
  <2> HIDE DEF first
  <2>4. first[1][2][1] = key
    BY <2>1, <2>3
  <2>5. ASSUME key = other
        PROVE  Len(first) # K
    <3>1. K # ServerBlock /\ ~(K < ServerBlock /\ N = 1)
      BY <1>3, <2>2, <2>5 DEF Decodable
    <3>2. N * K \in Int /\ (N # 1 => 2 * K <= N * K) /\ K <= N * K
      <4>1. 1 * K <= N * K /\ N * K \in Int /\ 1 * K = K
        BY <1>1, <2>2, Monotone, Distributes
      <4>2. CASE N # 1
        <5>1. 2 * K <= N * K
          BY <1>1, <2>2, <4>2, Monotone
        <5> QED BY <4>1, <5>1
      <4> QED BY <4>1, <4>2
    <3> DEFINE n == N * K
    <3>3. n \in Int /\ (N # 1 => 2 * K <= n) /\ Len(body) = n
      BY <2>1, <3>2
    <3> HIDE DEF n, K
    <3>4. K > 0 /\ K \in Nat
      BY <1>1, <1>3 DEF K
    <3> QED BY <1>1, <2>3, <3>1, <3>3, <3>4
  <2>6. first[1][2][1] # other \/ Len(first) # KeySize[other]
    BY <2>4, <2>5
  <2>7. RSADecrypt(body, other) = Failed
    BY <2>1, <2>6, Undecipherable DEF first
  <2> QED BY <1>1, <1>3, <2>7 DEF body
<1>4. CASE K > Overhead /\ key = other /\ Decodable(key, Len(secret))
  BY <1>1, <1>4, Deciphered
<1> QED BY <1>1, <1>2, <1>3, <1>4
-----------------------------------------------------------------------------
(* JSON and gzip *)

\* An encoding is whole, and says in its first cell what it is of.
LEMMA WholeCells ==
  ASSUME NEW kind, NEW arg, NEW n \in Nat \ {0},
         NEW C, \A i \in 1..n : <<kind, arg, i>> \in C
  PROVE  LET text == Cells(kind, arg, n)
         IN /\ text \in Seq(C) /\ Len(text) = n /\ text # <<>>
            /\ text[1] = <<kind, arg, 1>>
            /\ Whole(text, kind, n)
<1> DEFINE text == Cells(kind, arg, n)
<1>1. text \in Seq(C) /\ Len(text) = n /\ text[1] = <<kind, arg, 1>>
  <2>1. 1 \in 1..n
    OBVIOUS
  <2>2. /\ text \in Seq(C) /\ Len(text) = n
        /\ \A i \in 1..n : text[i] = <<kind, arg, i>>
    BY CellsAre
  <2> QED BY <2>1, <2>2
<1> HIDE DEF text
<1>2. text # <<>>
  BY <1>1, EmptySeq
<1>3. text[1][1] = kind /\ text[1][2] = arg
  BY <1>1
<1>4. text = Cells(kind, text[1][2], n)
  BY <1>3, Zenon DEF text
<1>5. Whole(text, kind, n)
  BY <1>2, <1>3, <1>4, Zenon DEF Whole
<1> QED BY <1>1, <1>2, <1>5 DEF text

\* What another encoding has written is refused.
LEMMA OtherKind ==
  ASSUME NEW text, NEW kind, NEW n, text = <<>> \/ text[1][1] # kind
  PROVE  ~Whole(text, kind, n)
BY DEF Whole

\* Gunzip gives back what Gzip was given.
LEMMA GzipOpens ==
  ASSUME NEW S, NEW text \in Seq(S), text # <<>>
  PROVE  /\ Gzip(text) \in Seq(Zipped(S)) /\ Gzip(text) # <<>>
         /\ Len(Gzip(text)) = Len(text)
         /\ Gunzip(Gzip(text)) = text
<1> DEFINE z == Cells("gzip", text, Len(text))
<1>1. Len(text) \in Nat \ {0}
  BY EmptySeq
<1>2. \A i \in 1..Len(text) : <<"gzip", text, i>> \in Zipped(S)
  BY <1>1 DEF Zipped
<1>3. /\ z \in Seq(Zipped(S)) /\ Len(z) = Len(text) /\ z # <<>>
      /\ z[1] = <<"gzip", text, 1>> /\ Whole(z, "gzip", Len(text))
  BY <1>1, <1>2, WholeCells
<1> HIDE DEF z
<1>4. z[1][2] = text
  BY <1>3
<1>5. Gunzip(z) = text
  BY <1>3, <1>4 DEF Gunzip
<1>6. Gzip(text) = z
  BY DEF Gzip, z
<1> QED BY <1>3, <1>5, <1>6

LEMMA NotGzip ==
  ASSUME NEW text, text = <<>> \/ text[1][1] # "gzip"
  PROVE  Gunzip(text) = Failed
BY OtherKind DEF Gunzip

\* A list is read as what was written, and so is a single metric.
LEMMA ArrayOpens ==
  ASSUME NEW I, NEW items \in Seq(I)
  PROVE  /\ ArrayText(items) \in Seq({"array"} \X Seq(I) \X Nat)
         /\ ArrayText(items) # <<>> /\ ArrayText(items)[1][1] = "array"
         /\ Len(ArrayText(items)) = Len(items) + 1
         /\ DecodeArray(ArrayText(items)) = items
<1> DEFINE n == Len(items) + 1
           t == Cells("array", items, n)
           C == {"array"} \X Seq(I) \X Nat
<1>1. n \in Nat \ {0}
  BY LenProperties
<1>2. \A i \in 1..n : <<"array", items, i>> \in C
  BY <1>1
<1> HIDE DEF n, C
<1>3. /\ t \in Seq(C) /\ Len(t) = n /\ t # <<>>
      /\ t[1] = <<"array", items, 1>> /\ Whole(t, "array", n)
  BY <1>1, <1>2, WholeCells
<1> HIDE DEF t
<1>4. t[1][1] = "array" /\ t[1][2] = items
  BY <1>3
<1>5. DecodeArray(t) = items
  BY <1>3, <1>4 DEF DecodeArray, n
<1>6. ArrayText(items) = t
  BY DEF ArrayText, t, n
<1> QED BY <1>3, <1>4, <1>5, <1>6 DEF n, C

LEMMA ObjectOpens ==
  ASSUME NEW I, NEW item \in I
  PROVE  /\ ObjectText(item) \in Seq({"object"} \X I \X Nat)
         /\ ObjectText(item) # <<>> /\ ObjectText(item)[1][1] = "object"
         /\ Len(ObjectText(item)) = 1
         /\ DecodeObject(ObjectText(item)) = item
<1> DEFINE n == 1
           t == Cells("object", item, n)
           C == {"object"} \X I \X Nat
<1>1. n \in Nat \ {0} /\ \A i \in 1..n : <<"object", item, i>> \in C
  OBVIOUS
<1> HIDE DEF C, n
<1>2. /\ t \in Seq(C) /\ Len(t) = n /\ t # <<>>
      /\ t[1] = <<"object", item, 1>> /\ Whole(t, "object", n)
  BY <1>1, WholeCells
<1> HIDE DEF t
<1>3. t[1][1] = "object" /\ t[1][2] = item
  BY <1>2
<1>4. DecodeObject(t) = item
  BY <1>2, <1>3 DEF DecodeObject, n
<1>5. ObjectText(item) = t
  BY DEF ObjectText, t, n
<1> QED BY <1>2, <1>3, <1>4, <1>5 DEF C, n
=============================================================================
