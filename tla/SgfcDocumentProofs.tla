------------------------- MODULE SgfcDocumentProofs -------------------------
(***************************************************************************)
(* Proofs about SgfcDocument, for any number of nodes and any trees.       *)
(***************************************************************************)
EXTENDS SgfcDocument, FiniteSetTheorems, SequenceTheorems, TLAPS

-----------------------------------------------------------------------------
(* Numbers.                                                                *)

LEMMA LeastNumber ==
  ASSUME NEW S, S \subseteq Nat, S # {}
  PROVE  \E i \in S : \A j \in S : i <= j
<1> DEFINE Less == {p \in Nat \X Nat : p[1] < p[2]}
<1>1. IsWellFoundedOn(Less, Nat)
  <2>1. Less = OpToRel(<, Nat)
    BY DEF OpToRel
  <2> QED BY <2>1, NatLessThanWellFounded
<1>2. PICK i \in S : \A j \in S : ~(<<j, i>> \in Less)
  <2> HIDE DEF Less
  <2> QED BY <1>1, WFMin
<1>3. ASSUME NEW j \in S PROVE i <= j
  <2>1. i \in Nat /\ j \in Nat
    OBVIOUS
  <2>2. ~(j < i)
    BY <1>2, <2>1
  <2> QED BY <2>1, <2>2
<1> QED BY <1>3

LEMMA GreatestNumber ==
  ASSUME NEW k \in Nat, NEW S \in SUBSET (0 .. k), S # {}
  PROVE  \E i \in S : \A j \in S : j <= i
<1> DEFINE T == {j \in 0 .. k : k - j \in S}
<1>1. PICK s \in S : TRUE
  OBVIOUS
<1>2. k - s \in T
  OBVIOUS
<1>3. \E i \in T : \A j \in T : i <= j
  <2>1. T \subseteq Nat
    OBVIOUS
  <2> HIDE DEF T
  <2> QED BY <1>2, <2>1, LeastNumber
<1>4. PICK i \in T : \A j \in T : i <= j
  BY <1>3
<1>5. ASSUME NEW y \in S PROVE y <= k - i
  <2>1. k - y \in T
    OBVIOUS
  <2>2. i \in Nat /\ y \in Nat /\ k - y \in Nat
    OBVIOUS
  <2> HIDE DEF T
  <2>3. i <= k - y
    BY <1>4, <2>1
  <2> QED BY <2>2, <2>3
<1> QED BY <1>4, <1>5

-----------------------------------------------------------------------------
(* What is read from a sequence of tokens, one at a time, and sequences    *)
(* put together to one.                                                    *)

(* The greatest of the first numbers, and the numbers below it.            *)
LEMMA MaxOfFirst ==
  ASSUME NEW k \in Nat \ {0}, NEW s \in SUBSET (1 .. k), k \in s
  PROVE  Max(s) = k
<1>1. \A x \in s : x \in Int /\ x <= k
  OBVIOUS
<1>2. \A m \in s : (\A y \in s : m >= y) => m = k
  BY <1>1
<1>3. k \in s /\ \A y \in s : k >= y
  BY <1>1
<1> QED BY <1>2, <1>3 DEF Max

(* The function by which FoldLeft is defined, for the first n tokens.      *)
IsReader(f, out, n) ==
  f = [s \in SUBSET (1 .. n) |->
         IF s = {} THEN Unread ELSE ReadToken(f[s \ {Max(s)}], out[Max(s)])]

LEMMA ReaderExists == ASSUME NEW out, NEW n \in Nat PROVE \E f : IsReader(f, out, n)
<1> DEFINE Bad == {k \in Nat : ~\E f : IsReader(f, out, k)}
<1>1. 0 \notin Bad
  <2> DEFINE f == [s \in SUBSET (1 .. 0) |-> Unread]
  <2>1. \A s \in SUBSET (1 .. 0) : s = {}
    OBVIOUS
  <2>2. IsReader(f, out, 0)
    BY <2>1 DEF IsReader
  <2> QED BY <2>2
<1>2. ASSUME NEW k \in Nat \ {0}, NEW g, IsReader(g, out, k - 1) PROVE \E f : IsReader(f, out, k)
  <2> DEFINE f == [s \in SUBSET (1 .. k) |-> IF k \in s THEN ReadToken(g[s \ {k}], out[k]) ELSE g[s]]
  <2>1. ASSUME NEW s \in SUBSET (1 .. k), k \notin s PROVE s \in SUBSET (1 .. k - 1)
    BY <2>1
  <2>2. ASSUME NEW s \in SUBSET (1 .. k)
        PROVE  f[s] = IF s = {} THEN Unread ELSE ReadToken(f[s \ {Max(s)}], out[Max(s)])
    <3>1. CASE k \in s
      <4>1. Max(s) = k /\ s # {} /\ s \ {k} \in SUBSET (1 .. k) /\ k \notin s \ {k}
        BY <3>1, MaxOfFirst
      <4>2. f[s \ {k}] = g[s \ {k}]
        BY <4>1
      <4> QED BY <3>1, <4>1, <4>2
    <3>2. CASE k \notin s
      <4>1. s \in SUBSET (1 .. k - 1) /\ f[s] = g[s]
        BY <2>1, <3>2
      <4>2. g[s] = IF s = {} THEN Unread ELSE ReadToken(g[s \ {Max(s)}], out[Max(s)])
        BY <1>2, <4>1 DEF IsReader
      <4>3. s \ {Max(s)} \in SUBSET (1 .. k) /\ k \notin s \ {Max(s)}
        BY <3>2
      <4>4. f[s \ {Max(s)}] = g[s \ {Max(s)}]
        BY <4>3
      <4> QED BY <4>1, <4>2, <4>4
    <3> QED BY <3>1, <3>2
  <2>3. f = [s \in SUBSET (1 .. k) |-> f[s]]
    OBVIOUS
  <2> HIDE DEF f
  <2>4. IsReader(f, out, k)
    BY <2>2, <2>3 DEF IsReader
  <2> QED BY <2>4
<1>3. Bad = {}
  <2> SUFFICES ASSUME Bad # {} PROVE FALSE
    OBVIOUS
  <2>1. Bad \subseteq Nat
    OBVIOUS
  <2> HIDE DEF Bad
  <2>2. PICK k \in Bad : \A j \in Bad : k <= j
    BY <2>1, LeastNumber
  <2>3. k \in Nat \ {0} /\ k - 1 \in Nat /\ ~(k <= k - 1)
    BY <1>1, <2>1
  <2>4. k - 1 \notin Bad
    BY <2>2, <2>3
  <2> QED BY <1>2, <2>3, <2>4 DEF Bad
<1> QED BY <1>3

(* What is read after each token.                                          *)
ReadSteps(after, out, n) ==
  /\ after[0] = Unread
  /\ \A k \in 1 .. n : after[k] = ReadToken(after[k - 1], out[k])

LEMMA ReadsInSteps ==
  ASSUME NEW T, NEW out \in Seq(T)
  PROVE  \E after : ReadSteps(after, out, Len(out)) /\ ReadTokens(out) = after[Len(out)]
<1> DEFINE IsIter(f) == f = [s \in SUBSET (DOMAIN out) |->
                               IF s = {} THEN Unread ELSE ReadToken(f[s \ {Max(s)}], out[Max(s)])]
           reader == CHOOSE f : IsIter(f)
           after == [k \in 0 .. Len(out) |-> reader[1 .. k]]
<1>1. DOMAIN out = 1 .. Len(out) /\ Len(out) \in Nat
  OBVIOUS
<1>2. IsIter(reader)
  <2>1. PICK f : IsReader(f, out, Len(out))
    BY <1>1, ReaderExists
  <2>2. IsIter(f)
    BY <1>1, <2>1 DEF IsReader
  <2> HIDE DEF IsIter
  <2> QED BY <2>2
<1>3. ReadTokens(out) = reader[1 .. Len(out)]
  BY <1>1 DEF ReadTokens, FoldLeft, MapThenFoldSet
<1> HIDE DEF reader
<1>4. \A s \in SUBSET (1 .. Len(out)) :
        reader[s] = IF s = {} THEN Unread ELSE ReadToken(reader[s \ {Max(s)}], out[Max(s)])
  BY <1>1, <1>2
<1>5. after[0] = Unread
  <2>1. 1 .. 0 = {} /\ 0 \in 0 .. Len(out)
    BY <1>1
  <2> QED BY <1>4, <2>1
<1>6. ASSUME NEW k \in 1 .. Len(out) PROVE after[k] = ReadToken(after[k - 1], out[k])
  <2>1. k \in Nat \ {0} /\ k \in 1 .. k /\ k - 1 \in 0 .. Len(out) /\ k \in 0 .. Len(out)
    BY <1>1
  <2>2. Max(1 .. k) = k
    BY <2>1, MaxOfFirst
  <2>3. (1 .. k) \ {k} = 1 .. k - 1 /\ 1 .. k # {}
    <3>1. ASSUME NEW x PROVE x \in (1 .. k) \ {k} <=> x \in 1 .. k - 1
      BY <2>1
    <3> QED BY <2>1, <3>1
  <2>4. 1 .. k \in SUBSET (1 .. Len(out))
    BY <1>1
  <2>5. reader[1 .. k] = ReadToken(reader[1 .. k - 1], out[k])
    BY <1>4, <2>2, <2>3, <2>4
  <2> QED BY <2>1, <2>5
<1>7. after[Len(out)] = reader[1 .. Len(out)]
  BY <1>1
<1> HIDE DEF after
<1>8. ReadSteps(after, out, Len(out))
  BY <1>5, <1>6 DEF ReadSteps
<1> QED BY <1>3, <1>7, <1>8

LEMMA NothingRead == ReadTokens(<<>>) = Unread
<1>1. <<>> \in Seq(Nat) /\ Len(<<>>) = 0
  OBVIOUS
<1> QED BY <1>1, ReadsInSteps DEF ReadSteps

(* A token more is read after the others.                                  *)
LEMMA ReadMore ==
  ASSUME NEW T, NEW out \in Seq(T), NEW t \in T
  PROVE  ReadTokens(Append(out, t)) = ReadToken(ReadTokens(out), t)
<1> DEFINE n == Len(out)
           new == Append(out, t)
<1>1. /\ n \in Nat /\ new \in Seq(T) /\ Len(new) = n + 1 /\ new[n + 1] = t
      /\ \A i \in 1 .. n : new[i] = out[i]
  OBVIOUS
<1>2. PICK f : ReadSteps(f, out, n) /\ ReadTokens(out) = f[n]
  BY ReadsInSteps
<1>3. PICK g : ReadSteps(g, new, n + 1) /\ ReadTokens(new) = g[n + 1]
  BY <1>1, ReadsInSteps
<1> HIDE DEF n, new
<1> DEFINE Bad == {k \in 0 .. n : f[k] # g[k]}
<1>4. Bad = {}
  <2> SUFFICES ASSUME Bad # {} PROVE FALSE
    OBVIOUS
  <2>1. Bad \subseteq Nat
    BY <1>1
  <2>2. PICK k \in Bad : \A j \in Bad : k <= j
    <3> HIDE DEF Bad
    <3> QED BY <2>1, LeastNumber
  <2>3. k \in 1 .. n /\ k \in 1 .. n + 1
    BY <1>1, <1>2, <1>3, <2>2 DEF ReadSteps
  <2>4. f[k - 1] = g[k - 1]
    <3>1. k - 1 \in 0 .. n /\ ~(k <= k - 1)
      BY <1>1, <2>3
    <3> QED BY <2>2, <3>1
  <2> QED BY <1>1, <1>2, <1>3, <2>2, <2>3, <2>4 DEF ReadSteps
<1>5. f[n] = g[n] /\ n + 1 \in 1 .. n + 1 /\ (n + 1) - 1 = n
  BY <1>1, <1>4
<1>6. g[n + 1] = ReadToken(g[n], t)
  BY <1>1, <1>3, <1>5 DEF ReadSteps
<1> QED BY <1>2, <1>3, <1>5, <1>6 DEF new

(* The function by which FlattenSeq is defined, for the first n sequences. *)
IsFlat(f, seqs, n) ==
  f = [i \in 1 .. n |-> IF i = 1 THEN seqs[i] ELSE f[i - 1] \o seqs[i]]

LEMMA FlatExists == ASSUME NEW seqs, NEW n \in Nat PROVE \E f : IsFlat(f, seqs, n)
<1> DEFINE Bad == {k \in Nat : ~\E f : IsFlat(f, seqs, k)}
<1>1. 0 \notin Bad
  <2> DEFINE f == [i \in 1 .. 0 |-> seqs[i]]
  <2>1. IsFlat(f, seqs, 0)
    BY DEF IsFlat
  <2> QED BY <2>1
<1>2. ASSUME NEW k \in Nat \ {0}, NEW g, IsFlat(g, seqs, k - 1) PROVE \E f : IsFlat(f, seqs, k)
  <2> DEFINE f == [i \in 1 .. k |-> IF i = 1 THEN seqs[i] ELSE g[i - 1] \o seqs[i]]
  <2>1. ASSUME NEW i \in 1 .. k PROVE f[i] = IF i = 1 THEN seqs[i] ELSE f[i - 1] \o seqs[i]
    <3>1. CASE i = 1
      BY <3>1
    <3>2. CASE i # 1
      <4>1. i - 1 \in 1 .. k - 1 /\ i - 1 \in 1 .. k
        BY <3>2
      <4>2. g[i - 1] = IF i - 1 = 1 THEN seqs[i - 1] ELSE g[(i - 1) - 1] \o seqs[i - 1]
        BY <1>2, <4>1 DEF IsFlat
      <4>3. f[i - 1] = g[i - 1]
        BY <4>1, <4>2
      <4> QED BY <3>2, <4>3
    <3> QED BY <3>1, <3>2
  <2>2. f = [i \in 1 .. k |-> f[i]]
    OBVIOUS
  <2> HIDE DEF f
  <2>3. IsFlat(f, seqs, k)
    BY <2>1, <2>2 DEF IsFlat
  <2> QED BY <2>3
<1>3. Bad = {}
  <2> SUFFICES ASSUME Bad # {} PROVE FALSE
    OBVIOUS
  <2>1. Bad \subseteq Nat
    OBVIOUS
  <2> HIDE DEF Bad
  <2>2. PICK k \in Bad : \A j \in Bad : k <= j
    BY <2>1, LeastNumber
  <2>3. k \in Nat \ {0} /\ k - 1 \in Nat /\ ~(k <= k - 1)
    BY <1>1, <2>1
  <2>4. k - 1 \notin Bad
    BY <2>2, <2>3
  <2> QED BY <1>2, <2>3, <2>4 DEF Bad
<1> QED BY <1>3

(* The first n of some sequences in one, and how it grows.                 *)
Joined(s, n) == FlattenSeq([i \in 1 .. n |-> s[i]])

JoinSteps(f, s, n) == f[1] = s[1] /\ \A i \in 2 .. n : f[i] = f[i - 1] \o s[i]

LEMMA JoinedInSteps ==
  ASSUME NEW s, NEW n \in Nat \ {0}
  PROVE  \E f : JoinSteps(f, s, n) /\ Joined(s, n) = f[n]
<1> DEFINE seqs == [i \in 1 .. n |-> s[i]]
           Goal(f) == f = [i \in 1 .. Len(seqs) |-> IF i = 1 THEN seqs[i] ELSE f[i - 1] \o seqs[i]]
           flatten == CHOOSE f : Goal(f)
<1>1. Len(seqs) = n /\ \A i \in 1 .. n : seqs[i] = s[i]
  OBVIOUS
<1>2. Goal(flatten)
  <2>1. PICK f : IsFlat(f, seqs, n)
    BY FlatExists
  <2>2. Goal(f)
    BY <1>1, <2>1 DEF IsFlat
  <2> HIDE DEF Goal
  <2> QED BY <2>2
<1>3. Joined(s, n) = flatten[n]
  BY <1>1 DEF FlattenSeq, Joined
<1> HIDE DEF flatten
<1>4. \A i \in 1 .. n : flatten[i] = IF i = 1 THEN s[i] ELSE flatten[i - 1] \o s[i]
  BY <1>1, <1>2
<1>5. JoinSteps(flatten, s, n)
  <2>1. 1 \in 1 .. n /\ \A i \in 2 .. n : i \in 1 .. n /\ i # 1
    OBVIOUS
  <2> QED BY <1>4, <2>1 DEF JoinSteps
<1> QED BY <1>3, <1>5

LEMMA NothingJoined == ASSUME NEW s PROVE Joined(s, 0) = <<>>
<1>1. [i \in 1 .. 0 |-> s[i]] = <<>> /\ Len(<<>>) = 0
  OBVIOUS
<1> QED BY <1>1 DEF FlattenSeq, Joined

(* One sequence more stands behind the others.                             *)
LEMMA JoinMore ==
  ASSUME NEW S, NEW n \in Nat, NEW s, s[n + 1] \in Seq(S)
  PROVE  Joined(s, n + 1) = Joined(s, n) \o s[n + 1]
<1>1. PICK g : JoinSteps(g, s, n + 1) /\ Joined(s, n + 1) = g[n + 1]
  BY JoinedInSteps
<1>2. CASE n = 0
  <2>1. Joined(s, n) = <<>> /\ Joined(s, n + 1) = s[n + 1]
    BY <1>1, <1>2, NothingJoined DEF JoinSteps
  <2>2. <<>> \o s[n + 1] = s[n + 1]
    BY ConcatEmptySeq
  <2> QED BY <2>1, <2>2
<1>3. CASE n # 0
  <2>1. PICK f : JoinSteps(f, s, n) /\ Joined(s, n) = f[n]
    BY <1>3, JoinedInSteps
  <2> DEFINE Bad == {k \in 1 .. n : f[k] # g[k]}
  <2>2. Bad = {}
    <3> SUFFICES ASSUME Bad # {} PROVE FALSE
      OBVIOUS
    <3>1. Bad \subseteq Nat
      OBVIOUS
    <3>2. PICK k \in Bad : \A j \in Bad : k <= j
      <4> HIDE DEF Bad
      <4> QED BY <3>1, LeastNumber
    <3>3. k \in 2 .. n /\ k \in 2 .. n + 1
      BY <1>1, <2>1, <3>2 DEF JoinSteps
    <3>4. f[k - 1] = g[k - 1]
      <4>1. k - 1 \in 1 .. n /\ ~(k <= k - 1)
        BY <3>3
      <4> QED BY <3>2, <4>1
    <3> QED BY <1>1, <2>1, <3>2, <3>3, <3>4 DEF JoinSteps
  <2>3. f[n] = g[n] /\ n + 1 \in 2 .. n + 1 /\ (n + 1) - 1 = n
    BY <1>3, <2>2
  <2>4. g[n + 1] = g[n] \o s[n + 1]
    BY <1>1, <2>3 DEF JoinSteps
  <2> QED BY <1>1, <2>1, <2>3, <2>4
<1> QED BY <1>2, <1>3

-----------------------------------------------------------------------------
(* SGFC's tree, given by the depths of its nodes.                          *)

Deep(d) ==
  /\ d \in Seq(Nat) /\ Len(d) \in Nat \ {0}
  /\ d[1] = 0
  /\ \A n \in 2 .. Len(d) : d[n] <= d[n - 1] + 1

(* The last node of the tree below n, or n itself.                         *)
EndOf(d, n) == n + Cardinality(Below(d, n))

LEMMA DepthsAreDeep ==
  ASSUME NEW k \in Nat \ {0}, NEW d \in Depths(k)
  PROVE  Deep(d) /\ Len(d) = k
<1>1. d \in [1 .. k -> 0 .. k - 1] /\ \A n \in 1 .. k : IF n = 1 THEN d[n] = 0 ELSE d[n] <= d[n - 1] + 1
  BY DEF Depths
<1>2. d \in [1 .. k -> Nat] /\ k \in Nat
  BY <1>1
<1>3. d \in Seq(Nat) /\ Len(d) = k
  BY <1>2
<1> QED BY <1>1, <1>2, <1>3 DEF Deep

LEMMA DepthType == ASSUME NEW d, Deep(d), NEW n \in 1 .. Len(d) PROVE d[n] \in Nat
BY DEF Deep

(* The nodes below n follow it, up to the first that is not deeper.        *)
LEMMA BelowInterval ==
  ASSUME NEW d, Deep(d), NEW n \in 1 .. Len(d)
  PROVE  /\ EndOf(d, n) \in n .. Len(d)
         /\ Below(d, n) = n + 1 .. EndOf(d, n)
         /\ \A m \in n + 1 .. EndOf(d, n) : d[m] > d[n]
         /\ EndOf(d, n) < Len(d) => d[EndOf(d, n) + 1] <= d[n]
<1> DEFINE S == {m \in n .. Len(d) : \A j \in n + 1 .. m : d[j] > d[n]}
<1>1. Len(d) \in Nat /\ \A m \in 1 .. Len(d) : d[m] \in Nat
  BY DEF Deep
<1>2. n \in S
  BY <1>1
<1>3. \E e \in S : \A j \in S : j <= e
  <2>1. S \in SUBSET (0 .. Len(d))
    BY <1>1
  <2> HIDE DEF S
  <2> QED BY <1>1, <1>2, <2>1, GreatestNumber
<1>4. PICK e \in S : \A j \in S : j <= e
  BY <1>3
<1>5. e \in n .. Len(d) /\ \A m \in n + 1 .. e : d[m] > d[n]
  OBVIOUS
<1>6. Below(d, n) = n + 1 .. e
  <2>1. ASSUME NEW m \in Below(d, n) PROVE m \in n + 1 .. e
    <3>1. m \in n + 1 .. Len(d) /\ m \in S
      BY <1>1 DEF Below
    <3> QED BY <1>4, <1>5, <3>1
  <2>2. ASSUME NEW m \in n + 1 .. e PROVE m \in Below(d, n)
    BY <1>1, <1>5 DEF Below
  <2> QED BY <2>1, <2>2
<1>7. Cardinality(n + 1 .. e) = e - n
  BY <1>1, <1>5, FS_Interval
<1>8. EndOf(d, n) = e
  BY <1>1, <1>5, <1>6, <1>7 DEF EndOf
<1>9. e < Len(d) => d[e + 1] <= d[n]
  <2> SUFFICES ASSUME e < Len(d), ~(d[e + 1] <= d[n]) PROVE FALSE
    OBVIOUS
  <2>1. d[e + 1] > d[n] /\ e + 1 \in n .. Len(d)
    BY <1>1, <1>5
  <2>2. \A j \in n + 1 .. e + 1 : d[j] > d[n]
    BY <1>1, <1>5, <2>1
  <2>3. e + 1 \in S
    BY <2>1, <2>2
  <2> QED BY <1>1, <1>4, <1>5, <2>3
<1> HIDE DEF S
<1> QED BY <1>5, <1>6, <1>8, <1>9

(* The parent is the last node before n that is not as deep.               *)
LEMMA ParentIs ==
  ASSUME NEW d, Deep(d), NEW n \in 1 .. Len(d), NEW q \in 1 .. n - 1,
         d[q] < d[n], \A m \in q + 1 .. n - 1 : d[m] >= d[n]
  PROVE  SgfParent(d, n) = q
<1> DEFINE above == {m \in 1 .. n - 1 : n \in Below(d, m)}
<1>1. Len(d) \in Nat /\ \A m \in 1 .. Len(d) : d[m] \in Nat
  BY DEF Deep
<1>2. q \in above
  BY <1>1 DEF Below
<1>3. \A m \in above : m <= q
  BY <1>1 DEF Below
<1>4. above \subseteq Nat
  OBVIOUS
<1>5. Max(above) = q
  <2>1. \E x \in above : \A y \in above : x >= y
    BY <1>2, <1>3
  <2> HIDE DEF above
  <2>2. Max(above) \in above /\ \A y \in above : Max(above) >= y
    BY <2>1 DEF Max
  <2>3. Max(above) \in Nat /\ q \in Nat /\ Max(above) >= q /\ Max(above) <= q
    BY <1>2, <1>3, <1>4, <2>2
  <2> QED BY <2>3
<1> QED BY <1>2, <1>5 DEF SgfParent

LEMMA RootHasNoParent ==
  ASSUME NEW d, Deep(d), NEW n \in 1 .. Len(d), d[n] = 0
  PROVE  SgfParent(d, n) = Null
<1>1. Len(d) \in Nat /\ \A m \in 1 .. Len(d) : d[m] \in Nat
  BY DEF Deep
<1>2. \A m \in 1 .. n - 1 : n \notin Below(d, m)
  BY <1>1 DEF Below
<1> QED BY <1>2 DEF SgfParent

(* A node that is not a root is below its parent, one step deeper.         *)
IsParent(d, q, n) ==
  /\ q \in 1 .. n - 1
  /\ d[n] = d[q] + 1
  /\ \A m \in q + 1 .. n : d[m] > d[q]

LEMMA ParentFacts ==
  ASSUME NEW d, Deep(d), NEW n \in 1 .. Len(d), d[n] # 0
  PROVE  IsParent(d, SgfParent(d, n), n)
<1> DEFINE S == {m \in 1 .. n - 1 : d[m] < d[n]}
<1>1. Len(d) \in Nat /\ \A m \in 1 .. Len(d) : d[m] \in Nat
  BY DEF Deep
<1>2. 1 \in S
  BY <1>1 DEF Deep
<1>3. \E q \in S : \A j \in S : j <= q
  <2>1. S \in SUBSET (0 .. Len(d))
    BY <1>1
  <2> HIDE DEF S
  <2> QED BY <1>1, <1>2, <2>1, GreatestNumber
<1>4. PICK q \in S : \A j \in S : j <= q
  BY <1>3
<1>5. q \in 1 .. n - 1 /\ d[q] < d[n]
  OBVIOUS
<1>6. \A m \in q + 1 .. n - 1 : d[m] >= d[n]
  <2> SUFFICES ASSUME NEW m \in q + 1 .. n - 1, ~(d[m] >= d[n]) PROVE FALSE
    OBVIOUS
  <2>1. m \in S
    BY <1>1, <1>5
  <2> QED BY <1>4, <1>5, <2>1
<1>7. SgfParent(d, n) = q
  BY <1>5, <1>6, ParentIs
<1>8. d[q + 1] <= d[q] + 1 /\ d[q + 1] >= d[n]
  <2>1. q + 1 \in 2 .. Len(d)
    BY <1>1, <1>5
  <2>2. d[q + 1] <= d[(q + 1) - 1] + 1
    BY <2>1 DEF Deep
  <2>3. q + 1 = n \/ q + 1 \in q + 1 .. n - 1
    BY <1>5
  <2> QED BY <1>1, <1>5, <1>6, <2>1, <2>2, <2>3
<1>9. d[n] = d[q] + 1
  BY <1>1, <1>5, <1>8
<1>10. \A m \in q + 1 .. n : d[m] > d[q]
  BY <1>1, <1>5, <1>6
<1> HIDE DEF S
<1> QED BY <1>5, <1>7, <1>9, <1>10 DEF IsParent

(* It is the only such node.                                               *)
LEMMA ParentUnique ==
  ASSUME NEW d, Deep(d), NEW n \in 1 .. Len(d), NEW q, IsParent(d, q, n)
  PROVE  SgfParent(d, n) = q
<1>1. Len(d) \in Nat /\ \A m \in 1 .. Len(d) : d[m] \in Nat
  BY DEF Deep
<1>2. q \in 1 .. n - 1 /\ d[q] < d[n] /\ \A m \in q + 1 .. n - 1 : d[m] >= d[n]
  BY <1>1 DEF IsParent
<1> QED BY <1>2, ParentIs

(* A node below another one belongs to its tree, to the end.               *)
LEMMA EndOfBelow ==
  ASSUME NEW d, Deep(d), NEW n \in 1 .. Len(d), NEW m \in n + 1 .. EndOf(d, n)
  PROVE  m \in 1 .. Len(d) /\ EndOf(d, m) <= EndOf(d, n)
<1>1. Len(d) \in Nat /\ \A j \in 1 .. Len(d) : d[j] \in Nat
  BY DEF Deep
<1>2. /\ EndOf(d, n) \in n .. Len(d)
      /\ \A j \in n + 1 .. EndOf(d, n) : d[j] > d[n]
      /\ EndOf(d, n) < Len(d) => d[EndOf(d, n) + 1] <= d[n]
  BY BelowInterval
<1>3. m \in 1 .. Len(d)
  BY <1>1, <1>2
<1>4. EndOf(d, m) \in m .. Len(d) /\ \A j \in m + 1 .. EndOf(d, m) : d[j] > d[m]
  BY <1>3, BelowInterval
<1>5. ASSUME EndOf(d, m) > EndOf(d, n) PROVE FALSE
  <2>1. EndOf(d, n) + 1 \in m + 1 .. EndOf(d, m) /\ EndOf(d, n) < Len(d)
    BY <1>1, <1>2, <1>4, <1>5
  <2>2. d[EndOf(d, n) + 1] > d[m] /\ d[m] > d[n] /\ d[EndOf(d, n) + 1] <= d[n]
    BY <1>2, <1>4, <2>1
  <2>3. d[EndOf(d, n) + 1] \in Nat /\ d[m] \in Nat /\ d[n] \in Nat
    BY <1>1, <1>2, <1>3, <2>1
  <2> QED BY <2>2, <2>3
<1> QED BY <1>1, <1>2, <1>3, <1>4, <1>5

(* The first child follows its parent; the next sibling follows the tree   *)
(* below a node.                                                           *)
LEMMA ChildIs ==
  ASSUME NEW d, Deep(d), NEW n \in 1 .. Len(d)
  PROVE  /\ Child(d, n) = IF EndOf(d, n) > n THEN n + 1 ELSE Null
         /\ EndOf(d, n) > n => n + 1 \in 1 .. Len(d) /\ IsParent(d, n, n + 1)
<1>1. Len(d) \in Nat /\ \A m \in 1 .. Len(d) : d[m] \in Nat
  BY DEF Deep
<1>2. /\ EndOf(d, n) \in n .. Len(d) /\ Below(d, n) = n + 1 .. EndOf(d, n)
      /\ \A m \in n + 1 .. EndOf(d, n) : d[m] > d[n]
  BY BelowInterval
<1>3. Child(d, n) = IF EndOf(d, n) > n THEN n + 1 ELSE Null
  BY <1>1, <1>2 DEF Child
<1>4. ASSUME EndOf(d, n) > n PROVE n + 1 \in 1 .. Len(d) /\ IsParent(d, n, n + 1)
  <2>1. n + 1 \in 2 .. Len(d) /\ n + 1 \in n + 1 .. EndOf(d, n) /\ (n + 1) - 1 = n
    BY <1>1, <1>2, <1>4
  <2>2. d[n + 1] <= d[(n + 1) - 1] + 1
    BY <2>1 DEF Deep
  <2>3. d[n + 1] > d[n] /\ d[n + 1] <= d[n] + 1
    BY <1>2, <2>1, <2>2
  <2>4. d[n + 1] = d[n] + 1
    BY <1>1, <2>1, <2>3
  <2>5. \A m \in n + 1 .. n + 1 : d[m] > d[n]
    BY <2>3
  <2>6. n \in 1 .. (n + 1) - 1
    BY <1>1
  <2> QED BY <1>1, <2>1, <2>4, <2>5, <2>6 DEF IsParent
<1> QED BY <1>3, <1>4

LEMMA SiblingIs ==
  ASSUME NEW d, Deep(d), NEW n \in 1 .. Len(d)
  PROVE  Sibling(d, n) =
           IF EndOf(d, n) < Len(d) /\ d[EndOf(d, n) + 1] = d[n] THEN EndOf(d, n) + 1 ELSE Null
<1>1. Len(d) \in Nat /\ EndOf(d, n) \in n .. Len(d)
  BY BelowInterval DEF Deep
<1>2. n + Cardinality(Below(d, n)) + 1 = EndOf(d, n) + 1
  BY DEF EndOf
<1>3. EndOf(d, n) + 1 <= Len(d) <=> EndOf(d, n) < Len(d)
  BY <1>1
<1> QED BY <1>2, <1>3 DEF Sibling

LEMMA SiblingHasParent ==
  ASSUME NEW d, Deep(d), NEW n \in 1 .. Len(d), Sibling(d, n) # Null
  PROVE  /\ Sibling(d, n) = EndOf(d, n) + 1 /\ Sibling(d, n) \in n + 1 .. Len(d)
         /\ d[Sibling(d, n)] = d[n]
         /\ SgfParent(d, Sibling(d, n)) = SgfParent(d, n)
<1> DEFINE s == Sibling(d, n)
<1>1. Len(d) \in Nat /\ \A m \in 1 .. Len(d) : d[m] \in Nat
  BY DEF Deep
<1>2. EndOf(d, n) \in n .. Len(d) /\ \A m \in n + 1 .. EndOf(d, n) : d[m] > d[n]
  BY BelowInterval
<1>3. s = EndOf(d, n) + 1 /\ EndOf(d, n) < Len(d) /\ d[s] = d[n]
  BY SiblingIs
<1> HIDE DEF s
<1>4. s \in n + 1 .. Len(d) /\ s \in 1 .. Len(d)
  BY <1>1, <1>2, <1>3
<1>5. SgfParent(d, s) = SgfParent(d, n)
  <2>1. CASE d[n] = 0
    BY <1>3, <1>4, <2>1, RootHasNoParent
  <2>2. CASE d[n] # 0
    <3> DEFINE q == SgfParent(d, n)
    <3>1. q \in 1 .. n - 1 /\ d[n] = d[q] + 1 /\ \A m \in q + 1 .. n : d[m] > d[q]
      BY <2>2, ParentFacts DEF IsParent
    <3> HIDE DEF q
    <3>2. ASSUME NEW m \in q + 1 .. s PROVE d[m] > d[q]
      <4>1. m \in 1 .. Len(d) /\ q \in 1 .. Len(d)
        BY <1>1, <1>4, <3>1
      <4>2. m \in q + 1 .. n \/ m \in n + 1 .. EndOf(d, n) \/ m = s
        BY <1>1, <1>2, <1>3, <3>1
      <4>3. d[m] > d[q] \/ d[m] >= d[n]
        BY <1>1, <1>2, <1>3, <3>1, <4>1, <4>2
      <4> QED BY <1>1, <3>1, <4>1, <4>3
    <3>3. IsParent(d, q, s)
      BY <1>1, <1>3, <1>4, <3>1, <3>2 DEF IsParent
    <3> QED BY <1>4, <3>3, ParentUnique DEF q
  <2> QED BY <2>1, <2>2
<1> QED BY <1>3, <1>4, <1>5 DEF s

-----------------------------------------------------------------------------
(* The tree of the first p nodes.                                          *)

ParsedTree(d, p) ==
  [parent      |-> [n \in Node |-> IF n \in 1 .. p THEN SgfParent(d, n) ELSE Null],
   firstChild  |-> [n \in Node |-> IF n \in 1 .. p /\ Child(d, n) \in 1 .. p
                                    THEN Child(d, n) ELSE Null],
   nextSibling |-> [n \in Node |-> IF n \in 1 .. p /\ d[n] > 0 /\ Sibling(d, n) \in 1 .. p
                                    THEN Sibling(d, n) ELSE Null]]

(* Which node is linked to node p + 1.                                     *)
LEMMA ChildLink ==
  ASSUME NEW d, Deep(d), NEW p \in 1 .. Len(d) - 1, NEW m \in 1 .. p, d[p + 1] # 0
  PROVE  Child(d, m) = p + 1 <=> m = p /\ SgfParent(d, p + 1) = p
<1>1. /\ Len(d) \in Nat /\ \A j \in 1 .. Len(d) : d[j] \in Nat
      /\ p \in 1 .. Len(d) /\ p + 1 \in 1 .. Len(d)
      /\ m \in 1 .. Len(d)
  BY DEF Deep
<1>2. ASSUME Child(d, m) = p + 1 PROVE m = p /\ SgfParent(d, p + 1) = p
  <2>1. m + 1 = p + 1 /\ IsParent(d, m, m + 1)
    BY <1>1, <1>2, ChildIs DEF Null
  <2>2. m = p
    BY <2>1
  <2> QED BY <1>1, <2>1, <2>2, ParentUnique
<1>3. ASSUME m = p, SgfParent(d, p + 1) = p PROVE Child(d, m) = p + 1
  <2>1. d[p + 1] > d[p]
    BY <1>1, <1>3, ParentFacts DEF IsParent
  <2>2. EndOf(d, p) \in p .. Len(d) /\ (EndOf(d, p) < Len(d) => d[EndOf(d, p) + 1] <= d[p])
    BY <1>1, BelowInterval
  <2>3. EndOf(d, p) # p
    BY <1>1, <2>1, <2>2
  <2> QED BY <1>1, <1>3, <2>2, <2>3, ChildIs
<1> QED BY <1>2, <1>3

LEMMA SiblingLink ==
  ASSUME NEW d, Deep(d), NEW p \in 1 .. Len(d) - 1, NEW m \in 1 .. p
  PROVE  Sibling(d, m) = p + 1 <=> EndOf(d, m) = p /\ d[m] = d[p + 1]
<1>1. Len(d) \in Nat /\ m \in 1 .. Len(d)
  BY DEF Deep
<1>2. EndOf(d, m) \in m .. Len(d)
  BY <1>1, BelowInterval
<1> QED BY <1>1, <1>2, SiblingIs DEF Null

(* Two nodes of the same depth whose trees end at the same node.           *)
LEMMA SameEnd ==
  ASSUME NEW d, Deep(d), NEW m \in 1 .. Len(d), NEW j \in 1 .. Len(d),
         EndOf(d, m) = EndOf(d, j), d[m] = d[j]
  PROVE  m = j
<1>1. Len(d) \in Nat /\ \A i \in 1 .. Len(d) : d[i] \in Nat
  BY DEF Deep
<1>2. /\ EndOf(d, m) \in m .. Len(d) /\ \A i \in m + 1 .. EndOf(d, m) : d[i] > d[m]
      /\ EndOf(d, j) \in j .. Len(d) /\ \A i \in j + 1 .. EndOf(d, j) : d[i] > d[j]
  BY BelowInterval
<1>3. ~(m < j)
  BY <1>1, <1>2
<1>4. ~(j < m)
  BY <1>1, <1>2
<1> QED BY <1>1, <1>3, <1>4

(* A loop over a row of siblings visits its first, and after each node the *)
(* next one, and only nodes of a set that it does not leave.               *)
LEMMA WalkVisits ==
  ASSUME NEW link, NEW start \in Node
  PROVE  /\ Builder!Walk(link, start) \in SUBSET Node
         /\ start \in Builder!Walk(link, start)
         /\ \A m \in Builder!Walk(link, start) :
              link[m] \in Node => link[m] \in Builder!Walk(link, start)
BY DEF Builder!Walk, Null, Node

LEMMA WalkStays ==
  ASSUME NEW link, NEW start, NEW S \in SUBSET Node, start \in S,
         \A m \in S : link[m] \in S \cup {Null}
  PROVE  Builder!Walk(link, start) \subseteq S
BY DEF Builder!Walk

(* GetLastChild of the parent of node p + 1, which is not its first child: *)
(* the node whose next sibling will be node p + 1.                         *)
LEMMA LastChild ==
  ASSUME NEW d, Deep(d), Len(d) <= MaxNode, NEW p \in 1 .. Len(d) - 1, d[p + 1] # 0,
         SgfParent(d, p + 1) # p
  PROVE  LET q == SgfParent(d, p + 1)
             last == Builder!GetLastChild(ParsedTree(d, p), q)
         IN  /\ ParsedTree(d, p).firstChild[q] # Null
             /\ last \in 1 .. p /\ d[last] > 0 /\ Sibling(d, last) = p + 1
<1> DEFINE t == ParsedTree(d, p)
           q == SgfParent(d, p + 1)
           n == p + 1
           W == Builder!ChildrenOf(t, q)
           S == {c \in 1 .. p : d[c] # 0 /\ SgfParent(d, c) = q}
           L == {c \in W : t.nextSibling[c] = Null}
<1>1. /\ Len(d) \in Nat /\ \A j \in 1 .. Len(d) : d[j] \in Nat
      /\ n \in 1 .. Len(d) /\ p \in 1 .. Len(d) /\ \A j \in 1 .. p : j \in 1 .. Len(d)
      /\ MaxNode \in Nat /\ \A j \in 1 .. Len(d) : j \in Node
  BY DocumentAssumption DEF Deep, Node
<1>2. IsParent(d, q, n)
  BY <1>1, ParentFacts
<1>3. q \in 1 .. p /\ q < p /\ q + 1 \in 1 .. p /\ d[n] = d[q] + 1
      /\ \A m \in q + 1 .. n : d[m] > d[q]
  BY <1>1, <1>2 DEF IsParent
<1>4. t.firstChild[q] = q + 1 /\ d[q + 1] # 0 /\ SgfParent(d, q + 1) = q
  <2>1. EndOf(d, q) \in q .. Len(d) /\ (EndOf(d, q) < Len(d) => d[EndOf(d, q) + 1] <= d[q])
    BY <1>1, <1>3, BelowInterval
  <2>2. EndOf(d, q) > q
    <3>1. q + 1 \in q + 1 .. n /\ q + 1 <= Len(d)
      BY <1>1, <1>3
    <3>2. d[q + 1] > d[q] /\ d[q + 1] \in Nat /\ d[q] \in Nat
      BY <1>1, <1>3, <3>1
    <3>3. EndOf(d, q) # q
      BY <1>1, <2>1, <3>1, <3>2
    <3> QED BY <1>1, <1>3, <2>1, <3>3
  <2>3. Child(d, q) = q + 1 /\ IsParent(d, q, q + 1)
    BY <1>1, <1>3, <2>2, ChildIs
  <2>4. SgfParent(d, q + 1) = q
    BY <1>1, <1>3, <2>3, ParentUnique
  <2>5. d[q + 1] # 0
    BY <1>1, <1>3, <2>3 DEF IsParent
  <2>6. q \in Node /\ Child(d, q) \in 1 .. p
    BY <1>1, <1>3, <2>3
  <2>7. t.firstChild[q] = q + 1
    BY <1>3, <2>3, <2>6 DEF ParsedTree
  <2> QED BY <2>4, <2>5, <2>7
<1>5. \A c \in 1 .. p : t.nextSibling[c] = IF d[c] > 0 /\ Sibling(d, c) \in 1 .. p THEN Sibling(d, c) ELSE Null
  BY <1>1 DEF ParsedTree
<1> HIDE DEF t, q
<1>6. W \subseteq S
  <2>1. q + 1 \in S /\ S \in SUBSET Node
    BY <1>1, <1>3, <1>4
  <2>2. ASSUME NEW m \in S PROVE t.nextSibling[m] \in S \cup {Null}
    <3> SUFFICES ASSUME t.nextSibling[m] # Null PROVE t.nextSibling[m] \in S
      OBVIOUS
    <3>1. Sibling(d, m) \in 1 .. p /\ t.nextSibling[m] = Sibling(d, m) /\ m \in 1 .. Len(d)
      BY <1>1, <1>5
    <3>2. Sibling(d, m) # Null
      BY <3>1 DEF Null
    <3> QED BY <3>1, <3>2, SiblingHasParent
  <2> HIDE DEF S
  <2>3. W = Builder!Walk(t.nextSibling, q + 1)
    BY <1>4 DEF Builder!ChildrenOf
  <2> QED BY <2>1, <2>2, <2>3, WalkStays
<1>7. q + 1 \in W /\ \A m \in W : t.nextSibling[m] \in Node => t.nextSibling[m] \in W
  <2>1. W = Builder!Walk(t.nextSibling, q + 1)
    BY <1>4 DEF Builder!ChildrenOf
  <2>2. q + 1 \in Node
    BY <1>1, <1>3
  <2> QED BY <2>1, <2>2, WalkVisits
<1> HIDE DEF W
<1>8. L # {}
  <2>1. W \in SUBSET (0 .. p) /\ W # {} /\ p \in Nat
    BY <1>1, <1>6, <1>7
  <2>2. PICK c \in W : \A j \in W : j <= c
    BY <2>1, GreatestNumber
  <2>3. c \in 1 .. p /\ c \in 1 .. Len(d)
    BY <1>1, <1>6
  <2>4. ASSUME t.nextSibling[c] # Null PROVE FALSE
    <3>1. Sibling(d, c) \in 1 .. p /\ t.nextSibling[c] = Sibling(d, c)
      BY <1>5, <2>3, <2>4
    <3>2. Sibling(d, c) # Null
      BY <3>1 DEF Null
    <3>3. Sibling(d, c) \in c + 1 .. Len(d)
      BY <2>3, <3>2, SiblingHasParent
    <3>4. Sibling(d, c) \in W
      BY <1>1, <1>7, <3>1
    <3>5. Sibling(d, c) <= c
      BY <2>2, <3>4
    <3> QED BY <1>1, <2>3, <3>3, <3>5
  <2> QED BY <2>4
<1>9. ASSUME NEW c \in L PROVE c \in 1 .. p /\ d[c] > 0 /\ Sibling(d, c) = n
  <2>1. c \in 1 .. p /\ d[c] # 0 /\ SgfParent(d, c) = q /\ c \in 1 .. Len(d)
    BY <1>1, <1>6
  <2>2. q \in 1 .. c - 1 /\ d[c] = d[q] + 1
    BY <2>1, ParentFacts DEF IsParent
  <2>3. EndOf(d, c) \in c .. Len(d) /\ (\A i \in c + 1 .. EndOf(d, c) : d[i] > d[c])
        /\ (EndOf(d, c) < Len(d) => d[EndOf(d, c) + 1] <= d[c])
    BY <2>1, BelowInterval
  <2>4. d[c] = d[n] /\ d[c] > 0 /\ d[c] \in Nat
    BY <1>1, <1>3, <2>1, <2>2
  <2>5. ~(EndOf(d, c) >= n)
    BY <1>1, <2>1, <2>3, <2>4
  <2>6. ASSUME EndOf(d, c) < p PROVE FALSE
    <3>1. EndOf(d, c) + 1 \in q + 1 .. n /\ EndOf(d, c) + 1 \in 1 .. p /\ EndOf(d, c) < Len(d)
      BY <1>1, <2>1, <2>2, <2>3, <2>6
    <3>2. d[EndOf(d, c) + 1] > d[q] /\ d[EndOf(d, c) + 1] <= d[c] /\ d[EndOf(d, c) + 1] \in Nat
      BY <1>1, <1>3, <2>3, <3>1
    <3>3. d[EndOf(d, c) + 1] = d[c]
      BY <1>1, <1>3, <2>2, <3>2
    <3>4. Sibling(d, c) = EndOf(d, c) + 1
      BY <2>1, <3>1, <3>3, SiblingIs
    <3>5. t.nextSibling[c] = Sibling(d, c)
      BY <1>5, <2>1, <2>4, <3>1, <3>4
    <3> QED BY <3>1, <3>4, <3>5 DEF Null
  <2>7. EndOf(d, c) = p
    BY <1>1, <2>1, <2>3, <2>5, <2>6
  <2> QED BY <1>1, <2>1, <2>4, <2>7, SiblingLink
<1>10. Builder!GetLastChild(t, q) \in L
  <2>1. Builder!GetLastChild(t, q) = Builder!OneOf(L)
    BY DEF Builder!GetLastChild, W
  <2> HIDE DEF L
  <2> QED BY <1>8, <2>1 DEF Builder!OneOf
<1> HIDE DEF L
<1> QED BY <1>3, <1>4, <1>9, <1>10 DEF t, q, Null

(* AppendChild makes of the tree of the first p nodes that of p + 1.       *)
LEMMA AppendNext ==
  ASSUME NEW d, Deep(d), Len(d) <= MaxNode, NEW p \in 1 .. Len(d) - 1, d[p + 1] # 0
  PROVE  AppendChild(ParsedTree(d, p), SgfParent(d, p + 1), p + 1) = ParsedTree(d, p + 1)
<1> DEFINE t == ParsedTree(d, p)
           u == ParsedTree(d, p + 1)
           q == SgfParent(d, p + 1)
           n == p + 1
           last == Builder!GetLastChild(t, q)
<1>1. /\ Len(d) \in Nat /\ \A j \in 1 .. Len(d) : d[j] \in Nat
      /\ n \in 1 .. Len(d) /\ p \in 1 .. Len(d) /\ \A j \in 1 .. p : j \in 1 .. Len(d)
      /\ MaxNode \in Nat /\ \A j \in 1 .. Len(d) : j \in Node
  BY DocumentAssumption DEF Deep, Node
<1>2. q \in 1 .. p
  BY <1>1, ParentFacts DEF IsParent
<1>3. Child(d, n) \notin 1 .. n /\ Sibling(d, n) \notin 1 .. n
  <2>1. Child(d, n) \in {n + 1, Null}
    BY <1>1, ChildIs
  <2>2. Sibling(d, n) # Null => Sibling(d, n) \in n + 1 .. Len(d)
    BY <1>1, SiblingHasParent
  <2> QED BY <1>1, <2>1, <2>2 DEF Null
<1>4. u.parent = Builder!Assign(t.parent, n, q)
  BY <1>1 DEF ParsedTree, Builder!Assign
<1>5. ASSUME NEW m \in 1 .. p, Child(d, m) # n PROVE u.firstChild[m] = t.firstChild[m]
  BY <1>1, <1>5 DEF ParsedTree
<1>6. ASSUME NEW m \in Node, m \notin 1 .. n
      PROVE  /\ u.firstChild[m] = Null /\ t.firstChild[m] = Null
             /\ u.nextSibling[m] = Null /\ t.nextSibling[m] = Null
  BY <1>1, <1>6 DEF ParsedTree
<1>7. u.firstChild[n] = Null /\ t.firstChild[n] = Null /\ u.nextSibling[n] = Null /\ t.nextSibling[n] = Null
  BY <1>1, <1>3 DEF ParsedTree
<1>8. ASSUME NEW m \in 1 .. p, ~(d[m] > 0 /\ Sibling(d, m) = n)
      PROVE  u.nextSibling[m] = t.nextSibling[m]
  BY <1>1, <1>8 DEF ParsedTree
<1>9. /\ u.parent = [m \in Node |-> u.parent[m]]
      /\ u.firstChild = [m \in Node |-> u.firstChild[m]]
      /\ u.nextSibling = [m \in Node |-> u.nextSibling[m]]
      /\ u = [parent |-> u.parent, firstChild |-> u.firstChild, nextSibling |-> u.nextSibling]
      /\ t.firstChild = [m \in Node |-> t.firstChild[m]]
  BY DEF ParsedTree
<1>10. \A m \in Node : m \in 1 .. p \/ m = n \/ m \notin 1 .. n
  BY <1>1
<1>11. CASE q = p
  <2>1. Child(d, p) = n
    BY <1>1, <1>11, ChildLink
  <2>2. t.firstChild[p] = Null
    BY <1>1, <2>1 DEF ParsedTree
  <2>3. u.firstChild[p] = n
    BY <1>1, <2>1 DEF ParsedTree
  <2>4. \A m \in 1 .. p : Child(d, m) = n => m = p
    BY <1>1, ChildLink
  <2>5. \A m \in 1 .. p : Sibling(d, m) # n
    <3> SUFFICES ASSUME NEW m \in 1 .. p, Sibling(d, m) = n PROVE FALSE
      OBVIOUS
    <3>1. EndOf(d, m) = p /\ d[m] = d[n]
      BY SiblingLink
    <3>2. d[n] = d[p] + 1
      BY <1>1, <1>11, ParentFacts DEF IsParent
    <3>3. \A i \in m + 1 .. EndOf(d, m) : d[i] > d[m]
      BY <1>1, BelowInterval
    <3>4. m # p
      BY <1>1, <3>1, <3>2
    <3>5. p \in m + 1 .. EndOf(d, m)
      BY <1>1, <3>1, <3>4
    <3> QED BY <1>1, <3>1, <3>2, <3>3, <3>5
  <2> HIDE DEF t, u, q
  <2>6. u.firstChild = Builder!Assign(t.firstChild, q, n)
    <3>1. ASSUME NEW m \in Node PROVE u.firstChild[m] = IF m = q THEN n ELSE t.firstChild[m]
      BY <1>2, <1>5, <1>6, <1>7, <1>10, <1>11, <2>3, <2>4
    <3> QED BY <1>9, <3>1, Zenon DEF Builder!Assign
  <2>7. u.nextSibling = Builder!Assign(t.nextSibling, n, Null)
    <3>1. ASSUME NEW m \in Node PROVE u.nextSibling[m] = IF m = n THEN Null ELSE t.nextSibling[m]
      BY <1>6, <1>7, <1>8, <1>10, <2>5
    <3> QED BY <1>9, <3>1, Zenon DEF Builder!Assign
  <2>8. AppendChild(t, q, n) =
          [parent      |-> Builder!Assign(t.parent, n, q),
           firstChild  |-> Builder!Assign(t.firstChild, q, n),
           nextSibling |-> Builder!Assign(t.nextSibling, n, Null)]
    BY <1>11, <2>2 DEF AppendChild, Builder!InsertNodeAtNewLocation
  <2>9. AppendChild(t, q, n) = u
    BY <1>4, <1>9, <2>6, <2>7, <2>8
  <2> QED BY <2>9 DEF t, u, q
<1>12. CASE q # p
  <2>1. t.firstChild[q] # Null /\ last \in 1 .. p /\ d[last] > 0 /\ Sibling(d, last) = n
    BY <1>12, LastChild
  <2>2. \A m \in 1 .. p : Child(d, m) # n
    BY <1>12, ChildLink
  <2>3. \A m \in 1 .. p : Sibling(d, m) = n => m = last
    <3> SUFFICES ASSUME NEW m \in 1 .. p, Sibling(d, m) = n PROVE m = last
      OBVIOUS
    <3> HIDE DEF last
    <3>1. EndOf(d, m) = p /\ d[m] = d[n] /\ EndOf(d, last) = p /\ d[last] = d[n]
      BY <2>1, SiblingLink
    <3> QED BY <1>1, <2>1, <3>1, SameEnd
  <2>4. u.nextSibling[last] = n
    <3> HIDE DEF last
    <3> QED BY <1>1, <2>1 DEF ParsedTree
  <2> HIDE DEF t, u, q, last
  <2>5. u.firstChild = t.firstChild
    <3>1. ASSUME NEW m \in Node PROVE u.firstChild[m] = t.firstChild[m]
      BY <1>5, <1>6, <1>7, <1>10, <2>2
    <3> QED BY <1>9, <3>1, Zenon
  <2>6. u.nextSibling = Builder!Assign(Builder!Assign(t.nextSibling, last, n), n, Null)
    <3>1. ASSUME NEW m \in Node
          PROVE  u.nextSibling[m] = IF m = n THEN Null ELSE IF m = last THEN n ELSE t.nextSibling[m]
      BY <1>6, <1>7, <1>8, <1>10, <2>1, <2>3, <2>4
    <3> QED BY <1>9, <3>1 DEF Builder!Assign
  <2>7. AppendChild(t, q, n) =
          [parent      |-> Builder!Assign(t.parent, n, q),
           firstChild  |-> t.firstChild,
           nextSibling |-> Builder!Assign(Builder!Assign(t.nextSibling, last, n), n, Null)]
    BY <2>1 DEF AppendChild, Builder!InsertNodeAtNewLocation, last
  <2>8. AppendChild(t, q, n) = u
    BY <1>4, <1>9, <2>5, <2>6, <2>7
  <2> QED BY <2>8 DEF t, u, q
<1> QED BY <1>11, <1>12

(* The next root is linked to no other node.                               *)
LEMMA NextRoot ==
  ASSUME NEW d, Deep(d), Len(d) <= MaxNode, NEW p \in 0 .. Len(d) - 1, d[p + 1] = 0
  PROVE  ParsedTree(d, p + 1) = ParsedTree(d, p)
<1> DEFINE n == p + 1
<1>1. /\ Len(d) \in Nat /\ \A j \in 1 .. Len(d) : d[j] \in Nat
      /\ n \in 1 .. Len(d) /\ \A j \in 1 .. p : j \in 1 .. Len(d)
  BY DEF Deep
<1>2. SgfParent(d, n) = Null
  BY <1>1, RootHasNoParent
<1>3. Child(d, n) \notin 1 .. n
  BY <1>1, ChildIs DEF Null
<1>4. ASSUME NEW m \in 1 .. p PROVE Child(d, m) # n /\ (d[m] > 0 => Sibling(d, m) # n)
  <2>1. Child(d, m) = n => d[n] = d[m] + 1
    <3> SUFFICES ASSUME Child(d, m) = n PROVE d[n] = d[m] + 1
      OBVIOUS
    <3>1. m + 1 = n /\ IsParent(d, m, m + 1)
      BY <1>1, <1>4, ChildIs DEF Null
    <3> QED BY <3>1 DEF IsParent
  <2>2. Sibling(d, m) = n => d[n] = d[m]
    BY <1>1, <1>4, SiblingHasParent DEF Null
  <2> QED BY <1>1, <2>1, <2>2
<1>5. \A m \in Node : m \in 1 .. n <=> m \in 1 .. p \/ m = n
  BY <1>1
<1>6. ASSUME NEW m \in Node
      PROVE  /\ (IF m \in 1 .. n THEN SgfParent(d, m) ELSE Null)
                  = (IF m \in 1 .. p THEN SgfParent(d, m) ELSE Null)
             /\ (IF m \in 1 .. n /\ Child(d, m) \in 1 .. n THEN Child(d, m) ELSE Null)
                  = (IF m \in 1 .. p /\ Child(d, m) \in 1 .. p THEN Child(d, m) ELSE Null)
             /\ (IF m \in 1 .. n /\ d[m] > 0 /\ Sibling(d, m) \in 1 .. n THEN Sibling(d, m) ELSE Null)
                  = (IF m \in 1 .. p /\ d[m] > 0 /\ Sibling(d, m) \in 1 .. p THEN Sibling(d, m) ELSE Null)
  <2>1. CASE m \in 1 .. p
    <3>1. \A x : x # n => (x \in 1 .. n <=> x \in 1 .. p)
      BY <1>1
    <3> QED BY <1>4, <1>5, <2>1, <3>1
  <2>2. CASE m = n
    BY <1>1, <1>2, <1>3, <2>2
  <2>3. CASE m \notin 1 .. n
    BY <1>5, <2>3
  <2> QED BY <1>5, <2>1, <2>2, <2>3
<1> QED BY <1>6, Zenon DEF ParsedTree

-----------------------------------------------------------------------------
(* Types.                                                                  *)

LEMMA SgfFacts ==
  ASSUME NEW s \in SgfcResults
  PROVE  /\ Deep(s.depth) /\ Len(s.depth) \in 1 .. MaxNode
         /\ s.broken \in 0 .. Len(s.depth)
         /\ s.exception \in {"none", "domain_error", "logic_error"}
         /\ (s.broken = Null) = (s.exception = "none")
         /\ s.fatal \in BOOLEAN /\ s.decoding \in BOOLEAN
<1>1. PICK k \in Node : s \in SgfcResult(k) /\ (s.broken = Null) = (s.exception = "none")
  BY DEF SgfcResults
<1>2. k \in Nat \ {0} /\ k \in 1 .. MaxNode /\ s.depth \in Depths(k) /\ s.broken \in 0 .. k
  BY <1>1, DocumentAssumption DEF Node, SgfcResult
<1>3. Deep(s.depth) /\ Len(s.depth) = k
  BY <1>2, DepthsAreDeep
<1> QED BY <1>1, <1>2, <1>3 DEF SgfcResult

TreeType(t) ==
  /\ t = [parent |-> t.parent, firstChild |-> t.firstChild, nextSibling |-> t.nextSibling]
  /\ t.parent \in [Node -> NodeOrNull] /\ t.firstChild \in [Node -> NodeOrNull]
  /\ t.nextSibling \in [Node -> NodeOrNull]

(* First children and next siblings have the parent that they should have. *)
Linked(t) ==
  \A n \in Node :
    /\ t.firstChild[n] # Null => t.parent[t.firstChild[n]] = n
    /\ t.nextSibling[n] # Null => t.parent[t.nextSibling[n]] = t.parent[n]

LEMMA NoTreeType == TreeType(NoTree) /\ Linked(NoTree)
BY DEF TreeType, Linked, NoTree, NoLinks, NodeOrNull

LEMMA ParsedTreeType ==
  ASSUME NEW d, Deep(d), Len(d) \in 1 .. MaxNode, NEW p \in 0 .. Len(d)
  PROVE  TreeType(ParsedTree(d, p)) /\ Linked(ParsedTree(d, p))
<1> DEFINE t == ParsedTree(d, p)
<1>1. /\ Len(d) \in Nat /\ \A j \in 1 .. Len(d) : d[j] \in Nat
      /\ \A j \in 1 .. p : j \in 1 .. Len(d) /\ j \in Node
      /\ MaxNode \in Nat /\ Null \notin Node
  BY DocumentAssumption DEF Deep, Node, Null
<1>2. \A n \in Node :
        /\ t.parent[n] = IF n \in 1 .. p THEN SgfParent(d, n) ELSE Null
        /\ t.firstChild[n] = IF n \in 1 .. p /\ Child(d, n) \in 1 .. p THEN Child(d, n) ELSE Null
        /\ t.nextSibling[n] = IF n \in 1 .. p /\ d[n] > 0 /\ Sibling(d, n) \in 1 .. p
                                THEN Sibling(d, n) ELSE Null
  BY DEF ParsedTree
<1>3. /\ t = [parent |-> t.parent, firstChild |-> t.firstChild, nextSibling |-> t.nextSibling]
      /\ t.parent = [n \in Node |-> t.parent[n]] /\ t.firstChild = [n \in Node |-> t.firstChild[n]]
      /\ t.nextSibling = [n \in Node |-> t.nextSibling[n]]
  BY DEF ParsedTree
<1> HIDE DEF t
<1>4. \A n \in 1 .. p : SgfParent(d, n) \in NodeOrNull
  <2> SUFFICES ASSUME NEW n \in 1 .. p PROVE SgfParent(d, n) \in NodeOrNull
    OBVIOUS
  <2>1. n \in 1 .. Len(d)
    BY <1>1
  <2>2. d[n] # 0 => SgfParent(d, n) \in 1 .. n - 1
    BY <2>1, ParentFacts DEF IsParent
  <2>3. d[n] = 0 => SgfParent(d, n) = Null
    BY <2>1, RootHasNoParent
  <2> QED BY <1>1, <2>1, <2>2, <2>3 DEF NodeOrNull, Node
<1>5. TreeType(t)
  BY <1>1, <1>2, <1>3, <1>4 DEF TreeType, NodeOrNull
<1>6. ASSUME NEW n \in Node, t.firstChild[n] # Null PROVE t.parent[t.firstChild[n]] = n
  <2>1. n \in 1 .. p /\ t.firstChild[n] = Child(d, n) /\ Child(d, n) \in 1 .. p
    BY <1>2, <1>6
  <2>2. Child(d, n) = n + 1 /\ IsParent(d, n, n + 1) /\ n + 1 \in 1 .. Len(d)
    BY <1>1, <2>1, ChildIs DEF Null
  <2>3. SgfParent(d, n + 1) = n
    BY <2>2, ParentUnique
  <2> QED BY <1>1, <1>2, <2>1, <2>2, <2>3
<1>7. ASSUME NEW n \in Node, t.nextSibling[n] # Null PROVE t.parent[t.nextSibling[n]] = t.parent[n]
  <2>1. n \in 1 .. p /\ t.nextSibling[n] = Sibling(d, n) /\ Sibling(d, n) \in 1 .. p
    BY <1>2, <1>7
  <2>2. SgfParent(d, Sibling(d, n)) = SgfParent(d, n)
    BY <1>1, <2>1, SiblingHasParent DEF Null
  <2> QED BY <1>1, <1>2, <2>1, <2>2
<1> QED BY <1>5, <1>6, <1>7 DEF Linked, t

-----------------------------------------------------------------------------
(* The invariant of reading: the document holds the first p nodes of the   *)
(* content, linked as in SGFC's tree, and the loop goes on with node p + 1.*)

HoldsNodes(p) ==
  /\ p \in 0 .. Len(sgf.depth)
  /\ tree = ParsedTree(sgf.depth, p)
  /\ data = [n \in Node |-> IF n \in 1 .. p THEN "read" ELSE "none"]
  /\ roots = [n \in Node |-> IF n \in 1 .. p /\ sgf.depth[n] = 0 THEN n ELSE Null]
  /\ games \in Seq(Node)
  /\ ToSet(games) = {n \in 1 .. p : sgf.depth[n] = 0}
  /\ \A i, j \in 1 .. Len(games) : i < j => games[i] < games[j]
  /\ message = "none"
  /\ sgf.broken \notin 1 .. p

(* The stack is the path from the root of the game.                        *)
OnStack(stack, root, p) ==
  /\ stack \in Seq(1 .. p) /\ stack # <<>>
  /\ stack[1] = root /\ sgf.depth[root] = 0
  /\ \A i \in 2 .. Len(stack) :
       sgf.depth[stack[i]] # 0 /\ SgfParent(sgf.depth, stack[i]) = stack[i - 1]

(* The next node is below the one on top of the stack; if there is none,   *)
(* the tree below that one is complete.                                    *)
ContinuesBelow(top, p) ==
  IF parser.node = Null THEN EndOf(sgf.depth, top) = p
  ELSE /\ parser.node = p + 1 /\ p + 1 \in 1 .. Len(sgf.depth)
       /\ sgf.depth[p + 1] # 0
       /\ parser.parent = top /\ SgfParent(sgf.depth, p + 1) = top

Continues(p) == ContinuesBelow(Last(parser.stack), p)

InTree(p) == HoldsNodes(p) /\ OnStack(parser.stack, parser.root, p) /\ Continues(p) /\ ~sgf.fatal

BetweenGames ==
  /\ parser.stack = <<>>
  /\ \/ /\ parser.root \in 1 .. Len(sgf.depth) /\ sgf.depth[parser.root] = 0
        /\ HoldsNodes(parser.root - 1)
        /\ parser.root # 1 => ~sgf.fatal
     \/ parser.root = Null /\ HoldsNodes(Len(sgf.depth)) /\ ~sgf.fatal

AfterReading ==
  /\ parser.stack = <<>>
  /\ \/ tree = NoTree /\ \A n \in Node : data[n] = "none"
     \/ /\ tree = ParsedTree(sgf.depth, Len(sgf.depth))
        /\ \A n \in Node : data[n] # "none" <=> n \in 1 .. Len(sgf.depth)
  /\ games \in Seq(Node) /\ IsInjective(games)
  /\ roots \in [Node -> NodeOrNull]
  /\ data \in [Node -> {"none", "read", "UTF-8"}]
  /\ message \in {"none", "ParseSgfContentError", "SGFCInterfacingError"}

ParserType == DOMAIN parser = {"pc", "root", "node", "parent", "stack"}

ReadInv ==
  /\ sgf \in SgfcResults
  /\ ParserType
  /\ parser.pc \in {"game", "tree", "read", "thrown"}
  /\ parser.pc = "game" => BetweenGames
  /\ parser.pc = "tree" => \E p \in 1 .. Len(sgf.depth) : InTree(p)
  /\ IsReadOver => AfterReading

LEMMA ReadInit == Init => ReadInv
<1> SUFFICES ASSUME Init PROVE ReadInv
  OBVIOUS
<1>1. Deep(sgf.depth) /\ Len(sgf.depth) \in 1 .. MaxNode /\ sgf.broken \in 0 .. Len(sgf.depth)
  BY SgfFacts DEF Init
<1>2. 1 \in 1 .. Len(sgf.depth) /\ sgf.depth[1] = 0 /\ 1 .. 0 = {}
  BY <1>1 DEF Deep
<1>3. ParsedTree(sgf.depth, 0) = NoTree
  BY DEF ParsedTree, NoTree, NoLinks
<1>4. HoldsNodes(0)
  BY <1>1, <1>2, <1>3 DEF Init, HoldsNodes, ToSet
<1>5. parser.root = 1 /\ parser.stack = <<>> /\ parser.pc = "game" /\ parser.root - 1 = 0
  BY DEF Init
<1>6. BetweenGames
  BY <1>2, <1>4, <1>5 DEF BetweenGames
<1>7. sgf \in SgfcResults /\ ParserType
  BY DEF Init, ParserType
<1> QED BY <1>5, <1>6, <1>7 DEF ReadInv, IsReadOver

(* What a failed read leaves: an empty document, or no document after an   *)
(* exception that the reader does not catch.                               *)
LEMMA DiscardedIsRead ==
  ASSUME ReadInv, NEW pc, NEW m, Discard(pc, m), sgf' = sgf,
         pc = IF ~sgf.fatal /\ sgf.exception = "logic_error" THEN "thrown" ELSE "read",
         m = IF ~sgf.fatal /\ sgf.exception = "domain_error" THEN "SGFCInterfacingError" ELSE "none",
         sgf.fatal \/ sgf.broken # Null
  PROVE  ReadInv' /\ ReadResult'
<1>1. /\ games' = <<>> /\ tree' = NoTree /\ message' = m
      /\ roots' = [n \in Node |-> Null] /\ data' = [n \in Node |-> "none"]
      /\ parser' = [parser EXCEPT !.pc = pc, !.node = Null, !.parent = Null, !.stack = <<>>]
  BY DEF Discard
<1>2. parser'.pc = pc /\ parser'.stack = <<>> /\ ParserType'
  BY <1>1 DEF ReadInv, ParserType
<1>3. IsInjective(games')
  BY <1>1 DEF IsInjective
<1>4. AfterReading'
  BY <1>1, <1>2, <1>3 DEF AfterReading, NodeOrNull
<1>5. ReadInv'
  BY <1>2, <1>4 DEF ReadInv, IsReadOver
<1>6. ToSet(games') = {} /\ DOMAIN games' = {}
  BY <1>1 DEF ToSet
<1>7. ~(~sgf'.fatal /\ sgf'.broken = Null)
  OBVIOUS
<1>8. ReadResult'
  BY <1>1, <1>2, <1>6, <1>7 DEF ReadResult
<1> QED BY <1>5, <1>8

(* A property that the decoder does not accept.                            *)
LEMMA RejectedIsRead ==
  ASSUME ReadInv, Reject, sgf' = sgf, ~sgf.fatal, sgf.broken # Null
  PROVE  ReadInv' /\ ReadResult'
<1>1. sgf.exception \in {"domain_error", "logic_error"}
  BY SgfFacts DEF ReadInv
<1>2. CASE sgf.exception = "logic_error"
  BY <1>2, DiscardedIsRead DEF Reject
<1>3. CASE sgf.exception = "domain_error"
  BY <1>3, DiscardedIsRead DEF Reject, EmptyDocument
<1> QED BY <1>1, <1>2, <1>3

LEMMA ReadGameKeepsInv ==
  ASSUME ReadInv, ReadGame
  PROVE  ReadInv' /\ (IsReadOver' => ReadResult')
<1>0. PICK n : n = parser.root
  OBVIOUS
<1> DEFINE d == sgf.depth
           p == n - 1
<1>1. /\ Deep(d) /\ Len(d) \in 1 .. MaxNode /\ sgf.broken \in 0 .. Len(d)
      /\ sgf' = sgf /\ parser.pc = "game" /\ ~sgf.fatal /\ n # Null
  BY <1>0, SgfFacts DEF ReadInv, ReadGame, Reading
<1>2. n \in 1 .. Len(d) /\ d[n] = 0 /\ HoldsNodes(p) /\ parser.stack = <<>>
  BY <1>0, <1>1 DEF ReadInv, BetweenGames
<1>3. CASE n = sgf.broken
  <2>1. Reject
    BY <1>0, <1>3 DEF ReadGame
  <2>2. sgf.broken # Null
    BY <1>2, <1>3 DEF Null
  <2> QED BY <1>1, <2>1, <2>2, RejectedIsRead
<1>4. CASE n # sgf.broken
  <2>1. /\ games' = Append(games, n) /\ roots' = [roots EXCEPT ![n] = n]
        /\ data' = [data EXCEPT ![n] = "read"] /\ tree' = tree /\ message' = message
        /\ parser' = [parser EXCEPT !.pc = "tree", !.stack = <<n>>, !.parent = n, !.node = Child(d, n)]
    BY <1>0, <1>4 DEF ReadGame
  <2>2. /\ p \in 0 .. Len(d) - 1 /\ p + 1 = n /\ Len(d) \in Nat /\ n \in Node /\ n \in Nat
        /\ \A m : m \in 1 .. n <=> m \in 1 .. p \/ m = n
    BY <1>1, <1>2, DocumentAssumption DEF Node
  <2>3. ParsedTree(d, n) = ParsedTree(d, p)
    <3>1. Len(d) <= MaxNode /\ d[p + 1] = 0
      BY <1>1, <1>2, <2>2
    <3> HIDE DEF p, d
    <3>2. ParsedTree(d, p + 1) = ParsedTree(d, p)
      BY <1>1, <2>2, <3>1, NextRoot
    <3> QED BY <2>2, <3>2
  <2>4. /\ games \in Seq(Node) /\ ToSet(games) = {m \in 1 .. p : d[m] = 0} /\ Len(games) \in Nat
        /\ \A i, j \in 1 .. Len(games) : i < j => games[i] < games[j]
    BY <1>2 DEF HoldsNodes
  <2>5. /\ games' \in Seq(Node) /\ Len(games') = Len(games) + 1 /\ games'[Len(games) + 1] = n
        /\ \A i \in 1 .. Len(games) : games'[i] = games[i]
    BY <2>1, <2>2, <2>4
  <2>6. \A i \in 1 .. Len(games) : games[i] \in 1 .. p
    BY <2>4 DEF ToSet
  <2>7. ToSet(games') = ToSet(games) \cup {n}
    BY <2>4, <2>5 DEF ToSet
  <2>8. ToSet(games') = {m \in 1 .. n : d[m] = 0}
    BY <1>2, <2>2, <2>4, <2>7
  <2>9. ASSUME NEW i \in 1 .. Len(games'), NEW j \in 1 .. Len(games'), i < j
        PROVE  games'[i] < games'[j]
    <3>1. i \in 1 .. Len(games)
      BY <2>4, <2>5, <2>9
    <3>2. CASE j \in 1 .. Len(games)
      BY <2>4, <2>5, <2>9, <3>1, <3>2
    <3>3. CASE j = Len(games) + 1
      BY <2>2, <2>5, <2>6, <3>1, <3>3
    <3> QED BY <2>4, <2>5, <3>2, <3>3
  <2>10. data' = [m \in Node |-> IF m \in 1 .. n THEN "read" ELSE "none"]
    BY <1>2, <2>1, <2>2 DEF HoldsNodes
  <2>11. roots' = [m \in Node |-> IF m \in 1 .. n /\ d[m] = 0 THEN m ELSE Null]
    BY <1>2, <2>1, <2>2 DEF HoldsNodes
  <2>12. message' = "none" /\ sgf.broken \notin 1 .. n /\ tree' = ParsedTree(d, n)
    BY <1>2, <1>4, <2>1, <2>2, <2>3 DEF HoldsNodes
  <2>13. HoldsNodes(n)'
    BY <1>1, <1>2, <2>5, <2>8, <2>9, <2>10, <2>11, <2>12 DEF HoldsNodes
  <2>14. /\ parser'.pc = "tree" /\ parser'.stack = <<n>> /\ parser'.parent = n
         /\ parser'.node = Child(d, n) /\ parser'.root = n /\ ParserType'
    BY <1>0, <2>1 DEF ReadInv, ParserType
  <2>15. OnStack(parser.stack, parser.root, n)'
    <3>1. n \in 1 .. n
      BY <2>2
    <3>2. <<n>> \in Seq(1 .. n) /\ <<n>> # <<>> /\ <<n>>[1] = n /\ 2 .. Len(<<n>>) = {}
      BY <3>1
    <3> QED BY <1>1, <1>2, <2>14, <3>2 DEF OnStack
  <2>16. Last(parser.stack)' = n
    BY <2>14 DEF Last
  <2>17. /\ Child(d, n) = IF EndOf(d, n) > n THEN n + 1 ELSE Null
         /\ EndOf(d, n) > n => n + 1 \in 1 .. Len(d) /\ IsParent(d, n, n + 1)
         /\ EndOf(d, n) \in n .. Len(d)
    BY <1>1, <1>2, ChildIs, BelowInterval
  <2>18. EndOf(d, n) > n => d[n + 1] # 0 /\ SgfParent(d, n + 1) = n
    <3>1. d[n] \in Nat
      BY <1>1, <1>2 DEF Deep
    <3>2. EndOf(d, n) > n => d[n + 1] # 0
      BY <2>17, <3>1 DEF IsParent
    <3> QED BY <1>1, <2>17, <3>2, ParentUnique
  <2>19. n + 1 # Null
    BY <2>2 DEF Null
  <2>20. Continues(n)'
    <3>1. ContinuesBelow(n, n)'
      <4>1. n \in Nat /\ EndOf(d, n) \in n .. Len(d) /\ sgf'.depth = d
        BY <1>1, <1>2, <2>17
      <4>2. CASE EndOf(d, n) > n
        <5>1. parser'.node = n + 1 /\ parser'.parent = n /\ n + 1 \in 1 .. Len(d)
          BY <2>14, <2>17, <4>2
        <5> QED BY <2>18, <2>19, <4>1, <4>2, <5>1 DEF ContinuesBelow
      <4>3. CASE EndOf(d, n) = n
        <5>1. parser'.node = Null
          BY <2>14, <2>17, <4>1, <4>3
        <5> QED BY <4>1, <4>3, <5>1 DEF ContinuesBelow
      <4> QED BY <4>1, <4>2, <4>3
    <3> QED BY <2>16, <3>1 DEF Continues
  <2>21. InTree(n)'
    BY <1>1, <2>13, <2>15, <2>20 DEF InTree
  <2> QED BY <1>1, <1>2, <2>14, <2>21 DEF ReadInv, IsReadOver
<1> QED BY <1>3, <1>4

LEMMA ParseNodeKeepsInv ==
  ASSUME ReadInv, ParseNode
  PROVE  ReadInv' /\ (IsReadOver' => ReadResult')
<1>0. PICK n : n = parser.node
  OBVIOUS
<1> DEFINE d == sgf.depth
<1>1. /\ Deep(d) /\ Len(d) \in 1 .. MaxNode /\ sgf.broken \in 0 .. Len(d)
      /\ sgf' = sgf /\ parser.pc = "tree" /\ n # Null
  BY <1>0, SgfFacts DEF ReadInv, ParseNode, Reading
<1>2. PICK p \in 1 .. Len(d) : InTree(p)
  BY <1>1 DEF ReadInv
<1> DEFINE top == Last(parser.stack)
<1>3. /\ n = p + 1 /\ n \in 1 .. Len(d) /\ d[n] # 0 /\ parser.parent = top /\ SgfParent(d, n) = top
      /\ HoldsNodes(p) /\ OnStack(parser.stack, parser.root, p) /\ ~sgf.fatal
  BY <1>0, <1>1, <1>2 DEF InTree, Continues, ContinuesBelow
<1>4. top \in 1 .. n - 1
  BY <1>1, <1>3, ParentFacts DEF IsParent
<1>5. CASE n = sgf.broken
  <2>1. Reject
    BY <1>0, <1>3, <1>4, <1>5 DEF ParseNode, Null
  <2>2. sgf.broken # Null
    BY <1>1, <1>5
  <2> QED BY <1>1, <1>3, <2>1, <2>2, RejectedIsRead
<1>6. CASE n # sgf.broken
  <2>1. /\ tree' = AppendChild(tree, top, n) /\ data' = [data EXCEPT ![n] = "read"]
        /\ games' = games /\ roots' = roots /\ message' = message
        /\ parser' = [parser EXCEPT !.stack = Append(parser.stack, n), !.parent = n, !.node = Child(d, n)]
    BY <1>0, <1>3, <1>4, <1>6 DEF ParseNode, Null
  <2>2. /\ p \in 1 .. Len(d) - 1 /\ Len(d) \in Nat /\ n \in Node /\ n \in Nat
        /\ \A m : m \in 1 .. n <=> m \in 1 .. p \/ m = n
    BY <1>1, <1>3, DocumentAssumption DEF Node
  <2>3. tree' = ParsedTree(d, n)
    <3>1. tree = ParsedTree(d, p)
      BY <1>3 DEF HoldsNodes
    <3>2. AppendChild(ParsedTree(d, p), SgfParent(d, p + 1), p + 1) = ParsedTree(d, p + 1)
      BY <1>1, <1>3, <2>2, AppendNext
    <3> QED BY <1>3, <2>1, <3>1, <3>2
  <2>4. ToSet(games) = {m \in 1 .. n : d[m] = 0}
    BY <1>3, <2>2 DEF HoldsNodes
  <2>5. data' = [m \in Node |-> IF m \in 1 .. n THEN "read" ELSE "none"]
    BY <1>3, <2>1, <2>2 DEF HoldsNodes
  <2>6. roots' = [m \in Node |-> IF m \in 1 .. n /\ d[m] = 0 THEN m ELSE Null]
    BY <1>3, <2>1, <2>2 DEF HoldsNodes
  <2>7. message' = "none" /\ sgf.broken \notin 1 .. n
    BY <1>3, <1>6, <2>1, <2>2 DEF HoldsNodes
  <2>8. /\ games' \in Seq(Node) /\ ToSet(games') = {m \in 1 .. n : d[m] = 0}
        /\ \A i, j \in 1 .. Len(games') : i < j => games'[i] < games'[j]
    BY <1>3, <2>1, <2>4 DEF HoldsNodes
  <2>9. n \in 0 .. Len(d)
    BY <2>2, <1>3
  <2>10. HoldsNodes(n)'
    BY <1>1, <2>3, <2>5, <2>6, <2>7, <2>8, <2>9 DEF HoldsNodes
  <2>11. /\ parser'.pc = "tree" /\ parser'.stack = Append(parser.stack, n) /\ parser'.parent = n
         /\ parser'.node = Child(d, n) /\ parser'.root = parser.root /\ ParserType'
    BY <1>1, <2>1 DEF ReadInv, ParserType
  <2> DEFINE stack == parser.stack
  <2>12. stack \in Seq(1 .. p) /\ Len(stack) \in Nat /\ Len(stack) >= 1
    BY <1>3 DEF OnStack
  <2>13. OnStack(Append(stack, n), parser.root, n)
    <3>1. stack \in Seq(1 .. n) /\ n \in 1 .. n
      <4>1. 1 .. p \subseteq 1 .. n
        BY <2>2
      <4> HIDE DEF stack
      <4> QED BY <1>3, <2>2, <2>12, <4>1
    <3>2. /\ stack[1] = parser.root /\ d[parser.root] = 0
          /\ \A i \in 2 .. Len(stack) : d[stack[i]] # 0 /\ SgfParent(d, stack[i]) = stack[i - 1]
          /\ top = stack[Len(stack)]
      BY <1>3 DEF OnStack, Last
    <3> HIDE DEF stack, top, d
    <3> DEFINE new == Append(stack, n)
    <3>3. /\ new \in Seq(1 .. n) /\ Len(new) = Len(stack) + 1 /\ new[Len(stack) + 1] = n
          /\ \A i \in 1 .. Len(stack) : new[i] = stack[i]
      BY <2>12, <3>1
    <3>4. ASSUME NEW i \in 2 .. Len(new)
          PROVE  d[new[i]] # 0 /\ SgfParent(d, new[i]) = new[i - 1]
      <4>1. CASE i = Len(stack) + 1
        <5>1. i - 1 = Len(stack) /\ i - 1 \in 1 .. Len(stack)
          BY <2>12, <4>1
        <5> QED BY <1>3, <3>2, <3>3, <4>1, <5>1
      <4>2. CASE i # Len(stack) + 1
        <5>1. i \in 2 .. Len(stack) /\ i \in 1 .. Len(stack) /\ i - 1 \in 1 .. Len(stack)
          BY <2>12, <3>3, <4>2
        <5> QED BY <3>2, <3>3, <5>1
      <4> QED BY <4>1, <4>2
    <3>5. new # <<>> /\ new[1] = parser.root
      BY <2>12, <3>2, <3>3
    <3> QED BY <3>2, <3>3, <3>4, <3>5 DEF OnStack, new, d
  <2>14. Last(Append(stack, n)) = n
    <3> HIDE DEF stack
    <3>1. Len(Append(stack, n)) = Len(stack) + 1 /\ Append(stack, n)[Len(stack) + 1] = n
      BY <2>12
    <3> QED BY <3>1 DEF Last
  <2>15. /\ Child(d, n) = IF EndOf(d, n) > n THEN n + 1 ELSE Null
         /\ EndOf(d, n) > n => n + 1 \in 1 .. Len(d) /\ IsParent(d, n, n + 1)
         /\ EndOf(d, n) \in n .. Len(d)
    BY <1>1, <1>3, ChildIs, BelowInterval
  <2>16. EndOf(d, n) > n => d[n + 1] # 0 /\ SgfParent(d, n + 1) = n
    <3>1. d[n] \in Nat
      BY <1>1, <1>3 DEF Deep
    <3>2. EndOf(d, n) > n => d[n + 1] # 0
      BY <2>15, <3>1 DEF IsParent
    <3> QED BY <1>1, <2>15, <3>2, ParentUnique
  <2>17. n + 1 # Null
    BY <2>2 DEF Null
  <2>18. Continues(n)'
    <3>1. ContinuesBelow(n, n)'
      <4>1. n \in Nat /\ EndOf(d, n) \in n .. Len(d) /\ sgf'.depth = d
        BY <1>1, <1>3, <2>15
      <4>2. CASE EndOf(d, n) > n
        <5>1. parser'.node = n + 1 /\ parser'.parent = n /\ n + 1 \in 1 .. Len(d)
          BY <2>11, <2>15, <4>2
        <5> QED BY <2>16, <2>17, <4>1, <4>2, <5>1 DEF ContinuesBelow
      <4>3. CASE EndOf(d, n) = n
        <5>1. parser'.node = Null
          BY <2>11, <2>15, <4>1, <4>3
        <5> QED BY <4>1, <4>3, <5>1 DEF ContinuesBelow
      <4> QED BY <4>1, <4>2, <4>3
    <3>2. Last(parser.stack)' = n
      BY <2>11, <2>14
    <3> QED BY <3>1, <3>2 DEF Continues
  <2>19. OnStack(parser.stack, parser.root, n)'
    BY <1>1, <2>11, <2>13 DEF OnStack
  <2>20. InTree(n)'
    BY <1>1, <1>3, <2>10, <2>18, <2>19 DEF InTree
  <2> QED BY <1>1, <1>3, <2>11, <2>20 DEF ReadInv, IsReadOver
<1> QED BY <1>5, <1>6

(* The parent of a node whose tree ends where the document does, and that  *)
(* has no next sibling, ends there too.                                    *)
LEMMA ParentEnds ==
  ASSUME NEW d, Deep(d), NEW n \in 1 .. Len(d), d[n] # 0, Sibling(d, n) = Null
  PROVE  EndOf(d, SgfParent(d, n)) = EndOf(d, n)
<1> DEFINE q == SgfParent(d, n)
           p == EndOf(d, n)
<1>1. Len(d) \in Nat /\ \A j \in 1 .. Len(d) : d[j] \in Nat
  BY DEF Deep
<1>2. q \in 1 .. n - 1 /\ d[n] = d[q] + 1 /\ \A m \in q + 1 .. n : d[m] > d[q]
  BY ParentFacts DEF IsParent
<1>3. p \in n .. Len(d) /\ (p < Len(d) => d[p + 1] <= d[n])
  BY BelowInterval
<1> HIDE DEF q
<1>4. q \in 1 .. Len(d)
  BY <1>1, <1>2
<1>5. /\ EndOf(d, q) \in q .. Len(d) /\ Below(d, q) = q + 1 .. EndOf(d, q)
      /\ \A m \in q + 1 .. EndOf(d, q) : d[m] > d[q]
  BY <1>4, BelowInterval
<1>6. n \in Below(d, q)
  BY <1>1, <1>2 DEF Below
<1>7. n \in q + 1 .. EndOf(d, q)
  BY <1>5, <1>6
<1>8. p <= EndOf(d, q)
  BY <1>4, <1>7, EndOfBelow
<1>9. ASSUME EndOf(d, q) > p PROVE FALSE
  <2>1. p < Len(d) /\ p + 1 \in q + 1 .. EndOf(d, q) /\ p + 1 \in 1 .. Len(d)
    BY <1>1, <1>2, <1>3, <1>5, <1>9
  <2>2. d[p + 1] > d[q] /\ d[p + 1] <= d[n]
    BY <1>3, <1>5, <2>1
  <2>3. d[p + 1] = d[n]
    BY <1>1, <1>2, <1>4, <2>1, <2>2
  <2>4. Sibling(d, n) = p + 1
    BY <2>1, <2>3, SiblingIs
  <2> QED BY <1>1, <1>3, <2>4 DEF Null
<1>10. EndOf(d, q) = p
  BY <1>1, <1>3, <1>5, <1>8, <1>9
<1> QED BY <1>10 DEF q

(* A sequence without its last element.                                    *)
LEMMA FrontFacts ==
  ASSUME NEW S, NEW s \in Seq(S), s # <<>>
  PROVE  /\ Front(s) \in Seq(S) /\ Len(Front(s)) = Len(s) - 1 /\ Last(s) \in S
         /\ \A i \in 1 .. Len(s) - 1 : Front(s)[i] = s[i]
<1>1. Len(s) \in Nat /\ Len(s) >= 1
  OBVIOUS
<1>2. PICK n \in Nat : Len(s) = n + 1
  BY <1>1
<1>3. Front(s) = [i \in 1 .. n |-> s[i]]
  BY <1>2 DEF Front
<1>4. Front(s) \in Seq(S) /\ Len(Front(s)) = n
  BY <1>2, <1>3
<1> QED BY <1>1, <1>2, <1>3, <1>4 DEF Last

(* The path without its last node is a path.                               *)
LEMMA FrontOfStack ==
  ASSUME NEW stack, NEW root, NEW p, OnStack(stack, root, p), Last(stack) # root
  PROVE  /\ OnStack(Front(stack), root, p)
         /\ sgf.depth[Last(stack)] # 0
         /\ Last(Front(stack)) = SgfParent(sgf.depth, Last(stack))
<1> DEFINE len == Len(stack)
           front == Front(stack)
<1>1. /\ stack \in Seq(1 .. p) /\ len \in Nat /\ len >= 1
      /\ stack[1] = root /\ sgf.depth[root] = 0
      /\ \A i \in 2 .. len :
           sgf.depth[stack[i]] # 0 /\ SgfParent(sgf.depth, stack[i]) = stack[i - 1]
  BY DEF OnStack
<1>2. len >= 2 /\ Last(stack) = stack[len]
  BY <1>1 DEF Last
<1>3. stack \in Seq(1 .. p) /\ stack # <<>>
  BY DEF OnStack
<1>4. /\ front \in Seq(1 .. p) /\ Len(front) = len - 1
      /\ \A i \in 1 .. len - 1 : front[i] = stack[i]
  BY ONLY <1>3, FrontFacts
<1> HIDE DEF front, len
<1>5. Last(front) = stack[len - 1] /\ front # <<>> /\ front[1] = root
  BY <1>1, <1>2, <1>4 DEF Last
<1>6. ASSUME NEW i \in 2 .. Len(front)
      PROVE  sgf.depth[front[i]] # 0 /\ SgfParent(sgf.depth, front[i]) = front[i - 1]
  <2>1. i \in 2 .. len /\ i \in 1 .. len - 1 /\ i - 1 \in 1 .. len - 1
    BY <1>1, <1>2, <1>4
  <2> QED BY <1>1, <1>4, <2>1
<1>7. OnStack(front, root, p)
  BY <1>1, <1>4, <1>5, <1>6 DEF OnStack
<1> QED BY <1>1, <1>2, <1>5, <1>7 DEF front

LEMMA ParseNextKeepsInv ==
  ASSUME ReadInv, ParseNext
  PROVE  ReadInv' /\ ~IsReadOver'
<1> DEFINE d == sgf.depth
<1>1. /\ Deep(d) /\ Len(d) \in 1 .. MaxNode
      /\ sgf' = sgf /\ parser.pc = "tree" /\ parser.node = Null /\ UNCHANGED document
  BY SgfFacts DEF ReadInv, ParseNext, Reading
<1>2. PICK p \in 1 .. Len(d) : InTree(p)
  BY <1>1 DEF ReadInv, IsReadOver
<1>3. PICK top : top = Last(parser.stack)
  OBVIOUS
<1>4. PICK root : root = parser.root
  OBVIOUS
<1>5. HoldsNodes(p) /\ OnStack(parser.stack, root, p) /\ ~sgf.fatal /\ EndOf(d, top) = p
  BY <1>1, <1>2, <1>3, <1>4 DEF InTree, Continues, ContinuesBelow
<1>6. top \in 1 .. p /\ top \in 1 .. Len(d) /\ top \in Node /\ Len(d) \in Nat /\ MaxNode \in Nat
      /\ \A j \in 1 .. Len(d) : d[j] \in Nat
  <2>1. parser.stack \in Seq(1 .. p) /\ parser.stack # <<>>
    BY <1>5 DEF OnStack
  <2>2. top \in 1 .. p
    BY <1>3, <2>1 DEF Last
  <2>3. Len(d) \in Nat /\ MaxNode \in Nat /\ \A j \in 1 .. Len(d) : d[j] \in Nat
    BY <1>1, DocumentAssumption DEF Deep
  <2>4. top \in 1 .. Len(d) /\ top \in 1 .. MaxNode
    BY <1>1, <1>2, <2>2, <2>3
  <2> QED BY <2>2, <2>3, <2>4 DEF Node
<1>7. HoldsNodes(p)'
  BY <1>1, <1>5 DEF document, HoldsNodes
<1>8. CASE top = root
  <2>1. parser' = [parser EXCEPT !.pc = "game", !.stack = <<>>, !.parent = Null, !.root = Sibling(d, top)]
    BY <1>3, <1>4, <1>8 DEF ParseNext
  <2>2. parser'.pc = "game" /\ parser'.stack = <<>> /\ parser'.root = Sibling(d, top) /\ ParserType'
    BY <2>1 DEF ReadInv, ParserType
  <2>3. d[top] = 0
    BY <1>5, <1>8 DEF OnStack
  <2>4. p < Len(d) => d[p + 1] = 0
    <3>1. p < Len(d) => d[p + 1] <= 0
      BY <1>1, <1>5, <1>6, <2>3, BelowInterval
    <3> QED BY <1>6, <3>1
  <2>5. Sibling(d, top) = IF p < Len(d) THEN p + 1 ELSE Null
    BY <1>1, <1>5, <1>6, <2>3, <2>4, SiblingIs
  <2>6. BetweenGames'
    <3>1. CASE p < Len(d)
      <4>1. parser'.root = p + 1 /\ p + 1 \in 1 .. Len(d) /\ (p + 1) - 1 = p
        BY <1>6, <2>2, <2>5, <3>1
      <4> QED BY <1>1, <1>5, <1>7, <2>2, <2>4, <3>1, <4>1 DEF BetweenGames
    <3>2. CASE p = Len(d)
      BY <1>1, <1>5, <1>6, <1>7, <2>2, <2>5, <3>2 DEF BetweenGames
    <3> QED BY <1>6, <3>1, <3>2
  <2> QED BY <1>1, <2>2, <2>6 DEF ReadInv, IsReadOver
<1>9. CASE top # root
  <2>1. parser' = [parser EXCEPT !.stack = Front(parser.stack), !.parent = tree.parent[top],
                                 !.node = Sibling(d, top)]
    BY <1>3, <1>4, <1>9 DEF ParseNext
  <2>2. PICK q : q = SgfParent(d, top)
    OBVIOUS
  <2>3. tree.parent[top] = q
    BY <1>5, <1>6, <2>2 DEF HoldsNodes, ParsedTree
  <2>4. /\ parser'.pc = "tree" /\ parser'.stack = Front(parser.stack) /\ parser'.parent = q
        /\ parser'.node = Sibling(d, top) /\ parser'.root = root /\ ParserType'
    BY <1>1, <1>4, <2>1, <2>3 DEF ReadInv, ParserType
  <2>5. OnStack(Front(parser.stack), root, p) /\ d[top] # 0 /\ Last(Front(parser.stack)) = q
    BY <1>3, <1>5, <1>9, <2>2, FrontOfStack
  <2>6. OnStack(parser.stack, parser.root, p)'
    BY <1>1, <2>4, <2>5 DEF OnStack
  <2>7. Last(parser.stack)' = q
    BY <2>4, <2>5
  <2>8. ContinuesBelow(q, p)'
    <3>1. CASE Sibling(d, top) = Null
      <4>1. EndOf(d, q) = p
        BY <1>1, <1>5, <1>6, <2>2, <2>5, <3>1, ParentEnds
      <4> QED BY <1>1, <2>4, <3>1, <4>1 DEF ContinuesBelow
    <3>2. CASE Sibling(d, top) # Null
      <4>1. /\ Sibling(d, top) = p + 1 /\ Sibling(d, top) \in top + 1 .. Len(d)
            /\ d[Sibling(d, top)] = d[top] /\ SgfParent(d, Sibling(d, top)) = q
        BY <1>1, <1>5, <1>6, <2>2, <3>2, SiblingHasParent
      <4>2. p + 1 \in 1 .. Len(d)
        BY <1>6, <4>1
      <4> QED BY <1>1, <2>4, <2>5, <3>2, <4>1, <4>2 DEF ContinuesBelow
    <3> QED BY <3>1, <3>2
  <2>9. InTree(p)'
    BY <1>1, <1>5, <1>7, <2>6, <2>7, <2>8 DEF InTree, Continues
  <2> QED BY <1>1, <2>4, <2>9 DEF ReadInv, IsReadOver
<1> QED BY <1>8, <1>9

LEMMA IncreasingInjective ==
  ASSUME NEW s \in Seq(Node), \A i, j \in 1 .. Len(s) : i < j => s[i] < s[j]
  PROVE  IsInjective(s)
<1> SUFFICES ASSUME NEW i \in 1 .. Len(s), NEW j \in 1 .. Len(s), s[i] = s[j]
             PROVE  i = j
  BY DEF IsInjective
<1>1. s[i] \in Nat /\ Len(s) \in Nat
  BY DocumentAssumption DEF Node
<1>2. ~(i < j) /\ ~(j < i)
  BY <1>1
<1> QED BY <1>1, <1>2

LEMMA ReadReturnsKeepsInv ==
  ASSUME ReadInv, ReadReturns
  PROVE  ReadInv' /\ ReadResult'
<1> DEFINE d == sgf.depth
<1>1. /\ Deep(d) /\ Len(d) \in 1 .. MaxNode /\ sgf.broken \in 0 .. Len(d)
      /\ (sgf.broken = Null) = (sgf.exception = "none")
      /\ sgf' = sgf /\ parser.pc = "game" /\ parser.root = Null
      /\ UNCHANGED <<games, roots, tree, message>>
      /\ parser' = [parser EXCEPT !.pc = "read"]
      /\ data' = [n \in Node |-> IF sgf.decoding /\ n \in ToSet(games) THEN "UTF-8" ELSE data[n]]
  BY SgfFacts DEF ReadInv, ReadReturns, Reading
<1>2. HoldsNodes(Len(d)) /\ ~sgf.fatal /\ parser.stack = <<>>
  <2>1. parser.root \notin 1 .. Len(d)
    BY <1>1 DEF Null
  <2> QED BY <1>1, <2>1 DEF ReadInv, BetweenGames
<1>3. parser'.pc = "read" /\ parser'.stack = <<>> /\ ParserType'
  BY <1>1, <1>2 DEF ReadInv, ParserType
<1>4. sgf.broken = Null /\ sgf.exception = "none" /\ \A j \in 1 .. Len(d) : j \in Node
  BY <1>1, <1>2, DocumentAssumption DEF HoldsNodes, Null, Node
<1>5. /\ tree = ParsedTree(d, Len(d)) /\ games \in Seq(Node) /\ message = "none"
      /\ ToSet(games) = {n \in 1 .. Len(d) : d[n] = 0}
      /\ \A i, j \in 1 .. Len(games) : i < j => games[i] < games[j]
      /\ data = [n \in Node |-> IF n \in 1 .. Len(d) THEN "read" ELSE "none"]
      /\ roots = [n \in Node |-> IF n \in 1 .. Len(d) /\ d[n] = 0 THEN n ELSE Null]
  BY <1>2 DEF HoldsNodes
<1>6. IsInjective(games)
  BY <1>5, IncreasingInjective
<1>7. data' = [n \in Node |-> IF n \notin 1 .. Len(d) THEN "none"
                              ELSE IF sgf.decoding /\ d[n] = 0 THEN "UTF-8" ELSE "read"]
  BY <1>1, <1>5
<1>8. AfterReading'
  <2>1. roots \in [Node -> NodeOrNull] /\ data' \in [Node -> {"none", "read", "UTF-8"}]
    BY <1>5, <1>7 DEF NodeOrNull
  <2> QED BY <1>1, <1>3, <1>5, <1>6, <2>1 DEF AfterReading
<1>9. ReadInv'
  BY <1>1, <1>3, <1>8 DEF ReadInv, IsReadOver
<1>10. tree = [parent      |-> [n \in Node |-> IF n \in 1 .. Len(d) THEN SgfParent(d, n) ELSE Null],
               firstChild  |-> [n \in Node |-> IF n \in 1 .. Len(d) THEN Child(d, n) ELSE Null],
               nextSibling |-> [n \in Node |-> IF n \in 1 .. Len(d) /\ d[n] > 0
                                               THEN Sibling(d, n) ELSE Null]]
  <2>1. \A n \in 1 .. Len(d) : Child(d, n) \in 1 .. Len(d) \/ Child(d, n) = Null
    BY <1>1, ChildIs
  <2>2. \A n \in 1 .. Len(d) : Sibling(d, n) \in 1 .. Len(d) \/ Sibling(d, n) = Null
    <3> SUFFICES ASSUME NEW n \in 1 .. Len(d), Sibling(d, n) # Null PROVE Sibling(d, n) \in 1 .. Len(d)
      OBVIOUS
    <3>1. Sibling(d, n) \in n + 1 .. Len(d)
      BY <1>1, SiblingHasParent
    <3> QED BY <1>1, <3>1
  <2>3. ASSUME NEW n \in Node
        PROVE  /\ (IF n \in 1 .. Len(d) /\ Child(d, n) \in 1 .. Len(d) THEN Child(d, n) ELSE Null)
                    = (IF n \in 1 .. Len(d) THEN Child(d, n) ELSE Null)
               /\ (IF n \in 1 .. Len(d) /\ d[n] > 0 /\ Sibling(d, n) \in 1 .. Len(d)
                   THEN Sibling(d, n) ELSE Null)
                    = (IF n \in 1 .. Len(d) /\ d[n] > 0 THEN Sibling(d, n) ELSE Null)
    BY <2>1, <2>2
  <2> QED BY <1>5, <2>3, Zenon DEF ParsedTree
<1>11. ReadResult'
  <2>1. DOMAIN games = 1 .. Len(games)
    BY <1>5
  <2>2. /\ sgf' = sgf /\ tree' = tree /\ games' = games /\ message' = "none"
        /\ ~sgf.fatal /\ sgf.broken = Null /\ sgf.exception = "none"
    BY <1>1, <1>2, <1>4, <1>5
  <2> QED BY <1>3, <1>5, <1>7, <1>10, <2>1, <2>2 DEF ReadResult
<1> QED BY <1>9, <1>11

LEMMA ReadKeepsInv ==
  ASSUME ReadInv, Read
  PROVE  ReadInv' /\ (IsReadOver' => ReadResult')
<1>1. ASSUME ReadFatalError PROVE ReadInv' /\ ReadResult'
  <2>1. sgf.fatal /\ EmptyDocument("none") /\ sgf' = sgf /\ sgf.fatal \in BOOLEAN
    BY <1>1, SgfFacts DEF ReadFatalError, Reading, ReadInv
  <2> QED BY <2>1, DiscardedIsRead DEF EmptyDocument
<1> QED
  BY <1>1, ReadGameKeepsInv, ParseNodeKeepsInv, ParseNextKeepsInv, ReadReturnsKeepsInv DEF Read

-----------------------------------------------------------------------------
(* The client's edits.                                                     *)

(* RemoveGame: find and erase.                                             *)
LEMMA RemovedGame ==
  ASSUME NEW S, NEW s \in Seq(S), IsInjective(s), NEW e \in ToSet(s)
  PROVE  RemoveFirst(s, e) \in Seq(S) /\ IsInjective(RemoveFirst(s, e))
<1>1. Len(s) \in Nat /\ DOMAIN s = 1 .. Len(s) /\ \A i \in 1 .. Len(s) : s[i] \in S
  OBVIOUS
<1>2. PICK k \in 1 .. Len(s) : s[k] = e
  BY DEF ToSet
<1>3. \A i \in 1 .. Len(s) : s[i] = e <=> i = k
  BY <1>1, <1>2 DEF IsInjective
<1>4. SelectInSeq(s, LAMBDA v : v = e) = k
  <2>1. {i \in 1 .. Len(s) : s[i] = e} = {k}
    BY <1>2, <1>3
  <2>2. Min({k}) = k
    BY <1>2 DEF Min
  <2> QED BY <2>1, <2>2 DEF SelectInSeq
<1>5. RemoveFirst(s, e) = RemoveAt(s, k)
  BY <1>2, <1>4 DEF RemoveFirst
<1> DEFINE n == Len(s) - 1
<1>6. n \in Nat /\ Len(s) = n + 1
  BY <1>1, <1>2
<1> HIDE DEF n
<1> DEFINE left == SubSeq(s, 1, k - 1)
           right == SubSeq(s, k + 1, Len(s))
<1>7. left \in Seq(S) /\ Len(left) = k - 1 /\ \A i \in 1 .. k - 1 : left[i] = s[i]
  BY <1>1
<1>8. /\ right \in Seq(S) /\ Len(right) = n + 1 - k
      /\ \A i \in 1 .. n + 1 - k : right[i] = s[k + i]
  BY <1>1, <1>6
<1>9. RemoveFirst(s, e) = left \o right
  BY <1>5 DEF RemoveAt
<1> HIDE DEF left, right
<1>10. left \o right \in Seq(S) /\ Len(left \o right) = n
  <2>1. left \o right \in Seq(S) /\ Len(left \o right) = Len(left) + Len(right)
    BY <1>7, <1>8, ConcatProperties
  <2> QED BY <1>2, <1>6, <1>7, <1>8, <2>1
<1>11. ASSUME NEW i \in 1 .. n
       PROVE  (left \o right)[i] = IF i < k THEN s[i] ELSE s[i + 1]
  <2>1. CASE i < k
    BY <1>2, <1>6, <1>7, <1>8, <2>1
  <2>2. CASE ~(i < k)
    <3>1. (left \o right)[i] = right[i - (k - 1)]
      BY <1>2, <1>6, <1>7, <1>8, <2>2
    <3>2. right[i - (k - 1)] = s[k + (i - (k - 1))] /\ k + (i - (k - 1)) = i + 1
      BY <1>2, <1>6, <1>8, <2>2
    <3> QED BY <2>2, <3>1, <3>2
  <2> QED BY <2>1, <2>2
<1> DEFINE new == left \o right
<1>12. DOMAIN new = 1 .. n /\ \A i \in 1 .. n : new[i] = IF i < k THEN s[i] ELSE s[i + 1]
  BY <1>10, <1>11
<1> HIDE DEF new
<1>13. IsInjective(new)
  <2> SUFFICES ASSUME NEW i \in 1 .. n, NEW j \in 1 .. n, new[i] = new[j] PROVE i = j
    BY <1>12 DEF IsInjective
  <2> DEFINE a == IF i < k THEN i ELSE i + 1
             b == IF j < k THEN j ELSE j + 1
  <2>0. n \in Nat /\ k \in Nat /\ Len(s) = n + 1
    BY <1>2, <1>6
  <2>1. new[i] = s[a] /\ a \in 1 .. Len(s)
    <3>1. CASE i < k
      BY <2>0, <1>12, <3>1
    <3>2. CASE ~(i < k)
      BY <2>0, <1>12, <3>2
    <3> QED BY <3>1, <3>2
  <2>2. new[j] = s[b] /\ b \in 1 .. Len(s)
    <3>1. CASE j < k
      BY <2>0, <1>12, <3>1
    <3>2. CASE ~(j < k)
      BY <2>0, <1>12, <3>2
    <3> QED BY <3>1, <3>2
  <2>3. a = b
    BY <1>1, <2>1, <2>2 DEF IsInjective
  <2> QED BY <1>2, <2>1, <2>2, <2>3
<1> QED BY <1>9, <1>10, <1>13 DEF new

LEMMA ReversedGames ==
  ASSUME NEW S, NEW s \in Seq(S), IsInjective(s)
  PROVE  Reverse(s) \in Seq(S) /\ IsInjective(Reverse(s))
<1> DEFINE n == Len(s)
           new == [i \in 1 .. n |-> s[(n - i) + 1]]
<1>1. n \in Nat /\ DOMAIN s = 1 .. n /\ \A i \in 1 .. n : s[i] \in S /\ (n - i) + 1 \in 1 .. n
  OBVIOUS
<1>2. Reverse(s) = new
  BY DEF Reverse
<1> HIDE DEF n
<1>3. new \in Seq(S)
  BY <1>1
<1>4. IsInjective(new)
  <2> SUFFICES ASSUME NEW i \in 1 .. n, NEW j \in 1 .. n, s[(n - i) + 1] = s[(n - j) + 1] PROVE i = j
    BY DEF IsInjective
  <2>1. (n - i) + 1 = (n - j) + 1
    BY <1>1 DEF IsInjective
  <2> QED BY <1>1, <2>1
<1> QED BY <1>2, <1>3, <1>4

LEMMA AppendedGame ==
  ASSUME NEW S, NEW s \in Seq(S), IsInjective(s), NEW e \in S, e \notin ToSet(s)
  PROVE  Append(s, e) \in Seq(S) /\ IsInjective(Append(s, e))
<1>1. Len(s) \in Nat /\ DOMAIN s = 1 .. Len(s) /\ \A i \in 1 .. Len(s) : s[i] # e
  BY DEF ToSet
<1>2. /\ Append(s, e) \in Seq(S) /\ DOMAIN Append(s, e) = 1 .. Len(s) + 1
      /\ Append(s, e)[Len(s) + 1] = e
      /\ \A i \in 1 .. Len(s) : Append(s, e)[i] = s[i]
  BY <1>1
<1>3. \A i \in 1 .. Len(s) + 1 : i \in 1 .. Len(s) \/ i = Len(s) + 1
  BY <1>1
<1> QED BY <1>1, <1>2, <1>3 DEF IsInjective

(* What an edit leaves: different games, and their roots are nodes.        *)
GamesAndRoots ==
  /\ games \in Seq(Node) /\ IsInjective(games)
  /\ roots \in [Node -> NodeOrNull]

LEMMA EditKeepsGames ==
  ASSUME GamesAndRoots, Edit
  PROVE  GamesAndRoots' /\ Editing
<1> USE DEF GamesAndRoots
<1>1. ASSUME NEW g \in Node, AppendGame(g) PROVE GamesAndRoots' /\ Editing
  <2>1. Editing /\ g \notin ToSet(games) /\ games' = Append(games, g) /\ roots' = roots
    BY <1>1 DEF AppendGame
  <2> QED BY <2>1, AppendedGame
<1>2. ASSUME NEW g \in Node, RemoveGame(g) PROVE GamesAndRoots' /\ Editing
  <2>1. Editing /\ g \in ToSet(games) /\ games' = RemoveFirst(games, g) /\ roots' = roots
    BY <1>2 DEF RemoveGame
  <2> QED BY <2>1, RemovedGame
<1>3. ASSUME NEW g \in Node, NEW n \in NodeOrNull, SetRootNode(g, n) PROVE GamesAndRoots' /\ Editing
  <2>1. Editing /\ games' = games /\ roots' = [roots EXCEPT ![g] = n]
    BY <1>3 DEF SetRootNode
  <2> QED BY <2>1
<1>4. ASSUME NEW gs \in {<<>>, Reverse(games)}, SetGames(gs) PROVE GamesAndRoots' /\ Editing
  <2>1. Editing /\ games' = gs /\ IsInjective(gs) /\ roots' = roots
    BY <1>4 DEF SetGames
  <2>2. gs \in Seq(Node)
    <3>1. <<>> \in Seq(Node) /\ Reverse(games) \in Seq(Node)
      BY ReversedGames
    <3> QED BY <3>1
  <2> QED BY <2>1, <2>2
<1> QED BY <1>1, <1>2, <1>3, <1>4 DEF Edit

(* Reading is over, or nothing that it works on has changed.               *)
LEMMA EditKeepsInv ==
  ASSUME ReadInv, Edit
  PROVE  ReadInv'
<1>1. GamesAndRoots' /\ Editing
  <2>1. Editing
    BY DEF Edit, AppendGame, RemoveGame, SetRootNode, SetGames
  <2>2. GamesAndRoots
    BY <2>1 DEF ReadInv, IsReadOver, AfterReading, Editing, GamesAndRoots
  <2> QED BY <2>2, EditKeepsGames
<1>2. parser.pc = "read" /\ UNCHANGED <<sgf, tree, data, message, parser>>
  BY <1>1 DEF Editing
<1> QED BY <1>1, <1>2 DEF ReadInv, IsReadOver, AfterReading, GamesAndRoots, ParserType

LEMMA OthersKeepInv ==
  ASSUME ReadInv, UNCHANGED <<sgf, document, parser>>
  PROVE  ReadInv'
<1>1. UNCHANGED <<sgf, games, roots, tree, data, message, parser>>
  BY DEF document
<1>2. ASSUME NEW p, HoldsNodes(p) PROVE HoldsNodes(p)'
  BY <1>1, <1>2 DEF HoldsNodes
<1>3. ASSUME NEW p, InTree(p) PROVE InTree(p)'
  BY <1>1, <1>2, <1>3 DEF InTree, OnStack, Continues, ContinuesBelow
<1>4. ASSUME BetweenGames PROVE BetweenGames'
  BY <1>1, <1>4 DEF BetweenGames, HoldsNodes
<1>5. ASSUME AfterReading PROVE AfterReading'
  BY <1>1, <1>5 DEF AfterReading
<1> QED BY <1>1, <1>3, <1>4, <1>5 DEF ReadInv, IsReadOver, ParserType

-----------------------------------------------------------------------------
(* Iterating and writing.  The stack is a path of the tree, and the node   *)
(* that comes next is a child of the one on top of it.                     *)

Walk(stack, node) ==
  /\ stack \in Seq(Node) /\ IsPath(stack)
  /\ node \in NodeOrNull
  /\ node # Null /\ stack # <<>> => tree.parent[node] = Last(stack)

LinkedTree == TreeType(tree) /\ Linked(tree)

LEMMA NextOf ==
  ASSUME LinkedTree, NEW n \in Node
  PROVE  /\ tree.firstChild[n] \in NodeOrNull /\ tree.nextSibling[n] \in NodeOrNull
         /\ tree.firstChild[n] # Null => tree.parent[tree.firstChild[n]] = n
         /\ tree.nextSibling[n] # Null => tree.parent[tree.nextSibling[n]] = tree.parent[n]
BY DEF LinkedTree, TreeType, Linked

(* Down to the first child.                                                *)
LEMMA WalkDown ==
  ASSUME LinkedTree, NEW stack, NEW n \in Node, Walk(stack, n)
  PROVE  Walk(Append(stack, n), tree.firstChild[n])
<1> DEFINE new == Append(stack, n)
<1>1. /\ stack \in Seq(Node) /\ Len(stack) \in Nat /\ n # Null
      /\ \A i \in 2 .. Len(stack) : tree.parent[stack[i]] = stack[i - 1]
      /\ stack # <<>> => tree.parent[n] = stack[Len(stack)]
  BY DocumentAssumption DEF Walk, IsPath, Last, Node, Null
<1>2. /\ new \in Seq(Node) /\ Len(new) = Len(stack) + 1 /\ new[Len(stack) + 1] = n
      /\ \A i \in 1 .. Len(stack) : new[i] = stack[i]
  BY <1>1
<1> HIDE DEF new
<1>3. ASSUME NEW i \in 2 .. Len(new) PROVE tree.parent[new[i]] = new[i - 1]
  <2>1. CASE i = Len(new)
    <3>1. stack # <<>> /\ i - 1 = Len(stack) /\ i - 1 \in 1 .. Len(stack) /\ i = Len(stack) + 1
      BY <1>1, <1>2, <2>1
    <3> QED BY <1>1, <1>2, <3>1
  <2>2. CASE i # Len(new)
    <3>1. i \in 2 .. Len(stack) /\ i \in 1 .. Len(stack) /\ i - 1 \in 1 .. Len(stack)
      BY <1>1, <1>2, <2>2
    <3> QED BY <1>1, <1>2, <3>1
  <2> QED BY <2>1, <2>2
<1>4. Last(new) = n
  BY <1>2 DEF Last
<1>5. Walk(new, tree.firstChild[n])
  BY <1>2, <1>3, <1>4, NextOf DEF Walk, IsPath
<1> QED BY <1>5 DEF new

(* On to the next sibling.                                                 *)
LEMMA WalkRight ==
  ASSUME LinkedTree, NEW stack, NEW n \in Node, Walk(stack, n)
  PROVE  Walk(stack, tree.nextSibling[n])
<1>1. n # Null
  BY DocumentAssumption DEF Node, Null
<1> QED BY <1>1, NextOf DEF Walk

(* Back to the node on top of the stack, and on to its next sibling.       *)
LEMMA WalkUp ==
  ASSUME LinkedTree, NEW stack, NEW node, Walk(stack, node), stack # <<>>
  PROVE  Last(stack) \in Node /\ Walk(Front(stack), tree.nextSibling[Last(stack)])
<1> DEFINE new == Front(stack)
           n == Last(stack)
           len == Len(stack)
<1>1. stack \in Seq(Node) /\ len \in Nat /\ len >= 1 /\ n = stack[len]
  BY DEF Walk, Last
<1>2. \A i \in 2 .. len : tree.parent[stack[i]] = stack[i - 1]
  BY DEF Walk, IsPath
<1>3. /\ new \in Seq(Node) /\ Len(new) = len - 1 /\ n \in Node
      /\ \A i \in 1 .. len - 1 : new[i] = stack[i]
  BY <1>1, FrontFacts
<1> HIDE DEF new, n, len
<1>4. ASSUME NEW i \in 2 .. Len(new) PROVE tree.parent[new[i]] = new[i - 1]
  <2>1. i \in 2 .. len /\ i \in 1 .. len - 1 /\ i - 1 \in 1 .. len - 1
    BY <1>1, <1>3
  <2> QED BY <1>2, <1>3, <2>1
<1>5. new # <<>> => tree.parent[n] = Last(new)
  <2> SUFFICES ASSUME new # <<>> PROVE tree.parent[n] = Last(new)
    OBVIOUS
  <2>1. len - 1 \in 1 .. len - 1 /\ len \in 2 .. len
    BY <1>1, <1>3
  <2> QED BY <1>1, <1>2, <1>3, <2>1 DEF Last
<1>6. Walk(new, tree.nextSibling[n])
  BY <1>3, <1>4, <1>5, NextOf DEF Walk, IsPath
<1> QED BY <1>3, <1>6 DEF new, n

IterFields == {"pc", "start", "node", "stack", "continuation", "visits"}
WriterFields == {"pc", "game", "node", "stack", "level", "out"}

IterInv ==
  \/ iter = Idle
  \/ /\ parser.pc = "read" /\ iter.pc \in {"loop", "returned"}
     /\ DOMAIN iter = IterFields
     /\ Walk(iter.stack, iter.node)

WriterInv ==
  \/ writer = Idle
  \/ /\ parser.pc = "read" /\ writer.pc \in {"game", "tree", "returned", "thrown"}
     /\ DOMAIN writer = WriterFields
     /\ writer.game \in Nat \ {0}
     /\ Walk(writer.stack, writer.node)
     /\ writer.pc = "game" => writer.stack = <<>>

LEMMA EmptyWalk == ASSUME NEW node \in NodeOrNull PROVE Walk(<<>>, node)
BY DEF Walk, IsPath

LEMMA WalkEnds == ASSUME NEW stack, NEW node, Walk(stack, node) PROVE Walk(stack, Null)
BY DEF Walk, NodeOrNull

(* The links stay, and so does a walk.                                     *)
LEMMA WalkStaysPath ==
  ASSUME NEW stack, NEW node, Walk(stack, node), tree' = tree
  PROVE  Walk(stack, node)'
BY DEF Walk, IsPath

LEMMA VisitKeepsIter ==
  ASSUME LinkedTree, IterInv, NEW answer \in Answers, Visit(answer)
  PROVE  IterInv'
<1>1. PICK n : n = iter.node
  OBVIOUS
<1>2. PICK stack : stack = iter.stack
  OBVIOUS
<1> DEFINE visited == [iter EXCEPT !.continuation = answer, !.visits = Append(@, <<n, answer>>)]
<1>3. tree' = tree /\ parser' = parser /\ iter.pc = "loop" /\ n # Null
  BY <1>1 DEF Visit, Visiting, document
<1>4. parser.pc = "read" /\ DOMAIN iter = IterFields /\ Walk(stack, n)
  BY <1>1, <1>2, <1>3 DEF IterInv, Idle
<1>5. n \in Node
  BY <1>3, <1>4 DEF Walk, NodeOrNull
<1>6. iter' = CASE answer = "Stop" -> [visited EXCEPT !.pc = "returned"]
                [] answer = "VerticalAndLateral" ->
                     [visited EXCEPT !.stack = Append(@, n), !.node = tree.firstChild[n]]
                [] answer = "Lateral" -> [visited EXCEPT !.node = tree.nextSibling[n]]
                [] OTHER -> [visited EXCEPT !.node = Null]
  BY <1>1 DEF Visit
<1>7. /\ DOMAIN visited = IterFields /\ visited.pc = "loop"
      /\ visited.stack = stack /\ visited.node = n
  BY <1>1, <1>2, <1>3, <1>4 DEF IterFields
<1> HIDE DEF visited
<1>8. PICK new, next : /\ Walk(new, next) /\ iter'.stack = new /\ iter'.node = next
                       /\ DOMAIN iter' = IterFields /\ iter'.pc \in {"loop", "returned"}
  <2>1. CASE answer = "Stop"
    <3>1. /\ iter'.stack = stack /\ iter'.node = n
          /\ DOMAIN iter' = IterFields /\ iter'.pc \in {"loop", "returned"}
      BY <1>6, <1>7, <2>1 DEF IterFields
    <3> QED BY <1>4, <3>1
  <2>2. CASE answer = "VerticalAndLateral"
    <3>1. /\ iter'.stack = Append(stack, n) /\ iter'.node = tree.firstChild[n]
          /\ DOMAIN iter' = IterFields /\ iter'.pc \in {"loop", "returned"}
      BY <1>6, <1>7, <2>2 DEF IterFields
    <3> QED BY <1>4, <1>5, <3>1, WalkDown
  <2>3. CASE answer = "Lateral"
    <3>1. /\ iter'.stack = stack /\ iter'.node = tree.nextSibling[n]
          /\ DOMAIN iter' = IterFields /\ iter'.pc \in {"loop", "returned"}
      BY <1>6, <1>7, <2>3 DEF IterFields
    <3> QED BY <1>4, <1>5, <3>1, WalkRight
  <2>4. CASE answer = "Ascend"
    <3>1. /\ iter'.stack = stack /\ iter'.node = Null
          /\ DOMAIN iter' = IterFields /\ iter'.pc \in {"loop", "returned"}
      BY <1>6, <1>7, <2>4 DEF IterFields
    <3> QED BY <1>4, <3>1, WalkEnds
  <2> QED BY <2>1, <2>2, <2>3, <2>4 DEF Answers
<1>9. Walk(new, next)'
  BY <1>3, <1>8, WalkStaysPath
<1>10. Walk(iter.stack, iter.node)'
  BY <1>8, <1>9
<1> QED BY <1>3, <1>4, <1>8, <1>10 DEF IterInv

LEMMA ReturnKeepsIter ==
  ASSUME LinkedTree, IterInv, ReturnToParent
  PROVE  IterInv'
<1>1. PICK stack : stack = iter.stack
  OBVIOUS
<1>2. /\ tree' = tree /\ parser' = parser /\ iter.pc = "loop" /\ iter.node = Null
      /\ iter' = IF stack = <<>> THEN [iter EXCEPT !.pc = "returned"]
                 ELSE [iter EXCEPT !.node = tree.nextSibling[Last(stack)], !.stack = Front(stack)]
  BY <1>1 DEF ReturnToParent, Visiting, document
<1>3. parser.pc = "read" /\ DOMAIN iter = IterFields /\ Walk(stack, Null)
  BY <1>1, <1>2 DEF IterInv, Idle
<1>4. PICK new, next : /\ Walk(new, next) /\ iter'.stack = new /\ iter'.node = next
                       /\ DOMAIN iter' = IterFields /\ iter'.pc \in {"loop", "returned"}
  <2>1. CASE stack = <<>>
    <3>1. /\ iter'.stack = stack /\ iter'.node = Null
          /\ DOMAIN iter' = IterFields /\ iter'.pc \in {"loop", "returned"}
      BY <1>1, <1>2, <1>3, <2>1 DEF IterFields
    <3> QED BY <1>3, <3>1
  <2>2. CASE stack # <<>>
    <3>1. /\ iter'.stack = Front(stack) /\ iter'.node = tree.nextSibling[Last(stack)]
          /\ DOMAIN iter' = IterFields /\ iter'.pc \in {"loop", "returned"}
      BY <1>1, <1>2, <1>3, <2>2 DEF IterFields
    <3> QED BY <1>3, <2>2, <3>1, WalkUp
  <2> QED BY <2>1, <2>2
<1>5. Walk(new, next)'
  BY <1>2, <1>4, WalkStaysPath
<1>6. Walk(iter.stack, iter.node)'
  BY <1>4, <1>5
<1> QED BY <1>2, <1>3, <1>4, <1>6 DEF IterInv

LEMMA StartKeepsIter ==
  ASSUME NEW start \in Node, IterateOverNodesDepthFirst(start)
  PROVE  IterInv'
<1>1. /\ tree' = tree /\ parser' = parser /\ parser.pc = "read"
      /\ iter' = [pc |-> "loop", start |-> start, node |-> start, stack |-> <<>>,
                  continuation |-> "VerticalAndLateral", visits |-> <<>>]
  BY DEF IterateOverNodesDepthFirst, Visiting, document
<1>2. /\ iter'.stack = <<>> /\ iter'.node = start /\ iter'.pc = "loop"
      /\ DOMAIN iter' = IterFields
  BY <1>1 DEF IterFields
<1>3. Walk(<<>>, start)'
  BY <1>1, EmptyWalk, WalkStaysPath DEF NodeOrNull
<1>4. Walk(iter.stack, iter.node)'
  BY <1>2, <1>3
<1> QED BY <1>1, <1>2, <1>4 DEF IterInv

LEMMA EncodeKeepsWriter ==
  ASSUME Encode
  PROVE  WriterInv'
<1>1. /\ tree' = tree /\ parser' = parser /\ parser.pc = "read"
      /\ writer' = [pc |-> "game", game |-> 1, node |-> Null, stack |-> <<>>, level |-> 0, out |-> <<>>]
  BY DEF Encode, Writing, document
<1>2. /\ writer'.stack = <<>> /\ writer'.node = Null /\ writer'.pc = "game" /\ writer'.game = 1
      /\ DOMAIN writer' = WriterFields
  BY <1>1 DEF WriterFields
<1>3. Walk(<<>>, Null)'
  BY <1>1, EmptyWalk, WalkStaysPath DEF NodeOrNull
<1>4. Walk(writer.stack, writer.node)'
  BY <1>2, <1>3
<1> QED BY <1>1, <1>2, <1>4 DEF WriterInv

(* What a step of writing has to do with the walk.                         *)
WriterStep(new, next) ==
  /\ Walk(new, next) /\ writer'.stack = new /\ writer'.node = next
  /\ DOMAIN writer' = WriterFields /\ writer'.game \in Nat \ {0}
  /\ writer'.pc \in {"game", "tree", "returned", "thrown"}
  /\ writer'.pc = "game" => new = <<>>

LEMMA WriterStepKeeps ==
  ASSUME WriterInv, writer # Idle, UNCHANGED <<document, parser>>,
         NEW new, NEW next, WriterStep(new, next)
  PROVE  WriterInv'
<1>1. tree' = tree /\ parser' = parser
  BY DEF document
<1>2. parser.pc = "read"
  BY DEF WriterInv
<1>3. Walk(new, next)'
  BY <1>1, WalkStaysPath DEF WriterStep
<1>4. Walk(writer.stack, writer.node)'
  BY <1>3 DEF WriterStep
<1> QED BY <1>1, <1>2, <1>4 DEF WriterInv, WriterStep

LEMMA WriteKeepsWriter ==
  ASSUME LinkedTree, GamesAndRoots, WriterInv, Write
  PROVE  WriterInv'
<1>1. PICK n : n = writer.node
  OBVIOUS
<1>2. PICK stack : stack = writer.stack
  OBVIOUS
<1>3. UNCHANGED <<document, parser>> /\ writer # Idle /\ writer.pc # "idle"
  BY DEF Write, EncodeGame, EncodeNode, EncodeNext, EncodeGameEnd, EncodeReturns, WriteReturns,
         Writing, Idle
<1>4. /\ DOMAIN writer = WriterFields /\ Walk(stack, n) /\ writer.game \in Nat \ {0}
      /\ writer.pc = "game" => stack = <<>>
  BY <1>1, <1>2, <1>3 DEF WriterInv
<1> DEFINE Goal == \E new, next : WriterStep(new, next)
<1>5. ASSUME EncodeGame PROVE Goal
  <2>1. PICK root : root = roots[games[writer.game]]
    OBVIOUS
  <2>2. writer.pc = "game" /\ writer.game <= Len(games) /\ stack = <<>>
    BY <1>4, <1>5 DEF EncodeGame, Writing
  <2>3. root \in NodeOrNull
    <3>1. Len(games) \in Nat
      BY DEF GamesAndRoots
    <3>2. writer.game \in 1 .. Len(games)
      BY <1>4, <2>2, <3>1
    <3>3. games[writer.game] \in Node
      BY <3>2 DEF GamesAndRoots
    <3> QED BY <2>1, <3>3 DEF GamesAndRoots
  <2>4. CASE root = Null
    <3>1. writer' = [writer EXCEPT !.pc = "thrown", !.out = <<>>]
      BY <1>5, <2>1, <2>4 DEF EncodeGame
    <3>2. WriterStep(stack, n)
      BY <1>1, <1>2, <1>4, <3>1 DEF WriterStep, WriterFields
    <3> QED BY <3>2
  <2>5. CASE root # Null
    <3>1. writer' = [writer EXCEPT !.pc = "tree", !.node = root, !.level = 1,
                                   !.out = writer.out \o GameTreeToken("(", 0)]
      BY <1>5, <2>1, <2>5 DEF EncodeGame
    <3>2. Walk(stack, root)
      BY <2>2, <2>3, EmptyWalk
    <3>3. WriterStep(stack, root)
      BY <1>2, <1>4, <3>1, <3>2 DEF WriterStep, WriterFields
    <3> QED BY <3>3
  <2> QED BY <2>4, <2>5
<1>6. ASSUME EncodeNode PROVE Goal
  <2>1. PICK level, out : writer' = [writer EXCEPT !.level = level, !.stack = Append(stack, n),
                                                   !.node = tree.firstChild[n], !.out = out]
    BY <1>1, <1>2, <1>6 DEF EncodeNode
  <2>2. n \in Node /\ writer.pc = "tree"
    BY <1>1, <1>4, <1>6 DEF Walk, NodeOrNull, EncodeNode, Writing
  <2>3. Walk(Append(stack, n), tree.firstChild[n])
    BY <1>4, <2>2, WalkDown
  <2>4. WriterStep(Append(stack, n), tree.firstChild[n])
    BY <1>4, <2>1, <2>2, <2>3 DEF WriterStep, WriterFields
  <2> QED BY <2>4
<1>7. ASSUME EncodeNext PROVE Goal
  <2>1. stack # <<>> /\ writer.pc = "tree"
    BY <1>2, <1>7 DEF EncodeNext, Writing
  <2>2. PICK level, out : writer' = [writer EXCEPT !.level = level, !.stack = Front(stack),
                                                   !.node = tree.nextSibling[Last(stack)], !.out = out]
    BY <1>2, <1>7 DEF EncodeNext
  <2>3. Walk(Front(stack), tree.nextSibling[Last(stack)])
    BY <1>4, <2>1, WalkUp
  <2>4. WriterStep(Front(stack), tree.nextSibling[Last(stack)])
    BY <1>4, <2>1, <2>2, <2>3 DEF WriterStep, WriterFields
  <2> QED BY <2>4
<1>8. ASSUME EncodeGameEnd PROVE Goal
  <2>1. PICK out : writer' = [writer EXCEPT !.pc = "game", !.game = writer.game + 1,
                                            !.level = 0, !.out = out]
    BY <1>8 DEF EncodeGameEnd
  <2>2. stack = <<>> /\ writer.game + 1 \in Nat \ {0}
    BY <1>2, <1>4, <1>8 DEF EncodeGameEnd
  <2>3. WriterStep(stack, n)
    BY <1>1, <1>2, <1>4, <2>1, <2>2 DEF WriterStep, WriterFields
  <2> QED BY <2>3
<1>9. ASSUME EncodeReturns PROVE Goal
  <2>1. WriterStep(stack, n)
    BY <1>1, <1>2, <1>4, <1>9 DEF EncodeReturns, WriterStep, WriterFields
  <2> QED BY <2>1
<1>10. ASSUME WriteReturns PROVE WriterInv'
  BY <1>10 DEF WriteReturns, WriterInv, Idle
<1> QED
  BY <1>3, <1>5, <1>6, <1>7, <1>8, <1>9, <1>10, WriterStepKeeps DEF Write

-----------------------------------------------------------------------------
(* Which nodes an iteration visits.  The document is complete: it has all  *)
(* of SGFC's nodes.                                                        *)

Complete ==
  /\ Deep(sgf.depth) /\ Len(sgf.depth) \in 1 .. MaxNode
  /\ tree = ParsedTree(sgf.depth, Len(sgf.depth))
  /\ \A n \in Node : data[n] # "none" <=> n \in 1 .. Len(sgf.depth)

LEMMA NodesAre ==
  ASSUME Complete
  PROVE  /\ Len(sgf.depth) \in Nat /\ MaxNode \in Nat
         /\ \A n \in 1 .. Len(sgf.depth) : n \in Node /\ n \in Nat /\ n # Null /\ sgf.depth[n] \in Nat
BY DocumentAssumption DEF Complete, Deep, Node, Null

LEMMA BelowIs ==
  ASSUME Complete, NEW m \in 1 .. Len(sgf.depth)
  PROVE  /\ EndOf(sgf.depth, m) \in m .. Len(sgf.depth)
         /\ \A n : n \in Below(sgf.depth, m) <=> n \in m + 1 .. EndOf(sgf.depth, m)
BY BelowInterval DEF Complete

(* Up: a node that is not a root is in the tree below its parent.          *)
LEMMA LinkUp ==
  ASSUME Complete, NEW n \in 1 .. Len(sgf.depth)
  PROVE  /\ tree.parent[n] = Null <=> sgf.depth[n] = 0
         /\ tree.parent[n] # Null =>
              /\ IsParent(sgf.depth, tree.parent[n], n)
              /\ tree.parent[n] \in 1 .. Len(sgf.depth)
              /\ n \in tree.parent[n] + 1 .. EndOf(sgf.depth, tree.parent[n])
<1> DEFINE d == sgf.depth
<1>1. tree.parent[n] = SgfParent(d, n) /\ n \in Nat /\ Len(d) \in Nat
  BY NodesAre DEF Complete, ParsedTree
<1>2. CASE d[n] = 0
  BY <1>1, <1>2, RootHasNoParent DEF Complete
<1>3. CASE d[n] # 0
  <2>1. PICK q : q = tree.parent[n]
    OBVIOUS
  <2>2. IsParent(d, q, n)
    BY <1>1, <1>3, <2>1, ParentFacts DEF Complete
  <2>3. q \in 1 .. n - 1 /\ \A m \in q + 1 .. n : d[m] > d[q]
    BY <2>2 DEF IsParent
  <2>4. q \in 1 .. Len(d) /\ q # Null
    BY <1>1, <2>3 DEF Null
  <2>5. n \in Below(d, q)
    BY <1>1, <2>3 DEF Below
  <2>6. n \in q + 1 .. EndOf(d, q)
    BY <2>4, <2>5, BelowIs
  <2> QED BY <1>3, <2>1, <2>2, <2>4, <2>6
<1> QED BY <1>2, <1>3

(* Down: the first child follows its parent.                               *)
LEMMA LinkDown ==
  ASSUME Complete, NEW n \in 1 .. Len(sgf.depth)
  PROVE  /\ tree.firstChild[n] = IF EndOf(sgf.depth, n) > n THEN n + 1 ELSE Null
         /\ EndOf(sgf.depth, n) > n => n + 1 \in 1 .. Len(sgf.depth) /\ tree.parent[n + 1] = n
<1> DEFINE d == sgf.depth
<1>1. n \in Node /\ n \in Nat /\ Len(d) \in Nat /\ Deep(d)
  BY NodesAre DEF Complete
<1>2. /\ Child(d, n) = IF EndOf(d, n) > n THEN n + 1 ELSE Null
      /\ EndOf(d, n) > n => n + 1 \in 1 .. Len(d) /\ IsParent(d, n, n + 1)
  BY <1>1, ChildIs
<1>3. EndOf(d, n) > n => n + 1 \in 1 .. Len(d) /\ tree.parent[n + 1] = n
  <2> SUFFICES ASSUME EndOf(d, n) > n PROVE n + 1 \in 1 .. Len(d) /\ tree.parent[n + 1] = n
    OBVIOUS
  <2>1. n + 1 \in 1 .. Len(d) /\ SgfParent(d, n + 1) = n
    BY <1>1, <1>2, ParentUnique
  <2>2. n + 1 \in Node
    BY <2>1, NodesAre
  <2> QED BY <2>1, <2>2 DEF Complete, ParsedTree
<1>4. tree.firstChild[n] = IF Child(d, n) \in 1 .. Len(d) THEN Child(d, n) ELSE Null
  BY <1>1 DEF Complete, ParsedTree
<1> QED BY <1>2, <1>3, <1>4

(* On: the next sibling follows the tree below a node; without one, that   *)
(* tree ends where the tree below the parent does.                         *)
LEMMA LinkOn ==
  ASSUME Complete, NEW n \in 1 .. Len(sgf.depth)
  PROVE  /\ tree.nextSibling[n] # Null =>
              /\ tree.nextSibling[n] = EndOf(sgf.depth, n) + 1
              /\ tree.nextSibling[n] \in 1 .. Len(sgf.depth)
              /\ tree.parent[tree.nextSibling[n]] = tree.parent[n]
              /\ tree.parent[n] # Null
         /\ tree.nextSibling[n] = Null /\ tree.parent[n] # Null =>
              EndOf(sgf.depth, tree.parent[n]) = EndOf(sgf.depth, n)
<1> DEFINE d == sgf.depth
           s == Sibling(d, n)
<1>1. n \in Node /\ n \in Nat /\ Len(d) \in Nat /\ d[n] \in Nat /\ Deep(d)
  BY NodesAre DEF Complete
<1>2. s # Null => /\ s = EndOf(d, n) + 1 /\ s \in n + 1 .. Len(d)
                  /\ d[s] = d[n] /\ SgfParent(d, s) = SgfParent(d, n)
  BY <1>1, SiblingHasParent
<1>3. s # Null => s \in 1 .. Len(d) /\ s \in Node
  <2>1. s # Null => s \in 1 .. Len(d)
    <3> HIDE DEF s
    <3> QED BY <1>1, <1>2
  <2> QED BY <2>1, NodesAre
<1>4. tree.nextSibling[n] = IF d[n] > 0 /\ s \in 1 .. Len(d) THEN s ELSE Null
  BY <1>1 DEF Complete, ParsedTree
<1>5. tree.parent[n] = SgfParent(d, n) /\ (s # Null => tree.parent[s] = SgfParent(d, s))
  BY <1>1, <1>3 DEF Complete, ParsedTree
<1>6. tree.parent[n] = Null <=> d[n] = 0
  BY LinkUp
<1> HIDE DEF s
<1>7. CASE tree.nextSibling[n] # Null
  <2>1. s # Null /\ tree.nextSibling[n] = s /\ d[n] > 0
    BY <1>4, <1>7
  <2> QED BY <1>1, <1>2, <1>3, <1>5, <1>6, <1>7, <2>1
<1>8. CASE tree.nextSibling[n] = Null /\ tree.parent[n] # Null
  <2>1. d[n] # 0 /\ s = Null
    BY <1>1, <1>3, <1>4, <1>6, <1>8
  <2>2. EndOf(d, SgfParent(d, n)) = EndOf(d, n)
    BY <1>1, <2>1, ParentEnds DEF s
  <2> QED BY <1>5, <1>8, <2>2
<1> QED BY <1>7, <1>8

(* The end of the row of s: the last node an iteration from s may meet.    *)
EndOfRow(s) == IF tree.parent[s] = Null THEN EndOf(sgf.depth, s) ELSE EndOf(sgf.depth, tree.parent[s])

LEMMA WithinIs ==
  ASSUME Complete, NEW s \in 1 .. Len(sgf.depth)
  PROVE  /\ Within(s) = s .. EndOfRow(s)
         /\ EndOfRow(s) \in s .. Len(sgf.depth)
         /\ EndOf(sgf.depth, s) <= EndOfRow(s)
<1> DEFINE d == sgf.depth
<1>1. s \in Node /\ s \in Nat /\ Len(d) \in Nat
  BY NodesAre
<1>2. EndOf(d, s) \in s .. Len(d) /\ \A n : n \in Below(d, s) <=> n \in s + 1 .. EndOf(d, s)
  BY BelowIs
<1>3. CASE tree.parent[s] = Null
  <2>1. EndOfRow(s) = EndOf(d, s)
    BY <1>3 DEF EndOfRow
  <2>2. ASSUME NEW n \in Within(s) PROVE n \in s .. EndOfRow(s)
    BY <1>1, <1>2, <1>3, <2>1 DEF Within
  <2>3. ASSUME NEW n \in s .. EndOfRow(s) PROVE n \in Within(s)
    <3>1. n \in 1 .. Len(d) /\ n >= s /\ (n = s \/ n \in s + 1 .. EndOf(d, s))
      BY <1>1, <1>2, <2>1
    <3>2. n \in Node /\ data[n] # "none"
      BY <3>1, NodesAre DEF Complete
    <3> QED BY <1>2, <3>1, <3>2 DEF Within
  <2>4. Within(s) = s .. EndOfRow(s)
    BY ONLY <2>2, <2>3
  <2> QED BY <1>1, <1>2, <2>1, <2>4
<1>4. CASE tree.parent[s] # Null
  <2>1. PICK q : q = tree.parent[s]
    OBVIOUS
  <2>2. /\ EndOfRow(s) = EndOf(d, q) /\ q \in 1 .. Len(d) /\ s \in q + 1 .. EndOf(d, q)
    BY <1>4, <2>1, LinkUp DEF EndOfRow
  <2>3. EndOf(d, q) \in q .. Len(d) /\ \A n : n \in Below(d, q) <=> n \in q + 1 .. EndOf(d, q)
    BY <2>2, BelowIs
  <2>4. EndOf(d, s) <= EndOf(d, q)
    BY <2>2, EndOfBelow DEF Complete
  <2>5. ASSUME NEW n \in Within(s) PROVE n \in s .. EndOfRow(s)
    <3>1. /\ n \in Node /\ n >= s
          /\ n = s \/ n \in s + 1 .. EndOf(d, s) \/ n \in q + 1 .. EndOf(d, q)
      BY <1>2, <2>1, <2>3 DEF Within
    <3>2. n \in Nat
      BY <3>1, DocumentAssumption DEF Node
    <3> QED BY <1>1, <1>2, <2>2, <2>3, <2>4, <3>1, <3>2
  <2>6. ASSUME NEW n \in s .. EndOfRow(s) PROVE n \in Within(s)
    <3>1. n \in 1 .. Len(d) /\ n >= s /\ n \in q + 1 .. EndOf(d, q)
      BY <1>1, <2>2, <2>3
    <3>2. n \in Node /\ data[n] # "none"
      BY <3>1, NodesAre DEF Complete
    <3> QED BY <1>4, <2>1, <2>3, <3>1, <3>2 DEF Within
  <2>7. Within(s) = s .. EndOfRow(s)
    BY ONLY <2>5, <2>6
  <2>8. EndOf(d, q) \in s .. Len(d)
    BY <1>1, <2>2, <2>3
  <2> QED BY <2>2, <2>4, <2>7, <2>8
<1> QED BY <1>3, <1>4

LEMMA WithinNode ==
  ASSUME Complete, NEW s \in 1 .. Len(sgf.depth), NEW m \in Within(s)
  PROVE  m \in 1 .. Len(sgf.depth) /\ m \in Node /\ m \in Nat /\ s <= m /\ m <= EndOfRow(s)
<1>1. /\ m \in s .. EndOfRow(s) /\ EndOfRow(s) \in s .. Len(sgf.depth)
      /\ s \in Nat /\ Len(sgf.depth) \in Nat
  BY WithinIs, NodesAre
<1>2. m \in 1 .. Len(sgf.depth) /\ s <= m /\ m <= EndOfRow(s)
  BY <1>1
<1> QED BY <1>2, NodesAre

(* What the answers so far ask for.                                        *)
SawNode(visits, n, answers) ==
  \E i \in DOMAIN visits : visits[i][1] = n /\ visits[i][2] \in answers

IsDue(visits, s, n) ==
  \A m \in Within(s) :
    /\ m < n => ~SawNode(visits, m, {"Stop"})
    /\ n \in Below(sgf.depth, m) => SawNode(visits, m, {"VerticalAndLateral"})
    /\ m < n /\ tree.parent[m] = tree.parent[n] => ~SawNode(visits, m, {"Ascend"})

Ordered(visits) ==
  /\ visits \in Seq(Node \X Answers)
  /\ \A i, j \in 1 .. Len(visits) : i < j => visits[i][1] < visits[j][1]

NoStop(visits) == \A n \in Node : ~SawNode(visits, n, {"Stop"})

(* Before node f everything is decided, and nothing behind it was seen.    *)
Decided(visits, s, f) ==
  /\ \A n \in Within(s) : n < f => (SawNode(visits, n, Answers) <=> IsDue(visits, s, n))
  /\ \A n \in Node : SawNode(visits, n, Answers) => n \in Within(s) /\ n < f

(* The level of x: below the node on top of the stack, or that of the node *)
(* where the iteration began.  Limit is the end of the level's row.        *)
OnLevel(s, stack, x) ==
  /\ x \in Within(s)
  /\ tree.parent[x] = IF stack = <<>> THEN tree.parent[s] ELSE Last(stack)

Limit(s, stack) == IF stack = <<>> THEN EndOfRow(s) ELSE EndOf(sgf.depth, Last(stack))

StackSeen(visits, s, stack) ==
  /\ stack \in Seq(Node)
  /\ \A i \in 1 .. Len(stack) :
       /\ stack[i] \in Within(s) /\ SawNode(visits, stack[i], {"VerticalAndLateral"})
       /\ tree.parent[stack[i]] = IF i = 1 THEN tree.parent[s] ELSE stack[i - 1]

(* The invariant of the loop: the node that comes next is due, and all     *)
(* before it are decided; or there is none, and the rest of its row is     *)
(* decided.                                                                *)
Looping(s, visits, stack, node) ==
  /\ s \in 1 .. Len(sgf.depth)
  /\ Ordered(visits) /\ NoStop(visits) /\ StackSeen(visits, s, stack)
  /\ IF node = Null THEN Decided(visits, s, Limit(s, stack) + 1)
     ELSE OnLevel(s, stack, node) /\ Decided(visits, s, node) /\ IsDue(visits, s, node)

Finished(s, visits) ==
  s \in 1 .. Len(sgf.depth) /\ Ordered(visits) /\ Decided(visits, s, EndOfRow(s) + 1)

LEMMA SawAppend ==
  ASSUME NEW visits, Ordered(visits), NEW n \in Node, NEW answer \in Answers
  PROVE  /\ Append(visits, <<n, answer>>) \in Seq(Node \X Answers)
         /\ \A m, A : SawNode(Append(visits, <<n, answer>>), m, A)
                        <=> SawNode(visits, m, A) \/ (m = n /\ answer \in A)
<1> DEFINE new == Append(visits, <<n, answer>>)
           len == Len(visits)
<1>1. visits \in Seq(Node \X Answers) /\ <<n, answer>> \in Node \X Answers
  BY DEF Ordered
<1>2. /\ new \in Seq(Node \X Answers) /\ DOMAIN new = 1 .. len + 1 /\ new[len + 1] = <<n, answer>>
      /\ \A i \in 1 .. len : new[i] = visits[i]
      /\ len \in Nat /\ DOMAIN visits = 1 .. len
  BY <1>1
<1>3. \A i : i \in 1 .. len + 1 <=> i \in 1 .. len \/ i = len + 1
  BY <1>2
<1> HIDE DEF new, len
<1>4. ASSUME NEW m, NEW A
      PROVE  SawNode(new, m, A) <=> SawNode(visits, m, A) \/ (m = n /\ answer \in A)
  BY <1>2, <1>3 DEF SawNode
<1> QED BY <1>2, <1>4 DEF new

LEMMA SawMore ==
  ASSUME NEW visits, NEW n, NEW A, NEW B, A \subseteq B, SawNode(visits, n, A)
  PROVE  SawNode(visits, n, B)
BY DEF SawNode

(* A node is visited once.                                                 *)
LEMMA OneAnswer ==
  ASSUME NEW visits, Ordered(visits), NEW n \in Node, NEW a, NEW b,
         SawNode(visits, n, {a}), SawNode(visits, n, {b})
  PROVE  a = b
<1>1. PICK i \in 1 .. Len(visits) : visits[i][1] = n /\ visits[i][2] = a
  BY DEF SawNode, Ordered
<1>2. PICK j \in 1 .. Len(visits) : visits[j][1] = n /\ visits[j][2] = b
  BY DEF SawNode, Ordered
<1>3. Len(visits) \in Nat /\ n \in Nat
  BY DocumentAssumption DEF Ordered, Node
<1>4. ~(i < j) /\ ~(j < i)
  BY <1>1, <1>2, <1>3 DEF Ordered
<1> QED BY <1>1, <1>2, <1>3, <1>4

(* A later visit says nothing about the nodes up to its own.               *)
LEMMA DueSame ==
  ASSUME Complete, NEW s \in 1 .. Len(sgf.depth), NEW visits, Ordered(visits),
         NEW n \in 1 .. Len(sgf.depth), NEW answer \in Answers,
         NEW k \in 1 .. Len(sgf.depth), k <= n
  PROVE  IsDue(Append(visits, <<n, answer>>), s, k) <=> IsDue(visits, s, k)
<1> DEFINE new == Append(visits, <<n, answer>>)
<1>1. ASSUME NEW m \in Within(s)
      PROVE  /\ m < k => \A A : SawNode(new, m, A) <=> SawNode(visits, m, A)
             /\ k \in Below(sgf.depth, m) => m < k
  <2>1. m \in 1 .. Len(sgf.depth) /\ m \in Nat /\ n \in Nat /\ k \in Nat /\ n \in Node
    BY <1>1, WithinNode, NodesAre
  <2>2. m < k => m # n
    BY <2>1
  <2>3. k \in Below(sgf.depth, m) => m < k
    BY <2>1, BelowIs
  <2> QED BY <2>1, <2>2, <2>3, SawAppend
<1> HIDE DEF new
<1>2. IsDue(new, s, k) <=> IsDue(visits, s, k)
  BY <1>1 DEF IsDue
<1> QED BY <1>2 DEF new

(* What a visit decides.                                                   *)
LEMMA VisitDecides ==
  ASSUME Complete, NEW s, NEW visits, NEW stack, NEW n \in Node, Looping(s, visits, stack, n),
         NEW answer \in Answers, NEW new, new = Append(visits, <<n, answer>>)
  PROVE  /\ s \in 1 .. Len(sgf.depth) /\ n \in Within(s) /\ n \in 1 .. Len(sgf.depth)
         /\ Ordered(new) /\ StackSeen(new, s, stack) /\ OnLevel(s, stack, n)
         /\ Decided(new, s, n + 1) /\ IsDue(new, s, n)
         /\ \A A : SawNode(new, n, A) <=> answer \in A
         /\ answer # "Stop" => NoStop(new)
<1> DEFINE d == sgf.depth
<1>1. /\ s \in 1 .. Len(d) /\ Ordered(visits) /\ NoStop(visits) /\ StackSeen(visits, s, stack)
      /\ n # Null
  BY DocumentAssumption DEF Looping, Node, Null
<1>2. OnLevel(s, stack, n) /\ Decided(visits, s, n) /\ IsDue(visits, s, n)
  BY <1>1 DEF Looping
<1>3. n \in Within(s) /\ n \in 1 .. Len(d) /\ n \in Nat
  BY <1>1, <1>2, WithinIs, NodesAre DEF OnLevel
<1>4. /\ new \in Seq(Node \X Answers)
      /\ \A m, A : SawNode(new, m, A) <=> SawNode(visits, m, A) \/ (m = n /\ answer \in A)
  BY <1>1, SawAppend
<1>5. ~SawNode(visits, n, Answers)
  BY <1>2, <1>3 DEF Decided
<1>6. \A A : A \subseteq Answers => ~SawNode(visits, n, A)
  BY <1>5, SawMore
<1>7. \A A : ~SawNode(visits, n, A)
  <2> SUFFICES ASSUME NEW A, SawNode(visits, n, A) PROVE FALSE
    OBVIOUS
  <2>1. SawNode(visits, n, Answers)
    BY <1>1 DEF SawNode, Ordered
  <2> QED BY <1>5, <2>1
<1>8. \A A : SawNode(new, n, A) <=> answer \in A
  BY <1>4, <1>7
<1>9. Ordered(new)
  <2>1. visits \in Seq(Node \X Answers) /\ Len(visits) \in Nat /\ Len(new) = Len(visits) + 1
        /\ new[Len(visits) + 1] = <<n, answer>>
        /\ \A i \in 1 .. Len(visits) : new[i] = visits[i]
    BY <1>1 DEF Ordered
  <2>2. \A i \in 1 .. Len(visits) : visits[i][1] < n
    <3> SUFFICES ASSUME NEW i \in 1 .. Len(visits) PROVE visits[i][1] < n
      OBVIOUS
    <3>1. visits[i] \in Node \X Answers
      BY <2>1
    <3>2. SawNode(visits, visits[i][1], Answers) /\ visits[i][1] \in Node
      BY <2>1, <3>1 DEF SawNode
    <3> QED BY <1>2, <3>2 DEF Decided
  <2>3. ASSUME NEW i \in 1 .. Len(new), NEW j \in 1 .. Len(new), i < j
        PROVE  new[i][1] < new[j][1]
    <3>1. i \in 1 .. Len(visits) /\ (j \in 1 .. Len(visits) \/ j = Len(visits) + 1)
      BY <2>1, <2>3
    <3>2. CASE j \in 1 .. Len(visits)
      BY <1>1, <2>1, <2>3, <3>1, <3>2 DEF Ordered
    <3>3. CASE j = Len(visits) + 1
      BY <2>1, <2>2, <3>1, <3>3
    <3> QED BY <3>1, <3>2, <3>3
  <2> QED BY <1>4, <2>3 DEF Ordered
<1>10. StackSeen(new, s, stack)
  BY <1>1, <1>4 DEF StackSeen
<1>11. \A k \in Within(s) : k <= n => (IsDue(new, s, k) <=> IsDue(visits, s, k))
  <2> SUFFICES ASSUME NEW k \in Within(s), k <= n PROVE IsDue(new, s, k) <=> IsDue(visits, s, k)
    OBVIOUS
  <2>1. k \in 1 .. Len(d)
    BY <1>1, WithinNode
  <2> QED BY <1>1, <1>3, <2>1, DueSame
<1>12. Decided(new, s, n + 1)
  <2>1. ASSUME NEW k \in Within(s), k < n + 1
        PROVE  SawNode(new, k, Answers) <=> IsDue(new, s, k)
    <3>1. k \in Nat /\ k <= n
      BY <1>1, <1>3, <2>1, WithinIs, NodesAre
    <3>2. CASE k = n
      BY <1>2, <1>3, <1>8, <1>11, <3>1, <3>2
    <3>3. CASE k < n
      BY <1>2, <1>4, <1>11, <3>1, <3>3 DEF Decided
    <3> QED BY <1>3, <3>1, <3>2, <3>3
  <2>2. ASSUME NEW k \in Node, SawNode(new, k, Answers) PROVE k \in Within(s) /\ k < n + 1
    <3>1. k \in Nat
      BY DocumentAssumption DEF Node
    <3>2. k = n \/ SawNode(visits, k, Answers)
      BY <1>4, <2>2
    <3> QED BY <1>2, <1>3, <3>1, <3>2 DEF Decided
  <2> QED BY <2>1, <2>2 DEF Decided
<1>13. IsDue(new, s, n)
  BY <1>2, <1>3, <1>11
<1>14. answer # "Stop" => NoStop(new)
  BY <1>1, <1>4 DEF NoStop
<1> QED BY <1>1, <1>2, <1>3, <1>8, <1>9, <1>10, <1>12, <1>13, <1>14

(* A node below q is, or is below, a child of q.                           *)
LEMMA ChildAbove ==
  ASSUME NEW d, Deep(d), NEW q \in 1 .. Len(d), NEW k \in q + 1 .. EndOf(d, q)
  PROVE  \E m \in q + 1 .. k : IsParent(d, q, m) /\ m \in 1 .. Len(d) /\ k <= EndOf(d, m)
<1> DEFINE S == {m \in q + 1 .. k : d[m] = d[q] + 1}
<1>1. /\ Len(d) \in Nat /\ q \in Nat /\ k \in Nat
      /\ \A j \in 1 .. Len(d) : d[j] \in Nat
      /\ EndOf(d, q) \in q .. Len(d) /\ \A j \in q + 1 .. EndOf(d, q) : d[j] > d[q]
  <2>1. Len(d) \in Nat /\ \A j \in 1 .. Len(d) : d[j] \in Nat
    BY DEF Deep
  <2>2. EndOf(d, q) \in q .. Len(d) /\ \A j \in q + 1 .. EndOf(d, q) : d[j] > d[q]
    BY BelowInterval
  <2>3. q \in Nat /\ k \in Nat
    BY <2>1, <2>2
  <2> QED BY <2>1, <2>2, <2>3
<1>2. q + 1 \in S
  <2>1. q + 1 \in 1 .. Len(d) /\ IsParent(d, q, q + 1)
    BY <1>1, ChildIs
  <2> QED BY <1>1, <2>1 DEF IsParent
<1>3. \E m \in S : \A j \in S : j <= m
  <2>1. S \in SUBSET (0 .. Len(d))
    BY <1>1
  <2> HIDE DEF S
  <2> QED BY <1>1, <1>2, <2>1, GreatestNumber
<1>4. PICK m \in S : \A j \in S : j <= m
  BY <1>3
<1>5. m \in q + 1 .. k /\ d[m] = d[q] + 1 /\ m \in 1 .. Len(d) /\ m \in Nat
  BY <1>1
<1>6. \A j \in m + 1 .. k : d[j] > d[m]
  <2> SUFFICES ASSUME NEW j \in m + 1 .. k, ~(d[j] > d[m]) PROVE FALSE
    OBVIOUS
  <2>1. j \in q + 1 .. EndOf(d, q) /\ j \in q + 1 .. k /\ j \in 1 .. Len(d)
    BY <1>1, <1>5
  <2>2. d[j] = d[q] + 1
    BY <1>1, <1>5, <2>1
  <2>3. j \in S
    BY <2>1, <2>2
  <2> QED BY <1>4, <1>5, <2>3
<1> HIDE DEF S
<1>7. k = m \/ k \in Below(d, m)
  BY <1>1, <1>5, <1>6 DEF Below
<1>8. k <= EndOf(d, m)
  BY <1>1, <1>5, <1>7, BelowInterval
<1>9. IsParent(d, q, m)
  BY <1>1, <1>5 DEF IsParent
<1> QED BY <1>5, <1>8, <1>9

LEMMA WithinClosed ==
  ASSUME Complete, NEW s \in 1 .. Len(sgf.depth), NEW m \in Within(s)
  PROVE  EndOf(sgf.depth, m) <= EndOfRow(s)
<1> DEFINE d == sgf.depth
<1>1. m \in 1 .. Len(d) /\ s <= m /\ m <= EndOfRow(s) /\ m \in Nat /\ s \in Nat /\ Len(d) \in Nat
  BY WithinNode, NodesAre
<1>2. CASE m = s
  BY <1>2, WithinIs
<1>3. CASE m # s /\ tree.parent[s] = Null
  <2>1. EndOfRow(s) = EndOf(d, s) /\ EndOf(d, s) \in s .. Len(d)
    BY <1>3, BelowIs DEF EndOfRow
  <2>2. m \in s + 1 .. EndOf(d, s)
    BY <1>1, <1>3, <2>1
  <2> QED BY <2>1, <2>2, EndOfBelow DEF Complete
<1>4. CASE tree.parent[s] # Null
  <2>1. PICK q : q = tree.parent[s]
    OBVIOUS
  <2>2. q \in 1 .. Len(d) /\ s \in q + 1 .. EndOf(d, q) /\ EndOfRow(s) = EndOf(d, q)
    BY <1>4, <2>1, LinkUp DEF EndOfRow
  <2>3. EndOf(d, q) \in q .. Len(d)
    BY <2>2, BelowIs
  <2>4. m \in q + 1 .. EndOf(d, q)
    BY <1>1, <2>2, <2>3
  <2> QED BY <2>2, <2>4, EndOfBelow DEF Complete
<1> QED BY <1>2, <1>3, <1>4

(* The end of a level is the end of its parent's tree; only the node where *)
(* the iteration began may have no parent.                                 *)
LEMMA LevelIs ==
  ASSUME Complete, NEW s \in 1 .. Len(sgf.depth), NEW rest,
         rest = <<>> \/ Last(rest) \in Within(s), NEW x, OnLevel(s, rest, x)
  PROVE  /\ tree.parent[x] # Null => Limit(s, rest) = EndOf(sgf.depth, tree.parent[x])
         /\ tree.parent[x] = Null => Limit(s, rest) = EndOf(sgf.depth, x)
         /\ tree.parent[x] # Null => Limit(s, rest) <= EndOfRow(s)
<1> DEFINE d == sgf.depth
<1>1. x \in Within(s) /\ x \in 1 .. Len(d) /\ s <= x /\ x <= EndOfRow(s) /\ x \in Nat /\ s \in Nat
  BY WithinNode, NodesAre DEF OnLevel
<1>2. CASE rest = <<>>
  <2>1. tree.parent[x] = tree.parent[s] /\ Limit(s, rest) = EndOfRow(s)
    BY <1>2 DEF OnLevel, Limit
  <2>2. EndOfRow(s) \in Nat
    BY WithinIs, NodesAre
  <2>3. CASE tree.parent[x] # Null
    BY <2>1, <2>2, <2>3 DEF EndOfRow
  <2>4. CASE tree.parent[x] = Null
    <3>1. EndOfRow(s) = EndOf(d, s) /\ d[x] = 0 /\ d[s] = 0
      BY <1>1, <2>1, <2>4, LinkUp DEF EndOfRow
    <3>2. x = s
      <4> SUFFICES ASSUME x # s PROVE FALSE
        OBVIOUS
      <4>1. EndOf(d, s) \in Nat
        BY <2>2, <3>1
      <4>2. x \in s + 1 .. EndOf(d, s)
        BY <1>1, <3>1, <4>1
      <4>3. d[x] > d[s]
        BY <4>2, BelowInterval DEF Complete
      <4> QED BY <3>1, <4>3
    <3> QED BY <2>1, <2>4, <3>1, <3>2
  <2> QED BY <2>3, <2>4
<1>3. CASE rest # <<>>
  <2>1. tree.parent[x] = Last(rest) /\ Limit(s, rest) = EndOf(d, Last(rest)) /\ Last(rest) \in Within(s)
    BY <1>3 DEF OnLevel, Limit
  <2>2. Last(rest) # Null
    BY <2>1, WithinNode, NodesAre
  <2> QED BY <2>1, <2>2, WithinClosed
<1> QED BY <1>2, <1>3

(* What is not asked for is decided, too.                                  *)
LEMMA DecideMore ==
  ASSUME Complete, NEW s \in 1 .. Len(sgf.depth), NEW visits, NEW f \in Nat, NEW g \in Nat, f <= g,
         Decided(visits, s, f), \A k \in Within(s) : f <= k /\ k < g => ~IsDue(visits, s, k)
  PROVE  Decided(visits, s, g)
<1>1. ASSUME NEW k \in Within(s), k < g
      PROVE  SawNode(visits, k, Answers) <=> IsDue(visits, s, k)
  <2>1. k \in Nat /\ k \in Node
    BY WithinNode
  <2>2. CASE k < f
    BY <2>2 DEF Decided
  <2>3. CASE ~(k < f)
    BY <1>1, <2>1, <2>3 DEF Decided
  <2> QED BY <2>2, <2>3
<1>2. ASSUME NEW k \in Node, SawNode(visits, k, Answers) PROVE k \in Within(s) /\ k < g
  <2>1. k \in Nat
    BY DocumentAssumption DEF Node
  <2> QED BY <1>2, <2>1 DEF Decided
<1> QED BY <1>1, <1>2 DEF Decided

LEMMA SkipBelow ==
  ASSUME Complete, NEW s \in 1 .. Len(sgf.depth), NEW visits, NEW x \in Within(s),
         Decided(visits, s, x + 1), ~SawNode(visits, x, {"VerticalAndLateral"})
  PROVE  Decided(visits, s, EndOf(sgf.depth, x) + 1)
<1> DEFINE d == sgf.depth
<1>1. x \in 1 .. Len(d) /\ x \in Nat /\ Len(d) \in Nat
  BY WithinNode, NodesAre
<1>2. EndOf(d, x) \in x .. Len(d) /\ \A k : k \in Below(d, x) <=> k \in x + 1 .. EndOf(d, x)
  BY <1>1, BelowIs
<1>3. EndOf(d, x) \in Nat /\ x + 1 \in Nat /\ EndOf(d, x) + 1 \in Nat /\ x + 1 <= EndOf(d, x) + 1
  BY <1>1, <1>2
<1>4. ASSUME NEW k \in Within(s), x + 1 <= k, k < EndOf(d, x) + 1 PROVE ~IsDue(visits, s, k)
  <2>1. k \in Nat
    BY WithinNode
  <2>2. k \in Below(d, x)
    BY <1>1, <1>2, <1>3, <1>4, <2>1
  <2> QED BY <2>2 DEF IsDue
<1> QED BY <1>3, <1>4, DecideMore

LEMMA StopDecides ==
  ASSUME Complete, NEW s \in 1 .. Len(sgf.depth), NEW visits, NEW n \in Within(s),
         Decided(visits, s, n + 1), SawNode(visits, n, {"Stop"})
  PROVE  Decided(visits, s, EndOfRow(s) + 1)
<1>1. n \in Nat /\ n <= EndOfRow(s) /\ EndOfRow(s) \in Nat
  BY WithinNode, WithinIs, NodesAre
<1>2. ASSUME NEW k \in Within(s), n + 1 <= k PROVE ~IsDue(visits, s, k)
  <2>1. k \in Nat
    BY WithinNode
  <2>2. n < k
    BY <1>1, <1>2, <2>1
  <2> QED BY <2>2 DEF IsDue
<1>3. n + 1 \in Nat /\ EndOfRow(s) + 1 \in Nat /\ n + 1 <= EndOfRow(s) + 1
  BY <1>1
<1> QED BY <1>2, <1>3, DecideMore

LEMMA AscendDecides ==
  ASSUME Complete, NEW s \in 1 .. Len(sgf.depth), NEW visits, NEW rest,
         rest = <<>> \/ Last(rest) \in Within(s), NEW n, OnLevel(s, rest, n),
         Decided(visits, s, n + 1),
         SawNode(visits, n, {"Ascend"}), ~SawNode(visits, n, {"VerticalAndLateral"})
  PROVE  Decided(visits, s, Limit(s, rest) + 1)
<1> DEFINE d == sgf.depth
<1>1. n \in Within(s) /\ n \in 1 .. Len(d) /\ n \in Nat /\ Len(d) \in Nat
  BY WithinNode, NodesAre DEF OnLevel
<1>2. Decided(visits, s, EndOf(d, n) + 1) /\ EndOf(d, n) \in n .. Len(d)
  BY <1>1, SkipBelow, BelowIs
<1>3. CASE tree.parent[n] = Null
  BY <1>2, <1>3, LevelIs
<1>4. CASE tree.parent[n] # Null
  <2>1. PICK q : q = tree.parent[n]
    OBVIOUS
  <2>2. /\ Limit(s, rest) = EndOf(d, q) /\ Limit(s, rest) <= EndOfRow(s)
        /\ q \in 1 .. Len(d) /\ n \in q + 1 .. EndOf(d, q) /\ IsParent(d, q, n)
    BY <1>1, <1>4, <2>1, LevelIs, LinkUp
  <2>3. EndOf(d, q) \in q .. Len(d) /\ EndOf(d, n) <= EndOf(d, q)
    BY <2>2, BelowIs, EndOfBelow DEF Complete
  <2>4. EndOf(d, n) + 1 \in Nat /\ EndOf(d, q) + 1 \in Nat /\ EndOf(d, n) + 1 <= EndOf(d, q) + 1 /\ q \in Nat
    BY <1>1, <1>2, <2>2, <2>3
  <2>5. ASSUME NEW k \in Within(s), EndOf(d, n) + 1 <= k, k < EndOf(d, q) + 1
        PROVE  ~IsDue(visits, s, k)
    <3>1. k \in Nat /\ k \in q + 1 .. EndOf(d, q) /\ s <= k /\ k <= EndOfRow(s) /\ k > n
      <4>1. k \in Nat /\ s <= k /\ k <= EndOfRow(s)
        BY WithinNode
      <4> QED BY <1>1, <1>2, <2>2, <2>3, <2>5, <4>1
    <3>2. PICK m \in q + 1 .. k : IsParent(d, q, m) /\ m \in 1 .. Len(d) /\ k <= EndOf(d, m)
      BY <2>2, <3>1, ChildAbove DEF Complete
    <3>3. tree.parent[m] = q /\ m \in Node /\ m \in Nat
      BY <3>2, NodesAre, ParentUnique DEF Complete, ParsedTree
    <3>4. m > n
      <4>1. m # n
        BY <1>2, <2>5, <3>1, <3>2
      <4>2. ASSUME m < n PROVE FALSE
        <5>1. EndOf(d, m) \in m .. Len(d) /\ \A j \in m + 1 .. EndOf(d, m) : d[j] > d[m]
          BY <3>2, BelowInterval DEF Complete
        <5>2. n \in m + 1 .. EndOf(d, m)
          BY <1>1, <3>1, <3>2, <3>3, <4>2, <5>1
        <5>3. d[n] > d[m] /\ d[n] = d[m] /\ d[n] \in Nat
          BY <1>1, <2>2, <3>2, <5>1, <5>2, NodesAre DEF IsParent
        <5> QED BY <5>3
      <4> QED BY <1>1, <3>3, <4>1, <4>2
    <3>5. CASE k = m
      BY <1>1, <2>1, <3>3, <3>4, <3>5 DEF IsDue
    <3>6. CASE k # m
      <4>1. k \in Below(d, m)
        <5>1. EndOf(d, m) \in Nat
          BY <3>2, BelowIs, NodesAre
        <5>2. k \in m + 1 .. EndOf(d, m)
          BY <3>1, <3>2, <3>3, <3>6, <5>1
        <5> QED BY <3>2, <5>2, BelowIs
      <4>2. m \in Within(s)
        <5>1. s <= n /\ EndOfRow(s) \in Nat /\ s \in Nat
          BY <1>1, WithinNode, WithinIs, NodesAre
        <5>2. m \in s .. EndOfRow(s)
          BY <1>1, <3>1, <3>2, <3>3, <3>4, <5>1
        <5> QED BY <5>2, WithinIs
      <4>3. ~SawNode(visits, m, {"VerticalAndLateral"})
        <5>1. ~SawNode(visits, m, Answers)
          BY <1>1, <3>3, <3>4 DEF Decided
        <5> QED BY <5>1, SawMore DEF Answers
      <4> QED BY <4>1, <4>2, <4>3 DEF IsDue
    <3> QED BY <3>5, <3>6
  <2> QED BY <1>2, <2>2, <2>4, <2>5, DecideMore
<1> QED BY <1>3, <1>4

(* When the tree below x is done with, and the callback has not left the   *)
(* level, the iteration goes on with the next sibling.                     *)
LEMMA AfterSubtree ==
  ASSUME Complete, NEW s \in 1 .. Len(sgf.depth), NEW visits, NEW rest, NEW x,
         Ordered(visits), NoStop(visits), StackSeen(visits, s, rest),
         rest = <<>> \/ Last(rest) \in Within(s), OnLevel(s, rest, x), IsDue(visits, s, x),
         Decided(visits, s, EndOf(sgf.depth, x) + 1), ~SawNode(visits, x, {"Ascend"})
  PROVE  Looping(s, visits, rest, tree.nextSibling[x])
<1> DEFINE d == sgf.depth
<1>1. x \in Within(s) /\ x \in 1 .. Len(d) /\ x \in Nat /\ Len(d) \in Nat /\ s <= x /\ s \in Nat
  BY WithinNode, NodesAre DEF OnLevel
<1>2. EndOf(d, x) \in x .. Len(d) /\ \A k : k \in Below(d, x) <=> k \in x + 1 .. EndOf(d, x)
  BY <1>1, BelowIs
<1>3. CASE tree.nextSibling[x] = Null
  <2>1. EndOf(d, x) = Limit(s, rest)
    <3>1. CASE tree.parent[x] = Null
      BY <3>1, LevelIs
    <3>2. CASE tree.parent[x] # Null
      BY <1>1, <1>3, <3>2, LevelIs, LinkOn
    <3> QED BY <3>1, <3>2
  <2> QED BY <1>3, <2>1 DEF Looping
<1>4. CASE tree.nextSibling[x] # Null
  <2>1. PICK next : next = tree.nextSibling[x]
    OBVIOUS
  <2>2. PICK q : q = tree.parent[x]
    OBVIOUS
  <2>3. /\ next = EndOf(d, x) + 1 /\ next \in 1 .. Len(d) /\ next # Null
        /\ tree.parent[next] = q /\ q # Null
    BY <1>1, <1>4, <2>1, <2>2, LinkOn
  <2>4. next \in Within(s)
    <3>1. Limit(s, rest) = EndOf(d, q) /\ EndOf(d, q) <= EndOfRow(s)
      BY <2>2, <2>3, LevelIs
    <3>2. next \in q + 1 .. EndOf(d, q) /\ q \in 1 .. Len(d)
      BY <2>3, LinkUp
    <3>3. EndOf(d, q) \in Nat /\ EndOfRow(s) \in Nat /\ q \in Nat
      <4>1. EndOf(d, q) \in q .. Len(d)
        BY <3>2, BelowIs
      <4>2. EndOfRow(s) \in s .. Len(d)
        BY WithinIs
      <4>3. q \in Nat
        BY <3>2, NodesAre
      <4> QED BY <1>1, <4>1, <4>2, <4>3
    <3>4. next \in s .. EndOfRow(s)
      BY <1>1, <1>2, <2>3, <3>1, <3>2, <3>3
    <3> QED BY <3>4, WithinIs
  <2>5. OnLevel(s, rest, next)
    BY <2>2, <2>3, <2>4 DEF OnLevel
  <2>6. ASSUME NEW m \in Within(s), next \in Below(d, m) PROVE SawNode(visits, m, {"VerticalAndLateral"})
    <3>1. m \in 1 .. Len(d) /\ m \in Nat
      BY WithinNode
    <3>2. next \in m + 1 .. EndOf(d, m) /\ EndOf(d, m) \in m .. Len(d)
      BY <2>6, <3>1, BelowIs
    <3>3. m < x
      <4>1. CASE m = x
        BY <1>1, <1>2, <2>3, <3>2, <4>1
      <4>2. CASE m > x
        <5>1. m \in x + 1 .. EndOf(d, x)
          BY <1>1, <1>2, <2>3, <3>1, <3>2, <4>2
        <5>2. EndOf(d, m) <= EndOf(d, x)
          BY <1>1, <5>1, EndOfBelow DEF Complete
        <5> QED BY <1>1, <1>2, <2>3, <3>1, <3>2, <5>2
      <4> QED BY <1>1, <3>1, <4>1, <4>2
    <3>4. x \in m + 1 .. EndOf(d, m)
      BY <1>1, <1>2, <2>3, <3>1, <3>2, <3>3
    <3>5. x \in Below(d, m)
      BY <3>1, <3>4, BelowIs
    <3> QED BY <3>5 DEF IsDue
  <2>7. ASSUME NEW m \in Within(s), m < next, tree.parent[m] = tree.parent[next]
        PROVE  ~SawNode(visits, m, {"Ascend"})
    <3>1. m \in 1 .. Len(d) /\ m \in Nat
      BY WithinNode
    <3>2. CASE m < x
      BY <2>2, <2>3, <2>7, <3>2 DEF IsDue
    <3>3. CASE m = x
      BY <3>3
    <3>4. CASE m > x
      <4>1. m \in x + 1 .. EndOf(d, x)
        BY <1>1, <1>2, <2>3, <2>7, <3>1, <3>4
      <4>2. d[m] > d[x]
        BY <1>1, <4>1, BelowInterval DEF Complete
      <4>3. IsParent(d, q, m) /\ IsParent(d, q, x)
        BY <1>1, <2>2, <2>3, <2>7, <3>1, LinkUp
      <4>4. d[m] = d[x] /\ d[x] \in Nat
        BY <1>1, <4>3, NodesAre DEF IsParent
      <4> QED BY <4>2, <4>4
    <3> QED BY <1>1, <3>1, <3>2, <3>3, <3>4
  <2>8. IsDue(visits, s, next)
    <3>1. \A m \in Within(s) : ~SawNode(visits, m, {"Stop"})
      BY WithinNode DEF NoStop
    <3> QED BY <2>6, <2>7, <3>1 DEF IsDue
  <2> QED BY <2>1, <2>3, <2>5, <2>8 DEF Looping
<1> QED BY <1>3, <1>4

(* The stack holds nodes of the iteration.                                 *)
LEMMA StackTop ==
  ASSUME NEW s, NEW visits, NEW stack, StackSeen(visits, s, stack), stack # <<>>
  PROVE  /\ Last(stack) \in Within(s) /\ SawNode(visits, Last(stack), {"VerticalAndLateral"})
         /\ StackSeen(visits, s, Front(stack)) /\ OnLevel(s, Front(stack), Last(stack))
<1> DEFINE len == Len(stack)
           front == Front(stack)
<1>1. stack \in Seq(Node) /\ len \in Nat /\ len >= 1 /\ Last(stack) = stack[len]
  BY DEF StackSeen, Last
<1>2. front \in Seq(Node) /\ Len(front) = len - 1 /\ \A i \in 1 .. len - 1 : front[i] = stack[i]
  BY <1>1, FrontFacts
<1>3. \A i \in 1 .. len :
        /\ stack[i] \in Within(s) /\ SawNode(visits, stack[i], {"VerticalAndLateral"})
        /\ tree.parent[stack[i]] = IF i = 1 THEN tree.parent[s] ELSE stack[i - 1]
  BY DEF StackSeen
<1> HIDE DEF front, len
<1>4. StackSeen(visits, s, front)
  <2>1. ASSUME NEW i \in 1 .. Len(front)
        PROVE  /\ front[i] \in Within(s) /\ SawNode(visits, front[i], {"VerticalAndLateral"})
               /\ tree.parent[front[i]] = IF i = 1 THEN tree.parent[s] ELSE front[i - 1]
    <3>1. i \in 1 .. len /\ i \in 1 .. len - 1 /\ (i # 1 => i - 1 \in 1 .. len - 1)
      BY <1>1, <1>2
    <3> QED BY <1>2, <1>3, <3>1
  <2> QED BY <1>2, <2>1 DEF StackSeen
<1>5. tree.parent[stack[len]] = IF front = <<>> THEN tree.parent[s] ELSE Last(front)
  <2>1. CASE len = 1
    <3>1. front = <<>>
      BY <1>2, <2>1
    <3> QED BY <1>3, <2>1, <3>1
  <2>2. CASE len # 1
    <3>1. front # <<>> /\ len - 1 \in 1 .. len - 1 /\ len \in 1 .. len
      BY <1>1, <1>2, <2>2
    <3>2. Last(front) = stack[len - 1]
      BY <1>2, <3>1 DEF Last
    <3> QED BY <1>3, <2>2, <3>1, <3>2
  <2> QED BY <2>1, <2>2
<1>6. len \in 1 .. len
  BY <1>1
<1> QED BY <1>1, <1>3, <1>4, <1>5, <1>6 DEF front, OnLevel

LEMMA LastOfStack ==
  ASSUME NEW s, NEW visits, NEW stack, StackSeen(visits, s, stack)
  PROVE  stack = <<>> \/ Last(stack) \in Within(s)
BY StackTop

(* The iteration begins.                                                   *)
LEMMA BeginsLooping ==
  ASSUME Complete, NEW s \in 1 .. Len(sgf.depth)
  PROVE  Looping(s, <<>>, <<>>, s)
<1>1. \A n, A : ~SawNode(<<>>, n, A)
  BY DEF SawNode
<1>2. s \in Within(s) /\ s # Null /\ s \in Nat
  <2>1. EndOfRow(s) \in s .. Len(sgf.depth) /\ s \in Nat /\ s # Null /\ Len(sgf.depth) \in Nat
    BY WithinIs, NodesAre
  <2>2. s \in s .. EndOfRow(s)
    BY <2>1
  <2> QED BY <2>1, <2>2, WithinIs
<1>3. ASSUME NEW m \in Within(s) PROVE ~(m < s) /\ s \notin Below(sgf.depth, m)
  <2>1. m \in Nat /\ s <= m /\ m \in 1 .. Len(sgf.depth)
    BY WithinNode
  <2> QED BY <1>2, <2>1, BelowIs
<1>4. IsDue(<<>>, s, s)
  BY <1>1, <1>3 DEF IsDue
<1>5. Decided(<<>>, s, s)
  BY <1>1, <1>3 DEF Decided
<1>6. Ordered(<<>>) /\ NoStop(<<>>) /\ StackSeen(<<>>, s, <<>>) /\ OnLevel(s, <<>>, s)
  BY <1>1, <1>2 DEF Ordered, NoStop, StackSeen, OnLevel
<1> QED BY <1>2, <1>4, <1>5, <1>6 DEF Looping

(* A round of the loop that calls the callback.                            *)
LEMMA VisitLoops ==
  ASSUME Complete, NEW s, NEW visits, NEW stack, NEW n \in Node, Looping(s, visits, stack, n),
         NEW answer \in Answers, NEW new, new = Append(visits, <<n, answer>>)
  PROVE  /\ answer = "Stop" => Finished(s, new)
         /\ answer = "VerticalAndLateral" =>
              Looping(s, new, Append(stack, n), tree.firstChild[n])
         /\ answer = "Lateral" => Looping(s, new, stack, tree.nextSibling[n])
         /\ answer = "Ascend" => Looping(s, new, stack, Null)
<1> DEFINE d == sgf.depth
<1>1. /\ s \in 1 .. Len(d) /\ n \in Within(s) /\ n \in 1 .. Len(d)
      /\ Ordered(new) /\ StackSeen(new, s, stack) /\ OnLevel(s, stack, n)
      /\ Decided(new, s, n + 1) /\ IsDue(new, s, n)
      /\ \A A : SawNode(new, n, A) <=> answer \in A
      /\ answer # "Stop" => NoStop(new)
  BY VisitDecides
<1>2. stack = <<>> \/ Last(stack) \in Within(s)
  BY <1>1, LastOfStack
<1>3. CASE answer = "Stop"
  BY <1>1, <1>3, StopDecides DEF Finished
<1>4. CASE answer = "VerticalAndLateral"
  <2> DEFINE down == Append(stack, n)
  <2>1. NoStop(new) /\ SawNode(new, n, {"VerticalAndLateral"})
    BY <1>1, <1>4
  <2>2. /\ down \in Seq(Node) /\ Len(stack) \in Nat /\ Len(down) = Len(stack) + 1
        /\ down[Len(stack) + 1] = n /\ \A i \in 1 .. Len(stack) : down[i] = stack[i]
    BY <1>1 DEF StackSeen
  <2> HIDE DEF down
  <2>3. Last(down) = n /\ down # <<>>
    BY <2>2 DEF Last
  <2>4. StackSeen(new, s, down)
    <3>1. ASSUME NEW i \in 1 .. Len(down)
          PROVE  /\ down[i] \in Within(s) /\ SawNode(new, down[i], {"VerticalAndLateral"})
                 /\ tree.parent[down[i]] = IF i = 1 THEN tree.parent[s] ELSE down[i - 1]
      <4>1. CASE i = Len(down)
        <5>1. down[i] = n
          BY <2>2, <4>1
        <5>2. CASE stack = <<>>
          <6>1. i = 1
            BY <2>2, <4>1, <5>2
          <6> QED BY <1>1, <2>1, <5>1, <5>2, <6>1 DEF OnLevel
        <5>3. CASE stack # <<>>
          <6>1. i # 1 /\ i - 1 = Len(stack) /\ Len(stack) \in 1 .. Len(stack)
            BY <1>1, <2>2, <4>1, <5>3 DEF StackSeen
          <6>2. down[i - 1] = Last(stack)
            BY <2>2, <6>1 DEF Last
          <6> QED BY <1>1, <2>1, <5>1, <5>3, <6>1, <6>2 DEF OnLevel
        <5> QED BY <5>2, <5>3
      <4>2. CASE i # Len(down)
        <5>1. i \in 1 .. Len(stack) /\ (i # 1 => i - 1 \in 1 .. Len(stack))
          BY <2>2, <4>2
        <5> QED BY <1>1, <2>2, <5>1 DEF StackSeen
      <4> QED BY <4>1, <4>2
    <3> QED BY <2>2, <3>1 DEF StackSeen
  <2>5. EndOf(d, n) \in n .. Len(d) /\ n \in Nat /\ n + 1 # Null /\ Len(d) \in Nat
    BY <1>1, BelowIs, NodesAre DEF Null
  <2>6. CASE EndOf(d, n) = n
    <3>1. tree.firstChild[n] = Null
      BY <1>1, <2>5, <2>6, LinkDown
    <3>2. Limit(s, down) = n
      BY <2>3, <2>6 DEF Limit
    <3> QED BY <1>1, <1>4, <2>1, <2>4, <3>1, <3>2 DEF Looping, down
  <2>7. CASE EndOf(d, n) > n
    <3>1. tree.firstChild[n] = n + 1 /\ n + 1 \in 1 .. Len(d) /\ tree.parent[n + 1] = n
      BY <1>1, <2>7, LinkDown
    <3>2. n + 1 \in Within(s)
      <4>1. EndOf(d, n) <= EndOfRow(s) /\ EndOfRow(s) \in Nat /\ s <= n /\ s \in Nat
        BY <1>1, WithinClosed, WithinIs, WithinNode, NodesAre
      <4>2. n + 1 \in s .. EndOfRow(s)
        BY <2>5, <2>7, <4>1
      <4> QED BY <1>1, <4>2, WithinIs
    <3>3. OnLevel(s, down, n + 1)
      BY <2>3, <3>1, <3>2 DEF OnLevel
    <3>4. ASSUME NEW m \in Within(s)
          PROVE  /\ ~SawNode(new, m, {"Stop"})
                 /\ n + 1 \in Below(d, m) => SawNode(new, m, {"VerticalAndLateral"})
                 /\ m < n + 1 /\ tree.parent[m] = n => ~SawNode(new, m, {"Ascend"})
      <4>1. m \in 1 .. Len(d) /\ m \in Nat /\ m \in Node
        BY <1>1, WithinNode
      <4>2. ~SawNode(new, m, {"Stop"})
        BY <2>1, <4>1 DEF NoStop
      <4>3. n + 1 \in Below(d, m) => m = n \/ n \in Below(d, m)
        <5>1. EndOf(d, m) \in m .. Len(d) /\ \A k : k \in Below(d, m) <=> k \in m + 1 .. EndOf(d, m)
          BY <4>1, BelowIs
        <5> QED BY <2>5, <4>1, <5>1
      <4>4. n + 1 \in Below(d, m) => SawNode(new, m, {"VerticalAndLateral"})
        BY <1>1, <2>1, <4>3 DEF IsDue
      <4>5. tree.parent[m] = n => m > n
        <5> SUFFICES ASSUME tree.parent[m] = n PROVE m > n
          OBVIOUS
        <5>1. n # Null
          BY <1>1, NodesAre
        <5>2. IsParent(d, n, m)
          BY <4>1, <5>1, LinkUp
        <5> QED BY <2>5, <4>1, <5>2 DEF IsParent
      <4>6. ~(m < n + 1 /\ m > n)
        BY <2>5, <4>1
      <4> QED BY <4>2, <4>4, <4>5, <4>6
    <3>5. IsDue(new, s, n + 1)
      BY <3>1, <3>4 DEF IsDue
    <3> QED BY <1>1, <1>4, <2>1, <2>4, <2>5, <3>1, <3>3, <3>5 DEF Looping, down
  <2> QED BY <2>5, <2>6, <2>7
<1>5. CASE answer = "Lateral"
  <2>1. /\ NoStop(new) /\ ~SawNode(new, n, {"VerticalAndLateral"}) /\ ~SawNode(new, n, {"Ascend"})
    BY <1>1, <1>5
  <2>2. Decided(new, s, EndOf(d, n) + 1)
    BY <1>1, <2>1, SkipBelow
  <2>3. Looping(s, new, stack, tree.nextSibling[n])
    BY <1>1, <1>2, <2>1, <2>2, AfterSubtree
  <2> QED BY <1>5, <2>3
<1>6. CASE answer = "Ascend"
  <2>1. /\ NoStop(new) /\ ~SawNode(new, n, {"VerticalAndLateral"}) /\ SawNode(new, n, {"Ascend"})
    BY <1>1, <1>6
  <2>2. Decided(new, s, Limit(s, stack) + 1)
    BY <1>1, <1>2, <2>1, AscendDecides
  <2> QED BY <1>1, <1>6, <2>1, <2>2 DEF Looping
<1> QED BY <1>3, <1>4, <1>5, <1>6 DEF Answers

(* A round of the loop that returns to the node on top of the stack.       *)
LEMMA ReturnLoops ==
  ASSUME Complete, NEW s, NEW visits, NEW stack, Looping(s, visits, stack, Null)
  PROVE  /\ stack = <<>> => Finished(s, visits)
         /\ stack # <<>> => Looping(s, visits, Front(stack), tree.nextSibling[Last(stack)])
<1> DEFINE d == sgf.depth
<1>1. /\ s \in 1 .. Len(d) /\ Ordered(visits) /\ NoStop(visits) /\ StackSeen(visits, s, stack)
      /\ Decided(visits, s, Limit(s, stack) + 1)
  BY DEF Looping
<1>2. CASE stack = <<>>
  BY <1>1, <1>2 DEF Limit, Finished
<1>3. CASE stack # <<>>
  <2>1. PICK x : x = Last(stack)
    OBVIOUS
  <2>2. /\ x \in Within(s) /\ SawNode(visits, x, {"VerticalAndLateral"})
        /\ StackSeen(visits, s, Front(stack)) /\ OnLevel(s, Front(stack), x)
    BY <1>1, <1>3, <2>1, StackTop
  <2>3. Decided(visits, s, EndOf(d, x) + 1)
    BY <1>1, <1>3, <2>1 DEF Limit
  <2>4. x \in Node /\ x \in Nat /\ x \in 1 .. Len(d) /\ EndOf(d, x) \in Nat /\ x <= EndOf(d, x)
    <3>1. x \in Node /\ x \in Nat /\ x \in 1 .. Len(d)
      BY <1>1, <2>2, WithinNode
    <3> QED BY <3>1, BelowIs, NodesAre
  <2>5. IsDue(visits, s, x)
    <3>1. SawNode(visits, x, Answers) /\ x < EndOf(d, x) + 1
      BY <2>2, <2>4, SawMore DEF Answers
    <3> QED BY <2>2, <2>3, <3>1 DEF Decided
  <2>6. ~SawNode(visits, x, {"Ascend"})
    BY <1>1, <2>2, <2>4, OneAnswer
  <2>7. Looping(s, visits, Front(stack), tree.nextSibling[x])
    BY <1>1, <2>2, <2>3, <2>5, <2>6, AfterSubtree, LastOfStack
  <2> QED BY <1>3, <2>1, <2>7
<1> QED BY <1>2, <1>3

(* The invariant of an iteration.                                          *)
VisitInv ==
  /\ iter # Idle => Complete
  /\ iter.pc = "loop" => Looping(iter.start, iter.visits, iter.stack, iter.node)
  /\ iter.pc = "returned" => Finished(iter.start, iter.visits)

(* As long as the document is not changed, what has been visited stays as  *)
(* it is.                                                                  *)
LEMMA SameRow ==
  ASSUME NEW s, UNCHANGED <<sgf, tree, data>>
  PROVE  /\ Complete => Complete'
         /\ Within(s)' = Within(s) /\ EndOfRow(s)' = EndOfRow(s)
<1>1. Complete => Complete'
  BY DEF Complete
<1>2. Within(s)' = Within(s)
  BY DEF Within
<1>3. EndOfRow(s)' = EndOfRow(s)
  BY DEF EndOfRow
<1> QED BY <1>1, <1>2, <1>3

LEMMA SameDecided ==
  ASSUME NEW s, NEW visits, NEW f, UNCHANGED <<sgf, tree, data>>
  PROVE  /\ \A n : IsDue(visits, s, n)' <=> IsDue(visits, s, n)
         /\ Decided(visits, s, f) => Decided(visits, s, f)'
<1>1. Within(s)' = Within(s)
  BY SameRow
<1>2. ASSUME NEW n PROVE IsDue(visits, s, n)' <=> IsDue(visits, s, n)
  BY <1>1 DEF IsDue
<1>3. Decided(visits, s, f) => Decided(visits, s, f)'
  BY <1>1, <1>2 DEF Decided
<1> QED BY <1>2, <1>3

LEMMA SameFinished ==
  ASSUME NEW s, NEW visits, Finished(s, visits), UNCHANGED <<sgf, tree, data>>
  PROVE  Finished(s, visits)'
<1>1. PICK f : f = EndOfRow(s) + 1
  OBVIOUS
<1>2. s \in 1 .. Len(sgf.depth) /\ Ordered(visits) /\ Decided(visits, s, f)
  BY <1>1 DEF Finished
<1>3. Decided(visits, s, f)' /\ (EndOfRow(s) + 1)' = f /\ sgf' = sgf
  BY <1>1, <1>2, SameDecided, SameRow
<1>4. s \in (1 .. Len(sgf.depth))'
  BY <1>2, <1>3
<1>5. Decided(visits, s, EndOfRow(s) + 1)'
  BY <1>3
<1> QED BY <1>2, <1>4, <1>5 DEF Finished

LEMMA SameLooping ==
  ASSUME NEW s, NEW visits, NEW stack, NEW node, Looping(s, visits, stack, node),
         UNCHANGED <<sgf, tree, data>>
  PROVE  Looping(s, visits, stack, node)'
<1>1. /\ s \in 1 .. Len(sgf.depth) /\ Ordered(visits) /\ NoStop(visits) /\ StackSeen(visits, s, stack)
      /\ sgf' = sgf /\ tree' = tree
  BY DEF Looping
<1>2. Within(s)' = Within(s) /\ EndOfRow(s)' = EndOfRow(s)
  BY SameRow
<1>3. s \in (1 .. Len(sgf.depth))'
  BY <1>1
<1>4. StackSeen(visits, s, stack)'
  BY <1>1, <1>2 DEF StackSeen
<1>5. CASE node = Null
  <2>1. PICK f : f = Limit(s, stack) + 1
    OBVIOUS
  <2>2. Decided(visits, s, f)
    BY <1>5, <2>1 DEF Looping
  <2>3. Decided(visits, s, f)' /\ (Limit(s, stack) + 1)' = f
    BY <1>1, <1>2, <2>1, <2>2, SameDecided DEF Limit
  <2>4. Decided(visits, s, Limit(s, stack) + 1)'
    BY <2>3
  <2> QED BY <1>1, <1>3, <1>4, <1>5, <2>4 DEF Looping
<1>6. CASE node # Null
  <2>1. OnLevel(s, stack, node) /\ Decided(visits, s, node) /\ IsDue(visits, s, node)
    BY <1>6 DEF Looping
  <2>2. Decided(visits, s, node)' /\ IsDue(visits, s, node)'
    BY <2>1, SameDecided
  <2>3. OnLevel(s, stack, node)'
    BY <1>1, <1>2, <2>1 DEF OnLevel
  <2> QED BY <1>1, <1>3, <1>4, <1>6, <2>2, <2>3 DEF Looping
<1> QED BY <1>5, <1>6

LEMMA VisitKeepsVisits ==
  ASSUME IterInv, VisitInv, NEW answer \in Answers, Visit(answer)
  PROVE  VisitInv'
<1>1. PICK n : n = iter.node
  OBVIOUS
<1>2. PICK s, visits, stack : s = iter.start /\ visits = iter.visits /\ stack = iter.stack
  OBVIOUS
<1>3. PICK more : more = Append(visits, <<n, answer>>)
  OBVIOUS
<1> DEFINE visited == [iter EXCEPT !.continuation = answer, !.visits = Append(@, <<n, answer>>)]
<1>4. UNCHANGED <<sgf, tree, data>> /\ iter.pc = "loop" /\ n # Null
  BY <1>1 DEF Visit, Visiting, document
<1>5. /\ DOMAIN iter = IterFields /\ iter # Idle /\ Complete
      /\ Looping(s, visits, stack, n)
  BY <1>1, <1>2, <1>4 DEF IterInv, VisitInv, Idle
<1>6. n \in Node
  <2>1. s \in 1 .. Len(sgf.depth) /\ n \in Within(s)
    BY <1>4, <1>5 DEF Looping, OnLevel
  <2> QED BY <1>5, <2>1, WithinNode
<1>7. iter' = CASE answer = "Stop" -> [visited EXCEPT !.pc = "returned"]
                [] answer = "VerticalAndLateral" ->
                     [visited EXCEPT !.stack = Append(@, n), !.node = tree.firstChild[n]]
                [] answer = "Lateral" -> [visited EXCEPT !.node = tree.nextSibling[n]]
                [] OTHER -> [visited EXCEPT !.node = Null]
  BY <1>1 DEF Visit
<1>8. /\ DOMAIN visited = IterFields /\ visited.pc = "loop"
      /\ visited.start = s /\ visited.visits = more
      /\ visited.stack = stack /\ visited.node = n
  BY <1>1, <1>2, <1>3, <1>4, <1>5 DEF IterFields
<1> HIDE DEF visited
<1>9. /\ answer = "Stop" => Finished(s, more)
      /\ answer = "VerticalAndLateral" => Looping(s, more, Append(stack, n), tree.firstChild[n])
      /\ answer = "Lateral" => Looping(s, more, stack, tree.nextSibling[n])
      /\ answer = "Ascend" => Looping(s, more, stack, Null)
  BY <1>3, <1>5, <1>6, VisitLoops
<1>10. Complete'
  BY <1>4, <1>5, SameRow
<1>11. ASSUME NEW st, NEW next, Looping(s, more, st, next), iter'.pc = "loop",
              iter'.start = s, iter'.visits = more, iter'.stack = st, iter'.node = next
       PROVE  VisitInv'
  <2>1. Looping(s, more, st, next)'
    BY <1>4, <1>11, SameLooping
  <2>2. Looping(iter.start, iter.visits, iter.stack, iter.node)'
    BY <1>11, <2>1
  <2> QED BY <1>10, <1>11, <2>2 DEF VisitInv
<1>12. CASE answer = "Stop"
  <2>1. iter'.pc = "returned" /\ iter'.start = s /\ iter'.visits = more
    BY <1>7, <1>8, <1>12 DEF IterFields
  <2>2. Finished(s, more)'
    BY <1>4, <1>9, <1>12, SameFinished
  <2>3. Finished(iter.start, iter.visits)'
    BY <2>1, <2>2
  <2> QED BY <1>10, <2>1, <2>3 DEF VisitInv
<1>13. CASE answer = "VerticalAndLateral"
  <2>1. /\ iter'.pc = "loop" /\ iter'.start = s /\ iter'.visits = more
        /\ iter'.stack = Append(stack, n) /\ iter'.node = tree.firstChild[n]
    BY <1>7, <1>8, <1>13 DEF IterFields
  <2> QED BY <1>9, <1>11, <1>13, <2>1
<1>14. CASE answer = "Lateral"
  <2>1. /\ iter'.pc = "loop" /\ iter'.start = s /\ iter'.visits = more
        /\ iter'.stack = stack /\ iter'.node = tree.nextSibling[n]
    BY <1>7, <1>8, <1>14 DEF IterFields
  <2> QED BY <1>9, <1>11, <1>14, <2>1
<1>15. CASE answer = "Ascend"
  <2>1. /\ iter'.pc = "loop" /\ iter'.start = s /\ iter'.visits = more
        /\ iter'.stack = stack /\ iter'.node = Null
    BY <1>7, <1>8, <1>15 DEF IterFields
  <2> QED BY <1>9, <1>11, <1>15, <2>1
<1> QED BY <1>12, <1>13, <1>14, <1>15 DEF Answers

LEMMA ReturnKeepsVisits ==
  ASSUME IterInv, VisitInv, ReturnToParent
  PROVE  VisitInv'
<1>1. PICK s, visits, stack : s = iter.start /\ visits = iter.visits /\ stack = iter.stack
  OBVIOUS
<1>2. /\ UNCHANGED <<sgf, tree, data>> /\ iter.pc = "loop" /\ iter.node = Null
      /\ iter' = IF stack = <<>> THEN [iter EXCEPT !.pc = "returned"]
                 ELSE [iter EXCEPT !.node = tree.nextSibling[Last(stack)], !.stack = Front(stack)]
  BY <1>1 DEF ReturnToParent, Visiting, document
<1>3. DOMAIN iter = IterFields /\ Complete /\ Looping(s, visits, stack, Null)
  BY <1>1, <1>2 DEF IterInv, VisitInv, Idle
<1>4. /\ stack = <<>> => Finished(s, visits)
      /\ stack # <<>> => Looping(s, visits, Front(stack), tree.nextSibling[Last(stack)])
  BY <1>3, ReturnLoops
<1>5. Complete'
  BY <1>2, <1>3, SameRow
<1>6. CASE stack = <<>>
  <2>1. iter'.pc = "returned" /\ iter'.start = s /\ iter'.visits = visits
    BY <1>1, <1>2, <1>3, <1>6 DEF IterFields
  <2>2. Finished(s, visits)'
    BY <1>2, <1>4, <1>6, SameFinished
  <2>3. Finished(iter.start, iter.visits)'
    BY <2>1, <2>2
  <2> QED BY <1>5, <2>1, <2>3 DEF VisitInv
<1>7. CASE stack # <<>>
  <2>1. PICK st, next : st = Front(stack) /\ next = tree.nextSibling[Last(stack)]
    OBVIOUS
  <2>2. /\ iter'.pc = "loop" /\ iter'.start = s /\ iter'.visits = visits
        /\ iter'.stack = st /\ iter'.node = next
    BY <1>1, <1>2, <1>3, <1>7, <2>1 DEF IterFields
  <2>3. Looping(s, visits, st, next)'
    BY <1>2, <1>4, <1>7, <2>1, SameLooping
  <2>4. Looping(iter.start, iter.visits, iter.stack, iter.node)'
    BY <2>2, <2>3
  <2> QED BY <1>5, <2>2, <2>4 DEF VisitInv
<1> QED BY <1>6, <1>7

LEMMA StartKeepsVisits ==
  ASSUME ReadInv, NEW start \in Node, IterateOverNodesDepthFirst(start)
  PROVE  VisitInv'
<1>1. /\ UNCHANGED <<sgf, tree, data>> /\ parser.pc = "read" /\ data[start] # "none"
      /\ iter' = [pc |-> "loop", start |-> start, node |-> start, stack |-> <<>>,
                  continuation |-> "VerticalAndLateral", visits |-> <<>>]
  BY DEF IterateOverNodesDepthFirst, Visiting, document
<1>2. Complete /\ start \in 1 .. Len(sgf.depth)
  <2>1. sgf \in SgfcResults /\ AfterReading
    BY <1>1 DEF ReadInv, IsReadOver
  <2>2. Deep(sgf.depth) /\ Len(sgf.depth) \in 1 .. MaxNode
    BY <2>1, SgfFacts
  <2> QED BY <1>1, <2>1, <2>2 DEF AfterReading, Complete
<1>3. Looping(start, <<>>, <<>>, start)'
  BY <1>1, <1>2, BeginsLooping, SameLooping
<1>4. Complete'
  BY <1>1, <1>2, SameRow
<1>5. /\ iter'.pc = "loop" /\ iter'.start = start /\ iter'.node = start
      /\ iter'.stack = <<>> /\ iter'.visits = <<>>
  BY <1>1
<1>6. Looping(iter.start, iter.visits, iter.stack, iter.node)'
  BY <1>3, <1>5
<1> QED BY <1>4, <1>5, <1>6 DEF VisitInv

LEMMA OthersKeepVisits ==
  ASSUME VisitInv, UNCHANGED <<sgf, tree, data, iter>>
  PROVE  VisitInv'
<1>1. PICK s, visits, stack, node :
        s = iter.start /\ visits = iter.visits /\ stack = iter.stack /\ node = iter.node
  OBVIOUS
<1>2. Complete => Complete'
  BY SameRow
<1>3. Looping(s, visits, stack, node) => Looping(s, visits, stack, node)'
  BY SameLooping
<1>4. Finished(s, visits) => Finished(s, visits)'
  BY SameFinished
<1>5. /\ iter'.start = s /\ iter'.visits = visits /\ iter'.stack = stack /\ iter'.node = node
      /\ iter' = iter /\ iter'.pc = iter.pc
  BY <1>1
<1>6. Looping(s, visits, stack, node)' => Looping(iter.start, iter.visits, iter.stack, iter.node)'
  BY <1>5
<1>7. Finished(s, visits)' => Finished(iter.start, iter.visits)'
  BY <1>5
<1> QED BY <1>1, <1>2, <1>3, <1>4, <1>5, <1>6, <1>7 DEF VisitInv

LEMMA IdleHasNoVisits == ASSUME iter = Idle PROVE VisitInv
BY DEF VisitInv, Idle

(* A finished iteration has visited what its answers ask for.              *)
LEMMA FinishedAsRequested == IterInv /\ VisitInv => VisitsAreRequested
<1> SUFFICES ASSUME IterInv, VisitInv, iter.pc = "returned" PROVE VisitsAreRequested
  BY DEF VisitsAreRequested
<1>1. PICK s, visits : s = iter.start /\ visits = iter.visits
  OBVIOUS
<1>2. Complete /\ Finished(s, visits)
  BY <1>1 DEF VisitInv, Idle
<1>3. s \in 1 .. Len(sgf.depth) /\ Ordered(visits) /\ Decided(visits, s, EndOfRow(s) + 1)
  BY <1>2 DEF Finished
<1>4. EndOfRow(s) \in Nat
  BY <1>2, <1>3, WithinIs, NodesAre
<1>5. ASSUME NEW n \in Node
      PROVE  SawNode(visits, n, Answers) <=> n \in Within(s) /\ IsDue(visits, s, n)
  <2>1. n \in Within(s) => n < EndOfRow(s) + 1
    <3> SUFFICES ASSUME n \in Within(s) PROVE n < EndOfRow(s) + 1
      OBVIOUS
    <3>1. n \in Nat /\ n <= EndOfRow(s)
      BY <1>2, <1>3, WithinNode
    <3> QED BY <1>4, <3>1
  <2> QED BY <1>3, <2>1 DEF Decided
<1>6. \A i, j \in DOMAIN visits : i < j => visits[i][1] < visits[j][1]
  BY <1>3 DEF Ordered
<1>7. \A i, j \in DOMAIN iter.visits : i < j => iter.visits[i][1] < iter.visits[j][1]
  BY <1>1, <1>6
<1>8. ASSUME NEW n \in Node
      PROVE  SawNode(iter.visits, n, Answers) = (n \in Within(iter.start) /\ IsDue(iter.visits, iter.start, n))
  <2>1. SawNode(visits, n, Answers) \in BOOLEAN /\ IsDue(visits, s, n) \in BOOLEAN
    BY DEF SawNode, IsDue
  <2> QED BY <1>1, <1>5, <2>1
<1> QED BY <1>7, <1>8, Zenon DEF VisitsAreRequested, SawNode, IsDue

-----------------------------------------------------------------------------
(* The content that is written.  The next sibling of a node has siblings   *)
(* as well: its previous sibling is found among the children.              *)

LEMMA PreviousExists ==
  ASSUME Complete, NEW n \in 1 .. Len(sgf.depth), tree.parent[n] # Null, n # tree.parent[n] + 1
  PROVE  \E m \in tree.parent[n] + 1 .. n - 1 :
           tree.parent[m] = tree.parent[n] /\ tree.nextSibling[m] = n
<1> DEFINE d == sgf.depth
<1>1. PICK q : q = tree.parent[n]
  OBVIOUS
<1>2. /\ IsParent(d, q, n) /\ q \in 1 .. Len(d) /\ n \in q + 1 .. EndOf(d, q)
      /\ Deep(d) /\ Len(d) \in Nat /\ \A j \in 1 .. Len(d) : j \in Nat /\ d[j] \in Nat
  BY <1>1, LinkUp, NodesAre DEF Complete
<1>3. EndOf(d, q) \in q .. Len(d)
  BY <1>2, BelowIs
<1>4. n - 1 \in q + 1 .. EndOf(d, q)
  BY <1>1, <1>2, <1>3
<1>5. PICK m \in q + 1 .. n - 1 : IsParent(d, q, m) /\ m \in 1 .. Len(d) /\ n - 1 <= EndOf(d, m)
  BY <1>2, <1>4, ChildAbove
<1>6. d[m] = d[q] + 1 /\ d[n] = d[q] + 1
  BY <1>2, <1>5 DEF IsParent
<1>7. /\ EndOf(d, m) \in m .. Len(d)
      /\ \A j \in m + 1 .. EndOf(d, m) : d[j] > d[m]
  BY <1>2, <1>5, BelowInterval
<1>8. EndOf(d, m) = n - 1
  <2>1. ~(n <= EndOf(d, m))
    <3> SUFFICES ASSUME n <= EndOf(d, m) PROVE FALSE
      OBVIOUS
    <3>1. n \in m + 1 .. EndOf(d, m)
      BY <1>2, <1>5, <1>7
    <3>2. d[n] > d[m]
      BY <1>7, <3>1
    <3>3. d[n] \in Nat /\ d[m] \in Nat /\ d[n] = d[m]
      BY <1>2, <1>5, <1>6
    <3> QED BY <3>2, <3>3
  <2>2. EndOf(d, m) \in Nat /\ n \in Nat
    BY <1>2, <1>5, <1>7
  <2> QED BY <1>5, <2>1, <2>2
<1>9. tree.parent[m] = q
  <2>1. SgfParent(d, m) = q
    BY <1>2, <1>5, ParentUnique
  <2>2. m \in Node
    BY <1>5, NodesAre
  <2> QED BY <1>5, <2>1, <2>2 DEF Complete, ParsedTree
<1>10. tree.nextSibling[m] = n
  <2>1. tree.nextSibling[m] # Null
    <3>1. EndOf(d, q) # EndOf(d, m)
      BY <1>2, <1>3, <1>8
    <3> QED BY <1>1, <1>5, <1>9, <3>1, LinkOn
  <2>2. tree.nextSibling[m] = EndOf(d, m) + 1
    BY <1>5, <2>1, LinkOn
  <2> QED BY <1>2, <1>8, <2>2
<1> QED BY <1>1, <1>5, <1>9, <1>10

(* GetChildren of a node meets all nodes whose parent it is.               *)
LEMMA ChildrenMet ==
  ASSUME Complete, NEW n \in 1 .. Len(sgf.depth), tree.parent[n] # Null
  PROVE  n \in Builder!ChildrenOf(tree, tree.parent[n])
<1> DEFINE d == sgf.depth
<1>1. PICK q : q = tree.parent[n]
  OBVIOUS
<1>2. /\ q \in 1 .. Len(d) /\ n \in q + 1 .. EndOf(d, q) /\ EndOf(d, q) \in q .. Len(d)
      /\ Len(d) \in Nat /\ \A j \in 1 .. Len(d) : j \in Nat /\ j \in Node
  BY <1>1, LinkUp, BelowIs, NodesAre
<1>3. tree.firstChild[q] = q + 1 /\ q + 1 \in 1 .. Len(d)
  BY <1>2, LinkDown
<1>4. PICK W : W = Builder!ChildrenOf(tree, q)
  OBVIOUS
<1>5. q + 1 \in W /\ \A m \in W : tree.nextSibling[m] \in Node => tree.nextSibling[m] \in W
  BY <1>2, <1>3, <1>4, WalkVisits DEF Builder!ChildrenOf
<1> DEFINE Missed == {m \in 1 .. Len(d) : tree.parent[m] = q /\ m \notin W}
<1>6. Missed = {}
  <2> SUFFICES ASSUME Missed # {} PROVE FALSE
    OBVIOUS
  <2>1. PICK m \in Missed : \A j \in Missed : m <= j
    <3>1. Missed \subseteq Nat
      OBVIOUS
    <3> HIDE DEF Missed
    <3> QED BY <3>1, LeastNumber
  <2>2. m \in 1 .. Len(d) /\ tree.parent[m] = q /\ m # q + 1 /\ q # Null
    BY <1>1, <1>5, <2>1
  <2>3. PICK k \in q + 1 .. m - 1 : tree.parent[k] = q /\ tree.nextSibling[k] = m
    BY <2>2, PreviousExists
  <2>4. k \in 1 .. Len(d) /\ k < m
    BY <1>2, <2>2, <2>3
  <2>5. k \in W
    <3>1. k \notin Missed
      <4>1. ~(m <= k)
        BY <1>2, <2>2, <2>4
      <4> HIDE DEF Missed
      <4> QED BY <2>1, <4>1
    <3> QED BY <2>3, <2>4, <3>1
  <2>6. m \in W
    BY <1>2, <1>5, <2>2, <2>3, <2>5
  <2> QED BY <2>1, <2>6
<1> QED BY <1>1, <1>4, <1>6

LEMMA NextHasSiblings ==
  ASSUME ReadInv, parser.pc = "read", NEW n \in Node, tree.nextSibling[n] # Null
  PROVE  HasSiblings(tree.nextSibling[n])
<1>1. sgf \in SgfcResults /\ AfterReading
  BY DEF ReadInv, IsReadOver
<1>2. Deep(sgf.depth) /\ Len(sgf.depth) \in 1 .. MaxNode
  BY <1>1, SgfFacts
<1>3. tree # NoTree
  BY DEF NoTree, NoLinks
<1>4. Complete
  BY <1>1, <1>2, <1>3 DEF AfterReading, Complete
<1>5. n \in 1 .. Len(sgf.depth)
  BY <1>4 DEF Complete, ParsedTree
<1>6. PICK s : s = tree.nextSibling[n]
  OBVIOUS
<1>7. PICK q : q = tree.parent[n]
  OBVIOUS
<1>8. /\ s = EndOf(sgf.depth, n) + 1 /\ s \in 1 .. Len(sgf.depth)
      /\ tree.parent[s] = q /\ q # Null
  BY <1>4, <1>5, <1>6, <1>7, LinkOn
<1>9. tree.firstChild[q] # s
  <2>1. q \in 1 .. Len(sgf.depth) /\ n \in q + 1 .. EndOf(sgf.depth, q)
    BY <1>4, <1>5, <1>7, <1>8, LinkUp
  <2>2. /\ EndOf(sgf.depth, n) \in n .. Len(sgf.depth)
        /\ EndOf(sgf.depth, q) \in q .. Len(sgf.depth)
        /\ Len(sgf.depth) \in Nat
    BY <1>4, <1>5, <2>1, BelowIs, NodesAre
  <2>3. tree.firstChild[q] = q + 1
    BY <1>4, <2>1, <2>2, LinkDown
  <2> QED BY <1>8, <2>1, <2>2, <2>3
<1>10. n \in Builder!ChildrenOf(tree, q)
  BY <1>4, <1>5, <1>7, <1>8, ChildrenMet
<1> DEFINE previous == {c \in Builder!ChildrenOf(tree, q) : tree.nextSibling[c] = s}
<1>11. n \in previous /\ \A c \in previous : c # Null
  <2>1. Builder!ChildrenOf(tree, q) \subseteq Node
    BY DEF Builder!ChildrenOf, Builder!Walk
  <2> QED BY <1>6, <1>10, <2>1 DEF Node, Null
<1>12. Builder!GetPreviousSibling(tree, s) = Builder!OneOf(previous)
  BY <1>8, <1>9 DEF Builder!GetPreviousSibling, Builder!IsRoot
<1>13. Builder!OneOf(previous) # Null
  <2> HIDE DEF previous
  <2> QED BY <1>11 DEF Builder!OneOf
<1> QED BY <1>6, <1>12, <1>13 DEF HasSiblings

(* Tokens, and how many of them there are among the first i.               *)
Tokens == [token : {"(", ")", ";"}, node : NodeOrNull, level : Nat]

Of(out, i, kind) == {j \in 1 .. i : out[j].token = kind}
Starts(out, i) == {j \in 1 .. i : out[j] = GameTreeToken("(", 0)[1]}

Opens(out, i) == Cardinality(Of(out, i, "("))
Closes(out, i) == Cardinality(Of(out, i, ")"))
Begun(out, i) == Cardinality(Starts(out, i))

(* Token i stands where it may, behind token i - 1.                        *)
Follows(out, i) ==
  /\ out[i - 1].token = "(" =>
       (out[i].token = "(") = (out[i - 1].level = 0 /\ HasSiblings(roots[games[Begun(out, i)]]))
  /\ out[i - 1].token = ")" => out[i].token \in {"(", ")"}

TokenFits(out, i) ==
  /\ Closes(out, i) <= Opens(out, i)
  /\ out[i].level = Opens(out, i) - Closes(out, i) - IF out[i].token = "(" THEN 1 ELSE 0
  /\ i > 1 => Follows(out, i)

Fits(out) == out \in Seq(Tokens) /\ \A i \in 1 .. Len(out) : TokenFits(out, i)

LEMMA TokenSets ==
  ASSUME NEW out, NEW i \in Nat, NEW kind
  PROVE  /\ IsFiniteSet(Of(out, i, kind)) /\ Cardinality(Of(out, i, kind)) \in Nat
         /\ IsFiniteSet(Starts(out, i)) /\ Cardinality(Starts(out, i)) \in Nat
<1>1. IsFiniteSet(1 .. i)
  BY FS_Interval
<1>2. Of(out, i, kind) \in SUBSET (1 .. i) /\ Starts(out, i) \in SUBSET (1 .. i)
  BY DEF Of, Starts
<1>3. IsFiniteSet(Of(out, i, kind)) /\ IsFiniteSet(Starts(out, i))
  BY <1>1, <1>2, FS_Subset
<1> QED BY <1>3, FS_CardinalityType

(* A token is added: what is counted up to the others stays.               *)
Added(out, t, new) ==
  /\ new \in Seq(Tokens) /\ Len(new) = Len(out) + 1 /\ new[Len(out) + 1] = t
  /\ \A i \in 1 .. Len(out) :
       /\ new[i] = out[i] /\ Opens(new, i) = Opens(out, i)
       /\ Closes(new, i) = Closes(out, i) /\ Begun(new, i) = Begun(out, i)
  /\ Opens(new, Len(new)) = IF t.token = "(" THEN Opens(out, Len(out)) + 1 ELSE Opens(out, Len(out))
  /\ Closes(new, Len(new)) = IF t.token = ")" THEN Closes(out, Len(out)) + 1 ELSE Closes(out, Len(out))
  /\ Begun(new, Len(new)) =
       IF t = GameTreeToken("(", 0)[1] THEN Begun(out, Len(out)) + 1 ELSE Begun(out, Len(out))

LEMMA OneTokenMore ==
  ASSUME NEW out \in Seq(Tokens), NEW t \in Tokens, NEW new, new = Append(out, t)
  PROVE  Added(out, t, new)
<1> DEFINE n == Len(out)
<1>1. /\ n \in Nat /\ new \in Seq(Tokens) /\ Len(new) = n + 1 /\ new[n + 1] = t
      /\ \A i \in 1 .. n : new[i] = out[i]
  OBVIOUS
<1> HIDE DEF n
<1>2. ASSUME NEW i \in 0 .. n, NEW kind
      PROVE  Of(new, i, kind) = Of(out, i, kind) /\ Starts(new, i) = Starts(out, i)
  <2>1. \A j \in 1 .. i : new[j] = out[j]
    BY <1>1
  <2> QED BY <2>1 DEF Of, Starts
<1>3. ASSUME NEW kind
      PROVE  Cardinality(Of(new, n + 1, kind)) =
               IF t.token = kind THEN Cardinality(Of(out, n, kind)) + 1 ELSE Cardinality(Of(out, n, kind))
  <2>1. Of(new, n + 1, kind) = IF t.token = kind THEN Of(out, n, kind) \cup {n + 1} ELSE Of(out, n, kind)
    <3>1. \A j : j \in 1 .. n + 1 <=> j \in 1 .. n \/ j = n + 1
      BY <1>1
    <3>2. \A j : j \in Of(new, n + 1, kind) <=> j \in Of(out, n, kind) \/ (j = n + 1 /\ t.token = kind)
      BY <1>1, <3>1 DEF Of
    <3> QED BY <3>2
  <2>2. n + 1 \notin Of(out, n, kind)
    BY <1>1 DEF Of
  <2>3. /\ IsFiniteSet(Of(out, n, kind)) /\ Cardinality(Of(out, n, kind)) \in Nat
    BY <1>1, TokenSets
  <2>4. Cardinality(Of(out, n, kind) \cup {n + 1}) = Cardinality(Of(out, n, kind)) + 1
    BY <2>2, <2>3, FS_AddElement
  <2> QED BY <2>1, <2>3, <2>4
<1>4. Cardinality(Starts(new, n + 1)) =
        IF t = GameTreeToken("(", 0)[1] THEN Cardinality(Starts(out, n)) + 1 ELSE Cardinality(Starts(out, n))
  <2> DEFINE begin == GameTreeToken("(", 0)[1]
  <2>1. Starts(new, n + 1) = IF t = begin THEN Starts(out, n) \cup {n + 1} ELSE Starts(out, n)
    <3> HIDE DEF begin
    <3>1. \A j : j \in 1 .. n + 1 <=> j \in 1 .. n \/ j = n + 1
      BY <1>1
    <3>2. \A j : j \in Starts(new, n + 1) <=> j \in Starts(out, n) \/ (j = n + 1 /\ t = begin)
      BY <1>1, <3>1 DEF Starts, begin
    <3> QED BY <3>2
  <2>2. n + 1 \notin Starts(out, n)
    BY <1>1 DEF Starts
  <2>3. IsFiniteSet(Starts(out, n)) /\ Cardinality(Starts(out, n)) \in Nat
    BY <1>1, TokenSets
  <2>4. Cardinality(Starts(out, n) \cup {n + 1}) = Cardinality(Starts(out, n)) + 1
    BY <2>2, <2>3, FS_AddElement
  <2> QED BY <2>1, <2>3, <2>4
<1>5. \A i \in 1 .. n : /\ new[i] = out[i] /\ Opens(new, i) = Opens(out, i)
                        /\ Closes(new, i) = Closes(out, i) /\ Begun(new, i) = Begun(out, i)
  BY <1>1, <1>2 DEF Opens, Closes, Begun
<1>6. /\ Opens(new, n + 1) = IF t.token = "(" THEN Opens(out, n) + 1 ELSE Opens(out, n)
      /\ Closes(new, n + 1) = IF t.token = ")" THEN Closes(out, n) + 1 ELSE Closes(out, n)
      /\ Begun(new, n + 1) =
           IF t = GameTreeToken("(", 0)[1] THEN Begun(out, n) + 1 ELSE Begun(out, n)
  BY <1>3, <1>4 DEF Opens, Closes, Begun
<1> QED BY <1>1, <1>5, <1>6 DEF Added, n

(* So many parentheses are open at the end, and so many games begun.       *)
Counts(out, open, game) ==
  /\ Opens(out, Len(out)) - Closes(out, Len(out)) = open
  /\ Begun(out, Len(out)) = game

GameAfter(t, game) == IF t = GameTreeToken("(", 0)[1] THEN game + 1 ELSE game
OpenAfter(t, open) == IF t.token = "(" THEN open + 1 ELSE IF t.token = ")" THEN open - 1 ELSE open

(* The last token, if there is one, is of this kind.                       *)
Ends(out, kind) == out # <<>> /\ out[Len(out)].token = kind

(* A token that fits behind the others.                                    *)
MayFollow(out, t, open, game) ==
  /\ t.level = IF t.token = ")" THEN open - 1 ELSE open
  /\ Ends(out, "(") =>
       (t.token = "(") = (out[Len(out)].level = 0 /\ HasSiblings(roots[games[GameAfter(t, game)]]))
  /\ Ends(out, ")") => t.token # ";"

LEMMA TokenAdded ==
  ASSUME NEW out, Fits(out), NEW open \in Nat, NEW game \in Nat, Counts(out, open, game),
         NEW t \in Tokens, NEW new, new = Append(out, t),
         MayFollow(out, t, open, game)
  PROVE  /\ Fits(new) /\ new[Len(new)] = t /\ new # <<>>
         /\ Counts(new, OpenAfter(t, open), GameAfter(t, game))
<1> DEFINE n == Len(out)
           begun == GameAfter(t, game)
<1>1. /\ out \in Seq(Tokens) /\ n \in Nat
      /\ \A i \in 1 .. n : TokenFits(out, i)
  BY DEF Fits
<1>2. Added(out, t, new)
  BY <1>1, OneTokenMore
<1>3. /\ new \in Seq(Tokens) /\ Len(new) = n + 1 /\ new[n + 1] = t
      /\ \A i \in 1 .. n :
              /\ new[i] = out[i] /\ Opens(new, i) = Opens(out, i)
              /\ Closes(new, i) = Closes(out, i) /\ Begun(new, i) = Begun(out, i)
  BY <1>2 DEF Added
<1>4. PICK o \in Nat, c \in Nat : o = Opens(out, n) /\ c = Closes(out, n) /\ o - c = open
  BY <1>1, TokenSets DEF Opens, Closes, Counts
<1>5. t.token \in {"(", ")", ";"} /\ t.level \in Nat
  BY DEF Tokens
<1>6. out = <<>> <=> n = 0
  BY <1>1
<1>7. n > 0 => Ends(out, out[n].token)
  BY <1>6 DEF Ends
<1>8. /\ Ends(out, "(") =>
           (t.token = "(") = (out[n].level = 0 /\ HasSiblings(roots[games[begun]]))
      /\ Ends(out, ")") => t.token # ";"
      /\ t.level = IF t.token = ")" THEN open - 1 ELSE open
  BY DEF MayFollow
<1> HIDE DEF n
<1>9. /\ Opens(new, n + 1) = IF t.token = "(" THEN o + 1 ELSE o
      /\ Closes(new, n + 1) = IF t.token = ")" THEN c + 1 ELSE c
  BY <1>2, <1>3, <1>4 DEF Added, n
<1>10. /\ Closes(new, n + 1) <= Opens(new, n + 1)
       /\ t.level = Opens(new, n + 1) - Closes(new, n + 1) - IF t.token = "(" THEN 1 ELSE 0
       /\ Opens(new, n + 1) - Closes(new, n + 1) = OpenAfter(t, open)
  <2>1. CASE t.token = "("
    <3>1. Opens(new, n + 1) = o + 1 /\ Closes(new, n + 1) = c /\ t.level = open /\ OpenAfter(t, open) = open + 1
      BY <1>8, <1>9, <2>1 DEF OpenAfter
    <3> QED BY <1>4, <2>1, <3>1
  <2>2. CASE t.token = ")"
    <3>1. /\ Opens(new, n + 1) = o /\ Closes(new, n + 1) = c + 1 /\ t.level = open - 1
          /\ OpenAfter(t, open) = open - 1 /\ t.token # "("
      BY <1>8, <1>9, <2>2 DEF OpenAfter
    <3>4. PICK level \in Nat : level = open - 1
      BY <1>5, <3>1, Zenon
    <3>2. open >= 1
      BY <3>4
    <3>3. c + 1 <= o /\ open - 1 = o - (c + 1) - 0 /\ o - (c + 1) = open - 1
      BY <1>4, <3>2
    <3> QED BY <3>1, <3>3
  <2>3. CASE t.token = ";"
    <3>1. /\ Opens(new, n + 1) = o /\ Closes(new, n + 1) = c /\ t.level = open
          /\ OpenAfter(t, open) = open /\ t.token # "("
      BY <1>8, <1>9, <2>3 DEF OpenAfter
    <3> QED BY <1>4, <3>1
  <2> QED BY <1>5, <2>1, <2>2, <2>3
<1>11. Begun(new, n + 1) = begun
  <2>1. Begun(new, n + 1) = IF t = GameTreeToken("(", 0)[1] THEN Begun(out, n) + 1 ELSE Begun(out, n)
    BY <1>2, <1>3 DEF Added, n
  <2>2. Begun(out, n) = game
    BY DEF Counts, n
  <2> QED BY <2>1, <2>2 DEF GameAfter
<1> HIDE DEF begun
<1>12. ASSUME NEW i \in 1 .. n PROVE TokenFits(new, i)
  <2>1. TokenFits(out, i)
    BY <1>1
  <2>2. i > 1 => i - 1 \in 1 .. n /\ new[i - 1] = out[i - 1]
    BY <1>1, <1>3
  <2>3. i > 1 => Follows(new, i)
    BY <1>3, <2>1, <2>2 DEF TokenFits, Follows
  <2> QED BY <1>3, <2>1, <2>3 DEF TokenFits
<1>13. TokenFits(new, n + 1)
  <2>1. Closes(new, n + 1) <= Opens(new, n + 1)
    BY <1>10
  <2>2. new[n + 1].level = Opens(new, n + 1) - Closes(new, n + 1) - IF new[n + 1].token = "(" THEN 1 ELSE 0
    BY <1>3, <1>10
  <2>3. n + 1 > 1 => Follows(new, n + 1)
    <3> SUFFICES ASSUME n + 1 > 1 PROVE Follows(new, n + 1)
      OBVIOUS
    <3>1. n > 0 /\ (n + 1) - 1 = n /\ n \in 1 .. n
      BY <1>1
    <3>2. new[(n + 1) - 1] = out[n] /\ Ends(out, out[n].token)
      BY <1>3, <1>7, <3>1
    <3> QED BY <1>3, <1>5, <1>8, <1>11, <3>1, <3>2 DEF Follows
  <2> QED BY <2>1, <2>2, <2>3 DEF TokenFits
<1>14. Fits(new)
  <2>1. \A i \in 1 .. n + 1 : i \in 1 .. n \/ i = n + 1
    BY <1>1
  <2> QED BY <1>3, <1>12, <1>13, <2>1 DEF Fits
<1>15. new # <<>>
  <2>1. Len(new) # 0
    BY <1>1, <1>3
  <2> QED BY <2>1
<1>16. Counts(new, OpenAfter(t, open), begun)
  BY <1>3, <1>11, <1>10 DEF Counts
<1> QED BY <1>3, <1>14, <1>15, <1>16 DEF n, begun

-----------------------------------------------------------------------------
(* The invariant of writing.                                               *)

(* As many parentheses are open as the stack has nodes with siblings, and  *)
(* that of the game.                                                       *)
InGame(out, stack, node, game, level) ==
  /\ Counts(out, level, game) /\ out # <<>>
  /\ level = 1 + Cardinality({i \in 1 .. Len(stack) : HasSiblings(stack[i])})
  /\ Ends(out, "(") =>
       stack = <<>> /\ node # Null /\ node = roots[games[game]] /\ out[Len(out)].level = 0
  /\ Ends(out, ")") => node = Null \/ HasSiblings(node)

BetweenTrees(out, game) ==
  /\ Counts(out, 0, game - 1)
  /\ out = <<>> \/ Ends(out, ")")

OutputInv ==
  writer # Idle =>
    /\ Fits(writer.out)
    /\ writer.pc = "tree" =>
         InGame(writer.out, writer.stack, writer.node, writer.game, writer.level)
    /\ writer.pc \in {"game", "returned"} => BetweenTrees(writer.out, writer.game)

(* The nodes with siblings on the stack.                                   *)
LEMMA PushedSiblings ==
  ASSUME NEW stack \in Seq(Node), NEW n \in Node
  PROVE  Cardinality({i \in 1 .. Len(Append(stack, n)) : HasSiblings(Append(stack, n)[i])}) =
           IF HasSiblings(n) THEN Cardinality({i \in 1 .. Len(stack) : HasSiblings(stack[i])}) + 1
           ELSE Cardinality({i \in 1 .. Len(stack) : HasSiblings(stack[i])})
<1> DEFINE new == Append(stack, n)
           len == Len(stack)
           S == {i \in 1 .. len : HasSiblings(stack[i])}
           T == {i \in 1 .. Len(new) : HasSiblings(new[i])}
<1>1. len \in Nat /\ Len(new) = len + 1 /\ new[len + 1] = n /\ \A i \in 1 .. len : new[i] = stack[i]
  OBVIOUS
<1> HIDE DEF new, len
<1>2. \A i : i \in 1 .. len + 1 <=> i \in 1 .. len \/ i = len + 1
  BY <1>1
<1>3. T = IF HasSiblings(n) THEN S \cup {len + 1} ELSE S
  BY <1>1, <1>2
<1>4. len + 1 \notin S /\ S \in SUBSET (1 .. len)
  BY <1>1
<1>5. IsFiniteSet(S)
  <2>1. IsFiniteSet(1 .. len)
    BY <1>1, FS_Interval
  <2> HIDE DEF S
  <2> QED BY <1>4, <2>1, FS_Subset
<1>6. Cardinality(S \cup {len + 1}) = Cardinality(S) + 1
  <2> HIDE DEF S
  <2> QED BY <1>4, <1>5, FS_AddElement
<1>7. Cardinality(T) = IF HasSiblings(n) THEN Cardinality(S) + 1 ELSE Cardinality(S)
  BY <1>3, <1>6
<1> QED BY <1>7 DEF new, len

LEMMA CountedSiblings ==
  ASSUME NEW stack \in Seq(Node)
  PROVE  Cardinality({i \in 1 .. Len(stack) : HasSiblings(stack[i])}) \in Nat
<1> DEFINE S == {i \in 1 .. Len(stack) : HasSiblings(stack[i])}
<1>1. IsFiniteSet(1 .. Len(stack)) /\ S \in SUBSET (1 .. Len(stack))
  BY FS_Interval
<1> HIDE DEF S
<1>2. IsFiniteSet(S)
  BY <1>1, FS_Subset
<1>3. Cardinality(S) \in Nat
  BY <1>2, FS_CardinalityType
<1> QED BY <1>3 DEF S

LEMMA FrontAndLast ==
  ASSUME NEW stack \in Seq(Node), stack # <<>>
  PROVE  /\ Front(stack) \in Seq(Node) /\ Last(stack) \in Node
         /\ stack = Append(Front(stack), Last(stack))
<1> DEFINE f == Front(stack)
           l == Last(stack)
<1>1. /\ f \in Seq(Node) /\ Len(f) = Len(stack) - 1 /\ l \in Node /\ l = stack[Len(stack)]
      /\ \A i \in 1 .. Len(stack) - 1 : f[i] = stack[i]
  BY FrontFacts DEF Last
<1> HIDE DEF f, l
<1>2. Len(stack) \in Nat /\ Len(stack) # 0
  OBVIOUS
<1>3. /\ Append(f, l) \in Seq(Node) /\ Len(Append(f, l)) = Len(stack)
      /\ \A i \in 1 .. Len(f) : Append(f, l)[i] = f[i]
      /\ Append(f, l)[Len(f) + 1] = l
  BY <1>1, <1>2
<1>4. \A i \in 1 .. Len(stack) : stack[i] = Append(f, l)[i]
  <2>1. \A i \in 1 .. Len(stack) : i \in 1 .. Len(f) \/ i = Len(f) + 1
    BY <1>1, <1>2
  <2>2. Len(f) + 1 = Len(stack)
    BY <1>1, <1>2
  <2> QED BY <1>1, <1>3, <2>1, <2>2
<1>5. stack = Append(f, l)
  BY <1>3, <1>4, SeqEqual
<1> QED BY <1>1, <1>5 DEF f, l

(* Begin, node and end of a tree are tokens.                               *)
LEMMA GameTokenIs ==
  ASSUME NEW level \in Nat, NEW kind \in {"(", ")"}
  PROVE  /\ GameTreeToken(kind, level) = <<GameTreeToken(kind, level)[1]>>
         /\ GameTreeToken(kind, level)[1] \in Tokens
         /\ GameTreeToken(kind, level)[1].token = kind
         /\ GameTreeToken(kind, level)[1].level = level
BY DEF GameTreeToken, Tokens, NodeOrNull

LEMMA NodeTokenIs ==
  ASSUME NEW n \in Node, NEW level \in Nat
  PROVE  /\ NodeToken(n, level) = <<NodeToken(n, level)[1]>>
         /\ NodeToken(n, level)[1] \in Tokens
         /\ NodeToken(n, level)[1].token = ";"
         /\ NodeToken(n, level)[1].level = level
BY DEF NodeToken, Tokens, NodeOrNull

(* One round of each loop of the encoder.                                  *)
LEMMA AddedTo ==
  ASSUME NEW out, Fits(out), NEW t \in Tokens
  PROVE  out \o <<t>> = Append(out, t)
BY AppendIsConcat DEF Fits

LEMMA NothingAdded == ASSUME NEW out, Fits(out) PROVE out \o <<>> = out
BY ConcatEmptySeq DEF Fits

LEMMA LastIs ==
  ASSUME NEW out, out # <<>>, NEW t, out[Len(out)] = t, NEW kind
  PROVE  Ends(out, kind) <=> t.token = kind
BY DEF Ends

LEMMA GameBegins ==
  ASSUME NEW out, Fits(out), NEW game \in Nat \ {0}, BetweenTrees(out, game),
         NEW root, root = roots[games[game]], root # Null,
         NEW new, new = out \o GameTreeToken("(", 0)
  PROVE  Fits(new) /\ InGame(new, <<>>, root, game, 1)
<1>1. PICK t \in Tokens : t = GameTreeToken("(", 0)[1] /\ GameTreeToken("(", 0) = <<t>>
                          /\ t.token = "(" /\ t.level = 0
  BY GameTokenIs
<1>2. new = Append(out, t)
  BY <1>1, AddedTo
<1>3. game - 1 \in Nat /\ (game - 1) + 1 = game
  OBVIOUS
<1>4. MayFollow(out, t, 0, game - 1)
  <2>1. ~Ends(out, "(") /\ t.token # ";" /\ t.token # ")"
    BY <1>1 DEF BetweenTrees, Ends
  <2> QED BY <1>1, <2>1 DEF MayFollow
<1>5. Counts(out, 0, game - 1)
  BY DEF BetweenTrees
<1>6. /\ Fits(new) /\ new[Len(new)] = t /\ new # <<>>
      /\ Counts(new, OpenAfter(t, 0), GameAfter(t, game - 1))
  BY <1>2, <1>3, <1>4, <1>5, TokenAdded
<1>7. OpenAfter(t, 0) = 1 /\ GameAfter(t, game - 1) = game
  BY <1>1, <1>3 DEF OpenAfter, GameAfter
<1>8. 1 = 1 + Cardinality({i \in 1 .. Len(<<>>) : HasSiblings(<<>>[i])})
  <2>1. {i \in 1 .. Len(<<>>) : HasSiblings(<<>>[i])} = {}
    OBVIOUS
  <2> QED BY <2>1, FS_EmptySet
<1>9. ~Ends(new, ")")
  BY <1>1, <1>6, LastIs
<1>10. new[Len(new)].level = 0
  BY <1>1, <1>6
<1> QED BY <1>6, <1>7, <1>8, <1>9, <1>10 DEF InGame

LEMMA NodeFollows ==
  ASSUME NEW out, Fits(out), NEW game \in Nat \ {0}, NEW n \in Node, NEW open \in Nat \ {0},
         Counts(out, open, game), ~Ends(out, ")"),
         Ends(out, "(") =>
           (out[Len(out)].level = 0 => ~HasSiblings(roots[games[game]])),
         NEW new, new = out \o NodeToken(n, open)
  PROVE  /\ Fits(new) /\ Counts(new, open, game) /\ new # <<>>
         /\ ~Ends(new, "(") /\ ~Ends(new, ")")
<1>1. PICK t \in Tokens : NodeToken(n, open) = <<t>> /\ t.token = ";" /\ t.level = open
  BY NodeTokenIs
<1>2. new = Append(out, t)
  BY <1>1, AddedTo
<1>3. t # GameTreeToken("(", 0)[1]
  BY <1>1, GameTokenIs
<1>4. GameAfter(t, game) = game /\ OpenAfter(t, open) = open
  BY <1>1, <1>3 DEF GameAfter, OpenAfter
<1>5. MayFollow(out, t, open, game)
  BY <1>1, <1>4 DEF MayFollow
<1>6. /\ Fits(new) /\ new[Len(new)] = t /\ new # <<>>
      /\ Counts(new, OpenAfter(t, open), GameAfter(t, game))
  BY <1>2, <1>5, TokenAdded
<1>7. ~Ends(new, "(") /\ ~Ends(new, ")")
  BY <1>1, <1>6, LastIs
<1> QED BY <1>4, <1>6, <1>7

(* The tokens of a node, at the level of the variation that it begins.     *)
WithNode(out, n, inner) ==
  out \o (IF HasSiblings(n) THEN GameTreeToken("(", inner - 1) ELSE <<>>) \o NodeToken(n, inner)

LEMMA NodeWritten ==
  ASSUME NEW out, Fits(out), NEW game \in Nat \ {0}, NEW n \in Node, NEW stack \in Seq(Node),
         NEW level, InGame(out, stack, n, game, level), NEW next,
         NEW inner, inner = IF HasSiblings(n) THEN level + 1 ELSE level,
         NEW new, new = WithNode(out, n, inner)
  PROVE  Fits(new) /\ InGame(new, Append(stack, n), next, game, inner)
<1> DEFINE Branches(s) == Cardinality({i \in 1 .. Len(s) : HasSiblings(s[i])})
<1>1. Branches(stack) \in Nat
  BY CountedSiblings
<1>2. Branches(Append(stack, n)) = IF HasSiblings(n) THEN Branches(stack) + 1 ELSE Branches(stack)
  BY PushedSiblings
<1>3. level = 1 + Branches(stack)
  BY DEF InGame
<1>4. inner = 1 + Branches(Append(stack, n))
  <2> HIDE DEF Branches
  <2> QED BY <1>1, <1>2, <1>3
<1>5. level \in Nat \ {0} /\ inner \in Nat \ {0} /\ (HasSiblings(n) => inner - 1 = level)
  <2>1. PICK k \in Nat : k = Branches(stack)
    BY <1>1
  <2>2. level = 1 + k
    BY <1>3, <2>1
  <2>3. inner = level \/ inner = level + 1
    OBVIOUS
  <2> HIDE DEF Branches
  <2> QED BY <2>2, <2>3
<1>6. /\ Counts(out, level, game) /\ out # <<>>
      /\ Ends(out, "(") => n = roots[games[game]] /\ out[Len(out)].level = 0
      /\ Ends(out, ")") => HasSiblings(n)
  BY DEF InGame, Node, Null
<1>7. Fits(new) /\ Counts(new, inner, game) /\ new # <<>> /\ ~Ends(new, "(") /\ ~Ends(new, ")")
  <2>1. CASE HasSiblings(n)
    <3>1. PICK t \in Tokens : GameTreeToken("(", level) = <<t>> /\ t.token = "(" /\ t.level = level
      BY <1>5, GameTokenIs
    <3>2. PICK mid : mid = Append(out, t)
      OBVIOUS
    <3>3. new = mid \o NodeToken(n, inner)
      BY <1>5, <2>1, <3>1, <3>2, AddedTo DEF WithNode
    <3>4. t # GameTreeToken("(", 0)[1]
      BY <1>5, <3>1, GameTokenIs
    <3>5. GameAfter(t, game) = game /\ OpenAfter(t, level) = level + 1
      BY <3>1, <3>4 DEF GameAfter, OpenAfter
    <3>6. MayFollow(out, t, level, game)
      BY <1>6, <2>1, <3>1, <3>5 DEF MayFollow
    <3>7. /\ Fits(mid) /\ mid[Len(mid)] = t /\ mid # <<>>
          /\ Counts(mid, OpenAfter(t, level), GameAfter(t, game))
      BY <1>5, <1>6, <3>2, <3>6, TokenAdded
    <3>8. Counts(mid, inner, game)
      BY <2>1, <3>5, <3>7
    <3>9. ~Ends(mid, ")") /\ mid[Len(mid)].level # 0
      BY <1>5, <3>1, <3>7, LastIs
    <3> QED BY <1>5, <3>3, <3>7, <3>8, <3>9, NodeFollows
  <2>2. CASE ~HasSiblings(n)
    <3>1. new = out \o NodeToken(n, inner) /\ inner = level
      BY <2>2, NothingAdded DEF WithNode
    <3> QED BY <1>5, <1>6, <2>2, <3>1, NodeFollows
  <2> QED BY <2>1, <2>2
<1> QED BY <1>4, <1>7 DEF InGame

LEMMA TreeEnds ==
  ASSUME ReadInv, parser.pc = "read",
         NEW out, Fits(out), NEW game \in Nat \ {0}, NEW stack \in Seq(Node), stack # <<>>,
         NEW level, InGame(out, stack, Null, game, level),
         NEW n, n = Last(stack),
         NEW outer, outer = IF HasSiblings(n) THEN level - 1 ELSE level,
         NEW new, new = out \o (IF HasSiblings(n) THEN GameTreeToken(")", outer) ELSE <<>>)
  PROVE  Fits(new) /\ InGame(new, Front(stack), tree.nextSibling[n], game, outer)
<1> DEFINE Branches(s) == Cardinality({i \in 1 .. Len(s) : HasSiblings(s[i])})
<1>1. n \in Node /\ Front(stack) \in Seq(Node) /\ stack = Append(Front(stack), n)
  BY FrontAndLast
<1>2. PICK front \in Seq(Node) : front = Front(stack)
  BY <1>1
<1>3. Branches(stack) = IF HasSiblings(n) THEN Branches(front) + 1 ELSE Branches(front)
  <2>1. Branches(Append(front, n)) = IF HasSiblings(n) THEN Branches(front) + 1 ELSE Branches(front)
    BY <1>1, PushedSiblings
  <2>2. stack = Append(front, n)
    BY <1>1, <1>2
  <2> HIDE DEF Branches
  <2> QED BY <2>1, <2>2
<1>4. Branches(front) \in Nat
  BY CountedSiblings
<1>5. level = 1 + Branches(stack)
  BY DEF InGame
<1>6. outer = 1 + Branches(front)
  <2> HIDE DEF Branches
  <2> QED BY <1>3, <1>4, <1>5
<1>7. level \in Nat /\ outer \in Nat \ {0}
  <2> HIDE DEF Branches
  <2> QED BY <1>3, <1>4, <1>5, <1>6
<1>8. /\ Counts(out, level, game) /\ out # <<>> /\ ~Ends(out, "(")
  BY DEF InGame
<1>9. CASE HasSiblings(n)
  <2>1. PICK t \in Tokens : GameTreeToken(")", outer) = <<t>> /\ t.token = ")" /\ t.level = outer
    BY <1>1, <1>7, GameTokenIs
  <2>2. new = Append(out, t)
    BY <1>9, <2>1, AddedTo
  <2>3. t # GameTreeToken("(", 0)[1]
    BY <1>1, <2>1, GameTokenIs
  <2>4. GameAfter(t, game) = game /\ OpenAfter(t, level) = outer
    BY <1>9, <2>1, <2>3 DEF GameAfter, OpenAfter
  <2>5. MayFollow(out, t, level, game)
    BY <1>8, <1>9, <2>1 DEF MayFollow
  <2>6. /\ Fits(new) /\ new[Len(new)] = t /\ new # <<>>
        /\ Counts(new, OpenAfter(t, level), GameAfter(t, game))
    BY <1>7, <1>8, <2>2, <2>5, TokenAdded
  <2>7. ~Ends(new, "(")
    BY <2>1, <2>6, LastIs
  <2>8. tree.nextSibling[n] = Null \/ HasSiblings(tree.nextSibling[n])
    BY <1>1, NextHasSiblings
  <2> QED BY <1>2, <1>6, <2>4, <2>6, <2>7, <2>8 DEF InGame
<1>10. CASE ~HasSiblings(n)
  <2>1. new = out /\ outer = level
    BY <1>10, NothingAdded
  <2>2. tree.nextSibling[n] = Null
    BY <1>10 DEF HasSiblings
  <2> QED BY <1>2, <1>6, <1>8, <2>1, <2>2 DEF InGame
<1> QED BY <1>9, <1>10

LEMMA GameEnds ==
  ASSUME NEW out, Fits(out), NEW game \in Nat \ {0},
         NEW level, InGame(out, <<>>, Null, game, level),
         NEW new, new = out \o GameTreeToken(")", 0)
  PROVE  Fits(new) /\ BetweenTrees(new, game + 1)
<1>1. PICK t \in Tokens : GameTreeToken(")", 0) = <<t>> /\ t.token = ")" /\ t.level = 0
  BY GameTokenIs
<1>2. new = Append(out, t)
  BY <1>1, AddedTo
<1>3. level = 1
  <2>1. {i \in 1 .. Len(<<>>) : HasSiblings(<<>>[i])} = {}
    OBVIOUS
  <2>2. Cardinality({i \in 1 .. Len(<<>>) : HasSiblings(<<>>[i])}) = 0
    BY <2>1, FS_EmptySet
  <2>3. level = 1 + Cardinality({i \in 1 .. Len(<<>>) : HasSiblings(<<>>[i])})
    BY DEF InGame
  <2> QED BY <2>2, <2>3
<1>4. Counts(out, 1, game) /\ ~Ends(out, "(")
  BY <1>3 DEF InGame
<1>5. t # GameTreeToken("(", 0)[1]
  BY <1>1 DEF GameTreeToken
<1>6. GameAfter(t, game) = game /\ OpenAfter(t, 1) = 0 /\ (game + 1) - 1 = game
  BY <1>1, <1>5 DEF GameAfter, OpenAfter
<1>7. MayFollow(out, t, 1, game)
  BY <1>1, <1>4 DEF MayFollow
<1>8. /\ Fits(new) /\ new[Len(new)] = t /\ new # <<>>
      /\ Counts(new, OpenAfter(t, 1), GameAfter(t, game))
  BY <1>2, <1>4, <1>7, TokenAdded
<1>9. Ends(new, ")")
  BY <1>1, <1>8, LastIs
<1> QED BY <1>6, <1>8, <1>9 DEF BetweenTrees

(* The state of the encoder, and of the same document afterwards.          *)
Output(pc, game, node, stack, level, out) ==
  /\ Fits(out)
  /\ pc = "tree" => InGame(out, stack, node, game, level)
  /\ pc \in {"game", "returned"} => BetweenTrees(out, game)

SameDocument == UNCHANGED <<games, roots, tree>>

LEMMA SameSiblings ==
  ASSUME SameDocument, NEW n
  PROVE  HasSiblings(n)' <=> HasSiblings(n)
BY DEF SameDocument, HasSiblings

LEMMA SameOutput ==
  ASSUME SameDocument, NEW pc, NEW game, NEW node, NEW stack, NEW level, NEW out,
         Output(pc, game, node, stack, level, out)
  PROVE  Output(pc, game, node, stack, level, out)'
<1>1. games' = games /\ roots' = roots /\ \A n : HasSiblings(n)' <=> HasSiblings(n)
  BY SameSiblings DEF SameDocument
<1>2. Fits(out)'
  <2>1. out \in Seq(Tokens) /\ \A i \in 1 .. Len(out) : TokenFits(out, i)
    BY DEF Output, Fits
  <2>2. ASSUME NEW i \in 1 .. Len(out) PROVE TokenFits(out, i)'
    <3>1. TokenFits(out, i)
      BY <2>1
    <3>2. Follows(out, i) => Follows(out, i)'
      BY <1>1 DEF Follows, Begun, Starts, GameTreeToken
    <3> QED BY <3>1, <3>2 DEF TokenFits, Closes, Opens, Of
  <2> QED BY <2>1, <2>2 DEF Fits
<1>3. pc = "tree" => InGame(out, stack, node, game, level)'
  <2> SUFFICES ASSUME pc = "tree" PROVE InGame(out, stack, node, game, level)'
    OBVIOUS
  <2>1. InGame(out, stack, node, game, level)
    BY DEF Output
  <2>2. {i \in 1 .. Len(stack) : HasSiblings(stack[i])'} = {i \in 1 .. Len(stack) : HasSiblings(stack[i])}
    BY <1>1
  <2>3. level = 1 + Cardinality({i \in 1 .. Len(stack) : HasSiblings(stack[i])'})
    BY <2>1, <2>2 DEF InGame
  <2>4. Ends(out, ")") => node = Null \/ HasSiblings(node)'
    BY <1>1, <2>1 DEF InGame
  <2> QED BY <1>1, <2>1, <2>3, <2>4 DEF InGame
<1>4. pc \in {"game", "returned"} => BetweenTrees(out, game)'
  BY DEF Output, BetweenTrees
<1> QED BY <1>2, <1>3, <1>4 DEF Output

LEMMA OutputAfter ==
  ASSUME SameDocument, NEW pc, NEW game, NEW node, NEW stack, NEW level, NEW out,
         Output(pc, game, node, stack, level, out),
         writer'.pc = pc, writer'.game = game, writer'.node = node, writer'.stack = stack,
         writer'.level = level, writer'.out = out
  PROVE  OutputInv'
<1>1. Output(pc, game, node, stack, level, out)'
  BY SameOutput
<1>2. /\ Fits(out)'
      /\ pc = "tree" => InGame(out, stack, node, game, level)'
      /\ pc \in {"game", "returned"} => BetweenTrees(out, game)'
  BY <1>1 DEF Output
<1>3. Fits(writer.out)'
  BY <1>2
<1>4. (writer.pc = "tree")' => InGame(writer.out, writer.stack, writer.node, writer.game, writer.level)'
  BY <1>2
<1>5. (writer.pc \in {"game", "returned"})' => BetweenTrees(writer.out, writer.game)'
  BY <1>2
<1> QED BY <1>3, <1>4, <1>5 DEF OutputInv

LEMMA OutputNow ==
  ASSUME OutputInv, writer # Idle
  PROVE  Output(writer.pc, writer.game, writer.node, writer.stack, writer.level, writer.out)
BY DEF OutputInv, Output

LEMMA OthersKeepOutput ==
  ASSUME OutputInv, SameDocument, writer' = writer
  PROVE  OutputInv'
<1>1. CASE writer = Idle
  BY <1>1 DEF OutputInv, Idle
<1>2. CASE writer # Idle
  BY <1>2, OutputNow, OutputAfter
<1> QED BY <1>1, <1>2

LEMMA NothingFits == Fits(<<>>) /\ BetweenTrees(<<>>, 1)
<1>1. \A kind : Of(<<>>, 0, kind) = {} /\ Starts(<<>>, 0) = {}
  BY DEF Of, Starts
<1>2. Opens(<<>>, 0) = 0 /\ Closes(<<>>, 0) = 0 /\ Begun(<<>>, 0) = 0
  BY <1>1, FS_EmptySet DEF Opens, Closes, Begun
<1>3. Len(<<>>) = 0 /\ <<>> \in Seq(Tokens) /\ 0 - 0 = 0 /\ 1 - 1 = 0
  OBVIOUS
<1>4. Fits(<<>>)
  BY <1>3 DEF Fits
<1>5. Counts(<<>>, 0, 1 - 1)
  BY <1>2, <1>3 DEF Counts
<1> QED BY <1>4, <1>5 DEF BetweenTrees

LEMMA EncodeKeepsOutput == ASSUME Encode PROVE OutputInv'
<1>1. /\ SameDocument
      /\ writer' = [pc |-> "game", game |-> 1, node |-> Null, stack |-> <<>>, level |-> 0, out |-> <<>>]
  BY DEF Encode, Writing, document, SameDocument
<1>2. Output("game", 1, Null, <<>>, 0, <<>>)
  BY NothingFits DEF Output
<1> QED BY <1>1, <1>2, OutputAfter

LEMMA WriteKeepsOutput ==
  ASSUME ReadInv, GamesAndRoots, WriterInv, OutputInv, Write
  PROVE  OutputInv'
<1>1. PICK pc, game, node, stack, level, out :
        /\ pc = writer.pc /\ game = writer.game /\ node = writer.node
        /\ stack = writer.stack /\ level = writer.level /\ out = writer.out
  OBVIOUS
<1>2. SameDocument /\ writer # Idle /\ pc # "idle"
  BY <1>1 DEF Write, EncodeGame, EncodeNode, EncodeNext, EncodeGameEnd, EncodeReturns, WriteReturns,
              Writing, Idle, document, SameDocument
<1>3. /\ DOMAIN writer = WriterFields /\ stack \in Seq(Node) /\ node \in NodeOrNull
      /\ game \in Nat \ {0} /\ (pc = "game" => stack = <<>>) /\ parser.pc = "read"
  BY <1>1, <1>2 DEF WriterInv, Walk
<1>4. /\ Fits(out)
      /\ pc = "tree" => InGame(out, stack, node, game, level)
      /\ pc \in {"game", "returned"} => BetweenTrees(out, game)
  BY <1>1, <1>2 DEF OutputInv
<1>5. ASSUME EncodeGame PROVE OutputInv'
  <2>1. PICK root : root = roots[games[game]]
    OBVIOUS
  <2>2. pc = "game" /\ stack = <<>>
    BY <1>1, <1>3, <1>5 DEF EncodeGame, Writing
  <2>3. CASE root = Null
    <3>1. writer' = [writer EXCEPT !.pc = "thrown", !.out = <<>>]
      BY <1>1, <1>5, <2>1, <2>3 DEF EncodeGame
    <3>2. /\ writer'.pc = "thrown" /\ writer'.game = game /\ writer'.node = node
          /\ writer'.stack = stack /\ writer'.level = level /\ writer'.out = <<>>
      BY <1>1, <1>3, <3>1 DEF WriterFields
    <3>3. Output("thrown", game, node, stack, level, <<>>)
      BY NothingFits DEF Output
    <3> QED BY <1>2, <3>2, <3>3, OutputAfter
  <2>4. CASE root # Null
    <3>1. PICK new : new = out \o GameTreeToken("(", 0)
      OBVIOUS
    <3>2. writer' = [writer EXCEPT !.pc = "tree", !.node = root, !.level = 1, !.out = new]
      BY <1>1, <1>5, <2>1, <2>4, <3>1 DEF EncodeGame
    <3>3. /\ writer'.pc = "tree" /\ writer'.game = game /\ writer'.node = root
          /\ writer'.stack = stack /\ writer'.level = 1 /\ writer'.out = new
      BY <1>1, <1>3, <3>2 DEF WriterFields
    <3>4. Fits(new) /\ InGame(new, <<>>, root, game, 1)
      BY <1>3, <1>4, <2>1, <2>2, <2>4, <3>1, GameBegins
    <3>5. Output("tree", game, root, stack, 1, new)
      BY <2>2, <3>4 DEF Output
    <3> QED BY <1>2, <3>3, <3>5, OutputAfter
  <2> QED BY <2>3, <2>4
<1>6. ASSUME EncodeNode PROVE OutputInv'
  <2>1. PICK inner : inner = IF HasSiblings(node) THEN level + 1 ELSE level
    OBVIOUS
  <2>2. PICK next, to : next = tree.firstChild[node] /\ to = Append(stack, node)
    OBVIOUS
  <2>3. PICK new : new = WithNode(out, node, inner)
    OBVIOUS
  <2>4. pc = "tree" /\ node \in Node
    BY <1>1, <1>3, <1>6 DEF EncodeNode, Writing, NodeOrNull
  <2>5. writer' = [writer EXCEPT !.level = inner, !.stack = to, !.node = next, !.out = new]
    BY <1>1, <1>6, <2>1, <2>2, <2>3 DEF EncodeNode, WithNode
  <2>6. /\ writer'.pc = "tree" /\ writer'.game = game /\ writer'.node = next
        /\ writer'.stack = to /\ writer'.level = inner /\ writer'.out = new
    BY <1>1, <1>3, <2>4, <2>5 DEF WriterFields
  <2>7. Fits(new) /\ InGame(new, to, next, game, inner)
    <3>1. /\ stack \in Seq(Node) /\ game \in Nat \ {0}
          /\ Fits(out) /\ InGame(out, stack, node, game, level)
      BY <1>3, <1>4, <2>4
    <3>2. Fits(new) /\ InGame(new, Append(stack, node), next, game, inner)
      BY ONLY <2>1, <2>3, <2>4, <3>1, NodeWritten
    <3> QED BY <2>2, <3>2
  <2>8. Output("tree", game, next, to, inner, new)
    BY <2>7 DEF Output
  <2> QED BY <1>2, <2>6, <2>8, OutputAfter
<1>7. ASSUME EncodeNext PROVE OutputInv'
  <2>1. PICK n : n = Last(stack)
    OBVIOUS
  <2>2. PICK outer : outer = IF HasSiblings(n) THEN level - 1 ELSE level
    OBVIOUS
  <2>3. PICK next, to : next = tree.nextSibling[n] /\ to = Front(stack)
    OBVIOUS
  <2>4. PICK new : new = out \o (IF HasSiblings(n) THEN GameTreeToken(")", outer) ELSE <<>>)
    OBVIOUS
  <2>5. pc = "tree" /\ node = Null /\ stack # <<>>
    BY <1>1, <1>7 DEF EncodeNext, Writing
  <2>6. writer' = [writer EXCEPT !.level = outer, !.stack = to, !.node = next, !.out = new]
    BY <1>1, <1>7, <2>1, <2>2, <2>3, <2>4 DEF EncodeNext
  <2>7. /\ writer'.pc = "tree" /\ writer'.game = game /\ writer'.node = next
        /\ writer'.stack = to /\ writer'.level = outer /\ writer'.out = new
    BY <1>1, <1>3, <2>5, <2>6 DEF WriterFields
  <2>8. Fits(new) /\ InGame(new, to, next, game, outer)
    BY <1>3, <1>4, <2>1, <2>2, <2>3, <2>4, <2>5, TreeEnds
  <2>9. Output("tree", game, next, to, outer, new)
    BY <2>8 DEF Output
  <2> QED BY <1>2, <2>7, <2>9, OutputAfter
<1>8. ASSUME EncodeGameEnd PROVE OutputInv'
  <2>1. PICK new : new = out \o GameTreeToken(")", 0)
    OBVIOUS
  <2>2. pc = "tree" /\ node = Null /\ stack = <<>>
    BY <1>1, <1>8 DEF EncodeGameEnd, Writing
  <2>3. writer' = [writer EXCEPT !.pc = "game", !.game = game + 1, !.level = 0, !.out = new]
    BY <1>1, <1>8, <2>1 DEF EncodeGameEnd
  <2>4. /\ writer'.pc = "game" /\ writer'.game = game + 1 /\ writer'.node = node
        /\ writer'.stack = stack /\ writer'.level = 0 /\ writer'.out = new
    BY <1>1, <1>3, <2>3 DEF WriterFields
  <2>5. Fits(new) /\ BetweenTrees(new, game + 1)
    BY <1>3, <1>4, <2>1, <2>2, GameEnds
  <2>6. Output("game", game + 1, node, stack, 0, new)
    BY <2>5 DEF Output
  <2> QED BY <1>2, <2>4, <2>6, OutputAfter
<1>9. ASSUME EncodeReturns PROVE OutputInv'
  <2>1. pc = "game" /\ writer' = [writer EXCEPT !.pc = "returned"]
    BY <1>1, <1>9 DEF EncodeReturns, Writing
  <2>2. /\ writer'.pc = "returned" /\ writer'.game = game /\ writer'.node = node
        /\ writer'.stack = stack /\ writer'.level = level /\ writer'.out = out
    BY <1>1, <1>3, <2>1 DEF WriterFields
  <2>3. Output("returned", game, node, stack, level, out)
    BY <1>4, <2>1 DEF Output
  <2> QED BY <1>2, <2>2, <2>3, OutputAfter
<1>10. ASSUME WriteReturns PROVE OutputInv'
  BY <1>10 DEF WriteReturns, OutputInv
<1> QED BY <1>5, <1>6, <1>7, <1>8, <1>9, <1>10 DEF Write

LEMMA FittingIsWellFormed == OutputInv => WellFormed
<1> SUFFICES ASSUME OutputInv, writer # Idle PROVE WellFormed
  BY DEF WellFormed
<1>1. PICK out, pc, game : out = writer.out /\ pc = writer.pc /\ game = writer.game
  OBVIOUS
<1>2. Fits(out) /\ (pc = "returned" => BetweenTrees(out, game))
  BY <1>1 DEF OutputInv
<1>3. DOMAIN out = 1 .. Len(out) /\ out \in Seq(Tokens) /\ Len(out) \in Nat
  BY <1>2 DEF Fits
<1>4. ASSUME NEW i \in DOMAIN out PROVE TokenFits(out, i)
  BY <1>2, <1>3 DEF Fits
<1>5. pc = "returned" => Opens(out, Len(out)) = Closes(out, Len(out))
  <2>1. Opens(out, Len(out)) \in Nat /\ Closes(out, Len(out)) \in Nat
    BY <1>3, TokenSets DEF Opens, Closes
  <2>2. pc = "returned" => Opens(out, Len(out)) - Closes(out, Len(out)) = 0
    BY <1>2 DEF BetweenTrees, Counts
  <2> QED BY <2>1, <2>2
<1>6. ASSUME NEW i \in DOMAIN out
      PROVE  /\ Closes(out, i) <= Opens(out, i)
             /\ out[i].level = Opens(out, i) - Closes(out, i) - IF out[i].token = "(" THEN 1 ELSE 0
             /\ i > 1 /\ out[i - 1].token = "(" =>
                  (out[i].token = "(") =
                    (out[i - 1].level = 0 /\ HasSiblings(roots[games[Begun(out, i)]]))
             /\ i > 1 => (out[i - 1].token = ")" => out[i].token \in {"(", ")"})
  BY <1>4 DEF TokenFits, Follows
<1> HIDE DEF HasSiblings
<1> QED BY <1>1, <1>5, <1>6 DEF WellFormed, Opens, Closes, Begun, Of, Starts

-----------------------------------------------------------------------------
(* All of a document.                                                      *)

DocumentInv == ReadInv /\ IterInv /\ WriterInv

(* After reading, the links are those of SGFC's tree or there are none.    *)
LEMMA LinksAfterReading ==
  ASSUME ReadInv, parser.pc = "read"
  PROVE  LinkedTree /\ GamesAndRoots
<1>1. sgf \in SgfcResults /\ AfterReading
  BY DEF ReadInv, IsReadOver
<1>2. Deep(sgf.depth) /\ Len(sgf.depth) \in 1 .. MaxNode /\ Len(sgf.depth) \in 0 .. Len(sgf.depth)
  BY <1>1, SgfFacts
<1> QED BY <1>1, <1>2, NoTreeType, ParsedTreeType DEF AfterReading, LinkedTree, GamesAndRoots

LEMMA IdleKeeps ==
  ASSUME iter = Idle, writer = Idle, UNCHANGED <<iter, writer>>
  PROVE  IterInv' /\ WriterInv'
BY DEF IterInv, WriterInv

LEMMA SameIter ==
  ASSUME IterInv, UNCHANGED <<document, parser, iter>>
  PROVE  IterInv'
<1>1. tree' = tree
  BY DEF document
<1>2. ASSUME Walk(iter.stack, iter.node) PROVE Walk(iter.stack, iter.node)'
  BY <1>1, <1>2 DEF Walk, IsPath
<1> QED BY <1>2 DEF IterInv

LEMMA SameWriter ==
  ASSUME WriterInv, UNCHANGED <<document, parser, writer>>
  PROVE  WriterInv'
<1>1. tree' = tree
  BY DEF document
<1>2. ASSUME Walk(writer.stack, writer.node) PROVE Walk(writer.stack, writer.node)'
  BY <1>1, <1>2 DEF Walk, IsPath
<1> QED BY <1>2 DEF WriterInv

ReadsResult == ~IsReadOver /\ IsReadOver' => ReadResult'

LEMMA DocumentStep ==
  ASSUME DocumentInv, [Next]_vars
  PROVE  DocumentInv' /\ ReadsResult
<1> DEFINE Goal == DocumentInv' /\ ReadsResult
<1>0. ReadInv /\ IterInv /\ WriterInv
  BY DEF DocumentInv
<1>1. ASSUME Read PROVE Goal
  <2>1. parser.pc # "read" /\ UNCHANGED <<iter, writer>>
    BY <1>1 DEF Read, ReadFatalError, ReadGame, ParseNode, ParseNext, ReadReturns, Reading
  <2>2. iter = Idle /\ writer = Idle
    BY <1>0, <2>1 DEF IterInv, WriterInv
  <2> QED BY <1>0, <1>1, <2>1, <2>2, IdleKeeps, ReadKeepsInv DEF DocumentInv, ReadsResult, IsReadOver
<1>2. ASSUME Edit PROVE Goal
  <2>1. parser.pc = "read" /\ iter.pc = "idle" /\ writer.pc = "idle" /\ UNCHANGED <<parser, iter, writer>>
    BY <1>2 DEF Edit, AppendGame, RemoveGame, SetRootNode, SetGames, Editing
  <2>2. iter = Idle /\ writer = Idle
    BY <1>0, <2>1 DEF IterInv, WriterInv
  <2> QED BY <1>0, <1>2, <2>1, <2>2, IdleKeeps, EditKeepsInv DEF DocumentInv, ReadsResult, IsReadOver
<1>3. ASSUME UNCHANGED <<sgf, document, parser>>, IterInv', WriterInv' PROVE Goal
  BY <1>0, <1>3, OthersKeepInv DEF DocumentInv, ReadsResult, IsReadOver
<1>4. ASSUME NEW start \in Node, IterateOverNodesDepthFirst(start) PROVE Goal
  <2>1. UNCHANGED <<sgf, document, parser, writer>>
    BY <1>4 DEF IterateOverNodesDepthFirst, Visiting
  <2> QED BY <1>0, <1>3, <1>4, <2>1, StartKeepsIter, SameWriter
<1>5. ASSUME Iterate PROVE Goal
  <2>1. UNCHANGED <<sgf, document, parser, writer>> /\ iter.pc # "idle"
    BY <1>5 DEF Iterate, Visit, ReturnToParent, IterationReturns, Visiting
  <2>2. parser.pc = "read"
    BY <1>0, <2>1 DEF IterInv, Idle
  <2>3. IterInv'
    <3>1. ASSUME NEW answer \in Answers, Visit(answer) PROVE IterInv'
      BY <1>0, <2>2, <3>1, LinksAfterReading, VisitKeepsIter
    <3>2. ASSUME ReturnToParent PROVE IterInv'
      BY <1>0, <2>2, <3>2, LinksAfterReading, ReturnKeepsIter
    <3>3. ASSUME IterationReturns PROVE IterInv'
      BY <3>3 DEF IterationReturns, IterInv, Idle
    <3> QED BY <1>5, <3>1, <3>2, <3>3 DEF Iterate
  <2> QED BY <1>0, <1>3, <2>1, <2>3, SameWriter
<1>6. ASSUME Encode PROVE Goal
  <2>1. UNCHANGED <<sgf, document, parser, iter>>
    BY <1>6 DEF Encode, Writing
  <2> QED BY <1>0, <1>3, <1>6, <2>1, EncodeKeepsWriter, SameIter
<1>7. ASSUME Write PROVE Goal
  <2>1. UNCHANGED <<sgf, document, parser, iter>> /\ writer.pc # "idle"
    BY <1>7 DEF Write, EncodeGame, EncodeNode, EncodeNext, EncodeGameEnd, EncodeReturns,
                WriteReturns, Writing
  <2>2. parser.pc = "read"
    BY <1>0, <2>1 DEF WriterInv, Idle
  <2> QED BY <1>0, <1>3, <1>7, <2>1, <2>2, LinksAfterReading, WriteKeepsWriter, SameIter
<1>8. ASSUME UNCHANGED vars PROVE Goal
  BY <1>0, <1>3, <1>8, SameIter, SameWriter DEF vars
<1> QED BY <1>1, <1>2, <1>4, <1>5, <1>6, <1>7, <1>8 DEF Next, WithoutDocument

LEMMA VisitStep ==
  ASSUME DocumentInv, VisitInv, [Next]_vars
  PROVE  VisitInv'
<1>0. ReadInv /\ IterInv /\ WriterInv
  BY DEF DocumentInv
<1>1. ASSUME Read PROVE VisitInv'
  <2>1. parser.pc # "read" /\ UNCHANGED iter
    BY <1>1 DEF Read, ReadFatalError, ReadGame, ParseNode, ParseNext, ReadReturns, Reading
  <2>2. iter = Idle
    BY <1>0, <2>1 DEF IterInv
  <2> QED BY <2>1, <2>2 DEF VisitInv, Idle
<1>2. ASSUME Edit PROVE VisitInv'
  <2>1. UNCHANGED <<sgf, tree, data, iter>>
    BY <1>2 DEF Edit, AppendGame, RemoveGame, SetRootNode, SetGames, Editing
  <2> QED BY <2>1, OthersKeepVisits
<1>3. ASSUME NEW start \in Node, IterateOverNodesDepthFirst(start) PROVE VisitInv'
  BY <1>0, <1>3, StartKeepsVisits
<1>4. ASSUME Iterate PROVE VisitInv'
  <2>1. ASSUME IterationReturns PROVE VisitInv'
    BY <2>1 DEF IterationReturns, VisitInv, Idle
  <2> QED BY <1>0, <1>4, <2>1, VisitKeepsVisits, ReturnKeepsVisits DEF Iterate
<1>5. ASSUME Encode PROVE VisitInv'
  <2>1. UNCHANGED <<sgf, tree, data, iter>>
    BY <1>5 DEF Encode, Writing, document
  <2> QED BY <2>1, OthersKeepVisits
<1>6. ASSUME Write PROVE VisitInv'
  <2>1. UNCHANGED <<sgf, tree, data, iter>>
    BY <1>6 DEF Write, EncodeGame, EncodeNode, EncodeNext, EncodeGameEnd, EncodeReturns,
                WriteReturns, Writing, document
  <2> QED BY <2>1, OthersKeepVisits
<1>7. ASSUME UNCHANGED vars PROVE VisitInv'
  BY <1>7, OthersKeepVisits DEF vars, document
<1> QED BY <1>1, <1>2, <1>3, <1>4, <1>5, <1>6, <1>7 DEF Next, WithoutDocument

LEMMA OutputStep ==
  ASSUME DocumentInv, OutputInv, [Next]_vars
  PROVE  OutputInv'
<1>0. ReadInv /\ IterInv /\ WriterInv
  BY DEF DocumentInv
<1>1. ASSUME writer = Idle, UNCHANGED writer PROVE OutputInv'
  BY <1>1 DEF OutputInv
<1>2. ASSUME Read PROVE OutputInv'
  <2>1. parser.pc # "read" /\ UNCHANGED writer
    BY <1>2 DEF Read, ReadFatalError, ReadGame, ParseNode, ParseNext, ReadReturns, Reading
  <2> QED BY <1>0, <1>1, <2>1 DEF WriterInv
<1>3. ASSUME Edit PROVE OutputInv'
  <2>1. writer.pc = "idle" /\ UNCHANGED writer
    BY <1>3 DEF Edit, AppendGame, RemoveGame, SetRootNode, SetGames, Editing
  <2> QED BY <1>0, <1>1, <2>1 DEF WriterInv
<1>4. ASSUME UNCHANGED <<document, writer>> PROVE OutputInv'
  BY <1>4, OthersKeepOutput DEF document, SameDocument
<1>5. ASSUME NEW start \in Node, IterateOverNodesDepthFirst(start) PROVE OutputInv'
  BY <1>4, <1>5 DEF IterateOverNodesDepthFirst, Visiting
<1>6. ASSUME Iterate PROVE OutputInv'
  BY <1>4, <1>6 DEF Iterate, Visit, ReturnToParent, IterationReturns, Visiting
<1>7. ASSUME Encode PROVE OutputInv'
  BY <1>7, EncodeKeepsOutput
<1>8. ASSUME Write PROVE OutputInv'
  <2>1. writer.pc # "idle"
    BY <1>8 DEF Write, EncodeGame, EncodeNode, EncodeNext, EncodeGameEnd, EncodeReturns,
                WriteReturns, Writing
  <2>2. parser.pc = "read"
    BY <1>0, <2>1 DEF WriterInv, Idle
  <2> QED BY <1>0, <1>8, <2>2, LinksAfterReading, WriteKeepsOutput
<1>9. ASSUME UNCHANGED vars PROVE OutputInv'
  BY <1>4, <1>9 DEF vars
<1> QED BY <1>2, <1>3, <1>5, <1>6, <1>7, <1>8, <1>9 DEF Next, WithoutDocument

LEMMA TreeFunction ==
  ASSUME NEW t, TreeType(t)
  PROVE  t \in [{"parent", "firstChild", "nextSibling"} -> [Node -> NodeOrNull]]
BY DEF TreeType

(* In each phase of reading the games are different, the types those of    *)
(* TypeOK, and the stack a path.                                           *)
LEMMA ReadTypes ==
  ASSUME ReadInv
  PROVE  /\ GamesAndRoots
         /\ tree \in [{"parent", "firstChild", "nextSibling"} -> [Node -> NodeOrNull]]
         /\ data \in [Node -> {"none", "read", "UTF-8"}]
         /\ message \in {"none", "ParseSgfContentError", "SGFCInterfacingError"}
         /\ IsPath(parser.stack)
<1> DEFINE d == sgf.depth
<1>1. sgf \in SgfcResults /\ Deep(d) /\ Len(d) \in 1 .. MaxNode /\ Len(d) \in 0 .. Len(d)
  BY SgfFacts DEF ReadInv
<1> DEFINE Types == /\ GamesAndRoots
                    /\ tree \in [{"parent", "firstChild", "nextSibling"} -> [Node -> NodeOrNull]]
                    /\ data \in [Node -> {"none", "read", "UTF-8"}]
                    /\ message \in {"none", "ParseSgfContentError", "SGFCInterfacingError"}
<1>2. ASSUME NEW p, HoldsNodes(p) PROVE Types
  <2>1. /\ p \in 0 .. Len(d) /\ tree = ParsedTree(d, p) /\ games \in Seq(Node) /\ message = "none"
        /\ \A i, j \in 1 .. Len(games) : i < j => games[i] < games[j]
        /\ data = [n \in Node |-> IF n \in 1 .. p THEN "read" ELSE "none"]
        /\ roots = [n \in Node |-> IF n \in 1 .. p /\ d[n] = 0 THEN n ELSE Null]
    BY <1>2 DEF HoldsNodes
  <2>2. IsInjective(games)
    BY <2>1, IncreasingInjective
  <2>3. tree \in [{"parent", "firstChild", "nextSibling"} -> [Node -> NodeOrNull]]
    BY <1>1, <2>1, ParsedTreeType, TreeFunction
  <2>4. data \in [Node -> {"none", "read", "UTF-8"}]
    BY <2>1
  <2>5. roots \in [Node -> NodeOrNull]
    <3>1. \A n \in Node : (IF n \in 1 .. p /\ d[n] = 0 THEN n ELSE Null) \in NodeOrNull
      BY DEF NodeOrNull
    <3> HIDE DEF d
    <3> QED BY <2>1, <3>1
  <2> QED BY <2>1, <2>2, <2>3, <2>4, <2>5 DEF GamesAndRoots
<1>3. CASE parser.pc = "game"
  <2>1. parser.stack = <<>> /\ \E p : HoldsNodes(p)
    BY <1>3 DEF ReadInv, BetweenGames
  <2> QED BY <1>2, <2>1 DEF IsPath
<1>4. CASE parser.pc = "tree"
  <2>1. PICK p \in 1 .. Len(d) : HoldsNodes(p) /\ OnStack(parser.stack, parser.root, p)
    BY <1>4 DEF ReadInv, InTree
  <2>2. ASSUME NEW i \in 2 .. Len(parser.stack)
        PROVE  tree.parent[parser.stack[i]] = parser.stack[i - 1]
    <3>1. parser.stack[i] \in 1 .. p /\ SgfParent(d, parser.stack[i]) = parser.stack[i - 1]
      BY <2>1 DEF OnStack
    <3>2. parser.stack[i] \in Node
      BY <1>1, <2>1, <3>1, DocumentAssumption DEF Node
    <3> QED BY <2>1, <3>1, <3>2 DEF HoldsNodes, ParsedTree
  <2> QED BY <1>2, <2>1, <2>2 DEF IsPath
<1>5. CASE IsReadOver
  <2>1. AfterReading
    BY <1>5 DEF ReadInv, IsReadOver
  <2>2. tree \in [{"parent", "firstChild", "nextSibling"} -> [Node -> NodeOrNull]]
    BY <1>1, <2>1, NoTreeType, ParsedTreeType, TreeFunction DEF AfterReading
  <2> QED BY <2>1, <2>2 DEF AfterReading, GamesAndRoots, IsPath
<1> QED BY <1>3, <1>4, <1>5 DEF ReadInv, IsReadOver

LEMMA InvGivesTypes == DocumentInv => TypeOK
<1> SUFFICES ASSUME DocumentInv PROVE TypeOK
  OBVIOUS
<1>1. ReadInv /\ IterInv /\ WriterInv
  BY DEF DocumentInv
<1>2. sgf \in SgfcResults /\ parser.pc \in {"game", "tree", "read", "thrown"}
  BY <1>1 DEF ReadInv
<1>3. iter.pc \in {"idle", "loop", "returned"} /\ (iter # Idle => IsPath(iter.stack))
  BY <1>1 DEF IterInv, Idle, Walk
<1>4. /\ writer.pc \in {"idle", "game", "tree", "returned", "thrown"}
      /\ writer # Idle => IsPath(writer.stack)
  BY <1>1 DEF WriterInv, Idle, Walk
<1> QED BY <1>1, <1>2, <1>3, <1>4, ReadTypes DEF TypeOK, GamesAndRoots

LEMMA InitInv == Init => DocumentInv
<1>1. Init => IterInv /\ WriterInv
  BY DEF Init, IterInv, WriterInv
<1> QED BY <1>1, ReadInit DEF DocumentInv

LEMMA AlwaysDocumentInv == Spec => []DocumentInv
BY InitInv, DocumentStep, PTL DEF Spec

(* SgfcDocumentReader, SgfcNodeIterator and SgfcDocumentEncoder: whatever  *)
(* SGFC has parsed and the client edits, the document's games are different*)
(* and the stack of each traversal is a path of the tree.                  *)
THEOREM DocumentTypesHold == Spec => []TypeOK
BY AlwaysDocumentInv, InvGivesTypes, PTL

(* SgfcDocumentReader, SgfcDocument::SgfcDocument and                      *)
(* ParseGameTreeDepthFirst: when reading ends, the document has the trees  *)
(* of SGFC, of any size and shape, with all their properties, or nothing of*)
(* them.  Which of its properties the decoder rejects, and how, decides    *)
(* what the client gets then: an empty document with a message for         *)
(* std::domain_error, only the exception for std::logic_error.             *)
THEOREM ReadingIsAllOrNothing == Spec => ReadAllOrNothing
<1>1. DocumentInv /\ [Next]_vars => [ReadsResult]_vars
  BY DocumentStep
<1>2. Spec => [][ReadsResult]_vars
  BY <1>1, AlwaysDocumentInv, PTL DEF Spec
<1> QED BY <1>2 DEF ReadAllOrNothing, ReadsResult

(* SgfcNodeIterator: whatever the callback answers, it has seen each node  *)
(* that its answers ask for once, in the order of the content, and no      *)
(* other, in a tree of any size and shape.                                 *)
THEOREM VisitsAreThoseRequested == Spec => []VisitsAreRequested
<1>1. Init => VisitInv
  BY IdleHasNoVisits DEF Init
<1>2. DocumentInv /\ VisitInv /\ [Next]_vars => VisitInv'
  BY VisitStep
<1>3. DocumentInv /\ VisitInv => VisitsAreRequested
  BY FinishedAsRequested DEF DocumentInv
<1> QED BY <1>1, <1>2, <1>3, AlwaysDocumentInv, PTL DEF Spec

LEMMA AlwaysOutputInv == Spec => []OutputInv
<1>1. Init => OutputInv
  BY DEF Init, OutputInv
<1>2. DocumentInv /\ OutputInv /\ [Next]_vars => OutputInv'
  BY OutputStep
<1> QED BY <1>1, <1>2, AlwaysDocumentInv, PTL DEF Spec

(* SgfcDocumentEncoder: whatever games the client has put together from    *)
(* the trees that were read, the content that is written is SGF: its       *)
(* parentheses balance at any depth of the variations, a node follows each *)
(* one that opens and none follows one that closes, and the indentation is *)
(* the number of parentheses open.                                         *)
THEOREM ContentIsWellFormed == Spec => []WellFormed
BY AlwaysOutputInv, FittingIsWellFormed, PTL

-----------------------------------------------------------------------------
(* The root of a game is a node that was read.                             *)
RootsAreRead == \A g \in Node : roots[g] # Null => data[roots[g]] # "none"

LEMMA ReadDataType ==
  ASSUME DocumentInv
  PROVE  roots \in [Node -> NodeOrNull] /\ data \in [Node -> {"none", "read", "UTF-8"}]
BY ReadTypes DEF DocumentInv, GamesAndRoots

LEMMA RootsStep ==
  ASSUME DocumentInv, RootsAreRead, [Next]_vars
  PROVE  RootsAreRead'
<1>1. /\ roots \in [Node -> NodeOrNull] /\ data \in [Node -> {"none", "read", "UTF-8"}]
      /\ \A g \in Node : roots[g] # Null => roots[g] \in Node
  BY ReadDataType DEF NodeOrNull
<1>2. ASSUME NEW pc, NEW m, Discard(pc, m) PROVE RootsAreRead'
  BY <1>2 DEF Discard, RootsAreRead
<1>3. ASSUME UNCHANGED roots, \A n \in Node : data[n] # "none" => data'[n] # "none" PROVE RootsAreRead'
  BY <1>1, <1>3 DEF RootsAreRead
<1>4. ASSUME UNCHANGED <<roots, data>> PROVE RootsAreRead'
  BY <1>4 DEF RootsAreRead
<1>5. ASSUME Read PROVE RootsAreRead'
  <2>1. CASE ReadFatalError
    BY <1>2, <2>1 DEF ReadFatalError, EmptyDocument
  <2>2. CASE ReadGame
    <3>1. PICK n : n = parser.root
      OBVIOUS
    <3>2. CASE n = sgf.broken
      BY <1>2, <2>2, <3>1, <3>2 DEF ReadGame, Reject, EmptyDocument
    <3>3. CASE n # sgf.broken
      <4>1. roots' = [roots EXCEPT ![n] = n] /\ data' = [data EXCEPT ![n] = "read"]
        BY <2>2, <3>1, <3>3 DEF ReadGame
      <4> QED BY <1>1, <4>1 DEF RootsAreRead
    <3> QED BY <3>2, <3>3
  <2>3. CASE ParseNode
    <3>1. PICK n : n = parser.node
      OBVIOUS
    <3>2. CASE parser.parent = Null \/ n = sgf.broken
      BY <1>2, <2>3, <3>1, <3>2 DEF ParseNode, Reject, EmptyDocument
    <3>3. CASE ~(parser.parent = Null \/ n = sgf.broken)
      <4>1. roots' = roots /\ data' = [data EXCEPT ![n] = "read"]
        BY <2>3, <3>1, <3>3 DEF ParseNode
      <4> QED BY <1>1, <1>3, <4>1
    <3> QED BY <3>2, <3>3
  <2>4. CASE ParseNext
    BY <1>4, <2>4 DEF ParseNext, document
  <2>5. CASE ReadReturns
    <3>1. roots' = roots
      BY <2>5 DEF ReadReturns
    <3>2. ASSUME NEW n \in Node, data[n] # "none" PROVE data'[n] # "none"
      BY <2>5, <3>2 DEF ReadReturns
    <3> QED BY <1>3, <3>1, <3>2
  <2> QED BY <1>5, <2>1, <2>2, <2>3, <2>4, <2>5 DEF Read
<1>6. ASSUME Edit PROVE RootsAreRead'
  <2>1. data' = data
    BY <1>6 DEF Edit, AppendGame, RemoveGame, SetRootNode, SetGames, Editing
  <2>2. roots' = roots \/ \E g \in Node, n \in NodeOrNull : SetRootNode(g, n)
    BY <1>6 DEF Edit, AppendGame, RemoveGame, SetGames
  <2>3. ASSUME NEW g \in Node, NEW n \in NodeOrNull, SetRootNode(g, n) PROVE RootsAreRead'
    <3>1. roots' = [roots EXCEPT ![g] = n] /\ (n # Null => data[n] # "none")
      BY <2>3 DEF SetRootNode
    <3> QED BY <1>1, <2>1, <3>1 DEF RootsAreRead
  <2> QED BY <1>4, <2>1, <2>2, <2>3
<1>7. ASSUME NEW start \in Node, IterateOverNodesDepthFirst(start) PROVE RootsAreRead'
  BY <1>4, <1>7 DEF IterateOverNodesDepthFirst, Visiting, document
<1>8. ASSUME Iterate PROVE RootsAreRead'
  BY <1>4, <1>8 DEF Iterate, Visit, ReturnToParent, IterationReturns, Visiting, document
<1>9. ASSUME Encode PROVE RootsAreRead'
  BY <1>4, <1>9 DEF Encode, Writing, document
<1>10. ASSUME Write PROVE RootsAreRead'
  BY <1>4, <1>10 DEF Write, EncodeGame, EncodeNode, EncodeNext, EncodeGameEnd, EncodeReturns,
                     WriteReturns, Writing, document
<1>11. ASSUME UNCHANGED vars PROVE RootsAreRead'
  BY <1>4, <1>11 DEF vars, document
<1> QED BY <1>5, <1>6, <1>7, <1>8, <1>9, <1>10, <1>11 DEF Next, WithoutDocument

(* With a root there is a tree: that of all nodes.                         *)
LEMMA RootInTree ==
  ASSUME ReadInv, RootsAreRead, parser.pc = "read", NEW g \in Node, roots[g] # Null
  PROVE  Complete /\ roots[g] \in 1 .. Len(sgf.depth)
<1>1. sgf \in SgfcResults /\ AfterReading
  BY DEF ReadInv, IsReadOver
<1>2. roots[g] \in Node /\ data[roots[g]] # "none"
  BY <1>1 DEF AfterReading, RootsAreRead, NodeOrNull
<1>3. Deep(sgf.depth) /\ Len(sgf.depth) \in 1 .. MaxNode
  BY <1>1, SgfFacts
<1>4. /\ tree = ParsedTree(sgf.depth, Len(sgf.depth))
      /\ \A n \in Node : data[n] # "none" <=> n \in 1 .. Len(sgf.depth)
  BY <1>1, <1>2 DEF AfterReading
<1> QED BY <1>2, <1>3, <1>4 DEF Complete

-----------------------------------------------------------------------------
(* What SGFC reads from the content written so far.                        *)

Pairs == Nat \X Nat

ReadState == [open : Seq(Nat), depth : Nat, nodes : Seq(Pairs)]

LEMMA ReadsOpen ==
  ASSUME NEW s \in ReadState, NEW t \in Tokens, t.token = "("
  PROVE  ReadToken(s, t) = [open |-> Append(s.open, s.depth), depth |-> s.depth, nodes |-> s.nodes]
BY DEF ReadToken, ReadState

LEMMA ReadsClose ==
  ASSUME NEW s \in ReadState, NEW t \in Tokens, t.token = ")"
  PROVE  ReadToken(s, t) = [open |-> Front(s.open), depth |-> Last(s.open), nodes |-> s.nodes]
BY DEF ReadToken, ReadState

LEMMA ReadsNode ==
  ASSUME NEW s \in ReadState, NEW t \in Tokens, t.token = ";"
  PROVE  ReadToken(s, t) =
           [open |-> s.open, depth |-> s.depth + 1, nodes |-> Append(s.nodes, <<t.node, s.depth>>)]
BY DEF ReadToken, ReadState

(* The nodes from r to p, with their depths below r.                       *)
Part(r, p) == [i \in 1 .. p - r + 1 |-> <<r + i - 1, sgf.depth[r + i - 1] - sgf.depth[r]>>]

LEMMA PartFacts ==
  ASSUME Complete, NEW r \in 1 .. Len(sgf.depth), NEW p \in r - 1 .. EndOf(sgf.depth, r)
  PROVE  /\ Part(r, p) \in Seq(Pairs)
         /\ Part(r, r - 1) = <<>>
         /\ p < EndOf(sgf.depth, r) =>
              Part(r, p + 1) = Append(Part(r, p), <<p + 1, sgf.depth[p + 1] - sgf.depth[r]>>)
<1> DEFINE d == sgf.depth
           e == EndOf(d, r)
           node(i) == <<r + i - 1, d[r + i - 1] - d[r]>>
<1>1. /\ Len(d) \in Nat /\ r \in Nat /\ e \in r .. Len(d)
      /\ \A n \in 1 .. Len(d) : d[n] \in Nat
      /\ \A n \in r + 1 .. e : d[n] > d[r]
  BY NodesAre, BelowIs, BelowInterval DEF Complete
<1> HIDE DEF e
<1>2. ASSUME NEW i \in 1 .. p - r + 1 PROVE node(i) \in Pairs
  <2>1. r + i - 1 \in Nat /\ (r + i - 1 = r \/ r + i - 1 \in r + 1 .. e) /\ r + i - 1 \in 1 .. Len(d)
    BY <1>1 DEF e
  <2>2. d[r + i - 1] - d[r] \in Nat
    BY <1>1, <2>1
  <2> QED BY <2>1, <2>2 DEF Pairs
<1>3. p - r + 1 \in Nat /\ p \in Nat
  BY <1>1 DEF e
<1>4. Part(r, p) \in Seq(Pairs) /\ Len(Part(r, p)) = p - r + 1
  <2>1. PICK k \in Nat : k = p - r + 1
    BY <1>3
  <2>2. Part(r, p) = [i \in 1 .. k |-> node(i)]
    BY <2>1 DEF Part
  <2>3. \A i \in 1 .. k : node(i) \in Pairs
    BY <1>2, <2>1
  <2> HIDE DEF node
  <2>4. [i \in 1 .. k |-> node(i)] \in Seq(Pairs) /\ Len([i \in 1 .. k |-> node(i)]) = k
    BY <2>3
  <2> QED BY <2>1, <2>2, <2>4
<1>5. Part(r, r - 1) = <<>>
  <2>1. (r - 1) - r + 1 = 0
    BY <1>1
  <2> QED BY <2>1 DEF Part
<1>6. Part(r, p + 1) = Append(Part(r, p), <<p + 1, d[p + 1] - d[r]>>)
  <2>1. PICK k \in Nat : k = p - r + 1 /\ (p + 1) - r + 1 = k + 1 /\ r + (k + 1) - 1 = p + 1
    BY <1>1, <1>3
  <2>2. Part(r, p + 1) = [i \in 1 .. k + 1 |-> node(i)] /\ Part(r, p) = [i \in 1 .. k |-> node(i)]
    BY <2>1 DEF Part
  <2>3. node(k + 1) = <<p + 1, d[p + 1] - d[r]>>
    BY <2>1
  <2> HIDE DEF node
  <2>4. [i \in 1 .. k + 1 |-> node(i)] = Append([i \in 1 .. k |-> node(i)], node(k + 1))
    OBVIOUS
  <2> QED BY <2>2, <2>3, <2>4
<1> QED BY <1>4, <1>5, <1>6

LEMMA GamePart ==
  ASSUME Complete, NEW g, roots[g] \in 1 .. Len(sgf.depth)
  PROVE  GameNodes(g) = Part(roots[g], EndOf(sgf.depth, roots[g]))
<1>1. PICK r : r = roots[g]
  OBVIOUS
<1>2. r \in Nat /\ EndOf(sgf.depth, r) \in Nat
  BY <1>1, NodesAre, BelowIs
<1>3. Cardinality(Below(sgf.depth, r)) \in Nat
  <2>1. /\ Below(sgf.depth, r) = r + 1 .. EndOf(sgf.depth, r) /\ EndOf(sgf.depth, r) \in r .. Len(sgf.depth)
    BY <1>1, BelowInterval DEF Complete
  <2>2. IsFiniteSet(r + 1 .. EndOf(sgf.depth, r))
    BY <1>2, FS_Interval
  <2> QED BY <2>1, <2>2, FS_CardinalityType
<1>4. EndOf(sgf.depth, r) - r + 1 = 1 + Cardinality(Below(sgf.depth, r))
  BY <1>2, <1>3 DEF EndOf
<1> QED BY <1>1, <1>4 DEF GameNodes, Part

-----------------------------------------------------------------------------
(* What has been read of a game, and where the encoder is in its tree.     *)

(* Where the encoder is in the tree below r: it has written the nodes up   *)
(* to p, the stack is the path down to the last one whose tree is not      *)
(* complete, and the next node, if there is one, is node p + 1.            *)
Position(stack, node, r, p) ==
  /\ p \in r - 1 .. EndOf(sgf.depth, r)
  /\ stack \in Seq(Node)
  /\ stack # <<>> => stack[1] = r
  /\ \A i \in 1 .. Len(stack) :
       stack[i] \in r .. EndOf(sgf.depth, r) /\ sgf.depth[stack[i]] = sgf.depth[r] + i - 1
  /\ node # Null =>
       /\ node = p + 1 /\ node \in r .. EndOf(sgf.depth, r)
       /\ sgf.depth[node] = sgf.depth[r] + Len(stack)
       /\ stack = <<>> => node = r
  /\ node = Null => p = IF stack = <<>> THEN EndOf(sgf.depth, r) ELSE EndOf(sgf.depth, Last(stack))

LEMMA InGameTree ==
  ASSUME Complete, NEW r \in 1 .. Len(sgf.depth), NEW n \in r .. EndOf(sgf.depth, r)
  PROVE  /\ n \in 1 .. Len(sgf.depth) /\ n \in Node /\ n # Null
         /\ EndOf(sgf.depth, n) \in n .. EndOf(sgf.depth, r)
<1>1. Len(sgf.depth) \in Nat /\ r \in Nat /\ EndOf(sgf.depth, r) \in r .. Len(sgf.depth)
  BY NodesAre, BelowIs
<1>2. n \in 1 .. Len(sgf.depth)
  BY <1>1
<1>3. n \in Node /\ n # Null /\ EndOf(sgf.depth, n) \in n .. Len(sgf.depth)
  BY <1>2, NodesAre, BelowIs
<1>4. EndOf(sgf.depth, n) <= EndOf(sgf.depth, r)
  <2>1. CASE n = r
    BY <1>1, <2>1
  <2>2. CASE n # r
    <3>1. n \in r + 1 .. EndOf(sgf.depth, r)
      BY <1>1, <2>2
    <3> QED BY <3>1, EndOfBelow DEF Complete
  <2> QED BY <2>1, <2>2
<1> QED BY <1>1, <1>2, <1>3, <1>4

LEMMA StartPosition ==
  ASSUME Complete, NEW r \in 1 .. Len(sgf.depth)
  PROVE  Position(<<>>, r, r, r - 1)
<1>1. /\ Len(sgf.depth) \in Nat /\ r \in Nat /\ r # Null /\ sgf.depth[r] \in Nat
      /\ EndOf(sgf.depth, r) \in r .. Len(sgf.depth)
  BY NodesAre, BelowIs
<1>2. r - 1 \in r - 1 .. EndOf(sgf.depth, r) /\ r = (r - 1) + 1 /\ r \in r .. EndOf(sgf.depth, r)
  BY <1>1
<1>3. <<>> \in Seq(Node) /\ Len(<<>>) = 0 /\ sgf.depth[r] = sgf.depth[r] + 0
  BY <1>1
<1> QED BY <1>1, <1>2, <1>3 DEF Position

LEMMA PositionDown ==
  ASSUME Complete, NEW r \in 1 .. Len(sgf.depth), NEW stack, NEW n, NEW p, n # Null,
         Position(stack, n, r, p)
  PROVE  /\ n = p + 1 /\ p < EndOf(sgf.depth, r) /\ sgf.depth[n] - sgf.depth[r] = Len(stack)
         /\ Position(Append(stack, n), tree.firstChild[n], r, p + 1)
<1> DEFINE d == sgf.depth
           new == Append(stack, n)
<1>1. /\ n = p + 1 /\ n \in r .. EndOf(d, r) /\ p \in r - 1 .. EndOf(d, r) /\ stack \in Seq(Node)
      /\ d[n] = d[r] + Len(stack) /\ (stack = <<>> => n = r) /\ (stack # <<>> => stack[1] = r)
      /\ \A i \in 1 .. Len(stack) : stack[i] \in r .. EndOf(d, r) /\ d[stack[i]] = d[r] + i - 1
  BY DEF Position
<1>2. /\ n \in 1 .. Len(d) /\ n \in Node /\ n \in Nat /\ EndOf(d, n) \in n .. EndOf(d, r)
      /\ d[n] \in Nat /\ d[r] \in Nat /\ r \in Nat /\ EndOf(d, r) \in r .. Len(d) /\ Len(d) \in Nat
      /\ Len(stack) \in Nat /\ p \in Int
  BY <1>1, InGameTree, NodesAre, BelowIs
<1>3. /\ new \in Seq(Node) /\ new # <<>> /\ Len(new) = Len(stack) + 1 /\ new[Len(stack) + 1] = n
      /\ \A i \in 1 .. Len(stack) : new[i] = stack[i]
  BY <1>1, <1>2
<1>4. Last(new) = n
  BY <1>3 DEF Last
<1> HIDE DEF new
<1>5. new[1] = r
  <2>1. CASE stack = <<>>
    BY <1>1, <1>3, <2>1
  <2>2. CASE stack # <<>>
    <3>1. 1 \in 1 .. Len(stack)
      BY <1>1, <2>2
    <3> QED BY <1>1, <1>3, <2>2, <3>1
  <2> QED BY <2>1, <2>2
<1>6. ASSUME NEW i \in 1 .. Len(new)
      PROVE  new[i] \in r .. EndOf(d, r) /\ d[new[i]] = d[r] + i - 1
  <2>1. CASE i \in 1 .. Len(stack)
    BY <1>1, <1>3, <2>1
  <2>2. CASE i = Len(stack) + 1
    BY <1>1, <1>2, <1>3, <2>2
  <2> QED BY <1>2, <1>3, <2>1, <2>2
<1>7. tree.firstChild[n] = IF EndOf(d, n) > n THEN n + 1 ELSE Null
  BY <1>2, LinkDown
<1>8. n = p + 1 /\ p < EndOf(d, r) /\ d[n] - d[r] = Len(stack)
  <2>1. d[n] - d[r] = Len(stack)
    BY <1>1, <1>2
  <2> QED BY <1>1, <1>2, <2>1
<1>9. CASE EndOf(d, n) > n
  <2>1. tree.firstChild[n] = n + 1 /\ IsParent(d, n, n + 1)
    BY <1>2, <1>7, <1>9, ChildIs DEF Complete
  <2>2. d[n + 1] = d[r] + Len(new) /\ n + 1 \in r .. EndOf(d, r) /\ n + 1 # Null
    <3>1. d[n + 1] = d[n] + 1
      BY <2>1 DEF IsParent
    <3>2. d[n + 1] = d[r] + Len(new)
      BY ONLY <1>1, <1>2, <1>3, <3>1
    <3>3. n + 1 \in r .. EndOf(d, r) /\ n + 1 # Null
      BY ONLY <1>1, <1>2, <1>9 DEF Null
    <3> QED BY <3>2, <3>3
  <2>3. p + 1 \in r - 1 .. EndOf(d, r) /\ n + 1 = (p + 1) + 1
    BY <1>1, <1>2
  <2>4. Position(new, n + 1, r, p + 1)
    BY <1>3, <1>5, <1>6, <2>2, <2>3 DEF Position
  <2> QED BY <1>8, <2>1, <2>4 DEF new
<1>10. CASE ~(EndOf(d, n) > n)
  <2>1. tree.firstChild[n] = Null /\ EndOf(d, n) = p + 1 /\ p + 1 \in r - 1 .. EndOf(d, r)
    BY <1>1, <1>2, <1>7, <1>10
  <2>2. Position(new, Null, r, p + 1)
    BY <1>3, <1>4, <1>5, <1>6, <2>1 DEF Position
  <2> QED BY <1>8, <2>1, <2>2 DEF new
<1> QED BY <1>9, <1>10

LEMMA PositionUp ==
  ASSUME Complete, NEW r \in 1 .. Len(sgf.depth), ~HasSiblings(r),
         NEW stack, NEW p, stack # <<>>, Position(stack, Null, r, p), IsPath(stack)
  PROVE  Position(Front(stack), tree.nextSibling[Last(stack)], r, p)
<1> DEFINE d == sgf.depth
           len == Len(stack)
           new == Front(stack)
           n == Last(stack)
<1>1. /\ p \in r - 1 .. EndOf(d, r) /\ stack \in Seq(Node) /\ stack[1] = r /\ p = EndOf(d, n)
      /\ \A i \in 1 .. len : stack[i] \in r .. EndOf(d, r) /\ d[stack[i]] = d[r] + i - 1
  BY DEF Position
<1>2. /\ new \in Seq(Node) /\ Len(new) = len - 1 /\ n \in Node /\ n = stack[len]
      /\ \A i \in 1 .. len - 1 : new[i] = stack[i]
  BY <1>1, FrontFacts DEF Last
<1>3. len \in Nat \ {0}
  BY <1>1
<1> HIDE DEF new, len, n
<1>4. /\ n \in r .. EndOf(d, r) /\ n \in 1 .. Len(d) /\ EndOf(d, n) \in n .. EndOf(d, r)
      /\ d[n] = d[r] + len - 1 /\ n \in Nat /\ d[n] \in Nat /\ d[r] \in Nat
      /\ r \in Nat /\ EndOf(d, r) \in r .. Len(d) /\ Len(d) \in Nat
  <2>1. n \in r .. EndOf(d, r) /\ d[n] = d[r] + len - 1
    BY <1>1, <1>2, <1>3
  <2> QED BY <2>1, InGameTree, NodesAre, BelowIs
<1>5. new # <<>> => new[1] = r
  <2>1. new # <<>> => 1 \in 1 .. len - 1
    BY <1>2, <1>3
  <2> QED BY <1>1, <1>2, <2>1
<1>6. \A i \in 1 .. Len(new) : new[i] \in r .. EndOf(d, r) /\ d[new[i]] = d[r] + i - 1
  <2>1. \A i \in 1 .. Len(new) : i \in 1 .. len /\ i \in 1 .. len - 1
    BY <1>2, <1>3
  <2> QED BY <1>1, <1>2, <2>1
<1>7. CASE len = 1
  <2>1. n = r /\ new = <<>>
    BY <1>1, <1>2, <1>7
  <2>2. tree.nextSibling[n] = Null
    BY <2>1 DEF HasSiblings
  <2>3. Position(new, Null, r, p)
    BY <1>1, <1>2, <1>6, <2>1 DEF Position
  <2> QED BY <2>2, <2>3 DEF new, n
<1>8. CASE len # 1
  <2>1. PICK q : q = stack[len - 1]
    OBVIOUS
  <2>2. /\ tree.parent[n] = q /\ q \in r .. EndOf(d, r) /\ d[q] = d[r] + len - 2
        /\ new # <<>> /\ Last(new) = q
    <3>1. len \in 2 .. len /\ len - 1 \in 1 .. len /\ len - 1 \in 1 .. len - 1
      BY <1>3, <1>8
    <3>2. tree.parent[n] = q
      BY <1>2, <2>1, <3>1 DEF IsPath, len
    <3>3. q \in r .. EndOf(d, r) /\ d[q] = d[r] + (len - 1) - 1
      BY <1>1, <2>1, <3>1
    <3>4. (len - 1) - 1 = len - 2 /\ d[r] + (len - 1) - 1 = d[r] + len - 2
      BY <1>3, <1>4
    <3>5. new # <<>> /\ Last(new) = q
      BY <1>2, <1>3, <1>8, <2>1, <3>1 DEF Last
    <3> QED BY <3>2, <3>3, <3>4, <3>5
  <2>3. /\ q \in 1 .. Len(d) /\ q # Null /\ EndOf(d, q) \in q .. EndOf(d, r)
        /\ n \in q + 1 .. EndOf(d, q) /\ IsParent(d, q, n)
    <3>1. q \in 1 .. Len(d) /\ q # Null /\ EndOf(d, q) \in q .. EndOf(d, r)
      BY <2>2, InGameTree
    <3> QED BY <1>4, <2>2, <3>1, LinkUp
  <2>4. PICK s : s = tree.nextSibling[n]
    OBVIOUS
  <2>5. CASE s = Null
    <3>1. EndOf(d, q) = p
      BY <1>1, <1>4, <2>2, <2>3, <2>4, <2>5, LinkOn
    <3>2. Position(new, Null, r, p)
      BY <1>1, <1>2, <1>5, <1>6, <2>2, <3>1 DEF Position
    <3> QED BY <2>4, <2>5, <3>2 DEF new, n
  <2>6. CASE s # Null
    <3>1. s = p + 1 /\ s \in 1 .. Len(d) /\ tree.parent[s] = q
      BY <1>1, <1>4, <2>2, <2>4, <2>6, LinkOn
    <3>2. IsParent(d, q, s) /\ s \in q + 1 .. EndOf(d, q)
      BY <2>3, <3>1, LinkUp
    <3>3. d[s] = d[q] + 1 /\ s \in r .. EndOf(d, r)
      BY <1>4, <2>2, <2>3, <3>1, <3>2 DEF IsParent
    <3>4. d[s] = d[r] + Len(new)
      <4>1. Len(new) = len - 1
        BY <1>2
      <4> QED BY <1>3, <1>4, <2>2, <3>3, <4>1
    <3>5. Position(new, s, r, p)
      BY <1>1, <1>2, <1>5, <1>6, <2>2, <2>6, <3>1, <3>3, <3>4 DEF Position
    <3> QED BY <2>4, <3>5 DEF new, n
  <2> QED BY <2>5, <2>6
<1> QED BY <1>7, <1>8

-----------------------------------------------------------------------------
(* The parentheses that are open for the reader.                           *)

(* The depths that SGFC returns to where the open parentheses close: that  *)
(* of the root, and for each node with siblings on the stack its own.      *)
OpenAt(at, stack) ==
  /\ at[0] = <<0>>
  /\ \A i \in 0 .. Len(stack) : at[i] \in Seq(Nat)
  /\ \A i \in 1 .. Len(stack) :
       at[i] = IF HasSiblings(stack[i]) THEN Append(at[i - 1], i - 1) ELSE at[i - 1]

OpenFor(open, stack) == \E at : OpenAt(at, stack) /\ open = at[Len(stack)]

LEMMA OpenForRoot == ASSUME NEW open PROVE OpenFor(open, <<>>) <=> open = <<0>>
<1>1. Len(<<>>) = 0 /\ <<0>> \in Seq(Nat)
  OBVIOUS
<1>2. OpenFor(open, <<>>) => open = <<0>>
  BY <1>1 DEF OpenFor, OpenAt
<1>3. open = <<0>> => OpenFor(open, <<>>)
  <2> HAVE open = <<0>>
  <2> DEFINE at == [i \in 0 .. 0 |-> <<0>>]
  <2>1. OpenAt(at, <<>>)
    BY <1>1 DEF OpenAt
  <2>2. at[Len(<<>>)] = open
    BY <1>1
  <2> HIDE DEF at
  <2> QED BY <2>1, <2>2 DEF OpenFor
<1> QED BY <1>2, <1>3

LEMMA OpenForType ==
  ASSUME NEW stack \in Seq(Node), NEW open, OpenFor(open, stack)
  PROVE  open \in Seq(Nat)
<1>1. Len(stack) \in 0 .. Len(stack)
  OBVIOUS
<1> QED BY <1>1 DEF OpenFor, OpenAt

LEMMA OpenForMore ==
  ASSUME NEW stack \in Seq(Node), NEW n \in Node, NEW open, OpenFor(open, stack)
  PROVE  OpenFor(IF HasSiblings(n) THEN Append(open, Len(stack)) ELSE open, Append(stack, n))
<1> DEFINE len == Len(stack)
           new == Append(stack, n)
           more == IF HasSiblings(n) THEN Append(open, len) ELSE open
<1>1. PICK at : OpenAt(at, stack) /\ open = at[len]
  BY DEF OpenFor
<1> DEFINE next == [i \in 0 .. len + 1 |-> IF i = len + 1 THEN more ELSE at[i]]
<1>2. len \in Nat /\ Len(new) = len + 1 /\ new[len + 1] = n /\ \A i \in 1 .. len : new[i] = stack[i]
  OBVIOUS
<1>3. open \in Seq(Nat) /\ more \in Seq(Nat)
  BY <1>2, OpenForType
<1>4. next[0] = <<0>> /\ next[len + 1] = more /\ \A i \in 0 .. len : next[i] = at[i]
  BY <1>1, <1>2 DEF OpenAt
<1> HIDE DEF next, new, len, more
<1>5. ASSUME NEW i \in 0 .. Len(new) PROVE next[i] \in Seq(Nat)
  <2>1. i \in 0 .. len \/ i = len + 1
    BY <1>2
  <2> QED BY <1>1, <1>3, <1>4, <2>1 DEF OpenAt, len
<1>6. ASSUME NEW i \in 1 .. Len(new)
      PROVE  next[i] = IF HasSiblings(new[i]) THEN Append(next[i - 1], i - 1) ELSE next[i - 1]
  <2>1. CASE i = len + 1
    <3>1. i - 1 = len /\ len \in 0 .. len /\ next[i - 1] = open
      BY <1>1, <1>2, <1>4, <2>1
    <3> QED BY <1>2, <1>4, <2>1, <3>1 DEF more
  <2>2. CASE i # len + 1
    <3>1. i \in 1 .. len /\ i - 1 \in 0 .. len /\ i \in 0 .. len
      BY <1>2, <2>2
    <3> QED BY <1>1, <1>2, <1>4, <3>1 DEF OpenAt, len
  <2> QED BY <2>1, <2>2
<1>7. OpenAt(next, new) /\ next[Len(new)] = more
  BY <1>2, <1>4, <1>5, <1>6 DEF OpenAt
<1>8. OpenFor(more, new)
  BY <1>7 DEF OpenFor
<1> QED BY <1>8 DEF more, new, len

LEMMA OpenForLess ==
  ASSUME NEW stack \in Seq(Node), NEW n \in Node, NEW open, OpenFor(open, Append(stack, n))
  PROVE  \E less \in Seq(Nat) :
           OpenFor(less, stack) /\ open = IF HasSiblings(n) THEN Append(less, Len(stack)) ELSE less
<1> DEFINE len == Len(stack)
           new == Append(stack, n)
<1>1. PICK at : OpenAt(at, new) /\ open = at[Len(new)]
  BY DEF OpenFor
<1>2. len \in Nat /\ Len(new) = len + 1 /\ new[len + 1] = n /\ \A i \in 1 .. len : new[i] = stack[i]
  OBVIOUS
<1> HIDE DEF new
<1>3. OpenAt(at, stack)
  <2>1. \A i \in 0 .. len : i \in 0 .. Len(new)
    BY <1>2
  <2>2. \A i \in 1 .. len : i \in 1 .. Len(new)
    BY <1>2
  <2> QED BY <1>1, <1>2, <2>1, <2>2 DEF OpenAt
<1>4. at[len] \in Seq(Nat) /\ OpenFor(at[len], stack)
  BY <1>3, OpenForType DEF OpenFor
<1>5. open = IF HasSiblings(n) THEN Append(at[len], len) ELSE at[len]
  <2>1. len + 1 \in 1 .. Len(new) /\ (len + 1) - 1 = len
    BY <1>2
  <2> QED BY <1>1, <1>2, <2>1 DEF OpenAt
<1> QED BY <1>4, <1>5

LEMMA FrontOfAppend ==
  ASSUME NEW S, NEW s \in Seq(S), NEW x \in S
  PROVE  Front(Append(s, x)) = s /\ Last(Append(s, x)) = x
<1> DEFINE new == Append(s, x)
<1>1. new \in Seq(S) /\ new # <<>> /\ Len(new) = Len(s) + 1 /\ new[Len(s) + 1] = x
      /\ \A i \in 1 .. Len(s) : new[i] = s[i]
  OBVIOUS
<1> HIDE DEF new
<1>2. Len(s) \in Nat /\ (Len(s) + 1) - 1 = Len(s)
  OBVIOUS
<1>3. Front(new) \in Seq(S) /\ Len(Front(new)) = Len(s) /\ \A i \in 1 .. Len(s) : Front(new)[i] = s[i]
  <2>1. Front(new) \in Seq(S) /\ Len(Front(new)) = Len(new) - 1
        /\ \A i \in 1 .. Len(new) - 1 : Front(new)[i] = new[i]
    BY ONLY <1>1, FrontFacts
  <2> QED BY <1>1, <1>2, <2>1
<1>4. Front(new) = s
  BY <1>3, SeqEqual
<1> QED BY <1>1, <1>4 DEF Last, new

(* What SGFC has read when the encoder is there: the nodes of the games    *)
(* before, and those up to p.                                              *)
Reads(s, before, stack, r, p) ==
  /\ s \in ReadState
  /\ s.nodes = before \o Part(r, p)
  /\ OpenFor(s.open, stack)

LEMMA ReadsFacts ==
  ASSUME NEW s, NEW before, NEW stack, NEW r, NEW p, Reads(s, before, stack, r, p)
  PROVE  /\ s \in ReadState /\ s.nodes = before \o Part(r, p) /\ OpenFor(s.open, stack)
         /\ s.open \in Seq(Nat) /\ s.depth \in Nat /\ s.nodes \in Seq(Pairs)
         /\ s = [open |-> s.open, depth |-> s.depth, nodes |-> s.nodes]
<1>1. s \in ReadState /\ s.nodes = before \o Part(r, p) /\ OpenFor(s.open, stack)
  BY DEF Reads
<1> HIDE DEF Part, OpenFor
<1> QED BY <1>1 DEF ReadState

LEMMA ReadsThis ==
  ASSUME NEW before, NEW stack, NEW r, NEW p, NEW open \in Seq(Nat), NEW depth \in Nat,
         NEW nodes \in Seq(Pairs), nodes = before \o Part(r, p), OpenFor(open, stack)
  PROVE  Reads([open |-> open, depth |-> depth, nodes |-> nodes], before, stack, r, p)
<1>1. [open |-> open, depth |-> depth, nodes |-> nodes] \in ReadState
  BY DEF ReadState
<1> QED BY <1>1 DEF Reads

LEMMA ReadsDown ==
  ASSUME Complete, NEW r \in 1 .. Len(sgf.depth), NEW stack, NEW n, NEW p, n # Null,
         Position(stack, n, r, p), NEW before \in Seq(Pairs),
         NEW s, Reads(s, before, stack, r, p), s.depth = Len(stack),
         NEW out \in Seq(Tokens), s = ReadTokens(out), NEW level \in Nat \ {0}, NEW new,
         new = WithNode(out, n, level)
  PROVE  /\ Reads(ReadTokens(new), before, Append(stack, n), r, p + 1)
         /\ ReadTokens(new).depth = Len(Append(stack, n))
<1> DEFINE d == sgf.depth
           open == IF HasSiblings(n) THEN Append(s.open, Len(stack)) ELSE s.open
           opened == [open |-> open, depth |-> Len(stack), nodes |-> s.nodes]
           then == [open |-> open, depth |-> Len(stack) + 1, nodes |-> Append(s.nodes, <<n, Len(stack)>>)]
<1>1. /\ n = p + 1 /\ p < EndOf(d, r) /\ d[n] - d[r] = Len(stack)
      /\ p \in r - 1 .. EndOf(d, r) /\ stack \in Seq(Node) /\ n \in Node
  <2>1. n = p + 1 /\ p < EndOf(d, r) /\ d[n] - d[r] = Len(stack)
    BY PositionDown
  <2>2. p \in r - 1 .. EndOf(d, r) /\ stack \in Seq(Node) /\ n \in r .. EndOf(d, r)
    BY DEF Position
  <2> QED BY <2>1, <2>2, InGameTree
<1>2. /\ s.open \in Seq(Nat) /\ s.nodes \in Seq(Pairs) /\ s.depth \in Nat
      /\ s.nodes = before \o Part(r, p) /\ OpenFor(s.open, stack) /\ s \in ReadState
      /\ s = [open |-> s.open, depth |-> s.depth, nodes |-> s.nodes]
  BY ReadsFacts
<1>13. Len(stack) \in Nat /\ open \in Seq(Nat)
  BY <1>1, <1>2
<1>3. level \in Nat /\ level - 1 \in Nat
  OBVIOUS
<1>4. PICK t \in Tokens : NodeToken(n, level) = <<t>> /\ t.token = ";" /\ t.node = n
  <2>1. PICK t \in Tokens : t = NodeToken(n, level)[1] /\ NodeToken(n, level) = <<t>> /\ t.token = ";"
    BY <1>1, <1>3, NodeTokenIs
  <2>2. NodeToken(n, level)[1].node = n
    BY DEF NodeToken
  <2> QED BY <2>1, <2>2
<1>5. PICK mid \in Seq(Tokens) :
        /\ new = Append(mid, t)
        /\ ReadTokens(mid) = opened
  <2>1. CASE HasSiblings(n)
    <3>1. PICK b \in Tokens : GameTreeToken("(", level - 1) = <<b>> /\ b.token = "("
      BY <1>3, GameTokenIs
    <3>2. PICK mid \in Seq(Tokens) : mid = Append(out, b)
      <4>1. Append(out, b) \in Seq(Tokens)
        OBVIOUS
      <4> QED BY <4>1
    <3>3. out \o <<b>> = mid /\ mid \o <<t>> = Append(mid, t)
      BY <3>2, AppendIsConcat
    <3>4. new = Append(mid, t)
      BY <1>4, <2>1, <3>1, <3>3 DEF WithNode
    <3>5. ReadTokens(mid) = ReadToken(s, b)
      BY <3>2, ReadMore
    <3>6. ReadTokens(mid) = opened
      BY <1>2, <2>1, <3>1, <3>5, ReadsOpen
    <3> QED BY <3>2, <3>4, <3>6
  <2>2. CASE ~HasSiblings(n)
    <3>1. out \o <<>> = out /\ out \o <<t>> = Append(out, t)
      BY AppendIsConcat, ConcatEmptySeq
    <3>2. new = Append(out, t)
      BY <1>4, <2>2, <3>1 DEF WithNode
    <3>3. s = opened
      BY <1>2, <2>2
    <3> QED BY <3>2, <3>3
  <2> QED BY <2>1, <2>2
<1> HIDE DEF open
<1>6. opened \in ReadState
  BY <1>2, <1>13 DEF ReadState
<1>7. ReadTokens(new) = then
  <2>1. ReadTokens(new) = ReadToken(opened, t)
    BY <1>5, ReadMore
  <2> QED BY <1>4, <1>6, <2>1, ReadsNode
<1>8. Part(r, p + 1) = Append(Part(r, p), <<n, Len(stack)>>) /\ Part(r, p) \in Seq(Pairs)
  BY <1>1, PartFacts
<1>9. <<n, Len(stack)>> \in Pairs
  <2>1. n \in Nat
    BY <1>1, DocumentAssumption DEF Node
  <2> QED BY <1>2, <2>1 DEF Pairs
<1>10. then.nodes = before \o Part(r, p + 1)
  <2>1. before \o Append(Part(r, p), <<n, Len(stack)>>) = Append(before \o Part(r, p), <<n, Len(stack)>>)
    <3> HIDE DEF Part
    <3>1. PICK part \in Seq(Pairs) : part = Part(r, p)
      BY <1>8
    <3>2. PICK x \in Pairs : x = <<n, Len(stack)>>
      BY <1>9
    <3>3. before \o Append(part, x) = Append(before \o part, x)
      OBVIOUS
    <3> QED BY <3>1, <3>2, <3>3
  <2> QED BY <1>2, <1>8, <2>1
<1>11. OpenFor(open, Append(stack, n))
  BY <1>1, <1>2, OpenForMore DEF open
<1>12. Len(Append(stack, n)) = Len(stack) + 1
  BY <1>1
<1>14. Append(s.nodes, <<n, Len(stack)>>) \in Seq(Pairs) /\ Len(stack) + 1 \in Nat
  BY <1>2, <1>9, <1>13
<1>15. Reads(then, before, Append(stack, n), r, p + 1)
  BY <1>10, <1>11, <1>13, <1>14, ReadsThis
<1> QED BY <1>7, <1>12, <1>15

(* The token of a node whose tree is complete, if it began a variation.    *)
WithEnd(out, n, outer) == out \o (IF HasSiblings(n) THEN GameTreeToken(")", outer) ELSE <<>>)

LEMMA ReadsUp ==
  ASSUME NEW stack \in Seq(Node), stack # <<>>, NEW r, NEW p, NEW before,
         NEW s, Reads(s, before, stack, r, p),
         NEW out \in Seq(Tokens), s = ReadTokens(out), NEW level \in Nat, NEW n, n = Last(stack),
         NEW new, new = WithEnd(out, n, level)
  PROVE  /\ Reads(ReadTokens(new), before, Front(stack), r, p)
         /\ HasSiblings(n) => ReadTokens(new).depth = Len(Front(stack))
<1>1. PICK front \in Seq(Node) : front = Front(stack) /\ stack = Append(front, n) /\ n \in Node
  BY FrontAndLast
<1>2. /\ s \in ReadState /\ s.nodes = before \o Part(r, p) /\ OpenFor(s.open, Append(front, n))
      /\ s.nodes \in Seq(Pairs) /\ s.depth \in Nat
      /\ s = [open |-> s.open, depth |-> s.depth, nodes |-> s.nodes]
  <2>1. Reads(s, before, Append(front, n), r, p)
    BY <1>1
  <2> QED BY <2>1, ReadsFacts
<1>6. Len(front) \in Nat
  BY <1>1
<1>3. PICK less \in Seq(Nat) :
        OpenFor(less, front) /\ s.open = IF HasSiblings(n) THEN Append(less, Len(front)) ELSE less
  BY <1>1, <1>2, OpenForLess
<1>4. CASE HasSiblings(n)
  <2>1. PICK t \in Tokens : GameTreeToken(")", level) = <<t>> /\ t.token = ")"
    BY GameTokenIs
  <2>2. out \o <<t>> = Append(out, t)
    BY AppendIsConcat
  <2>3. ReadTokens(new) = ReadToken(s, t)
    BY <1>4, <2>1, <2>2, ReadMore DEF WithEnd
  <2>4. Front(s.open) = less /\ Last(s.open) = Len(front)
    BY <1>3, <1>4, <1>6, FrontOfAppend
  <2>5. ReadTokens(new) = [open |-> less, depth |-> Len(front), nodes |-> s.nodes]
    BY <1>2, <2>1, <2>3, <2>4, ReadsClose
  <2>6. Reads(ReadTokens(new), before, front, r, p)
    BY <1>2, <1>3, <1>6, <2>5, ReadsThis
  <2> QED BY <1>1, <2>5, <2>6
<1>5. CASE ~HasSiblings(n)
  <2>1. new = out
    BY <1>5, ConcatEmptySeq DEF WithEnd
  <2>2. Reads(s, before, front, r, p)
    BY <1>2, <1>3, <1>5, ReadsThis
  <2> QED BY <1>1, <1>5, <2>1, <2>2
<1> QED BY <1>4, <1>5

-----------------------------------------------------------------------------
(* What is read from the content written so far.                           *)

(* The nodes of the first n games.                                         *)
Earlier(n) == Joined([i \in Nat |-> GameNodes(games[i])], n)

NoSiblingRoots == \A g \in ToSet(games) : ~HasSiblings(roots[g])

ReadInGame(s, game, stack, node) ==
  LET r == roots[games[game]]
  IN  /\ game \in 1 .. Len(games) /\ r # Null
      /\ Earlier(game - 1) \in Seq(Pairs)
      /\ node # Null => s.depth = Len(stack)
      /\ \E p : Position(stack, node, r, p) /\ Reads(s, Earlier(game - 1), stack, r, p)

ReadBetween(s, game) ==
  /\ game - 1 \in 0 .. Len(games)
  /\ Earlier(game - 1) \in Seq(Pairs)
  /\ s = [open |-> <<>>, depth |-> 0, nodes |-> Earlier(game - 1)]

Scanned(pc, game, node, stack, out) ==
  /\ pc = "tree" => ReadInGame(ReadTokens(out), game, stack, node)
  /\ pc \in {"game", "returned"} => ReadBetween(ReadTokens(out), game)
  /\ pc = "returned" => game = Len(games) + 1

ScanInv ==
  writer # Idle /\ NoSiblingRoots =>
    Scanned(writer.pc, writer.game, writer.node, writer.stack, writer.out)

LEMMA ScanBegins ==
  ASSUME GamesAndRoots
  PROVE  Scanned("game", 1, Null, <<>>, <<>>)
<1>1. Earlier(1 - 1) = <<>>
  BY NothingJoined DEF Earlier
<1>2. ReadBetween(ReadTokens(<<>>), 1)
  <2>1. 1 - 1 \in 0 .. Len(games)
    BY DEF GamesAndRoots
  <2>2. <<>> \in Seq(Pairs)
    OBVIOUS
  <2> QED BY <1>1, <2>1, <2>2, NothingRead DEF ReadBetween, Unread
<1> QED BY <1>2 DEF Scanned

(* The root of game number game.                                           *)
LEMMA GameRoot ==
  ASSUME ReadInv, RootsAreRead, parser.pc = "read", NEW game \in 1 .. Len(games),
         NEW r, r = roots[games[game]], r # Null
  PROVE  /\ Complete /\ r \in 1 .. Len(sgf.depth)
         /\ NoSiblingRoots => ~HasSiblings(r)
<1>1. games \in Seq(Node)
  BY LinksAfterReading DEF GamesAndRoots
<1>2. games[game] \in Node /\ games[game] \in ToSet(games)
  BY <1>1 DEF ToSet
<1>3. NoSiblingRoots => ~HasSiblings(r)
  BY <1>2 DEF NoSiblingRoots
<1> QED BY <1>2, <1>3, RootInTree

LEMMA ScanGame ==
  ASSUME ReadInv, RootsAreRead, parser.pc = "read", NEW out \in Seq(Tokens),
         NEW game \in 1 .. Len(games), ReadBetween(ReadTokens(out), game),
         NEW root, root = roots[games[game]], root # Null,
         NEW new, new = out \o GameTreeToken("(", 0)
  PROVE  ReadInGame(ReadTokens(new), game, <<>>, root)
<1> DEFINE before == Earlier(game - 1)
           s == ReadTokens(out)
<1>1. Complete /\ root \in 1 .. Len(sgf.depth)
  BY GameRoot
<1>2. before \in Seq(Pairs) /\ s = [open |-> <<>>, depth |-> 0, nodes |-> before]
  BY DEF ReadBetween
<1>3. PICK t \in Tokens : GameTreeToken("(", 0) = <<t>> /\ t.token = "("
  BY GameTokenIs
<1>4. ReadTokens(new) = ReadToken(s, t)
  <2>1. out \o <<t>> = Append(out, t)
    BY AppendIsConcat
  <2> QED BY <1>3, <2>1, ReadMore
<1>5. s \in ReadState
  BY <1>2 DEF ReadState
<1> HIDE DEF before, s
<1>6. ReadTokens(new) = [open |-> <<0>>, depth |-> 0, nodes |-> before]
  <2>1. Append(<<>>, 0) = <<0>>
    OBVIOUS
  <2> QED BY <1>2, <1>3, <1>4, <1>5, <2>1, ReadsOpen
<1>7. Position(<<>>, root, root, root - 1)
  BY <1>1, StartPosition
<1>8. before = before \o Part(root, root - 1)
  <2>1. EndOf(sgf.depth, root) \in root .. Len(sgf.depth) /\ root \in Nat
    BY <1>1, BelowIs
  <2>2. root - 1 \in root - 1 .. EndOf(sgf.depth, root)
    BY <2>1
  <2>3. Part(root, root - 1) = <<>>
    BY <1>1, <2>2, PartFacts
  <2> QED BY <1>2, <2>3, ConcatEmptySeq
<1>9. Reads(ReadTokens(new), before, <<>>, root, root - 1)
  <2>1. <<0>> \in Seq(Nat) /\ 0 \in Nat /\ OpenFor(<<0>>, <<>>)
    BY OpenForRoot
  <2> QED BY <1>2, <1>6, <1>8, <2>1, ReadsThis
<1>10. ReadTokens(new).depth = Len(<<>>)
  BY <1>6
<1> QED BY <1>2, <1>7, <1>9, <1>10 DEF ReadInGame, before

LEMMA ScanNode ==
  ASSUME ReadInv, RootsAreRead, parser.pc = "read", NEW out \in Seq(Tokens),
         NEW game, NEW stack, NEW n, n # Null, ReadInGame(ReadTokens(out), game, stack, n),
         NEW level \in Nat \ {0}, NEW new, new = WithNode(out, n, level)
  PROVE  ReadInGame(ReadTokens(new), game, Append(stack, n), tree.firstChild[n])
<1>1. PICK r : r = roots[games[game]]
  OBVIOUS
<1>2. PICK before : before = Earlier(game - 1)
  OBVIOUS
<1>3. PICK s : s = ReadTokens(out)
  OBVIOUS
<1>4. game \in 1 .. Len(games) /\ r # Null /\ before \in Seq(Pairs) /\ s.depth = Len(stack)
  BY <1>1, <1>2, <1>3 DEF ReadInGame
<1>5. PICK p : Position(stack, n, r, p) /\ Reads(s, before, stack, r, p)
  BY <1>1, <1>2, <1>3 DEF ReadInGame
<1>6. Complete /\ r \in 1 .. Len(sgf.depth)
  BY <1>1, <1>4, GameRoot
<1>7. Position(Append(stack, n), tree.firstChild[n], r, p + 1)
  BY <1>5, <1>6, PositionDown
<1>8. /\ Reads(ReadTokens(new), before, Append(stack, n), r, p + 1)
      /\ ReadTokens(new).depth = Len(Append(stack, n))
  BY <1>3, <1>4, <1>5, <1>6, ReadsDown
<1> QED BY <1>1, <1>2, <1>4, <1>7, <1>8 DEF ReadInGame

LEMMA ScanNext ==
  ASSUME ReadInv, RootsAreRead, parser.pc = "read", NoSiblingRoots, NEW out \in Seq(Tokens),
         NEW game, NEW stack \in Seq(Node), stack # <<>>, IsPath(stack),
         ReadInGame(ReadTokens(out), game, stack, Null),
         NEW level \in Nat, NEW n, n = Last(stack),
         NEW new, new = WithEnd(out, n, level)
  PROVE  ReadInGame(ReadTokens(new), game, Front(stack), tree.nextSibling[n])
<1>1. PICK r : r = roots[games[game]]
  OBVIOUS
<1>2. PICK before : before = Earlier(game - 1)
  OBVIOUS
<1>3. PICK s : s = ReadTokens(out)
  OBVIOUS
<1>4. game \in 1 .. Len(games) /\ r # Null /\ before \in Seq(Pairs)
  BY <1>1, <1>2 DEF ReadInGame
<1>5. PICK p : Position(stack, Null, r, p) /\ Reads(s, before, stack, r, p)
  BY <1>1, <1>2, <1>3 DEF ReadInGame
<1>6. Complete /\ r \in 1 .. Len(sgf.depth) /\ ~HasSiblings(r)
  BY <1>1, <1>4, GameRoot
<1>7. Position(Front(stack), tree.nextSibling[n], r, p)
  BY <1>5, <1>6, PositionUp
<1>8. /\ Reads(ReadTokens(new), before, Front(stack), r, p)
      /\ HasSiblings(n) => ReadTokens(new).depth = Len(Front(stack))
  BY <1>3, <1>5, ReadsUp
<1>9. tree.nextSibling[n] # Null => ReadTokens(new).depth = Len(Front(stack))
  BY <1>8 DEF HasSiblings
<1> QED BY <1>1, <1>2, <1>4, <1>7, <1>8, <1>9 DEF ReadInGame

LEMMA ScanGameEnd ==
  ASSUME ReadInv, RootsAreRead, parser.pc = "read", NEW out \in Seq(Tokens),
         NEW game, ReadInGame(ReadTokens(out), game, <<>>, Null),
         NEW new, new = out \o GameTreeToken(")", 0)
  PROVE  ReadBetween(ReadTokens(new), game + 1)
<1>1. PICK r : r = roots[games[game]]
  OBVIOUS
<1>2. PICK before : before = Earlier(game - 1)
  OBVIOUS
<1>3. PICK s : s = ReadTokens(out)
  OBVIOUS
<1>4. game \in 1 .. Len(games) /\ r # Null /\ before \in Seq(Pairs) /\ games \in Seq(Node)
  BY <1>1, <1>2, LinksAfterReading DEF ReadInGame, GamesAndRoots
<1>5. PICK p : Position(<<>>, Null, r, p) /\ Reads(s, before, <<>>, r, p)
  BY <1>1, <1>2, <1>3 DEF ReadInGame
<1>6. Complete /\ r \in 1 .. Len(sgf.depth)
  BY <1>1, <1>4, GameRoot
<1>7. p = EndOf(sgf.depth, r)
  BY <1>5 DEF Position
<1>8. GameNodes(games[game]) = Part(r, p)
  BY <1>1, <1>6, <1>7, GamePart
<1>9. p \in r - 1 .. EndOf(sgf.depth, r)
  BY <1>5 DEF Position
<1>10. Part(r, p) \in Seq(Pairs)
  BY <1>6, <1>9, PartFacts
<1>11. Earlier(game) = before \o Part(r, p) /\ Earlier(game) \in Seq(Pairs)
  <2>1. PICK all : all = [i \in Nat |-> GameNodes(games[i])]
    OBVIOUS
  <2>2. game - 1 \in Nat /\ (game - 1) + 1 = game /\ game \in Nat
    BY <1>4
  <2>3. all[game] = Part(r, p)
    BY <1>8, <2>1, <2>2
  <2>4. Joined(all, (game - 1) + 1) = Joined(all, game - 1) \o all[(game - 1) + 1]
    BY <1>10, <2>2, <2>3, JoinMore
  <2>5. Earlier(game) = before \o Part(r, p)
    BY <1>2, <2>1, <2>2, <2>3, <2>4 DEF Earlier
  <2> HIDE DEF Part
  <2> QED BY <1>4, <1>10, <2>5
<1>12. /\ s \in ReadState /\ s.nodes = Earlier(game) /\ s.open = <<0>>
  BY <1>5, <1>11, ReadsFacts, OpenForRoot
<1>13. PICK t \in Tokens : GameTreeToken(")", 0) = <<t>> /\ t.token = ")"
  BY GameTokenIs
<1>14. ReadTokens(new) = ReadToken(s, t)
  <2>1. out \o <<t>> = Append(out, t)
    BY AppendIsConcat
  <2> QED BY <1>3, <1>13, <2>1, ReadMore
<1>15. Front(<<0>>) = <<>> /\ Last(<<0>>) = 0
  <2>1. <<>> \in Seq(Nat) /\ 0 \in Nat /\ Append(<<>>, 0) = <<0>>
    OBVIOUS
  <2> QED BY <2>1, FrontOfAppend
<1>16. ReadTokens(new) = [open |-> <<>>, depth |-> 0, nodes |-> Earlier(game)]
  BY <1>12, <1>13, <1>14, <1>15, ReadsClose
<1>17. (game + 1) - 1 = game /\ game \in 0 .. Len(games)
  BY <1>4
<1> QED BY <1>11, <1>16, <1>17 DEF ReadBetween

(* The same document is read from the same content.                        *)
SameTrees == UNCHANGED <<sgf, games, roots, tree>>

LEMMA SameScan ==
  ASSUME SameTrees, NEW pc, NEW game, NEW node, NEW stack, NEW out,
         Scanned(pc, game, node, stack, out)
  PROVE  Scanned(pc, game, node, stack, out)'
<1>1. sgf' = sgf /\ games' = games /\ roots' = roots /\ tree' = tree
  BY DEF SameTrees
<1>2. \A n : HasSiblings(n)' <=> HasSiblings(n)
  BY <1>1, SameSiblings DEF SameDocument
<1>3. Earlier(game - 1)' = Earlier(game - 1)
  BY <1>1 DEF Earlier, GameNodes
<1>4. ASSUME NEW r, NEW p, Position(stack, node, r, p) PROVE Position(stack, node, r, p)'
  BY <1>1, <1>4 DEF Position, EndOf
<1>5. ASSUME NEW open, OpenFor(open, stack) PROVE OpenFor(open, stack)'
  <2>1. PICK at : OpenAt(at, stack) /\ open = at[Len(stack)]
    BY <1>5 DEF OpenFor
  <2>2. OpenAt(at, stack)'
    BY <1>2, <2>1 DEF OpenAt
  <2> QED BY <2>1, <2>2 DEF OpenFor
<1>6. ASSUME NEW s, NEW before, NEW r, NEW p, Reads(s, before, stack, r, p)
      PROVE  Reads(s, before, stack, r, p)'
  <2>1. Part(r, p)' = Part(r, p)
    BY <1>1 DEF Part
  <2> QED BY <1>5, <1>6, <2>1 DEF Reads
<1>7. PICK s : s = ReadTokens(out)
  OBVIOUS
<1>8. ASSUME ReadInGame(s, game, stack, node) PROVE ReadInGame(s, game, stack, node)'
  <2>1. PICK r : r = roots[games[game]]
    OBVIOUS
  <2>2. PICK before : before = Earlier(game - 1)
    OBVIOUS
  <2>3. PICK p : Position(stack, node, r, p) /\ Reads(s, before, stack, r, p)
    BY <1>8, <2>1, <2>2 DEF ReadInGame
  <2>4. Position(stack, node, r, p)' /\ Reads(s, before, stack, r, p)'
    BY <1>4, <1>6, <2>3
  <2>5. /\ game \in 1 .. Len(games) /\ r # Null /\ before \in Seq(Pairs)
        /\ node # Null => s.depth = Len(stack)
    BY <1>8, <2>1, <2>2 DEF ReadInGame
  <2>6. r = roots'[games'[game]] /\ before = Earlier(game - 1)' /\ Len(games') = Len(games)
    BY <1>1, <1>3, <2>1, <2>2
  <2> HIDE DEF Earlier, Position, Reads
  <2> QED BY <2>4, <2>5, <2>6 DEF ReadInGame
<1>9. ASSUME ReadBetween(s, game) PROVE ReadBetween(s, game)'
  BY <1>1, <1>3, <1>9 DEF ReadBetween
<1> QED BY <1>1, <1>7, <1>8, <1>9 DEF Scanned

LEMMA SameRoots == ASSUME SameTrees PROVE NoSiblingRoots' <=> NoSiblingRoots
<1>1. games' = games /\ roots' = roots /\ tree' = tree
  BY DEF SameTrees
<1>2. \A n : HasSiblings(n)' <=> HasSiblings(n)
  BY <1>1, SameSiblings DEF SameDocument
<1> QED BY <1>1, <1>2 DEF NoSiblingRoots

LEMMA ScanAfter ==
  ASSUME SameTrees, NEW pc, NEW game, NEW node, NEW stack, NEW out,
         NoSiblingRoots => Scanned(pc, game, node, stack, out),
         writer'.pc = pc, writer'.game = game, writer'.node = node, writer'.stack = stack,
         writer'.out = out
  PROVE  ScanInv'
<1>1. NoSiblingRoots' => Scanned(pc, game, node, stack, out)'
  BY SameScan, SameRoots
<1>2. NoSiblingRoots' => Scanned(writer.pc, writer.game, writer.node, writer.stack, writer.out)'
  BY <1>1
<1> QED BY <1>2 DEF ScanInv

LEMMA OthersKeepScan ==
  ASSUME ScanInv, SameTrees, writer' = writer
  PROVE  ScanInv'
<1>1. CASE writer = Idle
  BY <1>1 DEF ScanInv, Idle
<1>2. CASE writer # Idle
  BY <1>2, ScanAfter DEF ScanInv
<1> QED BY <1>1, <1>2

LEMMA EncodeKeepsScan == ASSUME GamesAndRoots, Encode PROVE ScanInv'
<1>1. /\ SameTrees
      /\ writer' = [pc |-> "game", game |-> 1, node |-> Null, stack |-> <<>>, level |-> 0, out |-> <<>>]
  BY DEF Encode, Writing, document, SameTrees
<1> QED BY <1>1, ScanBegins, ScanAfter

LEMMA WriteKeepsScan ==
  ASSUME ReadInv, GamesAndRoots, RootsAreRead, WriterInv, OutputInv, ScanInv, Write
  PROVE  ScanInv'
<1>1. PICK pc, game, node, stack, level, out :
        /\ pc = writer.pc /\ game = writer.game /\ node = writer.node
        /\ stack = writer.stack /\ level = writer.level /\ out = writer.out
  OBVIOUS
<1>2. SameTrees /\ writer # Idle /\ pc # "idle"
  BY <1>1 DEF Write, EncodeGame, EncodeNode, EncodeNext, EncodeGameEnd, EncodeReturns, WriteReturns,
              Writing, Idle, document, SameTrees
<1>3. /\ DOMAIN writer = WriterFields /\ stack \in Seq(Node) /\ node \in NodeOrNull
      /\ IsPath(stack) /\ game \in Nat \ {0} /\ (pc = "game" => stack = <<>>) /\ parser.pc = "read"
  BY <1>1, <1>2 DEF WriterInv, Walk
<1>4. out \in Seq(Tokens) /\ (pc = "tree" => level \in Nat \ {0})
  <2>1. Fits(out) /\ (pc = "tree" => InGame(out, stack, node, game, level))
    BY <1>1, <1>2 DEF OutputInv
  <2>2. pc = "tree" => level = 1 + Cardinality({i \in 1 .. Len(stack) : HasSiblings(stack[i])})
    BY <2>1 DEF InGame
  <2>3. PICK k \in Nat : k = Cardinality({i \in 1 .. Len(stack) : HasSiblings(stack[i])})
    BY <1>3, CountedSiblings
  <2> QED BY <2>1, <2>2, <2>3 DEF Fits
<1>5. NoSiblingRoots => Scanned(pc, game, node, stack, out)
  BY <1>1, <1>2 DEF ScanInv
<1>6. ASSUME EncodeGame PROVE ScanInv'
  <2>1. PICK root : root = roots[games[game]]
    OBVIOUS
  <2>2. pc = "game" /\ stack = <<>> /\ game \in 1 .. Len(games)
    <3>1. pc = "game" /\ game <= Len(games) /\ Len(games) \in Nat
      BY <1>1, <1>6 DEF EncodeGame, Writing, GamesAndRoots
    <3> QED BY <1>3, <3>1
  <2>3. CASE root = Null
    <3>1. writer' = [writer EXCEPT !.pc = "thrown", !.out = <<>>]
      BY <1>1, <1>6, <2>1, <2>3 DEF EncodeGame
    <3>2. /\ writer'.pc = "thrown" /\ writer'.game = game /\ writer'.node = node
          /\ writer'.stack = stack /\ writer'.out = <<>>
      BY <1>1, <1>3, <3>1 DEF WriterFields
    <3>3. Scanned("thrown", game, node, stack, <<>>)
      BY DEF Scanned
    <3> QED BY <1>2, <3>2, <3>3, ScanAfter
  <2>4. CASE root # Null
    <3>1. PICK new : new = out \o GameTreeToken("(", 0)
      OBVIOUS
    <3>2. writer' = [writer EXCEPT !.pc = "tree", !.node = root, !.level = 1, !.out = new]
      BY <1>1, <1>6, <2>1, <2>4, <3>1 DEF EncodeGame
    <3>3. /\ writer'.pc = "tree" /\ writer'.game = game /\ writer'.node = root
          /\ writer'.stack = <<>> /\ writer'.out = new
      BY <1>1, <1>3, <2>2, <3>2 DEF WriterFields
    <3>4. NoSiblingRoots => Scanned("tree", game, root, <<>>, new)
      <4> SUFFICES ASSUME NoSiblingRoots PROVE Scanned("tree", game, root, <<>>, new)
        OBVIOUS
      <4>1. ReadBetween(ReadTokens(out), game)
        BY <1>5, <2>2 DEF Scanned
      <4>2. ReadInGame(ReadTokens(new), game, <<>>, root)
        BY <1>3, <1>4, <2>1, <2>2, <2>4, <3>1, <4>1, ScanGame
      <4> QED BY <4>2 DEF Scanned
    <3> QED BY <1>2, <3>3, <3>4, ScanAfter
  <2> QED BY <2>3, <2>4
<1>7. ASSUME EncodeNode PROVE ScanInv'
  <2>1. PICK inner : inner = IF HasSiblings(node) THEN level + 1 ELSE level
    OBVIOUS
  <2>2. PICK next, to : next = tree.firstChild[node] /\ to = Append(stack, node)
    OBVIOUS
  <2>3. PICK new : new = WithNode(out, node, inner)
    OBVIOUS
  <2>4. pc = "tree" /\ node # Null
    BY <1>1, <1>7 DEF EncodeNode, Writing
  <2>5. writer' = [writer EXCEPT !.level = inner, !.stack = to, !.node = next, !.out = new]
    BY <1>1, <1>7, <2>1, <2>2, <2>3 DEF EncodeNode, WithNode
  <2>6. /\ writer'.pc = "tree" /\ writer'.game = game /\ writer'.node = next
        /\ writer'.stack = to /\ writer'.out = new
    BY <1>1, <1>3, <2>4, <2>5 DEF WriterFields
  <2>7. NoSiblingRoots => Scanned("tree", game, next, to, new)
    <3> SUFFICES ASSUME NoSiblingRoots PROVE Scanned("tree", game, next, to, new)
      OBVIOUS
    <3>1. ReadInGame(ReadTokens(out), game, stack, node)
      BY <1>5, <2>4 DEF Scanned
    <3>2. inner \in Nat \ {0}
      BY <1>4, <2>1, <2>4
    <3>3. ReadInGame(ReadTokens(new), game, to, next)
      BY <1>3, <1>4, <2>2, <2>3, <2>4, <3>1, <3>2, ScanNode
    <3> QED BY <3>3 DEF Scanned
  <2> QED BY <1>2, <2>6, <2>7, ScanAfter
<1>8. ASSUME EncodeNext PROVE ScanInv'
  <2>1. PICK n : n = Last(stack)
    OBVIOUS
  <2>2. PICK outer : outer = IF HasSiblings(n) THEN level - 1 ELSE level
    OBVIOUS
  <2>3. PICK next, to : next = tree.nextSibling[n] /\ to = Front(stack)
    OBVIOUS
  <2>4. PICK new : new = WithEnd(out, n, outer)
    OBVIOUS
  <2>5. pc = "tree" /\ node = Null /\ stack # <<>>
    BY <1>1, <1>8 DEF EncodeNext, Writing
  <2>6. writer' = [writer EXCEPT !.level = outer, !.stack = to, !.node = next, !.out = new]
    BY <1>1, <1>8, <2>1, <2>2, <2>3, <2>4 DEF EncodeNext, WithEnd
  <2>7. /\ writer'.pc = "tree" /\ writer'.game = game /\ writer'.node = next
        /\ writer'.stack = to /\ writer'.out = new
    BY <1>1, <1>3, <2>5, <2>6 DEF WriterFields
  <2>8. NoSiblingRoots => Scanned("tree", game, next, to, new)
    <3> SUFFICES ASSUME NoSiblingRoots PROVE Scanned("tree", game, next, to, new)
      OBVIOUS
    <3>1. ReadInGame(ReadTokens(out), game, stack, Null)
      BY <1>5, <2>5 DEF Scanned
    <3>2. outer \in Nat
      BY <1>4, <2>2, <2>5
    <3>3. ReadInGame(ReadTokens(new), game, to, next)
      BY <1>3, <1>4, <2>1, <2>3, <2>4, <2>5, <3>1, <3>2, ScanNext
    <3> QED BY <3>3 DEF Scanned
  <2> QED BY <1>2, <2>7, <2>8, ScanAfter
<1>9. ASSUME EncodeGameEnd PROVE ScanInv'
  <2>1. PICK new : new = out \o GameTreeToken(")", 0)
    OBVIOUS
  <2>2. pc = "tree" /\ node = Null /\ stack = <<>>
    BY <1>1, <1>9 DEF EncodeGameEnd, Writing
  <2>3. writer' = [writer EXCEPT !.pc = "game", !.game = game + 1, !.level = 0, !.out = new]
    BY <1>1, <1>9, <2>1 DEF EncodeGameEnd
  <2>4. /\ writer'.pc = "game" /\ writer'.game = game + 1 /\ writer'.node = node
        /\ writer'.stack = stack /\ writer'.out = new
    BY <1>1, <1>3, <2>3 DEF WriterFields
  <2>5. NoSiblingRoots => Scanned("game", game + 1, node, stack, new)
    <3> SUFFICES ASSUME NoSiblingRoots PROVE Scanned("game", game + 1, node, stack, new)
      OBVIOUS
    <3>1. ReadInGame(ReadTokens(out), game, <<>>, Null)
      BY <1>5, <2>2 DEF Scanned
    <3>2. ReadBetween(ReadTokens(new), game + 1)
      BY <1>3, <1>4, <2>1, <3>1, ScanGameEnd
    <3> QED BY <3>2 DEF Scanned
  <2> QED BY <1>2, <2>4, <2>5, ScanAfter
<1>10. ASSUME EncodeReturns PROVE ScanInv'
  <2>1. pc = "game" /\ game > Len(games) /\ writer' = [writer EXCEPT !.pc = "returned"]
    BY <1>1, <1>10 DEF EncodeReturns, Writing
  <2>2. /\ writer'.pc = "returned" /\ writer'.game = game /\ writer'.node = node
        /\ writer'.stack = stack /\ writer'.out = out
    BY <1>1, <1>3, <2>1 DEF WriterFields
  <2>3. NoSiblingRoots => Scanned("returned", game, node, stack, out)
    <3> SUFFICES ASSUME NoSiblingRoots PROVE Scanned("returned", game, node, stack, out)
      OBVIOUS
    <3>1. ReadBetween(ReadTokens(out), game)
      BY <1>5, <2>1 DEF Scanned
    <3>2. game - 1 \in 0 .. Len(games) /\ Len(games) \in Nat
      BY <3>1 DEF ReadBetween, GamesAndRoots
    <3>3. game = Len(games) + 1
      BY <1>3, <2>1, <3>2
    <3> QED BY <3>1, <3>3 DEF Scanned
  <2> QED BY <1>2, <2>2, <2>3, ScanAfter
<1>11. ASSUME WriteReturns PROVE ScanInv'
  BY <1>11 DEF WriteReturns, ScanInv
<1> QED BY <1>6, <1>7, <1>8, <1>9, <1>10, <1>11 DEF Write

LEMMA ScannedIsRoundTrip == DocumentInv /\ ScanInv => RoundTrip
<1> SUFFICES ASSUME DocumentInv, ScanInv, writer.pc = "returned", NoSiblingRoots PROVE RoundTrip
  BY DEF RoundTrip, NoSiblingRoots
<1>1. writer # Idle
  BY DEF Idle
<1>2. ReadBetween(ReadTokens(writer.out), writer.game) /\ writer.game = Len(games) + 1
  BY <1>1 DEF ScanInv, Scanned
<1>3. games \in Seq(Node)
  BY ReadTypes DEF DocumentInv, GamesAndRoots
<1>4. Len(games) \in Nat /\ DOMAIN games = 1 .. Len(games) /\ writer.game - 1 = Len(games)
  BY <1>2, <1>3
<1>5. ReadTokens(writer.out).nodes = Earlier(Len(games))
  BY <1>2, <1>4 DEF ReadBetween
<1>6. Earlier(Len(games)) = FlattenSeq([i \in DOMAIN games |-> GameNodes(games[i])])
  <2>1. [i \in 1 .. Len(games) |-> [j \in Nat |-> GameNodes(games[j])][i]] =
          [i \in DOMAIN games |-> GameNodes(games[i])]
    BY <1>4
  <2> QED BY <2>1 DEF Earlier, Joined
<1> QED BY <1>5, <1>6 DEF RoundTrip

LEMMA ScanStep ==
  ASSUME DocumentInv, RootsAreRead, OutputInv, ScanInv, [Next]_vars
  PROVE  ScanInv'
<1>0. ReadInv /\ IterInv /\ WriterInv
  BY DEF DocumentInv
<1>1. ASSUME writer = Idle, UNCHANGED writer PROVE ScanInv'
  BY <1>1 DEF ScanInv
<1>2. ASSUME Read PROVE ScanInv'
  <2>1. parser.pc # "read" /\ UNCHANGED writer
    BY <1>2 DEF Read, ReadFatalError, ReadGame, ParseNode, ParseNext, ReadReturns, Reading
  <2> QED BY <1>0, <1>1, <2>1 DEF WriterInv
<1>3. ASSUME Edit PROVE ScanInv'
  <2>1. writer.pc = "idle" /\ UNCHANGED writer
    BY <1>3 DEF Edit, AppendGame, RemoveGame, SetRootNode, SetGames, Editing
  <2> QED BY <1>0, <1>1, <2>1 DEF WriterInv
<1>4. ASSUME UNCHANGED <<sgf, document, writer>> PROVE ScanInv'
  BY <1>4, OthersKeepScan DEF document, SameTrees
<1>5. ASSUME NEW start \in Node, IterateOverNodesDepthFirst(start) PROVE ScanInv'
  BY <1>4, <1>5 DEF IterateOverNodesDepthFirst, Visiting
<1>6. ASSUME Iterate PROVE ScanInv'
  BY <1>4, <1>6 DEF Iterate, Visit, ReturnToParent, IterationReturns, Visiting
<1>7. ASSUME Encode PROVE ScanInv'
  BY <1>0, <1>7, ReadTypes, EncodeKeepsScan
<1>8. ASSUME Write PROVE ScanInv'
  <2>1. writer.pc # "idle"
    BY <1>8 DEF Write, EncodeGame, EncodeNode, EncodeNext, EncodeGameEnd, EncodeReturns,
                WriteReturns, Writing
  <2>2. parser.pc = "read"
    BY <1>0, <2>1 DEF WriterInv, Idle
  <2> QED BY <1>0, <1>8, <2>2, LinksAfterReading, WriteKeepsScan
<1>9. ASSUME UNCHANGED vars PROVE ScanInv'
  BY <1>4, <1>9 DEF vars
<1> QED BY <1>2, <1>3, <1>5, <1>6, <1>7, <1>8, <1>9 DEF Next, WithoutDocument

LEMMA AlwaysRootsAreRead == Spec => []RootsAreRead
<1>1. Init => RootsAreRead
  BY DEF Init, RootsAreRead
<1>2. DocumentInv /\ RootsAreRead /\ [Next]_vars => RootsAreRead'
  BY RootsStep
<1> QED BY <1>1, <1>2, AlwaysDocumentInv, PTL DEF Spec

(* SgfcDocumentEncoder and SGFC's parser: whatever games the client has    *)
(* put together from the trees that were read, and whichever nodes it has  *)
(* made their roots, SGFC reads back from the content the nodes of each    *)
(* game in their order, each at its depth below the root, in a document of *)
(* any size, unless a root has siblings, which the encoder would write too.*)
THEOREM ContentReadsBack == Spec => []RoundTrip
<1>1. Init => ScanInv
  BY DEF Init, ScanInv
<1>2. DocumentInv /\ RootsAreRead /\ OutputInv /\ ScanInv /\ [Next]_vars => ScanInv'
  BY ScanStep
<1>3. DocumentInv /\ ScanInv => RoundTrip
  BY ScannedIsRoundTrip
<1> QED
  BY <1>1, <1>2, <1>3, AlwaysDocumentInv, AlwaysRootsAreRead, AlwaysOutputInv, PTL DEF Spec
=============================================================================
