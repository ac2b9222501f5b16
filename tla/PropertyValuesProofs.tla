----------------------- MODULE PropertyValuesProofs ------------------------
(***************************************************************************)
(* Proofs about PropertyValues, for texts of any length and any number of  *)
(* values: a property that is encoded, parsed by SGFC and decoded keeps    *)
(* its skeleton, and its values are read back.                             *)
(*                                                                         *)
(* The operators on texts are first shown to work character by character   *)
(* (FlattenSeq, Escaped, Replace), then by induction over texts            *)
(* (TextInduction, from the least length of a counterexample): an encoded  *)
(* text neither escapes what follows it nor ends its value, SGFC reads it  *)
(* as the text with its escape characters, and the decoder removes them.   *)
(* Then a text that is written as some values is parsed as those values,   *)
(* whatever they are.  The invariant (ValueInv) says that the values of a  *)
(* property fit its descriptor, also those that were read.                 *)
(***************************************************************************)
EXTENDS PropertyValues, SequenceTheorems, FiniteSetTheorems, NaturalsInduction,
        WellFoundedInduction, TLAPS

-----------------------------------------------------------------------------
(* Induction over numbers.                                                 *)

LEMMA LeastNumber ==
  ASSUME NEW S, S \subseteq Nat, S # {}
  PROVE  \E i \in S : \A j \in S : i <= j
<1> DEFINE Less == {p \in Nat \X Nat : p[1] < p[2]}
<1>1. IsWellFoundedOn(Less, Nat)
  <2>1. Less = OpToRel(<, Nat)
    BY DEF OpToRel
  <2> QED BY <2>1, NatLessThanWellFounded
<1>2. PICK i \in S : \A j \in S : ~(<<j, i>> \in Less)
  <2> HIDE DEF Less
  <2> QED BY <1>1, WFMin
<1>3. ASSUME NEW j \in S PROVE i <= j
  <2>1. i \in Nat /\ j \in Nat
    OBVIOUS
  <2>2. ~(j < i)
    BY <1>2, <2>1
  <2> QED BY <2>1, <2>2
<1> QED BY <1>3

-----------------------------------------------------------------------------
(* Characters and texts.  Positions are put together as characters are.    *)

Character == STRING \cup {Escape, ValueBegin, ValueEnd, Separator, LineEnding, Space, "7", "a"} \cup Nat
Text == Seq(Character)

LEMMA CharactersAre ==
  /\ {Escape, ValueBegin, ValueEnd, Separator, LineEnding, Space, "7", "a"} \subseteq Character
  /\ STRING \subseteq Character /\ Nat \subseteq Character
BY DEF Character

LEMMA CharactersDiffer ==
  /\ Escape # ValueBegin /\ Escape # ValueEnd /\ Escape # Separator /\ Escape # LineEnding /\ Escape # Space
  /\ ValueEnd # ValueBegin /\ ValueEnd # Separator /\ ValueEnd # LineEnding /\ ValueEnd # Space
  /\ Separator # ValueBegin /\ Separator # LineEnding /\ Separator # Space /\ LineEnding # Space
  /\ "7" \notin {Escape, ValueEnd, Separator, LineEnding} /\ "a" \notin {Escape, ValueEnd, Separator, LineEnding}
BY Zenon DEF Escape, ValueBegin, ValueEnd, Separator, LineEnding, Space

LEMMA StringsAreTexts == ASSUME NEW t \in Seq(STRING) PROVE t \in Text
<1>1. t \in [1..Len(t) -> STRING] /\ Len(t) \in Nat
  OBVIOUS
<1>2. t \in [1..Len(t) -> Character]
  BY <1>1, CharactersAre
<1> QED BY <1>1, <1>2 DEF Text

LEMMA TextFacts ==
  ASSUME NEW a \in Text
  PROVE  /\ Len(a) \in Nat /\ DOMAIN a = 1..Len(a) /\ \A i \in 1..Len(a) : a[i] \in Character
         /\ <<>> \in Text /\ Len(<<>>) = 0 /\ (Len(a) = 0 <=> a = <<>>)
         /\ a \o <<>> = a /\ <<>> \o a = a
BY DEF Text

LEMMA JoinFacts ==
  ASSUME NEW a \in Text, NEW b \in Text
  PROVE  /\ a \o b \in Text /\ Len(a \o b) = Len(a) + Len(b) /\ DOMAIN (a \o b) = 1..(Len(a) + Len(b))
         /\ \A i \in 1..Len(a) : (a \o b)[i] = a[i]
         /\ \A i \in 1..Len(b) : (a \o b)[Len(a) + i] = b[i]
         /\ a \o b = <<>> <=> a = <<>> /\ b = <<>>
BY DEF Text

LEMMA JoinAssociative ==
  ASSUME NEW a \in Text, NEW b \in Text, NEW c \in Text
  PROVE  (a \o b) \o c = a \o (b \o c)
BY ConcatAssociative DEF Text

LEMMA OneFacts ==
  ASSUME NEW a \in Text, NEW c \in Character
  PROVE  /\ <<c>> \in Text /\ Len(<<c>>) = 1 /\ <<c>>[1] = c /\ <<c>> # <<>>
         /\ Append(a, c) = a \o <<c>> /\ Append(a, c) \in Text
         /\ Len(a \o <<c>>) = Len(a) + 1 /\ (a \o <<c>>)[Len(a) + 1] = c
BY DEF Text

LEMMA SameText ==
  ASSUME NEW a \in Text, NEW b \in Text, Len(a) = Len(b), \A i \in 1..Len(a) : a[i] = b[i]
  PROVE  a = b
BY DEF Text

LEMMA TwoFacts ==
  ASSUME NEW c \in Character, NEW d \in Character
  PROVE  /\ <<c, d>> \in Text /\ Len(<<c, d>>) = 2 /\ <<c, d>>[1] = c /\ <<c, d>>[2] = d /\ <<c, d>> # <<>>
         /\ <<c, d>> = <<c>> \o <<d>>
<1>1. /\ <<c, d>> \in Text /\ Len(<<c, d>>) = 2 /\ <<c, d>>[1] = c /\ <<c, d>>[2] = d /\ <<c, d>> # <<>>
  BY DEF Text
<1>2. <<c, d>> = <<c>> \o <<d>>
  <2> DEFINE e == <<c>> \o <<d>>
  <2>1. <<c>> \in Text /\ <<d>> \in Text /\ Len(<<c>>) = 1 /\ Len(<<d>>) = 1 /\ <<c>>[1] = c /\ <<d>>[1] = d
    BY DEF Text
  <2>2. e \in Text /\ Len(e) = 1 + 1 /\ e[1] = c /\ e[1 + 1] = d
    <3>1. 1 \in 1..1
      OBVIOUS
    <3> QED BY ONLY <2>1, <3>1, JoinFacts
  <2> HIDE DEF e
  <2>3. 1 + 1 = 2 /\ \A i \in 1..2 : i = 1 \/ i = 2
    OBVIOUS
  <2>4. e = <<c, d>>
    BY ONLY <1>1, <2>2, <2>3, SameText
  <2> QED BY <2>4 DEF e
<1> QED BY <1>1, <1>2

LEMMA SubTextFacts ==
  ASSUME NEW a \in Text, NEW m \in Nat \ {0}, NEW n \in 0..Len(a)
  PROVE  /\ SubSeq(a, m, n) \in Text
         /\ Len(SubSeq(a, m, n)) = IF m <= n THEN n - m + 1 ELSE 0
         /\ \A i \in 1..(n - m + 1) : SubSeq(a, m, n)[i] = a[m + i - 1]
<1>1. m \in Int /\ n \in Int /\ \A i \in m..n : a[i] \in Character
  BY DEF Text
<1> QED BY ONLY <1>1, SubSeqProperties DEF Text

(* A text that is not empty is another one and a character.                *)
LEMMA LastFacts ==
  ASSUME NEW a \in Text, a # <<>>
  PROVE  LET b == SubSeq(a, 1, Len(a) - 1)
         IN  b \in Text /\ Len(b) = Len(a) - 1 /\ a[Len(a)] \in Character /\ a = b \o <<a[Len(a)]>>
<1> DEFINE b == SubSeq(a, 1, Len(a) - 1)
           c == b \o <<a[Len(a)]>>
<1>1. Len(a) \in Nat /\ Len(a) >= 1 /\ a[Len(a)] \in Character
  BY DEF Text
<1>2. b \in Text /\ Len(b) = Len(a) - 1 /\ \A i \in 1..(Len(a) - 1) : b[i] = a[i]
  <2> DEFINE n == Len(a) - 1
  <2>1. 1 \in Nat \ {0} /\ n \in 0..Len(a) /\ n \in Nat
    BY <1>1
  <2> HIDE DEF n
  <2>2. n - 1 + 1 = n /\ (1 <= n \/ n = 0) /\ \A i \in 1..n : 1 + i - 1 = i
    BY ONLY <2>1
  <2>3. /\ SubSeq(a, 1, n) \in Text /\ Len(SubSeq(a, 1, n)) = IF 1 <= n THEN n - 1 + 1 ELSE 0
        /\ \A i \in 1..(n - 1 + 1) : SubSeq(a, 1, n)[i] = a[1 + i - 1]
    BY ONLY a \in Text, <2>1, SubTextFacts
  <2> QED BY <2>2, <2>3 DEF n
<1> HIDE DEF b
<1>3. /\ c \in Text /\ Len(c) = Len(a) /\ c[Len(a)] = a[Len(a)]
      /\ \A i \in 1..(Len(a) - 1) : c[i] = a[i]
  BY <1>1, <1>2 DEF Text
<1> HIDE DEF c
<1>4. \A i \in 1..Len(a) : c[i] = a[i]
  BY <1>1, <1>3
<1>5. c = a
  BY <1>3, <1>4 DEF Text
<1> QED BY <1>1, <1>2, <1>5 DEF b, c

(* Induction over texts: the shortest text without a property is not empty *)
(* and each shorter one has the property.                                  *)
LEMMA ShortestText ==
  ASSUME NEW S, S \subseteq Text, S # {}
  PROVE  \E t \in S : \A u \in S : Len(t) <= Len(u)
<1> DEFINE N == {Len(t) : t \in S}
<1>1. N \subseteq Nat /\ N # {}
  BY TextFacts
<1> HIDE DEF N
<1>2. PICK n \in N : \A k \in N : n <= k
  BY <1>1, LeastNumber
<1>3. PICK t \in S : Len(t) = n
  BY DEF N
<1> QED BY <1>2, <1>3 DEF N

-----------------------------------------------------------------------------
(* Texts put together.                                                     *)

(* The function by which FlattenSeq is defined, for the first n sequences. *)
IsFlat(f, seqs, n) ==
  f = [i \in 1 .. n |-> IF i = 1 THEN seqs[i] ELSE f[i - 1] \o seqs[i]]

LEMMA FlatExists == ASSUME NEW seqs, NEW n \in Nat PROVE \E f : IsFlat(f, seqs, n)
<1> DEFINE Bad == {k \in Nat : ~\E f : IsFlat(f, seqs, k)}
<1>1. 0 \notin Bad
  <2> DEFINE f == [i \in 1 .. 0 |-> seqs[i]]
  <2>1. IsFlat(f, seqs, 0)
    BY DEF IsFlat
  <2> QED BY <2>1
<1>2. ASSUME NEW k \in Nat \ {0}, NEW g, IsFlat(g, seqs, k - 1) PROVE \E f : IsFlat(f, seqs, k)
  <2> DEFINE f == [i \in 1 .. k |-> IF i = 1 THEN seqs[i] ELSE g[i - 1] \o seqs[i]]
  <2>1. ASSUME NEW i \in 1 .. k PROVE f[i] = IF i = 1 THEN seqs[i] ELSE f[i - 1] \o seqs[i]
    <3>1. CASE i = 1
      BY <3>1
    <3>2. CASE i # 1
      <4>1. i - 1 \in 1 .. k - 1 /\ i - 1 \in 1 .. k
        BY <3>2
      <4>2. g[i - 1] = IF i - 1 = 1 THEN seqs[i - 1] ELSE g[(i - 1) - 1] \o seqs[i - 1]
        BY <1>2, <4>1 DEF IsFlat
      <4>3. f[i - 1] = g[i - 1]
        BY <4>1, <4>2
      <4> QED BY <3>2, <4>3
    <3> QED BY <3>1, <3>2
  <2>2. f = [i \in 1 .. k |-> f[i]]
    OBVIOUS
  <2> HIDE DEF f
  <2>3. IsFlat(f, seqs, k)
    BY <2>1, <2>2 DEF IsFlat
  <2> QED BY <2>3
<1>3. Bad = {}
  <2> SUFFICES ASSUME Bad # {} PROVE FALSE
    OBVIOUS
  <2>1. Bad \subseteq Nat
    OBVIOUS
  <2> HIDE DEF Bad
  <2>2. PICK k \in Bad : \A j \in Bad : k <= j
    BY <2>1, LeastNumber
  <2>3. k \in Nat \ {0} /\ k - 1 \in Nat /\ ~(k <= k - 1)
    BY <1>1, <2>1
  <2>4. k - 1 \notin Bad
    BY <2>2, <2>3
  <2> QED BY <1>2, <2>3, <2>4 DEF Bad
<1> QED BY <1>3

(* The first n of some texts in one, and how it grows.                     *)
Flat(s, n) == FlattenSeq([i \in 1 .. n |-> s[i]])

FlatSteps(f, s, n) == f[1] = s[1] /\ \A i \in 2 .. n : f[i] = f[i - 1] \o s[i]

LEMMA FlatInSteps ==
  ASSUME NEW s, NEW n \in Nat \ {0}
  PROVE  \E f : FlatSteps(f, s, n) /\ Flat(s, n) = f[n]
<1> DEFINE seqs == [i \in 1 .. n |-> s[i]]
           Goal(f) == f = [i \in 1 .. Len(seqs) |-> IF i = 1 THEN seqs[i] ELSE f[i - 1] \o seqs[i]]
           flatten == CHOOSE f : Goal(f)
<1>1. Len(seqs) = n /\ \A i \in 1 .. n : seqs[i] = s[i]
  OBVIOUS
<1>2. Goal(flatten)
  <2>1. PICK f : IsFlat(f, seqs, n)
    BY FlatExists
  <2>2. Goal(f)
    BY <1>1, <2>1 DEF IsFlat
  <2> HIDE DEF Goal
  <2> QED BY <2>2
<1>3. Flat(s, n) = flatten[n]
  BY <1>1 DEF FlattenSeq, Flat
<1> HIDE DEF flatten
<1>4. \A i \in 1 .. n : flatten[i] = IF i = 1 THEN s[i] ELSE flatten[i - 1] \o s[i]
  BY <1>1, <1>2
<1>5. FlatSteps(flatten, s, n)
  <2>1. 1 \in 1 .. n /\ \A i \in 2 .. n : i \in 1 .. n /\ i # 1
    OBVIOUS
  <2> QED BY <1>4, <2>1 DEF FlatSteps
<1> QED BY <1>3, <1>5

LEMMA NothingFlat == ASSUME NEW s PROVE Flat(s, 0) = <<>>
<1>1. [i \in 1 .. 0 |-> s[i]] = <<>> /\ Len(<<>>) = 0
  OBVIOUS
<1> QED BY <1>1 DEF FlattenSeq, Flat

(* One text more stands behind the others.                                 *)
LEMMA FlatMore ==
  ASSUME NEW n \in Nat, NEW s, s[n + 1] \in Text
  PROVE  Flat(s, n + 1) = Flat(s, n) \o s[n + 1]
<1>1. PICK g : FlatSteps(g, s, n + 1) /\ Flat(s, n + 1) = g[n + 1]
  BY FlatInSteps
<1>2. CASE n = 0
  <2>1. Flat(s, n) = <<>> /\ Flat(s, n + 1) = s[n + 1]
    BY <1>1, <1>2, NothingFlat DEF FlatSteps
  <2>2. <<>> \o s[n + 1] = s[n + 1]
    BY TextFacts
  <2> QED BY <2>1, <2>2
<1>3. CASE n # 0
  <2>1. PICK f : FlatSteps(f, s, n) /\ Flat(s, n) = f[n]
    BY <1>3, FlatInSteps
  <2> DEFINE Bad == {k \in 1 .. n : f[k] # g[k]}
  <2>2. Bad = {}
    <3> SUFFICES ASSUME Bad # {} PROVE FALSE
      OBVIOUS
    <3>1. Bad \subseteq Nat
      OBVIOUS
    <3>2. PICK k \in Bad : \A j \in Bad : k <= j
      <4> HIDE DEF Bad
      <4> QED BY <3>1, LeastNumber
    <3>3. k \in 2 .. n /\ k \in 2 .. n + 1
      BY <1>1, <2>1, <3>2 DEF FlatSteps
    <3>4. f[k - 1] = g[k - 1]
      <4>1. k - 1 \in 1 .. n /\ ~(k <= k - 1)
        BY <3>3
      <4> QED BY <3>2, <4>1
    <3> QED BY <1>1, <2>1, <3>2, <3>3, <3>4 DEF FlatSteps
  <2>3. f[n] = g[n] /\ n + 1 \in 2 .. n + 1 /\ (n + 1) - 1 = n
    BY <1>3, <2>2
  <2>4. g[n + 1] = g[n] \o s[n + 1]
    BY <1>1, <2>3 DEF FlatSteps
  <2> QED BY <1>1, <2>1, <2>3, <2>4
<1> QED BY <1>2, <1>3

LEMMA FlatIsText ==
  ASSUME NEW n \in Nat, NEW s, \A i \in 1..n : s[i] \in Text
  PROVE  Flat(s, n) \in Text
<1> DEFINE Bad == {k \in Nat : k <= n /\ Flat(s, k) \notin Text}
<1>1. 0 \notin Bad
  <2>1. <<>> \in Text
    BY DEF Text
  <2> QED BY <2>1, NothingFlat
<1>2. ASSUME NEW k \in Nat, k + 1 <= n, Flat(s, k) \in Text PROVE Flat(s, k + 1) \in Text
  <2>1. s[k + 1] \in Text
    BY <1>2
  <2>2. Flat(s, k + 1) = Flat(s, k) \o s[k + 1]
    BY <2>1, FlatMore
  <2> QED BY <1>2, <2>1, <2>2, JoinFacts
<1>3. Bad = {}
  <2> SUFFICES ASSUME Bad # {} PROVE FALSE
    OBVIOUS
  <2>1. Bad \subseteq Nat
    OBVIOUS
  <2> HIDE DEF Bad
  <2>2. PICK k \in Bad : \A j \in Bad : k <= j
    BY <2>1, LeastNumber
  <2>3. k \in Nat \ {0} /\ k - 1 \in Nat /\ ~(k <= k - 1) /\ (k - 1) + 1 = k
    BY <1>1, <2>1
  <2>4. k - 1 \notin Bad /\ k <= n
    BY <2>2, <2>3 DEF Bad
  <2>5. k - 1 <= n
    BY <2>3, <2>4
  <2> QED BY <1>2, <2>2, <2>3, <2>4, <2>5 DEF Bad
<1> QED BY <1>3

LEMMA SameFlat ==
  ASSUME NEW n \in Nat, NEW s, NEW r, \A i \in 1..n : s[i] = r[i]
  PROVE  Flat(s, n) = Flat(r, n)
<1>1. [i \in 1 .. n |-> s[i]] = [i \in 1 .. n |-> r[i]]
  OBVIOUS
<1> QED BY <1>1 DEF Flat

(* What n texts and m more give.                                           *)
BeginsWith(s, r, n) == \A i \in 1..n : s[i] = r[i] /\ r[i] \in Text
ContinuesWith(s, n, t, m) == \A i \in 1..m : s[n + i] = t[i] /\ t[i] \in Text

LEMMA FlatJoin ==
  ASSUME NEW n \in Nat, NEW m \in Nat, NEW s, NEW r, NEW t, BeginsWith(s, r, n), ContinuesWith(s, n, t, m),
         NEW N, N = n + m
  PROVE  Flat(s, N) = Flat(r, n) \o Flat(t, m)
<1>0. (\A i \in 1..n : s[i] = r[i] /\ r[i] \in Text) /\ \A i \in 1..m : s[n + i] = t[i] /\ t[i] \in Text
  BY DEF BeginsWith, ContinuesWith
<1> DEFINE Bad == {k \in Nat : k <= m /\ Flat(s, n + k) # Flat(r, n) \o Flat(t, k)}
<1>1. Flat(r, n) \in Text
  BY <1>0, FlatIsText
<1>2. 0 \notin Bad
  <2>1. Flat(s, n) = Flat(r, n)
    BY <1>0, SameFlat
  <2>2. Flat(t, 0) = <<>> /\ n + 0 = n
    BY NothingFlat
  <2>3. Flat(r, n) \o <<>> = Flat(r, n)
    BY ONLY <1>1, TextFacts
  <2> QED BY <2>1, <2>2, <2>3
<1>3. ASSUME NEW k \in Nat, k + 1 <= m, Flat(s, n + k) = Flat(r, n) \o Flat(t, k)
      PROVE  Flat(s, n + (k + 1)) = Flat(r, n) \o Flat(t, k + 1)
  <2>1. k + 1 \in 1..m /\ n + k \in Nat /\ (n + k) + 1 = n + (k + 1) /\ \A i \in 1..k : i \in 1..m
    BY <1>3
  <2>2. s[(n + k) + 1] = t[k + 1] /\ t[k + 1] \in Text
    BY <1>0, <2>1
  <2>3. Flat(t, k) \in Text
    BY <1>0, <2>1, FlatIsText
  <2>4. Flat(s, (n + k) + 1) = Flat(s, n + k) \o t[k + 1]
    BY <2>1, <2>2, FlatMore
  <2>5. Flat(t, k + 1) = Flat(t, k) \o t[k + 1]
    BY <2>2, FlatMore
  <2>6. (Flat(r, n) \o Flat(t, k)) \o t[k + 1] = Flat(r, n) \o (Flat(t, k) \o t[k + 1])
    BY ONLY <1>1, <2>2, <2>3, JoinAssociative
  <2> QED BY ONLY <1>3, <2>1, <2>4, <2>5, <2>6
<1>4. Bad = {}
  <2> SUFFICES ASSUME Bad # {} PROVE FALSE
    OBVIOUS
  <2>1. Bad \subseteq Nat
    OBVIOUS
  <2> HIDE DEF Bad
  <2>2. PICK k \in Bad : \A j \in Bad : k <= j
    BY <2>1, LeastNumber
  <2>3. k \in Nat \ {0} /\ k - 1 \in Nat /\ ~(k <= k - 1) /\ (k - 1) + 1 = k
    BY <1>2, <2>1
  <2>4. k - 1 \notin Bad /\ k <= m
    BY <2>2, <2>3 DEF Bad
  <2>5. k - 1 <= m
    BY <2>3, <2>4
  <2>6. Flat(s, n + (k - 1)) = Flat(r, n) \o Flat(t, k - 1)
    BY <2>3, <2>4, <2>5 DEF Bad
  <2> QED BY <1>3, <2>2, <2>3, <2>4, <2>6 DEF Bad
<1> QED BY <1>4

(* A text is not empty if the last of its parts is not.                    *)
LEMMA LastOfFlat ==
  ASSUME NEW n \in Nat \ {0}, NEW s, \A i \in 1..n : s[i] \in Text, s[n] # <<>>
  PROVE  Flat(s, n) # <<>>
<1>1. n - 1 \in Nat /\ (n - 1) + 1 = n /\ n \in 1..n /\ \A i \in 1..(n - 1) : i \in 1..n
  OBVIOUS
<1>2. Flat(s, n - 1) \in Text
  BY <1>1, FlatIsText
<1>3. Flat(s, n) = Flat(s, n - 1) \o s[n]
  BY ONLY <1>1, FlatMore, \A i \in 1..n : s[i] \in Text
<1> QED BY <1>1, <1>2, <1>3, JoinFacts

(* Every character of a text is one of its parts.                          *)
LEMMA CharactersOfFlat ==
  ASSUME NEW n \in Nat, NEW s, \A i \in 1..n : s[i] \in Text,
         NEW c, \A i \in 1..n : \A j \in 1..Len(s[i]) : s[i][j] # c
  PROVE  \A j \in 1..Len(Flat(s, n)) : Flat(s, n)[j] # c
<1> DEFINE Good(k) == \A j \in 1..Len(Flat(s, k)) : Flat(s, k)[j] # c
           Bad == {k \in Nat : k <= n /\ ~Good(k)}
<1>1. 0 \notin Bad
  <2>1. Flat(s, 0) = <<>> /\ Len(<<>>) = 0 /\ 1..0 = {}
    BY NothingFlat
  <2> QED BY <2>1
<1>2. ASSUME NEW k \in Nat, k + 1 <= n, Good(k) PROVE Good(k + 1)
  <2>1. s[k + 1] \in Text /\ k + 1 \in 1..n /\ \A i \in 1..k : i \in 1..n
    BY <1>2
  <2>2. Flat(s, k) \in Text /\ Flat(s, k + 1) = Flat(s, k) \o s[k + 1]
    BY <2>1, FlatMore, FlatIsText
  <2> DEFINE a == Flat(s, k)
             b == s[k + 1]
  <2>3. a \in Text /\ b \in Text /\ (\A j \in 1..Len(a) : a[j] # c) /\ (\A j \in 1..Len(b) : b[j] # c)
    BY <1>2, <2>1, <2>2
  <2> HIDE DEF a, b, Good
  <2>4. ASSUME NEW j \in 1..Len(a \o b) PROVE (a \o b)[j] # c
    <3>1. Len(a) \in Nat /\ Len(b) \in Nat /\ Len(a \o b) = Len(a) + Len(b)
      BY <2>3, TextFacts, JoinFacts
    <3>2. CASE j \in 1..Len(a)
      BY <2>3, <3>2, JoinFacts
    <3>3. CASE j \notin 1..Len(a)
      <4>1. j - Len(a) \in 1..Len(b) /\ Len(a) + (j - Len(a)) = j
        BY <3>1, <3>3
      <4> QED BY <2>3, <4>1, JoinFacts
    <3> QED BY <3>2, <3>3
  <2>5. Flat(s, k + 1) = a \o b
    BY <2>2 DEF a, b
  <2> QED BY <2>4, <2>5 DEF Good
<1>3. Bad = {}
  <2> SUFFICES ASSUME Bad # {} PROVE FALSE
    OBVIOUS
  <2>1. Bad \subseteq Nat
    OBVIOUS
  <2> HIDE DEF Bad, Good
  <2>2. PICK k \in Bad : \A j \in Bad : k <= j
    BY <2>1, LeastNumber
  <2>3. k \in Nat \ {0} /\ k - 1 \in Nat /\ ~(k <= k - 1) /\ (k - 1) + 1 = k
    BY <1>1, <2>1
  <2>4. k - 1 \notin Bad /\ k <= n
    BY <2>2, <2>3 DEF Bad
  <2>5. k - 1 <= n
    BY <2>3, <2>4
  <2> QED BY <1>2, <2>2, <2>3, <2>4, <2>5 DEF Bad
<1> QED BY <1>3

-----------------------------------------------------------------------------
(* Escaped characters.                                                     *)

(* The function by which Escaped is defined, for the first n characters.   *)
IsEscaper(f, t, n) == f = [i \in 1..n |-> i > 1 /\ t[i - 1] = Escape /\ ~f[i - 1]]

LEMMA EscaperExists == ASSUME NEW t, NEW n \in Nat PROVE \E f : IsEscaper(f, t, n)
<1> DEFINE Bad == {k \in Nat : ~\E f : IsEscaper(f, t, k)}
<1>1. 0 \notin Bad
  <2> DEFINE f == [i \in 1 .. 0 |-> TRUE]
  <2>1. IsEscaper(f, t, 0)
    BY DEF IsEscaper
  <2> QED BY <2>1
<1>2. ASSUME NEW k \in Nat \ {0}, NEW g, IsEscaper(g, t, k - 1) PROVE \E f : IsEscaper(f, t, k)
  <2> DEFINE f == [i \in 1 .. k |-> i > 1 /\ t[i - 1] = Escape /\ ~g[i - 1]]
  <2>1. ASSUME NEW i \in 1 .. k PROVE f[i] = (i > 1 /\ t[i - 1] = Escape /\ ~f[i - 1])
    <3>1. CASE i = 1
      BY <3>1
    <3>2. CASE i # 1
      <4>1. i - 1 \in 1 .. k - 1 /\ i - 1 \in 1 .. k
        BY <3>2
      <4>2. g[i - 1] = (i - 1 > 1 /\ t[(i - 1) - 1] = Escape /\ ~g[(i - 1) - 1])
        BY <1>2, <4>1 DEF IsEscaper
      <4>3. f[i - 1] = (i - 1 > 1 /\ t[(i - 1) - 1] = Escape /\ ~g[(i - 1) - 1])
        BY <4>1
      <4>4. f[i - 1] = g[i - 1]
        BY ONLY <4>2, <4>3
      <4>5. f[i] = (i > 1 /\ t[i - 1] = Escape /\ ~g[i - 1])
        OBVIOUS
      <4> HIDE DEF f
      <4> QED BY ONLY <4>4, <4>5
    <3> QED BY <3>1, <3>2
  <2>2. f = [i \in 1 .. k |-> f[i]]
    OBVIOUS
  <2> HIDE DEF f
  <2>3. f = [i \in 1 .. k |-> (i > 1 /\ t[i - 1] = Escape /\ ~f[i - 1])]
    BY ONLY <2>1, <2>2
  <2> QED BY <2>3 DEF IsEscaper
<1>3. Bad = {}
  <2> SUFFICES ASSUME Bad # {} PROVE FALSE
    OBVIOUS
  <2>1. Bad \subseteq Nat
    OBVIOUS
  <2> HIDE DEF Bad
  <2>2. PICK k \in Bad : \A j \in Bad : k <= j
    BY <2>1, LeastNumber
  <2>3. k \in Nat \ {0} /\ k - 1 \in Nat /\ ~(k <= k - 1)
    BY <1>1, <2>1
  <2>4. k - 1 \notin Bad
    BY <2>2, <2>3
  <2> QED BY <1>2, <2>3, <2>4 DEF Bad
<1> QED BY <1>3

EscapedIn(t) == {i \in 1..Len(t) : Escaped(t)[i] = TRUE}

LEMMA EscapedIs ==
  ASSUME NEW t \in Text
  PROVE  /\ \A i \in 1..Len(t) : i \in EscapedIn(t) <=> i > 1 /\ t[i - 1] = Escape /\ i - 1 \notin EscapedIn(t)
         /\ \A i \in 1..Len(t) : Escaped(t)[i] = (i \in EscapedIn(t))
         /\ DOMAIN Escaped(t) = 1..Len(t)
<1> DEFINE Goal(f) == f = [i \in 1 .. Len(t) |-> i > 1 /\ t[i - 1] = Escape /\ ~f[i - 1]]
           escaped == CHOOSE f : Goal(f)
<1>1. Len(t) \in Nat /\ DOMAIN t = 1..Len(t)
  BY TextFacts
<1>2. Goal(escaped)
  <2>1. PICK f : IsEscaper(f, t, Len(t))
    BY <1>1, EscaperExists
  <2>2. Goal(f)
    BY <2>1 DEF IsEscaper
  <2> HIDE DEF Goal
  <2> QED BY <2>2
<1>3. Escaped(t) = [i \in 1..Len(t) |-> escaped[i]]
  BY <1>1 DEF Escaped
<1>4. \A i \in 1..Len(t) : escaped[i] = (i > 1 /\ t[i - 1] = Escape /\ ~escaped[i - 1])
  BY <1>2
<1> HIDE DEF escaped
<1>5. \A i \in 1..Len(t) : Escaped(t)[i] = escaped[i] /\ escaped[i] \in BOOLEAN
  BY <1>3, <1>4
<1>6. \A i \in 1..Len(t) : escaped[i] = (i \in EscapedIn(t))
  BY ONLY <1>5 DEF EscapedIn
<1>7. ASSUME NEW i \in 1..Len(t)
      PROVE  i \in EscapedIn(t) <=> i > 1 /\ t[i - 1] = Escape /\ i - 1 \notin EscapedIn(t)
  <2>1. CASE i = 1
    BY <1>4, <1>6, <2>1
  <2>2. CASE i # 1
    <3>1. i - 1 \in 1..Len(t) /\ i > 1
      BY <1>1, <2>2
    <3>2. escaped[i] = (i > 1 /\ t[i - 1] = Escape /\ ~escaped[i - 1])
      BY ONLY <1>4, i \in 1..Len(t)
    <3>3. escaped[i] = (i \in EscapedIn(t)) /\ escaped[i - 1] = (i - 1 \in EscapedIn(t))
      BY ONLY <1>6, <3>1, i \in 1..Len(t)
    <3> QED BY ONLY <3>1, <3>2, <3>3
  <2> QED BY <2>1, <2>2
<1> QED BY <1>3, <1>5, <1>6, <1>7

(* A part of a text, from k + 1 on, whose first character is not escaped:  *)
(* what is escaped in it does not depend on what is before it.             *)
LEMMA EscapedInPart ==
  ASSUME NEW t \in Text, NEW u \in Text, NEW k \in Nat, k + Len(u) <= Len(t),
         \A i \in 1..Len(u) : t[k + i] = u[i], k + 1 \notin EscapedIn(t)
  PROVE  \A i \in 1..Len(u) : k + i \in EscapedIn(t) <=> i \in EscapedIn(u)
<1> DEFINE Good(i) == k + i \in EscapedIn(t) <=> i \in EscapedIn(u)
           Bad == {i \in 1..Len(u) : ~Good(i)}
<1>1. Len(t) \in Nat /\ Len(u) \in Nat
  BY TextFacts
<1>2. ASSUME NEW i \in 1..Len(u), i > 1, Good(i - 1) PROVE Good(i)
  <2>1. i - 1 \in 1..Len(u) /\ k + (i - 1) = (k + i) - 1 /\ k + i \in 1..Len(t) /\ k + i > 1
    BY <1>1, <1>2
  <2>2. t[(k + i) - 1] = u[i - 1]
    BY <2>1
  <2>3. i \in EscapedIn(u) <=> i > 1 /\ u[i - 1] = Escape /\ i - 1 \notin EscapedIn(u)
    BY EscapedIs
  <2>4. k + i \in EscapedIn(t) <=> k + i > 1 /\ t[(k + i) - 1] = Escape /\ (k + i) - 1 \notin EscapedIn(t)
    BY <2>1, EscapedIs
  <2> QED BY ONLY <1>2, <2>1, <2>2, <2>3, <2>4
<1>3. 1 \in 1..Len(u) => Good(1)
  <2>1. 1 \in 1..Len(u) => 1 \notin EscapedIn(u)
    BY EscapedIs
  <2> QED BY <2>1
<1>4. Bad = {}
  <2> SUFFICES ASSUME Bad # {} PROVE FALSE
    OBVIOUS
  <2>1. Bad \subseteq Nat
    BY <1>1
  <2> HIDE DEF Bad, Good
  <2>2. PICK i \in Bad : \A j \in Bad : i <= j
    BY <2>1, LeastNumber
  <2>3. i \in 1..Len(u) /\ i # 1
    BY <1>3, <2>2 DEF Bad
  <2>4. i - 1 \in 1..Len(u) /\ ~(i <= i - 1) /\ i > 1
    BY <1>1, <2>3
  <2>5. i - 1 \notin Bad
    BY <2>2, <2>4
  <2> QED BY <1>2, <2>2, <2>3, <2>4, <2>5 DEF Bad
<1> QED BY <1>4

(* Whether a character behind a text would be escaped.                     *)
IsOpen(t) == t # <<>> /\ t[Len(t)] = Escape /\ Len(t) \notin EscapedIn(t)

(* What is escaped in two texts, and in a part of the first.               *)
LEMMA EscapedInJoin ==
  ASSUME NEW a \in Text, NEW b \in Text
  PROVE  /\ \A i \in 1..Len(a) : i \in EscapedIn(a \o b) <=> i \in EscapedIn(a)
         /\ ~IsOpen(a) => \A i \in 1..Len(b) : Len(a) + i \in EscapedIn(a \o b) <=> i \in EscapedIn(b)
         /\ b # <<>> => (Len(a) + 1 \in EscapedIn(a \o b) <=> IsOpen(a))
<1>1. /\ Len(a) \in Nat /\ Len(b) \in Nat /\ a \o b \in Text /\ Len(a \o b) = Len(a) + Len(b)
      /\ \A i \in 1..Len(a) : (a \o b)[i] = a[i]
      /\ \A i \in 1..Len(b) : (a \o b)[Len(a) + i] = b[i]
  <2>1. Len(a) \in Nat /\ Len(b) \in Nat
    BY TextFacts
  <2> QED BY <2>1, JoinFacts
<1> DEFINE ab == a \o b
<1>x. \A i \in 1..Len(ab) : i \in EscapedIn(ab) <=> i > 1 /\ ab[i - 1] = Escape /\ i - 1 \notin EscapedIn(ab)
  <2>1. ab \in Text
    BY <1>1
  <2> HIDE DEF ab
  <2> QED BY ONLY <2>1, EscapedIs
<1>2. \A i \in 1..Len(a) : i \in EscapedIn(a \o b) <=> i \in EscapedIn(a)
  <2>1. Len(a) > 0 => 1 \notin EscapedIn(a \o b)
    <3>1. Len(a) > 0 => 1 \in 1..Len(a \o b)
      BY <1>1
    <3> QED BY <1>x, <3>1
  <2>2. 0 \in Nat /\ 0 + Len(a) <= Len(a \o b) /\ 0 + 1 = 1 /\ \A i \in 1..Len(a) : 0 + i = i
    BY <1>1
  <2>3. CASE Len(a) > 0
    <3>1. (\A i \in 1..Len(a) : (a \o b)[0 + i] = a[i]) /\ 0 + 1 \notin EscapedIn(a \o b)
      BY <1>1, <2>1, <2>2, <2>3
    <3>2. \A i \in 1..Len(a) : 0 + i \in EscapedIn(a \o b) <=> i \in EscapedIn(a)
      BY ONLY <1>1, <2>2, <3>1, EscapedInPart, a \in Text
    <3> QED BY <2>2, <3>2
  <2>4. CASE ~(Len(a) > 0)
    BY <1>1, <2>4
  <2> QED BY <2>3, <2>4
<1>3. ASSUME b # <<>> PROVE Len(a) + 1 \in EscapedIn(a \o b) <=> IsOpen(a)
  <2>1. Len(b) >= 1 /\ Len(a) + 1 \in 1..Len(a \o b) /\ (Len(a) + 1) - 1 = Len(a) /\ (Len(a) = 0 <=> a = <<>>)
        /\ (Len(a) + 1 > 1 <=> Len(a) # 0)
    BY <1>1, <1>3, TextFacts
  <2>2. Len(a) + 1 \in EscapedIn(a \o b) <=>
          Len(a) # 0 /\ (a \o b)[Len(a)] = Escape /\ Len(a) \notin EscapedIn(a \o b)
    <3>1. Len(a) + 1 \in EscapedIn(ab) <=>
            Len(a) + 1 > 1 /\ ab[(Len(a) + 1) - 1] = Escape /\ (Len(a) + 1) - 1 \notin EscapedIn(ab)
      <4>1. Len(a) + 1 \in 1..Len(ab)
        BY <2>1
      <4> HIDE DEF ab
      <4> QED BY ONLY <1>x, <4>1
    <3> QED BY ONLY <2>1, <3>1
  <2>3. Len(a) # 0 => Len(a) \in 1..Len(a)
    BY <1>1
  <2>4. Len(a) # 0 => (a \o b)[Len(a)] = a[Len(a)] /\ (Len(a) \in EscapedIn(a \o b) <=> Len(a) \in EscapedIn(a))
    BY <1>1, <1>2, <2>3
  <2> QED BY <2>1, <2>2, <2>4 DEF IsOpen
<1>4. ASSUME ~IsOpen(a) PROVE \A i \in 1..Len(b) : Len(a) + i \in EscapedIn(a \o b) <=> i \in EscapedIn(b)
  <2>1. CASE b = <<>>
    BY <2>1
  <2>2. CASE b # <<>>
    <3>1. Len(a) + 1 \notin EscapedIn(a \o b) /\ Len(a) + Len(b) <= Len(a \o b)
      BY <1>1, <1>3, <1>4, <2>2
    <3> QED BY ONLY <1>1, <3>1, EscapedInPart, b \in Text
  <2> QED BY <2>1, <2>2
<1> QED BY <1>2, <1>3, <1>4

LEMMA OpenJoin ==
  ASSUME NEW a \in Text, NEW b \in Text, b # <<>>, ~IsOpen(a)
  PROVE  IsOpen(a \o b) <=> IsOpen(b)
<1>1. /\ a \o b \in Text /\ Len(a \o b) = Len(a) + Len(b) /\ a \o b # <<>> /\ Len(b) \in 1..Len(b)
      /\ (a \o b)[Len(a) + Len(b)] = b[Len(b)]
  <2>1. Len(a) \in Nat /\ Len(b) \in Nat /\ Len(b) # 0
    BY TextFacts
  <2>2. Len(b) \in 1..Len(b)
    BY <2>1
  <2> QED BY <2>2, JoinFacts
<1>2. Len(a) + Len(b) \in EscapedIn(a \o b) <=> Len(b) \in EscapedIn(b)
  BY <1>1, EscapedInJoin
<1> QED BY <1>1, <1>2 DEF IsOpen

(* Texts of one and two characters.                                        *)
LEMMA NothingOpen == ~IsOpen(<<>>)
BY DEF IsOpen

LEMMA OneOpen ==
  ASSUME NEW c \in Character
  PROVE  EscapedIn(<<c>>) = {} /\ (IsOpen(<<c>>) <=> c = Escape)
<1>1. <<c>> \in Text /\ Len(<<c>>) = 1 /\ <<c>>[1] = c /\ <<c>> # <<>>
  BY DEF Text
<1>2. 1 \notin EscapedIn(<<c>>)
  BY <1>1, EscapedIs
<1>3. EscapedIn(<<c>>) \subseteq 1..1
  BY <1>1 DEF EscapedIn
<1> QED BY <1>1, <1>2, <1>3 DEF IsOpen

LEMMA TwoOpen ==
  ASSUME NEW c \in Character
  PROVE  EscapedIn(<<Escape, c>>) = {2} /\ ~IsOpen(<<Escape, c>>)
<1> DEFINE t == <<Escape, c>>
<1>1. t \in Text /\ Len(t) = 2 /\ t[1] = Escape /\ t[2] = c /\ t # <<>>
  BY CharactersAre, TwoFacts
<1> HIDE DEF t
<1>2. 1 \notin EscapedIn(t) /\ 2 \in EscapedIn(t)
  <2>1. 1 \in 1..Len(t) /\ 2 \in 1..Len(t) /\ 2 - 1 = 1
    BY <1>1
  <2>2. 1 \notin EscapedIn(t)
    BY <1>1, <2>1, EscapedIs
  <2> QED BY <1>1, <2>1, <2>2, EscapedIs
<1>3. EscapedIn(t) \subseteq 1..2
  BY <1>1 DEF EscapedIn
<1>4. EscapedIn(t) = {2}
  BY <1>2, <1>3
<1> QED BY <1>1, <1>4 DEF IsOpen, t

-----------------------------------------------------------------------------
(* Replacements.                                                           *)

LEMMA FlatOne == ASSUME NEW s, s[1] \in Text PROVE Flat(s, 1) = s[1]
<1>1. 0 \in Nat /\ 0 + 1 = 1 /\ Flat(s, 0) = <<>>
  BY NothingFlat
<1>2. Flat(s, 0 + 1) = Flat(s, 0) \o s[0 + 1]
  BY <1>1, FlatMore
<1>3. <<>> \o s[1] = s[1]
  BY TextFacts
<1> QED BY <1>1, <1>2, <1>3

Replaced(c, character, replacement) == IF c = character THEN replacement ELSE <<c>>

LEMMA ReplacedIsText ==
  ASSUME NEW c \in Character, NEW ch, NEW r \in Text PROVE Replaced(c, ch, r) \in Text
BY OneFacts, TextFacts DEF Replaced, Text

LEMMA ReplaceIs ==
  ASSUME NEW t \in Text, NEW ch, NEW r \in Text
  PROVE  LET s == [i \in 1..Len(t) |-> Replaced(t[i], ch, r)]
         IN  /\ Replace(t, ch, r) = Flat(s, Len(t)) /\ Len(t) \in Nat
             /\ \A i \in 1..Len(t) : s[i] = Replaced(t[i], ch, r) /\ s[i] \in Text
<1> DEFINE s == [i \in 1..Len(t) |-> Replaced(t[i], ch, r)]
<1>1. Len(t) \in Nat /\ DOMAIN t = 1..Len(t) /\ \A i \in 1..Len(t) : t[i] \in Character
  BY TextFacts
<1>2. \A i \in 1..Len(t) : s[i] = Replaced(t[i], ch, r) /\ s[i] \in Text
  BY <1>1, ReplacedIsText
<1>3. Replace(t, ch, r) = FlattenSeq([i \in 1..Len(t) |-> Replaced(t[i], ch, r)])
  BY ONLY <1>1 DEF Replace, Replaced
<1>4. [i \in 1..Len(t) |-> s[i]] = [i \in 1..Len(t) |-> Replaced(t[i], ch, r)]
  OBVIOUS
<1>5. Replace(t, ch, r) = Flat(s, Len(t))
  BY ONLY <1>3, <1>4 DEF Flat
<1> QED BY <1>1, <1>2, <1>5

LEMMA ReplaceIsText ==
  ASSUME NEW t \in Text, NEW ch, NEW r \in Text PROVE Replace(t, ch, r) \in Text
<1> DEFINE s == [i \in 1..Len(t) |-> Replaced(t[i], ch, r)]
<1>1. /\ Replace(t, ch, r) = Flat(s, Len(t)) /\ Len(t) \in Nat
      /\ \A i \in 1..Len(t) : s[i] \in Text
  BY ReplaceIs
<1> HIDE DEF s
<1> QED BY ONLY <1>1, FlatIsText

LEMMA ReplaceNothing == ASSUME NEW ch, NEW r \in Text PROVE Replace(<<>>, ch, r) = <<>>
<1> DEFINE t == <<>>
           s == [i \in 1..Len(t) |-> Replaced(t[i], ch, r)]
<1>1. t \in Text /\ Len(t) = 0
  BY DEF Text
<1> HIDE DEF t
<1>2. Replace(t, ch, r) = Flat(s, Len(t))
  BY <1>1, ReplaceIs
<1> HIDE DEF s
<1> QED BY <1>1, <1>2, NothingFlat DEF t

LEMMA ReplaceJoin ==
  ASSUME NEW a \in Text, NEW b \in Text, NEW ch, NEW r \in Text
  PROVE  Replace(a \o b, ch, r) = Replace(a, ch, r) \o Replace(b, ch, r)
<1> DEFINE ab == a \o b
           s == [i \in 1..Len(ab) |-> Replaced(ab[i], ch, r)]
           p == [i \in 1..Len(a) |-> Replaced(a[i], ch, r)]
           q == [i \in 1..Len(b) |-> Replaced(b[i], ch, r)]
<1>1. /\ Len(a) \in Nat /\ Len(b) \in Nat
  BY TextFacts
<1>2. /\ ab \in Text /\ Len(ab) = Len(a) + Len(b)
      /\ \A i \in 1..Len(a) : ab[i] = a[i]
      /\ \A i \in 1..Len(b) : ab[Len(a) + i] = b[i]
  BY JoinFacts
<1> HIDE DEF ab
<1>3. /\ Replace(ab, ch, r) = Flat(s, Len(ab))
      /\ \A i \in 1..Len(ab) : s[i] = Replaced(ab[i], ch, r)
  BY <1>2, ReplaceIs
<1>4. /\ Replace(a, ch, r) = Flat(p, Len(a))
      /\ \A i \in 1..Len(a) : p[i] = Replaced(a[i], ch, r) /\ p[i] \in Text
  BY ReplaceIs
<1>5. /\ Replace(b, ch, r) = Flat(q, Len(b))
      /\ \A i \in 1..Len(b) : q[i] = Replaced(b[i], ch, r) /\ q[i] \in Text
  BY ReplaceIs
<1> HIDE DEF s, p, q
<1>6. (\A i \in 1..Len(a) : i \in 1..Len(ab)) /\ (\A i \in 1..Len(b) : Len(a) + i \in 1..Len(ab))
  BY <1>1, <1>2
<1>7. \A i \in 1..Len(a) : s[i] = p[i] /\ p[i] \in Text
  BY ONLY <1>2, <1>3, <1>4, <1>6
<1>8. \A i \in 1..Len(b) : s[Len(a) + i] = q[i] /\ q[i] \in Text
  BY ONLY <1>2, <1>3, <1>5, <1>6
<1>9. BeginsWith(s, p, Len(a)) /\ ContinuesWith(s, Len(a), q, Len(b))
  BY ONLY <1>7, <1>8 DEF BeginsWith, ContinuesWith
<1>10. Flat(s, Len(ab)) = Flat(p, Len(a)) \o Flat(q, Len(b))
  BY ONLY <1>1, <1>2, <1>9, FlatJoin
<1> QED BY ONLY <1>2, <1>3, <1>4, <1>5, <1>10 DEF ab

LEMMA ReplaceInTwo ==
  ASSUME NEW ch, NEW r \in Text
  PROVE  \A a, b \in Text : Replace(a \o b, ch, r) = Replace(a, ch, r) \o Replace(b, ch, r)
<1> TAKE a, b \in Text
<1> QED BY ReplaceJoin

LEMMA ReplaceOne ==
  ASSUME NEW c \in Character, NEW ch, NEW r \in Text PROVE Replace(<<c>>, ch, r) = Replaced(c, ch, r)
<1> DEFINE t == <<c>>
           s == [i \in 1..Len(t) |-> Replaced(t[i], ch, r)]
<1>1. t \in Text /\ Len(t) = 1 /\ t[1] = c
  BY DEF Text
<1> HIDE DEF t
<1>2. /\ Replace(t, ch, r) = Flat(s, Len(t))
      /\ \A i \in 1..Len(t) : s[i] = Replaced(t[i], ch, r) /\ s[i] \in Text
  BY <1>1, ReplaceIs
<1> HIDE DEF s
<1>3. s[1] = Replaced(c, ch, r) /\ s[1] \in Text
  BY <1>1, <1>2
<1> QED BY <1>1, <1>2, <1>3, FlatOne DEF t

LEMMA ReplaceMore ==
  ASSUME NEW a \in Text, NEW c \in Character, NEW ch, NEW r \in Text
  PROVE  Replace(a \o <<c>>, ch, r) = Replace(a, ch, r) \o Replaced(c, ch, r)
<1>1. <<c>> \in Text
  BY OneFacts, TextFacts DEF Text
<1>2. Replace(a \o <<c>>, ch, r) = Replace(a, ch, r) \o Replace(<<c>>, ch, r)
  <2> DEFINE b == <<c>>
  <2>1. b \in Text
    BY <1>1
  <2> HIDE DEF b
  <2>2. Replace(a \o b, ch, r) = Replace(a, ch, r) \o Replace(b, ch, r)
    BY <2>1, ReplaceJoin
  <2> QED BY <2>2 DEF b
<1>3. Replace(<<c>>, ch, r) = Replaced(c, ch, r)
  BY ReplaceOne
<1> QED BY ONLY <1>2, <1>3

(* A text without the character stays what it is.                          *)
LEMMA ReplaceNone ==
  ASSUME NEW t \in Text, NEW ch, NEW r \in Text, \A i \in 1..Len(t) : t[i] # ch
  PROVE  Replace(t, ch, r) = t
<1> DEFINE Same(u) == (\A i \in 1..Len(u) : u[i] # ch) => Replace(u, ch, r) = u
           Bad == {u \in Text : ~Same(u)}
<1>1. SUFFICES ASSUME Bad # {} PROVE FALSE
  OBVIOUS
<1>2. Bad \subseteq Text
  OBVIOUS
<1> HIDE DEF Bad
<1>3. PICK u \in Bad : \A v \in Bad : Len(u) <= Len(v)
  BY <1>1, <1>2, ShortestText
<1>4. u \in Text /\ u # <<>>
  BY <1>2, <1>3, ReplaceNothing DEF Bad
<1> DEFINE w == SubSeq(u, 1, Len(u) - 1)
           c == u[Len(u)]
<1>5. w \in Text /\ Len(w) = Len(u) - 1 /\ c \in Character /\ u = w \o <<c>>
  BY <1>4, LastFacts
<1> HIDE DEF w, c
<1>6. Len(u) \in Nat /\ Len(u) # 0 /\ ~(Len(u) <= Len(w))
  BY <1>4, <1>5, TextFacts
<1>7. Same(w)
  BY <1>3, <1>5, <1>6 DEF Bad
<1>8. ASSUME \A i \in 1..Len(u) : u[i] # ch PROVE Replace(u, ch, r) = u
  <2>1. \A i \in 1..Len(w) : i \in 1..Len(u) /\ w[i] = u[i]
    BY <1>5, <1>6, JoinFacts, OneFacts
  <2>2. c # ch
    <3>1. Len(u) \in 1..Len(u) /\ c = u[Len(u)]
      BY <1>6 DEF c
    <3> QED BY <1>8, <3>1
  <2>3. Replace(w, ch, r) = w
    BY <1>7, <1>8, <2>1
  <2>4. Replace(w \o <<c>>, ch, r) = Replace(w, ch, r) \o <<c>>
    <3>1. Replace(w \o <<c>>, ch, r) = Replace(w, ch, r) \o Replaced(c, ch, r)
      BY ONLY <1>5, ReplaceMore, r \in Text
    <3> QED BY <2>2, <3>1 DEF Replaced
  <2> QED BY <1>5, <2>3, <2>4
<1> QED BY <1>3, <1>8 DEF Bad

-----------------------------------------------------------------------------
(* What SGFC reads of a text.                                              *)

ReadEscaped(c) == IF c = LineEnding THEN <<>> ELSE <<c>>
ReadUnescaped(c, type) ==
  IF c = Escape THEN (IF escapeProcessingEnabled THEN <<Escape>> ELSE <<>>)
  ELSE IF c = LineEnding /\ type = "SimpleText" THEN <<Space>> ELSE <<c>>
ReadCharacter(t, E, i, type) == IF i \in E THEN ReadEscaped(t[i]) ELSE ReadUnescaped(t[i], type)
ReadCharacters(t, E, type) == [i \in 1..Len(t) |-> ReadCharacter(t, E, i, type)]
ReadText(t, type) == Flat(ReadCharacters(t, EscapedIn(t), type), Len(t))

LEMMA SomeCharacters == Escape \in Character /\ Space \in Character /\ LineEnding \in Character
  /\ ValueBegin \in Character /\ ValueEnd \in Character /\ Separator \in Character /\ "7" \in Character /\ "a" \in Character
BY CharactersAre

LEMMA OneIsText == ASSUME NEW c \in Character PROVE <<c>> \in Text /\ <<>> \in Text
BY DEF Text

LEMMA ReadCharacterIsText ==
  ASSUME NEW t \in Text, NEW E, NEW i \in 1..Len(t), NEW type
  PROVE  ReadCharacter(t, E, i, type) \in Text
<1>1. t[i] \in Character
  BY TextFacts
<1>2. ReadEscaped(t[i]) \in Text
  BY <1>1, OneIsText DEF ReadEscaped
<1>3. ReadUnescaped(t[i], type) \in Text
  BY <1>1, OneIsText, SomeCharacters DEF ReadUnescaped
<1> QED BY <1>2, <1>3 DEF ReadCharacter

LEMMA ReadCharactersAreTexts ==
  ASSUME NEW t \in Text, NEW E, NEW type
  PROVE  /\ \A i \in 1..Len(t) : ReadCharacters(t, E, type)[i] = ReadCharacter(t, E, i, type)
         /\ \A i \in 1..Len(t) : ReadCharacters(t, E, type)[i] \in Text
         /\ Flat(ReadCharacters(t, E, type), Len(t)) \in Text
<1>1. Len(t) \in Nat
  BY TextFacts
<1>2. \A i \in 1..Len(t) : ReadCharacters(t, E, type)[i] = ReadCharacter(t, E, i, type)
  BY DEF ReadCharacters
<1>3. \A i \in 1..Len(t) : ReadCharacters(t, E, type)[i] \in Text
  BY <1>2, ReadCharacterIsText
<1> QED BY <1>1, <1>2, <1>3, FlatIsText

LEMMA UnescapeIs ==
  ASSUME NEW t \in Text, NEW e, NEW E, \A i \in 1..Len(t) : e[i] = (i \in E), NEW type
  PROVE  /\ Unescape(t, e, type) = Flat(ReadCharacters(t, E, type), Len(t))
         /\ Unescape(t, e, type) \in Text
<1> DEFINE r(i) ==
    CASE e[i] -> IF t[i] = LineEnding THEN <<>> ELSE <<t[i]>>
      [] ~e[i] /\ t[i] = Escape /\ escapeProcessingEnabled -> <<Escape>>
      [] ~e[i] /\ t[i] = Escape /\ ~escapeProcessingEnabled -> <<>>
      [] ~e[i] /\ t[i] = LineEnding /\ type = "SimpleText" -> <<Space>>
      [] OTHER -> <<t[i]>>
<1>1. DOMAIN t = 1..Len(t) /\ Len(t) \in Nat
  BY TextFacts
<1>2. ASSUME NEW i \in 1..Len(t) PROVE r(i) = ReadCharacter(t, E, i, type)
  <2>1. e[i] = (i \in E)
    OBVIOUS
  <2>2. CASE i \in E
    BY <2>1, <2>2 DEF ReadCharacter, ReadEscaped
  <2>3. CASE i \notin E
    BY <2>1, <2>3, CharactersDiffer DEF ReadCharacter, ReadUnescaped
  <2> QED BY <2>2, <2>3
<1>3. Unescape(t, e, type) = FlattenSeq([i \in 1..Len(t) |-> r(i)])
  BY <1>1 DEF Unescape
<1> HIDE DEF r
<1>4. [i \in 1..Len(t) |-> r(i)] = [i \in 1..Len(t) |-> ReadCharacters(t, E, type)[i]]
  BY <1>2, ReadCharactersAreTexts
<1>5. Unescape(t, e, type) = Flat(ReadCharacters(t, E, type), Len(t))
  BY <1>3, <1>4 DEF Flat
<1> QED BY <1>5, ReadCharactersAreTexts

LEMMA ReadTextIsText == ASSUME NEW t \in Text, NEW type PROVE ReadText(t, type) \in Text
BY ReadCharactersAreTexts DEF ReadText

LEMMA ReadJoin ==
  ASSUME NEW a \in Text, NEW b \in Text, ~IsOpen(a), NEW type
  PROVE  ReadText(a \o b, type) = ReadText(a, type) \o ReadText(b, type)
<1> DEFINE ab == a \o b
           s == ReadCharacters(ab, EscapedIn(ab), type)
           p == ReadCharacters(a, EscapedIn(a), type)
           q == ReadCharacters(b, EscapedIn(b), type)
<1>1. /\ Len(a) \in Nat /\ Len(b) \in Nat
  BY TextFacts
<1>2. /\ ab \in Text /\ Len(ab) = Len(a) + Len(b)
      /\ \A i \in 1..Len(a) : ab[i] = a[i]
      /\ \A i \in 1..Len(b) : ab[Len(a) + i] = b[i]
  BY JoinFacts
<1>3. /\ \A i \in 1..Len(a) : i \in EscapedIn(ab) <=> i \in EscapedIn(a)
      /\ \A i \in 1..Len(b) : Len(a) + i \in EscapedIn(ab) <=> i \in EscapedIn(b)
  BY EscapedInJoin
<1> HIDE DEF ab
<1>4. \A i \in 1..Len(ab) : s[i] = ReadCharacter(ab, EscapedIn(ab), i, type)
  BY <1>2, ReadCharactersAreTexts
<1>5. \A i \in 1..Len(a) : p[i] = ReadCharacter(a, EscapedIn(a), i, type) /\ p[i] \in Text
  BY ReadCharactersAreTexts
<1>6. \A i \in 1..Len(b) : q[i] = ReadCharacter(b, EscapedIn(b), i, type) /\ q[i] \in Text
  BY ReadCharactersAreTexts
<1> HIDE DEF s, p, q
<1>7. (\A i \in 1..Len(a) : i \in 1..Len(ab)) /\ (\A i \in 1..Len(b) : Len(a) + i \in 1..Len(ab))
  BY <1>1, <1>2
<1>8. \A i \in 1..Len(a) : s[i] = p[i] /\ p[i] \in Text
  BY ONLY <1>2, <1>3, <1>4, <1>5, <1>7 DEF ReadCharacter
<1>9. \A i \in 1..Len(b) : s[Len(a) + i] = q[i] /\ q[i] \in Text
  BY ONLY <1>2, <1>3, <1>4, <1>6, <1>7 DEF ReadCharacter
<1>10. BeginsWith(s, p, Len(a)) /\ ContinuesWith(s, Len(a), q, Len(b))
  BY ONLY <1>8, <1>9 DEF BeginsWith, ContinuesWith
<1>11. Flat(s, Len(ab)) = Flat(p, Len(a)) \o Flat(q, Len(b))
  BY ONLY <1>1, <1>2, <1>10, FlatJoin
<1> QED BY ONLY <1>11 DEF ab, s, p, q, ReadText

LEMMA ReadNothing == ASSUME NEW type PROVE ReadText(<<>>, type) = <<>>
<1> DEFINE t == <<>>
<1>1. t = <<>> /\ Len(t) = 0
  OBVIOUS
<1> HIDE DEF t
<1>2. ReadText(t, type) = <<>>
  BY <1>1, NothingFlat DEF ReadText
<1> QED BY <1>1, <1>2

LEMMA ReadOne ==
  ASSUME NEW c \in Character, NEW type
  PROVE  ReadText(<<c>>, type) = ReadUnescaped(c, type)
<1> DEFINE t == <<c>>
           s == ReadCharacters(t, EscapedIn(t), type)
<1>1. t \in Text /\ Len(t) = 1 /\ t[1] = c /\ EscapedIn(t) = {}
  BY OneOpen DEF Text
<1> HIDE DEF t
<1>2. s[1] = ReadCharacter(t, EscapedIn(t), 1, type) /\ s[1] \in Text
  <2>1. 1 \in 1..Len(t)
    BY <1>1
  <2> QED BY <1>1, <2>1, ReadCharactersAreTexts
<1>3. ReadCharacter(t, EscapedIn(t), 1, type) = ReadUnescaped(c, type)
  BY <1>1 DEF ReadCharacter
<1>4. ReadText(t, type) = Flat(s, 1)
  BY <1>1 DEF ReadText
<1> HIDE DEF s
<1> QED BY <1>2, <1>3, <1>4, FlatOne DEF t

LEMMA ReadTwo ==
  ASSUME NEW c \in Character, NEW type
  PROVE  ReadText(<<Escape, c>>, type) = ReadUnescaped(Escape, type) \o ReadEscaped(c)
<1> DEFINE t == <<Escape, c>>
           s == ReadCharacters(t, EscapedIn(t), type)
<1>1. t \in Text /\ Len(t) = 2 /\ t[1] = Escape /\ t[2] = c /\ EscapedIn(t) = {2}
  BY TwoOpen, TwoFacts, SomeCharacters
<1> HIDE DEF t
<1>2. /\ s[1] = ReadCharacter(t, EscapedIn(t), 1, type) /\ s[1] \in Text
      /\ s[2] = ReadCharacter(t, EscapedIn(t), 2, type) /\ s[2] \in Text
  <2>1. 1 \in 1..Len(t) /\ 2 \in 1..Len(t)
    BY <1>1
  <2> QED BY <1>1, <2>1, ReadCharactersAreTexts
<1>3. ReadCharacter(t, EscapedIn(t), 1, type) = ReadUnescaped(Escape, type)
  BY <1>1 DEF ReadCharacter
<1>4. ReadCharacter(t, EscapedIn(t), 2, type) = ReadEscaped(c)
  BY <1>1 DEF ReadCharacter
<1>5. ReadText(t, type) = Flat(s, 2)
  BY <1>1 DEF ReadText
<1> HIDE DEF s
<1>6. Flat(s, 1 + 1) = Flat(s, 1) \o s[1 + 1]
  <2>1. 1 \in Nat /\ s[1 + 1] \in Text
    BY <1>2
  <2> QED BY ONLY <2>1, FlatMore
<1>7. Flat(s, 1) = s[1] /\ 1 + 1 = 2
  BY <1>2, FlatOne
<1> QED BY <1>2, <1>3, <1>4, <1>5, <1>6, <1>7 DEF t

-----------------------------------------------------------------------------
(* Pairs of an escape character and another one, of which the decoder      *)
(* removes the first.                                                      *)

IsPairs(f, t, ch, n) ==
  f = [i \in 0..n |->
        /\ i \in 1..(Len(t) - 1) /\ t[i] = Escape /\ t[i + 1] = ch
        /\ ~(ch = Escape /\ f[i - 1])]

LEMMA PairsExist == ASSUME NEW t, NEW ch, NEW n \in Nat PROVE \E f : IsPairs(f, t, ch, n)
<1> DEFINE Bad == {k \in Nat : ~\E f : IsPairs(f, t, ch, k)}
<1>1. 0 \notin Bad
  <2> DEFINE f == [i \in 0 .. 0 |-> FALSE]
  <2>1. ASSUME NEW i \in 0 .. 0
        PROVE  f[i] = (/\ i \in 1..(Len(t) - 1) /\ t[i] = Escape /\ t[i + 1] = ch
                       /\ ~(ch = Escape /\ f[i - 1]))
    OBVIOUS
  <2>2. f = [i \in 0 .. 0 |-> f[i]]
    OBVIOUS
  <2> HIDE DEF f
  <2>3. IsPairs(f, t, ch, 0)
    BY <2>1, <2>2 DEF IsPairs
  <2> QED BY <2>3
<1>2. ASSUME NEW k \in Nat \ {0}, NEW g, IsPairs(g, t, ch, k - 1) PROVE \E f : IsPairs(f, t, ch, k)
  <2> DEFINE P(i) == i \in 1..(Len(t) - 1) /\ t[i] = Escape /\ t[i + 1] = ch
             f == [i \in 0 .. k |-> P(i) /\ ~(ch = Escape /\ g[i - 1])]
  <2>1. ASSUME NEW i \in 0 .. k PROVE f[i] = (P(i) /\ ~(ch = Escape /\ f[i - 1]))
    <3>1. CASE i = 0
      <4>1. ~P(i)
        BY <3>1
      <4> HIDE DEF P
      <4> QED BY <4>1
    <3>2. CASE i # 0
      <4>1. i - 1 \in 0 .. k - 1 /\ i - 1 \in 0 .. k
        BY <3>2
      <4>2. g[i - 1] = (P(i - 1) /\ ~(ch = Escape /\ g[(i - 1) - 1]))
        BY <1>2, <4>1 DEF IsPairs
      <4> HIDE DEF P
      <4>3. f[i - 1] = (P(i - 1) /\ ~(ch = Escape /\ g[(i - 1) - 1]))
        BY <4>1
      <4>4. f[i - 1] = g[i - 1]
        BY ONLY <4>2, <4>3
      <4>5. f[i] = (P(i) /\ ~(ch = Escape /\ g[i - 1]))
        OBVIOUS
      <4> HIDE DEF f
      <4> QED BY ONLY <4>4, <4>5
    <3> QED BY <3>1, <3>2
  <2>2. f = [i \in 0 .. k |-> f[i]]
    OBVIOUS
  <2> HIDE DEF f, P
  <2>3. f = [i \in 0 .. k |-> P(i) /\ ~(ch = Escape /\ f[i - 1])]
    BY ONLY <2>1, <2>2
  <2> QED BY <2>3 DEF IsPairs, P
<1>3. Bad = {}
  <2> SUFFICES ASSUME Bad # {} PROVE FALSE
    OBVIOUS
  <2>1. Bad \subseteq Nat
    OBVIOUS
  <2> HIDE DEF Bad
  <2>2. PICK k \in Bad : \A j \in Bad : k <= j
    BY <2>1, LeastNumber
  <2>3. k \in Nat \ {0} /\ k - 1 \in Nat /\ ~(k <= k - 1)
    BY <1>1, <2>1
  <2>4. k - 1 \notin Bad
    BY <2>2, <2>3
  <2> QED BY <1>2, <2>2, <2>3, <2>4 DEF Bad
<1> QED BY <1>3

PairsOf(t, ch) ==
  LET first[i \in 0..Len(t)] ==
        /\ i \in 1..(Len(t) - 1) /\ t[i] = Escape /\ t[i + 1] = ch
        /\ ~(ch = Escape /\ first[i - 1])
  IN  first
RemovedIn(t, ch) == {i \in 1..Len(t) : PairsOf(t, ch)[i] = TRUE}

LEMMA RemovedIs ==
  ASSUME NEW t \in Text, NEW ch
  PROVE  /\ \A i \in 1..Len(t) : i \in RemovedIn(t, ch) <=>
              /\ i < Len(t) /\ t[i] = Escape /\ t[i + 1] = ch
              /\ ~(ch = Escape /\ i - 1 \in RemovedIn(t, ch))
         /\ RemovedIn(t, ch) \subseteq 1..Len(t)
         /\ \A i \in 1..Len(t) : PairsOf(t, ch)[i] = (i \in RemovedIn(t, ch))
<1> DEFINE first == PairsOf(t, ch)
           P(i) == i \in 1..(Len(t) - 1) /\ t[i] = Escape /\ t[i + 1] = ch
<1>1. Len(t) \in Nat
  BY TextFacts
<1>2. IsPairs(first, t, ch, Len(t))
  <2> DEFINE Goal(f) == f = [i \in 0..Len(t) |->
        /\ i \in 1..(Len(t) - 1) /\ t[i] = Escape /\ t[i + 1] = ch
        /\ ~(ch = Escape /\ f[i - 1])]
  <2>1. PICK f : IsPairs(f, t, ch, Len(t))
    BY <1>1, PairsExist
  <2>2. Goal(f)
    BY <2>1 DEF IsPairs
  <2>3. first = CHOOSE f_1 : Goal(f_1)
    BY DEF PairsOf
  <2> HIDE DEF Goal, first
  <2>4. Goal(first)
    BY <2>2, <2>3
  <2> QED BY <2>4 DEF Goal, IsPairs
<1> HIDE DEF first
<1>3. \A i \in 0..Len(t) : first[i] = (P(i) /\ ~(ch = Escape /\ first[i - 1]))
  BY <1>2 DEF IsPairs
<1> HIDE DEF P
<1>4. \A i \in 0..Len(t) : first[i] \in BOOLEAN
  BY ONLY <1>3
<1>5. RemovedIn(t, ch) = {i \in 1..Len(t) : first[i] = TRUE}
  BY DEF RemovedIn, first
<1>6. \A i \in 1..Len(t) : first[i] = (i \in RemovedIn(t, ch))
  <2>1. \A i \in 1..Len(t) : i \in 0..Len(t)
    BY <1>1
  <2> QED BY ONLY <1>4, <1>5, <2>1
<1>7. ASSUME NEW i \in 1..Len(t)
      PROVE  i \in RemovedIn(t, ch) <=> /\ i < Len(t) /\ t[i] = Escape /\ t[i + 1] = ch
                                        /\ ~(ch = Escape /\ i - 1 \in RemovedIn(t, ch))
  <2>1. i \in 0..Len(t) /\ i - 1 \in 0..Len(t) /\ (i - 1 = 0 \/ i - 1 \in 1..Len(t)) /\ 0 \in 0..Len(t)
    BY <1>1
  <2>2. P(i) <=> i < Len(t) /\ t[i] = Escape /\ t[i + 1] = ch
    <3>1. i \in 1..(Len(t) - 1) <=> i < Len(t)
      BY <1>1
    <3> QED BY <3>1 DEF P
  <2> DEFINE j == i - 1
  <2>3. j = 0 \/ j \in 1..Len(t)
    BY <2>1
  <2>4. first[i] = (P(i) /\ ~(ch = Escape /\ first[j])) /\ first[i] \in BOOLEAN /\ first[j] \in BOOLEAN
    BY ONLY <1>3, <1>4, <2>1
  <2> HIDE DEF j
  <2>5. first[i] = TRUE <=> P(i) /\ ~(ch = Escape /\ first[j] = TRUE)
    BY ONLY <2>4
  <2>6. j = 0 => first[j] # TRUE
    <3>1. ~P(0)
      BY DEF P
    <3>2. 0 \in 0..Len(t)
      BY <2>1
    <3>3. first[0] # TRUE
      BY ONLY <1>3, <3>1, <3>2
    <3> QED BY ONLY <3>3
  <2>7. j \in RemovedIn(t, ch) <=> first[j] = TRUE
    <3>1. 0 \notin 1..Len(t)
      OBVIOUS
    <3> QED BY ONLY <1>5, <2>3, <2>6, <3>1
  <2>8. i \in RemovedIn(t, ch) <=> first[i] = TRUE
    BY ONLY <1>5, i \in 1..Len(t)
  <2>9. i \in RemovedIn(t, ch) <=> P(i) /\ ~(ch = Escape /\ j \in RemovedIn(t, ch))
    BY ONLY <2>5, <2>7, <2>8
  <2> HIDE DEF P
  <2> QED BY ONLY <2>2, <2>9 DEF j
<1>8. RemovedIn(t, ch) \subseteq 1..Len(t)
  BY DEF RemovedIn
<1> QED BY <1>6, <1>7, <1>8 DEF first

(* Two texts whose border is not within a pair.                            *)
Apart(a, b, ch) ==
  \/ a = <<>> \/ b = <<>>
  \/ b[1] # ch
  \/ a[Len(a)] # Escape
  \/ ch = Escape /\ Len(a) - 1 \in RemovedIn(a, ch)

LEMMA RemovedInJoin ==
  ASSUME NEW a \in Text, NEW b \in Text, NEW ch, Apart(a, b, ch)
  PROVE  /\ \A i \in 1..Len(a) : i \in RemovedIn(a \o b, ch) <=> i \in RemovedIn(a, ch)
         /\ \A i \in 1..Len(b) : Len(a) + i \in RemovedIn(a \o b, ch) <=> i \in RemovedIn(b, ch)
<1> DEFINE ab == a \o b
           R == RemovedIn(ab, ch)
           P == RemovedIn(a, ch)
           Q == RemovedIn(b, ch)
<1>1. Len(a) \in Nat /\ Len(b) \in Nat /\ (Len(a) = 0 <=> a = <<>>) /\ (Len(b) = 0 <=> b = <<>>)
  BY TextFacts
<1>2. /\ ab \in Text /\ Len(ab) = Len(a) + Len(b)
      /\ \A i \in 1..Len(a) : ab[i] = a[i]
      /\ \A i \in 1..Len(b) : ab[Len(a) + i] = b[i]
  BY JoinFacts
<1> HIDE DEF ab
<1>3. /\ \A i \in 1..Len(ab) : i \in R <=>
              /\ i < Len(ab) /\ ab[i] = Escape /\ ab[i + 1] = ch /\ ~(ch = Escape /\ i - 1 \in R)
      /\ R \subseteq 1..Len(ab)
  BY <1>2, RemovedIs
<1>4. /\ \A i \in 1..Len(a) : i \in P <=>
              /\ i < Len(a) /\ a[i] = Escape /\ a[i + 1] = ch /\ ~(ch = Escape /\ i - 1 \in P)
      /\ P \subseteq 1..Len(a)
  BY RemovedIs
<1>5. /\ \A i \in 1..Len(b) : i \in Q <=>
              /\ i < Len(b) /\ b[i] = Escape /\ b[i + 1] = ch /\ ~(ch = Escape /\ i - 1 \in Q)
      /\ Q \subseteq 1..Len(b)
  BY RemovedIs
<1>6. a = <<>> \/ b = <<>> \/ b[1] # ch \/ a[Len(a)] # Escape \/ (ch = Escape /\ Len(a) - 1 \in P)
  BY DEF Apart
<1> HIDE DEF R, P, Q
<1>7. \A i \in 1..Len(a) : i \in R <=> i \in P
  <2> DEFINE Bad == {i \in 1..Len(a) : ~(i \in R <=> i \in P)}
  <2> SUFFICES ASSUME Bad # {} PROVE FALSE
    OBVIOUS
  <2>1. Bad \subseteq Nat
    BY <1>1
  <2> HIDE DEF Bad
  <2>2. PICK i \in Bad : \A j \in Bad : i <= j
    BY <2>1, LeastNumber
  <2>3. i \in 1..Len(a) /\ ~(i \in R <=> i \in P)
    BY <2>2 DEF Bad
  <2>4. i - 1 \in R <=> i - 1 \in P
    <3>1. CASE i = 1
      <4>1. 0 \notin R /\ 0 \notin P /\ i - 1 = 0
        BY <1>3, <1>4, <3>1
      <4> QED BY <4>1
    <3>2. CASE i # 1
      <4>1. i - 1 \in 1..Len(a) /\ ~(i <= i - 1)
        BY <1>1, <2>3, <3>2
      <4>2. i - 1 \notin Bad
        BY <2>2, <4>1
      <4> QED BY <4>1, <4>2 DEF Bad
    <3> QED BY <3>1, <3>2
  <2>5. ab[i] = a[i] /\ i \in 1..Len(ab)
    BY <1>1, <1>2, <2>3
  <2>6. CASE i < Len(a)
    <3>1. ab[i + 1] = a[i + 1] /\ i < Len(ab)
      <4>1. i + 1 \in 1..Len(a)
        BY <1>1, <2>3, <2>6
      <4> DEFINE j == i + 1
      <4>2. \A k \in 1..Len(a) : ab[k] = a[k]
        BY <1>2
      <4>3. j \in 1..Len(a)
        BY <4>1
      <4> HIDE DEF j
      <4>4. ab[j] = a[j]
        BY ONLY <4>2, <4>3
      <4>5. i < Len(ab)
        BY <1>1, <1>2, <2>3, <2>6
      <4> QED BY <4>4, <4>5 DEF j
    <3>2. i \in R <=> /\ i < Len(ab) /\ ab[i] = Escape /\ ab[i + 1] = ch /\ ~(ch = Escape /\ i - 1 \in R)
      BY ONLY <1>3, <2>5
    <3>3. i \in P <=> /\ i < Len(a) /\ a[i] = Escape /\ a[i + 1] = ch /\ ~(ch = Escape /\ i - 1 \in P)
      BY ONLY <1>4, <2>3
    <3> QED BY ONLY <2>3, <2>4, <2>5, <2>6, <3>1, <3>2, <3>3
  <2>7. CASE ~(i < Len(a))
    <3>1. i = Len(a) /\ i \notin P /\ a # <<>>
      BY <1>1, <1>4, <2>3, <2>7
    <3>2. i \in R
      BY <2>3, <3>1
    <3>3. /\ i < Len(ab) /\ ab[i] = Escape /\ ab[i + 1] = ch /\ ~(ch = Escape /\ i - 1 \in R)
      BY ONLY <1>3, <2>5, <3>2
    <3>4. b # <<>> /\ ab[Len(a) + 1] = b[1]
      BY <1>1, <1>2, <3>1, <3>3
    <3> QED BY <1>6, <2>4, <2>5, <3>1, <3>3, <3>4
  <2> QED BY <2>6, <2>7
<1>8. \A i \in 1..Len(b) : Len(a) + i \in R <=> i \in Q
  <2> DEFINE Bad == {i \in 1..Len(b) : ~(Len(a) + i \in R <=> i \in Q)}
  <2> SUFFICES ASSUME Bad # {} PROVE FALSE
    OBVIOUS
  <2>1. Bad \subseteq Nat
    BY <1>1
  <2> HIDE DEF Bad
  <2>2. PICK i \in Bad : \A j \in Bad : i <= j
    BY <2>1, LeastNumber
  <2>3. i \in 1..Len(b) /\ ~(Len(a) + i \in R <=> i \in Q)
    BY <2>2 DEF Bad
  <2> DEFINE k == Len(a) + i
  <2>4. k - 1 \in R <=> i - 1 \in Q
    <3>1. CASE i = 1
      <4>1. 0 \notin Q /\ i - 1 = 0 /\ k - 1 = Len(a) /\ 0 \notin R
        BY <1>1, <1>3, <1>5, <3>1
      <4>2. Len(a) \notin R
        <5>1. Len(a) \notin P
          BY <1>1, <1>4
        <5>2. Len(a) = 0 \/ Len(a) \in 1..Len(a)
          BY <1>1
        <5> QED BY <1>7, <4>1, <5>1, <5>2
      <4> QED BY <4>1, <4>2
    <3>2. CASE i # 1
      <4>1. i - 1 \in 1..Len(b) /\ ~(i <= i - 1) /\ Len(a) + (i - 1) = k - 1
        BY <1>1, <2>3, <3>2
      <4>2. i - 1 \notin Bad
        BY <2>2, <4>1
      <4>3. Len(a) + (i - 1) \in R <=> i - 1 \in Q
        BY ONLY <4>1, <4>2 DEF Bad
      <4> QED BY ONLY <4>1, <4>3
    <3> QED BY <3>1, <3>2
  <2>5. ab[k] = b[i] /\ k \in 1..Len(ab) /\ (k < Len(ab) <=> i < Len(b))
    BY <1>1, <1>2, <2>3
  <2>6. i < Len(b) => ab[k + 1] = b[i + 1]
    <3>1. ASSUME i < Len(b) PROVE i + 1 \in 1..Len(b) /\ Len(a) + (i + 1) = k + 1
      BY <1>1, <2>3, <3>1
    <3>2. \A j \in 1..Len(b) : ab[Len(a) + j] = b[j]
      BY <1>2
    <3> HIDE DEF k
    <3>3. ASSUME i < Len(b) PROVE ab[Len(a) + (i + 1)] = b[i + 1]
      BY ONLY <3>1, <3>2, <3>3
    <3>4. ASSUME i < Len(b) PROVE Len(a) + (i + 1) = k + 1
      BY <3>1, <3>4
    <3> QED BY ONLY <3>3, <3>4
  <2>7. i \in Q <=> /\ i < Len(b) /\ b[i] = Escape /\ b[i + 1] = ch /\ ~(ch = Escape /\ i - 1 \in Q)
    BY ONLY <1>5, <2>3
  <2>8. k \in R <=> /\ k < Len(ab) /\ ab[k] = Escape /\ ab[k + 1] = ch /\ ~(ch = Escape /\ k - 1 \in R)
    <3> HIDE DEF k
    <3> QED BY ONLY <1>3, <2>5
  <2>9. ~(k \in R <=> i \in Q)
    BY <2>3
  <2> HIDE DEF k
  <2> QED BY ONLY <2>4, <2>5, <2>6, <2>7, <2>8, <2>9
<1> QED BY <1>7, <1>8 DEF R, P, Q, ab

-----------------------------------------------------------------------------
(* What is left of a text when the first of each pair is removed.          *)

KeptCharacter(t, R, i) == IF i \in R THEN <<>> ELSE <<t[i]>>
KeptCharacters(t, R) == [i \in 1..Len(t) |-> KeptCharacter(t, R, i)]

LEMMA KeptCharactersAreTexts ==
  ASSUME NEW t \in Text, NEW R
  PROVE  /\ \A i \in 1..Len(t) : KeptCharacters(t, R)[i] = KeptCharacter(t, R, i)
         /\ \A i \in 1..Len(t) : KeptCharacters(t, R)[i] \in Text
         /\ Flat(KeptCharacters(t, R), Len(t)) \in Text
<1>1. Len(t) \in Nat
  BY TextFacts
<1>2. \A i \in 1..Len(t) : KeptCharacters(t, R)[i] = KeptCharacter(t, R, i)
  BY DEF KeptCharacters
<1>3. \A i \in 1..Len(t) : KeptCharacters(t, R)[i] \in Text
  <2>1. ASSUME NEW i \in 1..Len(t) PROVE KeptCharacter(t, R, i) \in Text
    <3>1. t[i] \in Character
      BY TextFacts
    <3> QED BY <3>1, OneIsText DEF KeptCharacter
  <2> QED BY <1>2, <2>1
<1> QED BY <1>1, <1>2, <1>3, FlatIsText

LEMMA ReplacePairIs ==
  ASSUME NEW t \in Text, NEW ch
  PROVE  /\ ReplacePair(t, ch) = Flat(KeptCharacters(t, RemovedIn(t, ch)), Len(t))
         /\ ReplacePair(t, ch) \in Text
<1> DEFINE R == RemovedIn(t, ch)
<1>1. Len(t) \in Nat /\ DOMAIN t = 1..Len(t)
  BY TextFacts
<1>2. ReplacePair(t, ch) = FlattenSeq([i \in 1..Len(t) |-> IF PairsOf(t, ch)[i] THEN <<>> ELSE <<t[i]>>])
  BY <1>1 DEF ReplacePair, PairsOf
<1>3. \A i \in 1..Len(t) : PairsOf(t, ch)[i] = (i \in R)
  BY RemovedIs
<1> HIDE DEF R
<1>4. [i \in 1..Len(t) |-> IF PairsOf(t, ch)[i] THEN <<>> ELSE <<t[i]>>] = [i \in 1..Len(t) |-> KeptCharacters(t, R)[i]]
  <2>1. ASSUME NEW i \in 1..Len(t)
        PROVE  (IF PairsOf(t, ch)[i] THEN <<>> ELSE <<t[i]>>) = KeptCharacters(t, R)[i]
    <3>1. PairsOf(t, ch)[i] = (i \in R)
      BY <1>3
    <3>2. KeptCharacters(t, R)[i] = (IF i \in R THEN <<>> ELSE <<t[i]>>)
      BY KeptCharactersAreTexts DEF KeptCharacter
    <3> QED BY ONLY <3>1, <3>2
  <2> QED BY ONLY <2>1
<1>5. ReplacePair(t, ch) = Flat(KeptCharacters(t, R), Len(t))
  BY ONLY <1>2, <1>4 DEF Flat
<1> QED BY <1>5, KeptCharactersAreTexts DEF R

LEMMA ReplacePairJoin ==
  ASSUME NEW a \in Text, NEW b \in Text, NEW ch, Apart(a, b, ch)
  PROVE  ReplacePair(a \o b, ch) = ReplacePair(a, ch) \o ReplacePair(b, ch)
<1> DEFINE ab == a \o b
           s == KeptCharacters(ab, RemovedIn(ab, ch))
           p == KeptCharacters(a, RemovedIn(a, ch))
           q == KeptCharacters(b, RemovedIn(b, ch))
<1>1. /\ Len(a) \in Nat /\ Len(b) \in Nat
  BY TextFacts
<1>2. /\ ab \in Text /\ Len(ab) = Len(a) + Len(b)
      /\ \A i \in 1..Len(a) : ab[i] = a[i]
      /\ \A i \in 1..Len(b) : ab[Len(a) + i] = b[i]
  BY JoinFacts
<1>3. /\ \A i \in 1..Len(a) : i \in RemovedIn(ab, ch) <=> i \in RemovedIn(a, ch)
      /\ \A i \in 1..Len(b) : Len(a) + i \in RemovedIn(ab, ch) <=> i \in RemovedIn(b, ch)
  BY RemovedInJoin
<1> HIDE DEF ab
<1>4. \A i \in 1..Len(ab) : s[i] = KeptCharacter(ab, RemovedIn(ab, ch), i)
  BY <1>2, KeptCharactersAreTexts
<1>5. \A i \in 1..Len(a) : p[i] = KeptCharacter(a, RemovedIn(a, ch), i) /\ p[i] \in Text
  BY KeptCharactersAreTexts
<1>6. \A i \in 1..Len(b) : q[i] = KeptCharacter(b, RemovedIn(b, ch), i) /\ q[i] \in Text
  BY KeptCharactersAreTexts
<1> HIDE DEF s, p, q
<1>7. (\A i \in 1..Len(a) : i \in 1..Len(ab)) /\ (\A i \in 1..Len(b) : Len(a) + i \in 1..Len(ab))
  BY <1>1, <1>2
<1>8. \A i \in 1..Len(a) : s[i] = p[i] /\ p[i] \in Text
  BY ONLY <1>2, <1>3, <1>4, <1>5, <1>7 DEF KeptCharacter
<1>9. ASSUME NEW i \in 1..Len(b) PROVE s[Len(a) + i] = q[i] /\ q[i] \in Text
  <2> DEFINE k == Len(a) + i
  <2>1. k \in 1..Len(ab) /\ ab[k] = b[i] /\ (k \in RemovedIn(ab, ch) <=> i \in RemovedIn(b, ch))
    BY <1>2, <1>3, <1>7
  <2>2. q[i] = KeptCharacter(b, RemovedIn(b, ch), i) /\ q[i] \in Text
    BY <1>6
  <2> HIDE DEF k
  <2>3. s[k] = KeptCharacter(ab, RemovedIn(ab, ch), k)
    BY <1>4, <2>1
  <2>4. s[k] = q[i]
    BY ONLY <2>1, <2>2, <2>3 DEF KeptCharacter
  <2> QED BY <2>2, <2>4 DEF k
<1>10. BeginsWith(s, p, Len(a)) /\ ContinuesWith(s, Len(a), q, Len(b))
  BY ONLY <1>8, <1>9 DEF BeginsWith, ContinuesWith
<1>11. Flat(s, Len(ab)) = Flat(p, Len(a)) \o Flat(q, Len(b))
  BY ONLY <1>1, <1>2, <1>10, FlatJoin
<1>12. /\ ReplacePair(ab, ch) = Flat(s, Len(ab)) /\ ReplacePair(a, ch) = Flat(p, Len(a))
       /\ ReplacePair(b, ch) = Flat(q, Len(b))
  BY <1>2, ReplacePairIs DEF s, p, q
<1> QED BY ONLY <1>11, <1>12 DEF ab

LEMMA ReplacePairInParts ==
  \A a, b \in Text : \A ch : Apart(a, b, ch) => ReplacePair(a \o b, ch) = ReplacePair(a, ch) \o ReplacePair(b, ch)
<1> TAKE a, b \in Text
<1> TAKE ch
<1> HAVE Apart(a, b, ch)
<1> QED BY ReplacePairJoin

LEMMA ReplacePairInNothing == ASSUME NEW ch PROVE ReplacePair(<<>>, ch) = <<>>
<1> DEFINE t == <<>>
<1>1. t \in Text /\ Len(t) = 0
  BY DEF Text
<1> HIDE DEF t
<1>2. ReplacePair(t, ch) = <<>>
  BY <1>1, ReplacePairIs, NothingFlat
<1> QED BY <1>2 DEF t

LEMMA ReplacePairInOne ==
  ASSUME NEW c \in Character, NEW ch
  PROVE  ReplacePair(<<c>>, ch) = <<c>> /\ RemovedIn(<<c>>, ch) = {}
<1> DEFINE t == <<c>>
           s == KeptCharacters(t, RemovedIn(t, ch))
<1>1. t \in Text /\ Len(t) = 1 /\ t[1] = c /\ <<c>> \in Text
  BY DEF Text
<1> HIDE DEF t
<1>2. RemovedIn(t, ch) = {}
  <2>1. 1 \in 1..Len(t) /\ ~(1 < Len(t)) /\ \A i \in 1..Len(t) : i = 1
    BY <1>1
  <2> QED BY <1>1, <2>1, RemovedIs
<1>3. s[1] = KeptCharacter(t, {}, 1) /\ s[1] \in Text
  <2>1. 1 \in 1..Len(t)
    BY <1>1
  <2> QED BY <1>1, <1>2, <2>1, KeptCharactersAreTexts
<1>4. ReplacePair(t, ch) = Flat(s, 1)
  BY <1>1, ReplacePairIs
<1> HIDE DEF s
<1>5. s[1] = <<c>>
  BY <1>1, <1>3 DEF KeptCharacter
<1> QED BY <1>2, <1>3, <1>4, <1>5, FlatOne DEF t

LEMMA ReplacePairInTwo ==
  ASSUME NEW c \in Character, NEW ch
  PROVE  /\ c = ch => ReplacePair(<<Escape, c>>, ch) = <<c>> /\ 1 \in RemovedIn(<<Escape, c>>, ch)
         /\ c # ch => ReplacePair(<<Escape, c>>, ch) = <<Escape, c>>
<1> DEFINE t == <<Escape, c>>
           s == KeptCharacters(t, RemovedIn(t, ch))
<1>1. t \in Text /\ Len(t) = 2 /\ t[1] = Escape /\ t[2] = c
  BY TwoFacts, SomeCharacters
<1> HIDE DEF t
<1>2. /\ 1 \in RemovedIn(t, ch) <=> c = ch
      /\ 2 \notin RemovedIn(t, ch)
  <2>1. 1 \in 1..Len(t) /\ 2 \in 1..Len(t) /\ ~(2 < Len(t)) /\ 1 < Len(t) /\ 1 - 1 = 0 /\ 0 \notin 1..Len(t)
    BY <1>1
  <2>2. 0 \notin RemovedIn(t, ch)
    BY <1>1, <2>1, RemovedIs
  <2>3. 2 \notin RemovedIn(t, ch)
    BY <1>1, <2>1, RemovedIs
  <2>4. 1 \in RemovedIn(t, ch) <=> /\ 1 < Len(t) /\ t[1] = Escape /\ t[1 + 1] = ch
              /\ ~(ch = Escape /\ 1 - 1 \in RemovedIn(t, ch))
    BY ONLY <1>1, <2>1, RemovedIs
  <2> QED BY <1>1, <2>1, <2>2, <2>3, <2>4
<1>3. /\ s[1] = KeptCharacter(t, RemovedIn(t, ch), 1) /\ s[1] \in Text
      /\ s[2] = KeptCharacter(t, RemovedIn(t, ch), 2) /\ s[2] \in Text
  <2>1. 1 \in 1..Len(t) /\ 2 \in 1..Len(t)
    BY <1>1
  <2> QED BY <1>1, <2>1, KeptCharactersAreTexts
<1>4. ReplacePair(t, ch) = Flat(s, 2)
  BY <1>1, ReplacePairIs
<1> HIDE DEF s
<1>5. Flat(s, 1 + 1) = Flat(s, 1) \o s[1 + 1]
  <2>1. 1 \in Nat /\ s[1 + 1] \in Text
    BY <1>3
  <2> QED BY ONLY <2>1, FlatMore
<1>6. Flat(s, 1) = s[1] /\ 1 + 1 = 2
  BY <1>3, FlatOne
<1>7. ReplacePair(t, ch) = s[1] \o s[2] /\ s[2] = <<c>>
  BY <1>1, <1>2, <1>3, <1>4, <1>5, <1>6 DEF KeptCharacter
<1>8. ASSUME c = ch PROVE ReplacePair(t, ch) = <<c>> /\ 1 \in RemovedIn(t, ch)
  <2>1. s[1] = <<>> /\ <<>> \o <<c>> = <<c>>
    BY <1>2, <1>3, <1>8, OneIsText, TextFacts DEF KeptCharacter
  <2> QED BY <1>2, <1>7, <1>8, <2>1
<1>9. ASSUME c # ch PROVE ReplacePair(t, ch) = <<Escape>> \o <<c>>
  BY <1>1, <1>2, <1>3, <1>7, <1>9 DEF KeptCharacter
<1>10. <<Escape, c>> = <<Escape>> \o <<c>>
  BY TwoFacts, SomeCharacters
<1> QED BY <1>8, <1>9, <1>10 DEF t

(* Induction over texts.                                                   *)
LEMMA TextInduction ==
  ASSUME NEW S, <<>> \in S, \A w \in Text : \A c \in Character : w \in S => w \o <<c>> \in S
  PROVE  Text \subseteq S
<1> DEFINE Bad == {t \in Text : t \notin S}
<1> SUFFICES ASSUME Bad # {} PROVE FALSE
  OBVIOUS
<1>1. Bad \subseteq Text
  OBVIOUS
<1> HIDE DEF Bad
<1>2. PICK u \in Bad : \A v \in Bad : Len(u) <= Len(v)
  BY <1>1, ShortestText
<1>3. u \in Text /\ u # <<>>
  BY <1>1, <1>2 DEF Bad
<1> DEFINE w == SubSeq(u, 1, Len(u) - 1)
           c == u[Len(u)]
<1>4. w \in Text /\ Len(w) = Len(u) - 1 /\ c \in Character /\ u = w \o <<c>>
  BY <1>3, LastFacts
<1> HIDE DEF w, c
<1>5. Len(u) \in Nat /\ Len(u) # 0 /\ ~(Len(u) <= Len(w))
  BY <1>3, <1>4, TextFacts
<1>6. w \in S
  BY <1>2, <1>4, <1>5 DEF Bad
<1>7. u \in S
  BY <1>4, <1>6
<1> QED BY <1>2, <1>7 DEF Bad

-----------------------------------------------------------------------------
(* What the encoder makes of a text, character by character.               *)

MandatoryBlock(c, first) == IF c = ValueEnd \/ (first /\ c = Separator) THEN <<Escape, c>> ELSE <<c>>
Block(c, first) == IF c = Escape THEN <<Escape, Escape>> ELSE MandatoryBlock(c, first)

LEMMA EscapesAreTexts ==
  \A c \in Character : <<Escape, c>> \in Text /\ <<Escape, c>> = <<Escape>> \o <<c>> /\ <<c>> \in Text
<1> TAKE c \in Character
<1> QED BY TwoFacts, OneIsText, SomeCharacters

LEMMA BlocksAreTexts ==
  ASSUME NEW c \in Character, NEW first \in BOOLEAN
  PROVE  MandatoryBlock(c, first) \in Text /\ Block(c, first) \in Text
BY EscapesAreTexts, SomeCharacters DEF Block, MandatoryBlock

LEMMA MandatoryIsText ==
  ASSUME NEW t \in Text, NEW first \in BOOLEAN
  PROVE  AddMandatoryEscapeCharacters(t, first) \in Text
<1>1. <<Escape, ValueEnd>> \in Text /\ <<Escape, Separator>> \in Text
  BY EscapesAreTexts, SomeCharacters
<1>2. Replace(t, ValueEnd, <<Escape, ValueEnd>>) \in Text
  BY <1>1, ReplaceIsText
<1>3. Replace(Replace(t, ValueEnd, <<Escape, ValueEnd>>), Separator, <<Escape, Separator>>) \in Text
  BY <1>1, <1>2, ReplaceIsText
<1> QED BY <1>2, <1>3 DEF AddMandatoryEscapeCharacters

LEMMA MandatoryJoin ==
  ASSUME NEW a \in Text, NEW b \in Text, NEW first \in BOOLEAN
  PROVE  AddMandatoryEscapeCharacters(a \o b, first)
           = AddMandatoryEscapeCharacters(a, first) \o AddMandatoryEscapeCharacters(b, first)
<1> DEFINE E == <<Escape, ValueEnd>>
           F == <<Escape, Separator>>
           R(t) == Replace(t, ValueEnd, E)
           Q(t) == Replace(t, Separator, F)
<1>1. E \in Text /\ F \in Text
  BY EscapesAreTexts, SomeCharacters
<1>4. \A t : AddMandatoryEscapeCharacters(t, first) = IF first THEN Q(R(t)) ELSE R(t)
  BY DEF AddMandatoryEscapeCharacters
<1> HIDE DEF E, F
<1>2. R(a) \in Text /\ R(b) \in Text /\ R(a \o b) = R(a) \o R(b)
  <2>1. R(a) \in Text /\ R(b) \in Text
    BY <1>1, ReplaceIsText
  <2>2. R(a \o b) = R(a) \o R(b)
    BY <1>1, ReplaceJoin
  <2> QED BY <2>1, <2>2
<1>3. \A x, y \in Text : Q(x \o y) = Q(x) \o Q(y)
  BY <1>1, ReplaceInTwo
<1> HIDE DEF R, Q
<1>5. Q(R(a \o b)) = Q(R(a)) \o Q(R(b))
  BY ONLY <1>2, <1>3
<1>6. CASE first
  BY <1>4, <1>5, <1>6
<1>7. CASE ~first
  BY <1>2, <1>4, <1>7
<1> QED BY <1>6, <1>7

LEMMA MandatoryOne ==
  ASSUME NEW c \in Character, NEW first \in BOOLEAN
  PROVE  AddMandatoryEscapeCharacters(<<c>>, first) = MandatoryBlock(c, first)
<1> DEFINE E == <<Escape, ValueEnd>>
           F == <<Escape, Separator>>
<1>1. E \in Text /\ F \in Text /\ <<c>> \in Text /\ <<Escape>> \in Text /\ <<ValueEnd>> \in Text
      /\ E = <<Escape>> \o <<ValueEnd>>
  BY EscapesAreTexts, SomeCharacters
<1>2. Replace(<<c>>, ValueEnd, E) = Replaced(c, ValueEnd, E)
  BY <1>1, ReplaceOne
<1>3. Replace(<<c>>, Separator, F) = Replaced(c, Separator, F)
  BY <1>1, ReplaceOne
<1>4. Replace(E, Separator, F) = E
  <2>1. Replace(<<Escape>>, Separator, F) = <<Escape>> /\ Replace(<<ValueEnd>>, Separator, F) = <<ValueEnd>>
    BY <1>1, ReplaceOne, SomeCharacters, CharactersDiffer DEF Replaced
  <2> DEFINE x == <<Escape>>
             y == <<ValueEnd>>
  <2>2. x \in Text /\ y \in Text /\ E = x \o y
    BY <1>1
  <2> HIDE DEF x, y, E, F
  <2>3. Replace(x \o y, Separator, F) = Replace(x, Separator, F) \o Replace(y, Separator, F)
    <3>1. \A u, v \in Text : Replace(u \o v, Separator, F) = Replace(u, Separator, F) \o Replace(v, Separator, F)
      BY <1>1, ReplaceInTwo
    <3> QED BY ONLY <2>2, <3>1
  <2> QED BY <2>1, <2>2, <2>3 DEF x, y
<1> DEFINE r == Replace(<<c>>, ValueEnd, E)
<1>5. AddMandatoryEscapeCharacters(<<c>>, first) = IF first THEN Replace(r, Separator, F) ELSE r
  BY DEF AddMandatoryEscapeCharacters
<1> HIDE DEF E, F
<1>6. CASE c = ValueEnd
  BY <1>2, <1>4, <1>5, <1>6 DEF Replaced, MandatoryBlock, E
<1>7. CASE c # ValueEnd
  BY <1>2, <1>3, <1>5, <1>7 DEF Replaced, MandatoryBlock, F
<1> QED BY <1>6, <1>7

LEMMA MandatoryMore ==
  ASSUME NEW t \in Text, NEW c \in Character, NEW first \in BOOLEAN
  PROVE  AddMandatoryEscapeCharacters(t \o <<c>>, first)
           = AddMandatoryEscapeCharacters(t, first) \o MandatoryBlock(c, first)
<1> DEFINE b == <<c>>
<1>1. b \in Text
  BY OneIsText
<1>2. AddMandatoryEscapeCharacters(b, first) = MandatoryBlock(c, first)
  BY MandatoryOne
<1> HIDE DEF b
<1>3. AddMandatoryEscapeCharacters(t \o b, first)
        = AddMandatoryEscapeCharacters(t, first) \o AddMandatoryEscapeCharacters(b, first)
  BY <1>1, MandatoryJoin
<1> QED BY <1>2, <1>3 DEF b

LEMMA MandatoryNothing ==
  ASSUME NEW first \in BOOLEAN PROVE AddMandatoryEscapeCharacters(<<>>, first) = <<>>
<1>1. <<Escape, ValueEnd>> \in Text /\ <<Escape, Separator>> \in Text
  BY EscapesAreTexts, SomeCharacters
<1>2. Replace(<<>>, ValueEnd, <<Escape, ValueEnd>>) = <<>> /\ Replace(<<>>, Separator, <<Escape, Separator>>) = <<>>
  BY <1>1, ReplaceNothing
<1> QED BY <1>2 DEF AddMandatoryEscapeCharacters

LEMMA EncodedMore ==
  ASSUME NEW t \in Text, NEW c \in Character, NEW first \in BOOLEAN
  PROVE  /\ AddSimpleTextAndTextEscapeCharacters(t, first) \in Text
         /\ AddSimpleTextAndTextEscapeCharacters(t \o <<c>>, first)
              = AddSimpleTextAndTextEscapeCharacters(t, first) \o Block(c, first)
<1> DEFINE E == <<Escape, Escape>>
           R(x) == Replace(x, Escape, E)
           M(x) == AddMandatoryEscapeCharacters(x, first)
<1>1. E \in Text /\ <<Escape>> \in Text /\ E = <<Escape>> \o <<Escape>> /\ <<c>> \in Text
  BY EscapesAreTexts, SomeCharacters
<1>2. R(t \o <<c>>) = R(t) \o Replaced(c, Escape, E)
  BY <1>1, ReplaceMore
<1>3. R(t) \in Text /\ Replaced(c, Escape, E) \in Text
  BY <1>1, ReplaceIsText, ReplacedIsText
<1>4. M(Replaced(c, Escape, E)) = Block(c, first)
  <2>1. CASE c = Escape
    <3>1. M(<<Escape>>) = <<Escape>>
      BY MandatoryOne, SomeCharacters, CharactersDiffer DEF MandatoryBlock
    <3> DEFINE x == <<Escape>>
    <3>2. x \in Text /\ E = x \o x
      BY <1>1
    <3> HIDE DEF x, E
    <3>3. M(x \o x) = M(x) \o M(x)
      BY <3>2, MandatoryJoin
    <3>4. M(E) = E
      BY <3>1, <3>2, <3>3 DEF x
    <3> QED BY <2>1, <3>4 DEF Replaced, Block, E
  <2>2. CASE c # Escape
    BY <2>2, MandatoryOne DEF Replaced, Block
  <2> QED BY <2>1, <2>2
<1>5. ASSUME NEW x \in Text, NEW y \in Text PROVE M(x \o y) = M(x) \o M(y)
  BY MandatoryJoin
<1>6. \A x : AddSimpleTextAndTextEscapeCharacters(x, first) = M(R(x))
  BY DEF AddSimpleTextAndTextEscapeCharacters
<1>7. M(R(t)) \in Text
  BY <1>3, MandatoryIsText
<1> DEFINE d == Replaced(c, Escape, E)
           u == t \o <<c>>
<1>8. R(u) = R(t) \o d /\ d \in Text /\ M(d) = Block(c, first)
  BY <1>2, <1>3, <1>4
<1> HIDE DEF R, M, d, u
<1>9. M(R(t) \o d) = M(R(t)) \o M(d)
  BY ONLY <1>3, <1>5, <1>8
<1>10. /\ AddSimpleTextAndTextEscapeCharacters(t, first) = M(R(t))
       /\ AddSimpleTextAndTextEscapeCharacters(u, first) = M(R(u))
  BY ONLY <1>6
<1>11. /\ AddSimpleTextAndTextEscapeCharacters(t, first) \in Text
       /\ AddSimpleTextAndTextEscapeCharacters(u, first)
            = AddSimpleTextAndTextEscapeCharacters(t, first) \o Block(c, first)
  BY ONLY <1>7, <1>8, <1>9, <1>10
<1> QED BY <1>11 DEF u

LEMMA EncodedNothing ==
  ASSUME NEW first \in BOOLEAN PROVE AddSimpleTextAndTextEscapeCharacters(<<>>, first) = <<>>
<1>1. Replace(<<>>, Escape, <<Escape, Escape>>) = <<>>
  BY EscapesAreTexts, SomeCharacters, ReplaceNothing
<1> QED BY <1>1, MandatoryNothing DEF AddSimpleTextAndTextEscapeCharacters

LEMMA EncodedIsText ==
  ASSUME NEW t \in Text, NEW first \in BOOLEAN
  PROVE  AddSimpleTextAndTextEscapeCharacters(t, first) \in Text
BY EncodedMore, SomeCharacters

-----------------------------------------------------------------------------
(* Texts of which every occurrence of a character is escaped.              *)

Guarded(t, ch) == \A i \in 1..Len(t) : t[i] = ch => i \in EscapedIn(t)

LEMMA UnescapedIs ==
  ASSUME NEW t \in Text, NEW ch
  PROVE  /\ Unescaped(t, ch) = {i \in 1..Len(t) : t[i] = ch /\ i \notin EscapedIn(t)}
         /\ Guarded(t, ch) <=> Unescaped(t, ch) = {}
<1>1. DOMAIN t = 1..Len(t)
  BY TextFacts
<1>2. \A i \in 1..Len(t) : Escaped(t)[i] = (i \in EscapedIn(t))
  BY EscapedIs
<1>3. Unescaped(t, ch) = {i \in 1..Len(t) : t[i] = ch /\ i \notin EscapedIn(t)}
  BY <1>1, <1>2 DEF Unescaped
<1> QED BY <1>3 DEF Guarded

LEMMA GuardedJoin ==
  ASSUME NEW a \in Text, NEW b \in Text, ~IsOpen(a), NEW ch, Guarded(a, ch), Guarded(b, ch)
  PROVE  Guarded(a \o b, ch)
<1> DEFINE ab == a \o b
<1>1. Len(a) \in Nat /\ Len(b) \in Nat
  BY TextFacts
<1>2. /\ ab \in Text /\ Len(ab) = Len(a) + Len(b)
      /\ \A i \in 1..Len(a) : ab[i] = a[i]
      /\ \A i \in 1..Len(b) : ab[Len(a) + i] = b[i]
  BY JoinFacts
<1>3. /\ \A i \in 1..Len(a) : i \in EscapedIn(ab) <=> i \in EscapedIn(a)
      /\ \A i \in 1..Len(b) : Len(a) + i \in EscapedIn(ab) <=> i \in EscapedIn(b)
  BY EscapedInJoin
<1> HIDE DEF ab
<1>4. ASSUME NEW i \in 1..Len(ab), ab[i] = ch PROVE i \in EscapedIn(ab)
  <2>1. CASE i \in 1..Len(a)
    BY <1>2, <1>3, <1>4, <2>1 DEF Guarded
  <2>2. CASE i \notin 1..Len(a)
    <3> DEFINE j == i - Len(a)
    <3>1. j \in 1..Len(b) /\ Len(a) + j = i
      BY <1>1, <1>2, <2>2
    <3> HIDE DEF j
    <3>2. b[j] = ch
      BY <1>2, <1>4, <3>1
    <3>3. j \in EscapedIn(b)
      BY <3>1, <3>2 DEF Guarded
    <3> QED BY <1>3, <3>1, <3>3
  <2> QED BY <2>1, <2>2
<1> QED BY <1>4 DEF Guarded, ab

LEMMA GuardedBlocks ==
  ASSUME NEW c \in Character
  PROVE  /\ \A ch : c # ch => Guarded(<<c>>, ch)
         /\ \A ch : ch # Escape => Guarded(<<Escape, c>>, ch)
         /\ \A ch : Guarded(<<>>, ch)
<1>1. Len(<<c>>) = 1 /\ <<c>>[1] = c /\ Len(<<>>) = 0
  OBVIOUS
<1>2. \A ch : c # ch => Guarded(<<c>>, ch)
  BY <1>1 DEF Guarded
<1>3. \A ch : Guarded(<<>>, ch)
  BY <1>1 DEF Guarded
<1> DEFINE t == <<Escape, c>>
<1>4. t \in Text /\ Len(t) = 2 /\ t[1] = Escape /\ t[2] = c /\ 2 \in EscapedIn(t)
  <2>1. t \in Text /\ Len(t) = 2 /\ t[1] = Escape /\ t[2] = c
    BY TwoFacts, SomeCharacters
  <2>2. EscapedIn(t) = {2}
    BY TwoOpen
  <2> HIDE DEF t
  <2> QED BY <2>1, <2>2
<1> HIDE DEF t
<1>5. \A ch : ch # Escape => Guarded(t, ch)
  <2>1. \A i \in 1..Len(t) : i = 1 \/ i = 2
    BY <1>4
  <2> QED BY <1>4, <2>1 DEF Guarded
<1> QED BY <1>2, <1>3, <1>5 DEF t

(* An encoded text neither escapes what follows nor ends its value, nor    *)
(* splits it if it is the first of two.                                    *)
IsSafe(e, first) ==
  /\ e \in Text /\ ~IsOpen(e) /\ Guarded(e, ValueEnd)
  /\ first => Guarded(e, Separator)

LEMMA SafeJoin ==
  ASSUME NEW a, NEW b, NEW first \in BOOLEAN, IsSafe(a, first), IsSafe(b, first)
  PROVE  IsSafe(a \o b, first)
<1>1. a \in Text /\ b \in Text /\ ~IsOpen(a) /\ ~IsOpen(b)
  BY DEF IsSafe
<1>2. a \o b \in Text
  BY <1>1, JoinFacts
<1>3. ~IsOpen(a \o b)
  <2>1. CASE b = <<>>
    <3>1. a \o <<>> = a
      BY <1>1, TextFacts
    <3> QED BY <1>1, <2>1, <3>1
  <2>2. CASE b # <<>>
    BY <1>1, <2>2, OpenJoin
  <2> QED BY <2>1, <2>2
<1>4. Guarded(a \o b, ValueEnd)
  BY <1>1, GuardedJoin DEF IsSafe
<1>5. first => Guarded(a \o b, Separator)
  BY <1>1, GuardedJoin DEF IsSafe
<1> QED BY <1>2, <1>3, <1>4, <1>5 DEF IsSafe

LEMMA BlockIsSafe ==
  ASSUME NEW c \in Character, NEW first \in BOOLEAN
  PROVE  IsSafe(Block(c, first), first) /\ Block(c, first) # <<>>
<1>1. Block(c, first) \in Text
  BY BlocksAreTexts
<1>2. CASE Block(c, first) = <<Escape, c>>
  <2>1. ~IsOpen(<<Escape, c>>) /\ <<Escape, c>> # <<>>
    BY TwoOpen
  <2>2. Guarded(<<Escape, c>>, ValueEnd) /\ Guarded(<<Escape, c>>, Separator)
    BY GuardedBlocks, CharactersDiffer
  <2> QED BY <1>1, <1>2, <2>1, <2>2 DEF IsSafe
<1>3. CASE Block(c, first) = <<c>> /\ c # Escape /\ c # ValueEnd /\ ~(first /\ c = Separator)
  <2>1. ~IsOpen(<<c>>) /\ <<c>> # <<>>
    BY <1>3, OneOpen
  <2>2. Guarded(<<c>>, ValueEnd) /\ (first => Guarded(<<c>>, Separator))
    BY <1>3, GuardedBlocks
  <2> QED BY <1>1, <1>3, <2>1, <2>2 DEF IsSafe
<1> QED BY <1>2, <1>3 DEF Block, MandatoryBlock

LEMMA NothingIsSafe == ASSUME NEW first \in BOOLEAN PROVE IsSafe(<<>>, first)
BY NothingOpen, GuardedBlocks, SomeCharacters, OneIsText DEF IsSafe

LEMMA EncodedIsSafe ==
  ASSUME NEW t \in Text, NEW first \in BOOLEAN
  PROVE  IsSafe(AddSimpleTextAndTextEscapeCharacters(t, first), first)
<1> DEFINE E(u) == AddSimpleTextAndTextEscapeCharacters(u, first)
           S == {u \in Text : IsSafe(E(u), first)}
<1>1. <<>> \in S
  BY NothingIsSafe, EncodedNothing, SomeCharacters, OneIsText
<1>2. ASSUME NEW w \in Text, NEW c \in Character, w \in S PROVE w \o <<c>> \in S
  <2>1. E(w \o <<c>>) = E(w) \o Block(c, first) /\ IsSafe(E(w), first)
    BY <1>2, EncodedMore
  <2>2. IsSafe(E(w) \o Block(c, first), first)
    BY <2>1, BlockIsSafe, SafeJoin
  <2>3. w \o <<c>> \in Text
    BY OneIsText, JoinFacts
  <2> QED BY <2>1, <2>2, <2>3
<1> HIDE DEF S
<1>3. Text \subseteq S
  BY <1>1, <1>2, TextInduction
<1> QED BY <1>3 DEF S

-----------------------------------------------------------------------------
(* What SGFC makes of an encoded text: the text, with its line endings as  *)
(* its type has them, or that text as the encoder would write it.          *)

As(c, type) == IF type = "SimpleText" /\ c = LineEnding THEN Space ELSE c

LEMMA AsIsCharacter == ASSUME NEW c \in Character, NEW type PROVE As(c, type) \in Character
BY SomeCharacters DEF As

LEMMA ReadAsMore ==
  ASSUME NEW t \in Text, NEW c \in Character, NEW type
  PROVE  /\ ReadAs(t, type) \in Text
         /\ ReadAs(t \o <<c>>, type) = ReadAs(t, type) \o <<As(c, type)>>
<1> DEFINE s == <<Space>>
<1>1. s \in Text
  BY SomeCharacters, OneIsText
<1>2. CASE type = "SimpleText"
  <2>1. Replaced(c, LineEnding, s) = <<As(c, type)>>
    BY <1>2 DEF Replaced, As
  <2> HIDE DEF s
  <2>2. Replace(t \o <<c>>, LineEnding, s) = Replace(t, LineEnding, s) \o Replaced(c, LineEnding, s)
    BY <1>1, ReplaceMore
  <2>3. Replace(t, LineEnding, s) \in Text
    BY <1>1, ReplaceIsText
  <2> QED BY <1>2, <2>1, <2>2, <2>3 DEF ReadAs, s
<1>3. CASE type # "SimpleText"
  BY <1>3 DEF ReadAs, As
<1> QED BY <1>2, <1>3

LEMMA ReadAsIsText == ASSUME NEW t \in Text, NEW type PROVE ReadAs(t, type) \in Text
BY ReadAsMore, SomeCharacters

LEMMA ReadAsNothing == ASSUME NEW type PROVE ReadAs(<<>>, type) = <<>>
<1>1. <<Space>> \in Text
  BY SomeCharacters, OneIsText
<1>2. Replace(<<>>, LineEnding, <<Space>>) = <<>>
  BY <1>1, ReplaceNothing
<1> QED BY <1>2 DEF ReadAs

LEMMA ReadBlock ==
  ASSUME NEW c \in Character, NEW first \in BOOLEAN, NEW type
  PROVE  /\ ~escapeProcessingEnabled => ReadText(Block(c, first), type) = <<As(c, type)>>
         /\ escapeProcessingEnabled => ReadText(Block(c, first), type) = Block(As(c, type), first)
<1>1. CASE Block(c, first) = <<Escape, c>> /\ c # LineEnding
  <2>1. ReadText(<<Escape, c>>, type) = ReadUnescaped(Escape, type) \o ReadEscaped(c)
    BY ReadTwo
  <2>2. ReadEscaped(c) = <<c>> /\ As(c, type) = c
    BY <1>1 DEF ReadEscaped, As
  <2>3. <<>> \o <<c>> = <<c>> /\ <<Escape, c>> = <<Escape>> \o <<c>>
    BY OneIsText, TextFacts, TwoFacts, SomeCharacters
  <2>4. ReadUnescaped(Escape, type) = IF escapeProcessingEnabled THEN <<Escape>> ELSE <<>>
    BY DEF ReadUnescaped
  <2>5. CASE escapeProcessingEnabled
    BY <1>1, <2>1, <2>2, <2>3, <2>4, <2>5
  <2>6. CASE ~escapeProcessingEnabled
    BY <1>1, <2>1, <2>2, <2>3, <2>4, <2>6
  <2> QED BY <2>5, <2>6
<1>2. CASE Block(c, first) = <<c>> /\ c # Escape /\ c # ValueEnd /\ ~(first /\ c = Separator)
  <2>1. ReadText(<<c>>, type) = ReadUnescaped(c, type)
    BY ReadOne
  <2>2. ReadUnescaped(c, type) = <<As(c, type)>>
    BY <1>2 DEF ReadUnescaped, As
  <2>3. Block(As(c, type), first) = <<As(c, type)>>
    BY <1>2, CharactersDiffer DEF As, Block, MandatoryBlock
  <2> QED BY <1>2, <2>1, <2>2, <2>3
<1> QED BY <1>1, <1>2, CharactersDiffer DEF Block, MandatoryBlock

LEMMA ReadEncoded ==
  ASSUME NEW t \in Text, NEW first \in BOOLEAN, NEW type
  PROVE  ReadText(AddSimpleTextAndTextEscapeCharacters(t, first), type) =
           IF escapeProcessingEnabled THEN AddSimpleTextAndTextEscapeCharacters(ReadAs(t, type), first)
           ELSE ReadAs(t, type)
<1> DEFINE E(u) == AddSimpleTextAndTextEscapeCharacters(u, first)
           Expected(u) == IF escapeProcessingEnabled THEN E(ReadAs(u, type)) ELSE ReadAs(u, type)
           S == {u \in Text : ReadText(E(u), type) = Expected(u)}
<1>1. <<>> \in S
  <2>1. E(<<>>) = <<>> /\ ReadAs(<<>>, type) = <<>> /\ ReadText(<<>>, type) = <<>> /\ <<>> \in Text
    BY EncodedNothing, ReadAsNothing, ReadNothing, SomeCharacters, OneIsText
  <2> QED BY <2>1
<1>2. ASSUME NEW w \in Text, NEW c \in Character, w \in S PROVE w \o <<c>> \in S
  <2>1. w \o <<c>> \in Text
    BY OneIsText, JoinFacts
  <2>2. E(w \o <<c>>) = E(w) \o Block(c, first) /\ E(w) \in Text /\ ~IsOpen(E(w))
    BY EncodedMore, EncodedIsSafe DEF IsSafe
  <2>3. Block(c, first) \in Text
    BY BlocksAreTexts
  <2> DEFINE a == E(w)
             b == Block(c, first)
  <2>4. a \in Text /\ b \in Text /\ ~IsOpen(a)
    BY <2>2, <2>3
  <2> HIDE DEF a, b
  <2>5. ReadText(a \o b, type) = ReadText(a, type) \o ReadText(b, type)
    BY <2>4, ReadJoin
  <2> DEFINE d == As(c, type)
             r == ReadAs(w, type)
  <2>6. d \in Character /\ r \in Text /\ ReadAs(w \o <<c>>, type) = r \o <<d>>
    BY AsIsCharacter, ReadAsMore
  <2> HIDE DEF d, r
  <2>7. E(r \o <<d>>) = E(r) \o Block(d, first)
    BY <2>6, EncodedMore
  <2>8. /\ ~escapeProcessingEnabled => ReadText(b, type) = <<d>>
        /\ escapeProcessingEnabled => ReadText(b, type) = Block(d, first)
    BY ReadBlock DEF b, d
  <2>9. ReadText(a, type) = IF escapeProcessingEnabled THEN E(r) ELSE r
    BY <1>2 DEF a, r
  <2>10. E(w \o <<c>>) = a \o b
    BY <2>2 DEF a, b
  <2> HIDE DEF E
  <2>11. CASE escapeProcessingEnabled
    BY <2>1, <2>5, <2>6, <2>7, <2>8, <2>9, <2>10, <2>11
  <2>12. CASE ~escapeProcessingEnabled
    BY <2>1, <2>5, <2>6, <2>7, <2>8, <2>9, <2>10, <2>12
  <2> QED BY <2>11, <2>12
<1> HIDE DEF S
<1>3. Text \subseteq S
  BY <1>1, <1>2, TextInduction
<1> QED BY <1>3 DEF S

-----------------------------------------------------------------------------
(* Replacements that are undone by the removal of pairs.                   *)

Closed(a) == a = <<>> \/ a[Len(a)] # Escape \/ Len(a) - 1 \in RemovedIn(a, Escape)

LEMMA LastOfJoin ==
  ASSUME NEW a \in Text, NEW b \in Text, b # <<>>
  PROVE  a \o b # <<>> /\ (a \o b)[Len(a \o b)] = b[Len(b)] /\ Len(a \o b) \in Nat
<1>1. Len(a) \in Nat /\ Len(b) \in Nat /\ Len(b) # 0
  BY TextFacts
<1>2. Len(b) \in 1..Len(b)
  BY <1>1
<1> QED BY <1>1, <1>2, JoinFacts

LEMMA FirstOfJoin ==
  ASSUME NEW a \in Text, NEW b \in Text, a # <<>>
  PROVE  a \o b # <<>> /\ (a \o b)[1] = a[1]
<1>1. Len(a) \in Nat /\ Len(a) # 0
  BY TextFacts
<1>2. 1 \in 1..Len(a)
  BY <1>1
<1> QED BY <1>2, JoinFacts

LEMMA ClosedIsApart ==
  ASSUME NEW a, NEW b, NEW ch, ch = Escape => Closed(a), ch # Escape => b = <<>> \/ b[1] # ch
  PROVE  Apart(a, b, ch)
BY DEF Closed, Apart

LEMMA ClosedBlocks ==
  ASSUME NEW c \in Character, c # Escape
  PROVE  Closed(<<c>>) /\ Closed(<<Escape, Escape>>) /\ Closed(<<Escape, c>>)
<1>1. Len(<<c>>) = 1 /\ <<c>>[1] = c
  OBVIOUS
<1>2. Len(<<Escape, c>>) = 2 /\ <<Escape, c>>[2] = c /\ Len(<<Escape, Escape>>) = 2
  OBVIOUS
<1>3. 1 \in RemovedIn(<<Escape, Escape>>, Escape) /\ 2 - 1 = 1
  BY SomeCharacters, ReplacePairInTwo
<1> QED BY <1>1, <1>2, <1>3 DEF Closed

LEMMA ClosedJoin ==
  ASSUME NEW a \in Text, NEW b \in Text, b # <<>>, Closed(a), Closed(b)
  PROVE  Closed(a \o b)
<1>1. Len(a) \in Nat /\ Len(b) \in Nat /\ Len(b) # 0 /\ Len(a \o b) = Len(a) + Len(b)
  BY TextFacts, JoinFacts
<1>2. (a \o b)[Len(a \o b)] = b[Len(b)]
  BY LastOfJoin
<1>3. Apart(a, b, Escape)
  BY DEF Closed, Apart
<1>4. ASSUME Len(b) - 1 \in RemovedIn(b, Escape) PROVE Len(a \o b) - 1 \in RemovedIn(a \o b, Escape)
  <2> DEFINE j == Len(b) - 1
  <2>1. j \in RemovedIn(b, Escape) /\ j \in 1..Len(b) /\ Len(a) + j = Len(a \o b) - 1
    <3>1. RemovedIn(b, Escape) \subseteq 1..Len(b)
      BY RemovedIs
    <3> QED BY <1>1, <1>4, <3>1
  <2> HIDE DEF j
  <2>2. Len(a) + j \in RemovedIn(a \o b, Escape)
    BY <1>3, <2>1, RemovedInJoin
  <2> QED BY <2>1, <2>2
<1> QED BY <1>2, <1>4 DEF Closed

LEMMA RemoveAdded ==
  ASSUME NEW t \in Text, NEW ch \in Character
  PROVE  /\ Replace(t, ch, <<Escape, ch>>) \in Text
         /\ ReplacePair(Replace(t, ch, <<Escape, ch>>), ch) = t
         /\ ch = Escape => Closed(Replace(t, ch, <<Escape, ch>>))
<1> DEFINE r == <<Escape, ch>>
           R(u) == Replace(u, ch, r)
           S == {u \in Text : R(u) \in Text /\ ReplacePair(R(u), ch) = u /\ (ch = Escape => Closed(R(u)))}
<1>0. r \in Text /\ r # <<>> /\ Len(r) = 2 /\ r[1] = Escape
  BY TwoFacts, SomeCharacters
<1>a. ReplacePair(r, ch) = <<ch>>
  BY ReplacePairInTwo
<1>b. ch = Escape => Closed(r)
  <2>1. ValueEnd \in Character /\ ValueEnd # Escape
    BY SomeCharacters, CharactersDiffer
  <2> QED BY <2>1, ClosedBlocks
<1> HIDE DEF r
<1>1. <<>> \in S
  <2>1. R(<<>>) = <<>> /\ <<>> \in Text /\ ReplacePair(<<>>, ch) = <<>>
    BY <1>0, ReplaceNothing, ReplacePairInNothing, OneIsText
  <2> QED BY <2>1 DEF Closed
<1>2. ASSUME NEW w \in Text, NEW c \in Character, w \in S PROVE w \o <<c>> \in S
  <2> DEFINE a == R(w)
             b == Replaced(c, ch, r)
  <2>1. R(w \o <<c>>) = a \o b
    BY <1>0, ReplaceMore
  <2>2. a \in Text /\ b \in Text /\ ReplacePair(a, ch) = w /\ (ch = Escape => Closed(a))
    BY <1>0, <1>2, ReplacedIsText
  <2>3. /\ b # <<>> /\ ReplacePair(b, ch) = <<c>>
        /\ ch # Escape => b[1] # ch
        /\ ch = Escape => Closed(b)
    <3>1. CASE c = ch
      BY <1>0, <1>a, <1>b, <3>1 DEF Replaced
    <3>2. CASE c # ch
      <4>1. b = <<c>> /\ <<c>>[1] = c /\ <<c>> # <<>>
        BY <3>2 DEF Replaced
      <4>2. ReplacePair(<<c>>, ch) = <<c>>
        BY ReplacePairInOne
      <4>3. ch = Escape => Closed(<<c>>)
        BY <3>2, ClosedBlocks
      <4> HIDE DEF b
      <4> QED BY <3>2, <4>1, <4>2, <4>3
    <3> QED BY <3>1, <3>2
  <2> HIDE DEF a, b
  <2>4. Apart(a, b, ch)
    BY <2>2, <2>3, ClosedIsApart
  <2>5. ReplacePair(a \o b, ch) = w \o <<c>>
    <3>1. ReplacePair(a \o b, ch) = ReplacePair(a, ch) \o ReplacePair(b, ch)
      <4>1. a \in Text /\ b \in Text /\ Apart(a, b, ch)
        BY ONLY <2>2, <2>4
      <4> QED BY ONLY <4>1, ReplacePairInParts
    <3> QED BY <2>2, <2>3, <3>1
  <2>6. a \o b \in Text /\ w \o <<c>> \in Text
    BY <2>2, OneIsText, JoinFacts
  <2>7. ch = Escape => Closed(a \o b)
    BY <2>2, <2>3, ClosedJoin
  <2> HIDE DEF R
  <2> QED BY <2>1, <2>5, <2>6, <2>7
<1> HIDE DEF S
<1>3. Text \subseteq S
  BY <1>1, <1>2, TextInduction
<1> QED BY <1>3 DEF S, r

(* Replacements of different characters can change places.                 *)
LEMMA ReplacementsCommute ==
  ASSUME NEW t \in Text
  PROVE  Replace(Replace(t, ValueEnd, <<Escape, ValueEnd>>), Separator, <<Escape, Separator>>)
           = Replace(Replace(t, Separator, <<Escape, Separator>>), ValueEnd, <<Escape, ValueEnd>>)
<1> DEFINE E == <<Escape, ValueEnd>>
           F == <<Escape, Separator>>
           R(u) == Replace(u, ValueEnd, E)
           Q(u) == Replace(u, Separator, F)
           S == {u \in Text : Q(R(u)) = R(Q(u))}
<1>1. E \in Text /\ F \in Text
  BY EscapesAreTexts, SomeCharacters
<1>2. Q(E) = E /\ R(F) = F
  <2>1. \A i \in 1..2 : E[i] # Separator /\ F[i] # ValueEnd
    BY CharactersDiffer
  <2>2. Len(E) = 2 /\ Len(F) = 2
    OBVIOUS
  <2> HIDE DEF E, F
  <2>3. Q(E) = E
    BY <1>1, <2>1, <2>2, ReplaceNone
  <2>4. R(F) = F
    BY <1>1, <2>1, <2>2, ReplaceNone
  <2> QED BY <2>3, <2>4
<1> HIDE DEF E, F
<1>3. \A x, y \in Text : R(x \o y) = R(x) \o R(y)
  BY <1>1, ReplaceInTwo
<1>4. \A x, y \in Text : Q(x \o y) = Q(x) \o Q(y)
  BY <1>1, ReplaceInTwo
<1>5. \A x \in Text : R(x) \in Text /\ Q(x) \in Text
  BY <1>1, ReplaceIsText
<1>6. ASSUME NEW c \in Character PROVE Q(R(<<c>>)) = R(Q(<<c>>))
  <2>1. R(<<c>>) = Replaced(c, ValueEnd, E) /\ Q(<<c>>) = Replaced(c, Separator, F)
    BY <1>1, ReplaceOne
  <2> HIDE DEF R, Q
  <2>2. CASE c = ValueEnd
    <3>1. R(<<c>>) = E /\ Q(<<c>>) = <<c>>
      BY <2>1, <2>2, CharactersDiffer DEF Replaced
    <3> QED BY <1>2, <3>1
  <2>3. CASE c = Separator
    <3>1. R(<<c>>) = <<c>> /\ Q(<<c>>) = F
      BY <2>1, <2>3, CharactersDiffer DEF Replaced
    <3> QED BY <1>2, <3>1
  <2>4. CASE c # ValueEnd /\ c # Separator
    <3>1. R(<<c>>) = <<c>> /\ Q(<<c>>) = <<c>>
      BY <2>1, <2>4 DEF Replaced
    <3> QED BY <3>1
  <2> QED BY <2>2, <2>3, <2>4
<1>7. <<>> \in S
  <2>1. R(<<>>) = <<>> /\ Q(<<>>) = <<>> /\ <<>> \in Text
    BY <1>1, ReplaceNothing, SomeCharacters, OneIsText
  <2> QED BY <2>1
<1> HIDE DEF R, Q
<1>8. ASSUME NEW w \in Text, NEW c \in Character, w \in S PROVE w \o <<c>> \in S
  <2> DEFINE b == <<c>>
  <2>1. b \in Text /\ Q(R(b)) = R(Q(b)) /\ Q(R(w)) = R(Q(w))
    BY <1>6, <1>8, OneIsText
  <2> HIDE DEF b
  <2>2. R(w \o b) = R(w) \o R(b) /\ Q(w \o b) = Q(w) \o Q(b)
    BY ONLY <1>3, <1>4, <2>1, w \in Text
  <2>3. Q(R(w) \o R(b)) = Q(R(w)) \o Q(R(b))
    BY ONLY <1>4, <1>5, <2>1, w \in Text
  <2>4. R(Q(w) \o Q(b)) = R(Q(w)) \o R(Q(b))
    BY ONLY <1>3, <1>5, <2>1, w \in Text
  <2>5. w \o b \in Text
    BY <2>1, JoinFacts
  <2> QED BY <2>1, <2>2, <2>3, <2>4, <2>5 DEF b
<1> HIDE DEF S
<1>9. Text \subseteq S
  BY <1>7, <1>8, TextInduction
<1> QED BY <1>9 DEF S, R, Q, E, F

(* The decoder undoes what the encoder has done to a text.                 *)

EscapesDoubled(t) == Replace(t, Escape, <<Escape, Escape>>)

LEMMA DoubledIs ==
  ASSUME NEW t \in Text
  PROVE  /\ EscapesDoubled(t) \in Text /\ ReplacePair(EscapesDoubled(t), Escape) = t
         /\ Closed(EscapesDoubled(t))
BY RemoveAdded, SomeCharacters DEF EscapesDoubled

LEMMA MandatoryRemoved ==
  ASSUME NEW t \in Text
  PROVE  /\ RemoveMandatoryEscapeCharacters(AddMandatoryEscapeCharacters(t, FALSE)) = t
         /\ ReplacePair(RemoveMandatoryEscapeCharacters(AddMandatoryEscapeCharacters(t, TRUE)), Separator) = t
<1> DEFINE R(u) == Replace(u, ValueEnd, <<Escape, ValueEnd>>)
           Q(u) == Replace(u, Separator, <<Escape, Separator>>)
<1>1. \A u \in Text : R(u) \in Text /\ ReplacePair(R(u), ValueEnd) = u
  <2> TAKE u \in Text
  <2> QED BY RemoveAdded, SomeCharacters
<1>2. \A u \in Text : Q(u) \in Text /\ ReplacePair(Q(u), Separator) = u
  <2> TAKE u \in Text
  <2> QED BY RemoveAdded, SomeCharacters
<1>3. AddMandatoryEscapeCharacters(t, FALSE) = R(t) /\ AddMandatoryEscapeCharacters(t, TRUE) = Q(R(t))
  BY DEF AddMandatoryEscapeCharacters
<1>4. Q(R(t)) = R(Q(t))
  BY ReplacementsCommute
<1> HIDE DEF R, Q
<1> QED BY <1>1, <1>2, <1>3, <1>4 DEF RemoveMandatoryEscapeCharacters

(* In the second text of a composed value separators are not escaped, but  *)
(* the decoder removes pairs with separators, too.                         *)
LEMMA SeparatorsRemoved ==
  ASSUME NEW t \in Text
  PROVE  ReplacePair(ReplacePair(EscapesDoubled(t), Separator), Escape) = t
<1> DEFINE D(u) == EscapesDoubled(u)
           P(u) == ReplacePair(u, Separator)
           X(u) == ReplacePair(u, Escape)
           Good(u) == P(D(u)) \in Text /\ X(P(D(u))) = u /\ Closed(P(D(u)))
           Bad == {u \in Text : ~Good(u)}
<1>1. SUFFICES ASSUME Bad # {} PROVE FALSE
  <2>1. Bad = {} => Good(t)
    OBVIOUS
  <2> QED BY <2>1
<1>2. Bad \subseteq Text
  OBVIOUS
<1> HIDE DEF Bad
<1>3. PICK u \in Bad : \A v \in Bad : Len(u) <= Len(v)
  BY <1>1, <1>2, ShortestText
<1>4. u \in Text
  BY <1>2, <1>3
<1>5. /\ <<Escape, Escape>> \in Text /\ \A c \in Character : <<c>> \in Text
      /\ \A c \in Character : <<Escape, c>> \in Text /\ <<Escape, c>> = <<Escape>> \o <<c>>
  BY EscapesAreTexts, SomeCharacters
<1>6. \A w \in Text, c \in Character :
        D(w) \in Text /\ D(w \o <<c>>) = D(w) \o (IF c = Escape THEN <<Escape, Escape>> ELSE <<c>>)
  <2> TAKE w \in Text, c \in Character
  <2> DEFINE r == <<Escape, Escape>>
  <2>1. r \in Text
    BY <1>5
  <2> HIDE DEF r
  <2>2. Replace(w \o <<c>>, Escape, r) = Replace(w, Escape, r) \o Replaced(c, Escape, r)
    BY <2>1, ReplaceMore
  <2> QED BY <2>2, DoubledIs DEF Replaced, EscapesDoubled, r
<1>7. ASSUME NEW w \in Text, Len(w) < Len(u) PROVE Good(w)
  <2>1. Len(w) \in Nat /\ Len(u) \in Nat
    BY <1>4, TextFacts
  <2>2. ~(Len(u) <= Len(w))
    BY <1>7, <2>1
  <2>3. w \notin Bad
    BY <1>3, <2>2
  <2> QED BY <2>3 DEF Bad
(* One block more: it is kept, and the text is one character longer.       *)
<1>8. ASSUME NEW w \in Text, Good(w), NEW v \in Text, NEW b \in Text, NEW k \in Text, NEW e \in Text,
             D(v) = D(w) \o b, Apart(D(w), b, Separator), P(b) = k, k # <<>>, Closed(k), X(k) = e, v = w \o e
      PROVE  Good(v)
  <2>1. D(w) \in Text
    BY DoubledIs
  <2> DEFINE a == D(w)
             p == P(a)
  <2>2. a \in Text /\ p \in Text /\ X(p) = w /\ Closed(p) /\ Apart(a, b, Separator)
    BY <1>8, <2>1
  <2>3. p = ReplacePair(a, Separator) /\ D(v) = a \o b
    BY <1>8
  <2> HIDE DEF a, p
  <2>4. ReplacePair(a \o b, Separator) = ReplacePair(a, Separator) \o ReplacePair(b, Separator)
    <3>1. a \in Text /\ b \in Text /\ Apart(a, b, Separator)
      BY <1>8, <2>2
    <3> QED BY ONLY <3>1, ReplacePairInParts
  <2>5. P(D(v)) = p \o k
    BY <1>8, <2>3, <2>4
  <2>6. Apart(p, k, Escape)
    BY <2>2, ClosedIsApart
  <2>7. ReplacePair(p \o k, Escape) = ReplacePair(p, Escape) \o ReplacePair(k, Escape)
    <3>1. p \in Text /\ k \in Text /\ Apart(p, k, Escape)
      BY <1>8, <2>2, <2>6
    <3> QED BY ONLY <3>1, ReplacePairInParts
  <2>8. p \o k \in Text /\ Closed(p \o k)
    BY <1>8, <2>2, JoinFacts, ClosedJoin
  <2> QED BY <1>8, <2>2, <2>5, <2>7, <2>8
<1>9. Good(<<>>)
  <2>1. D(<<>>) = <<>> /\ P(<<>>) = <<>> /\ X(<<>>) = <<>> /\ <<>> \in Text
    BY <1>5, ReplaceNothing, ReplacePairInNothing, SomeCharacters, OneIsText DEF EscapesDoubled
  <2> QED BY <2>1 DEF Closed
<1>10. u # <<>>
  BY <1>3, <1>9 DEF Bad
<1> DEFINE w == SubSeq(u, 1, Len(u) - 1)
           c == u[Len(u)]
<1>11. w \in Text /\ Len(w) = Len(u) - 1 /\ c \in Character /\ u = w \o <<c>>
  BY <1>4, <1>10, LastFacts
<1> HIDE DEF w, c
<1>12. Len(w) \in Nat /\ Len(u) \in Nat /\ Len(w) < Len(u)
  BY <1>4, <1>11, TextFacts
<1>13. Good(w)
  BY <1>7, <1>11, <1>12
<1>14. Good(u)
  <2>1. CASE c = Escape
    <3> DEFINE b == <<Escape, Escape>>
               e == <<Escape>>
    <3>1. b \in Text /\ e \in Text /\ D(u) = D(w) \o b /\ u = w \o e
      BY <1>5, <1>6, <1>11, <2>1
    <3>2. P(b) = b /\ b # <<>> /\ X(b) = e /\ Closed(b) /\ b[1] # Separator
      BY ReplacePairInTwo, ClosedBlocks, SomeCharacters, CharactersDiffer
    <3> HIDE DEF b, e, D, P, X, Good
    <3>3. Apart(D(w), b, Separator)
      BY <3>2, ClosedIsApart, CharactersDiffer
    <3> QED BY <1>4, <1>8, <1>11, <1>13, <3>1, <3>2, <3>3
  <2>2. CASE c # Escape /\ (c # Separator \/ w = <<>> \/ w[Len(w)] # Escape)
    <3> DEFINE b == <<c>>
    <3>1. b \in Text /\ D(u) = D(w) \o b /\ u = w \o b
      BY <1>5, <1>6, <1>11, <2>2
    <3>2. P(b) = b /\ b # <<>> /\ X(b) = b /\ Closed(b) /\ b[1] = c
      BY <1>11, <2>2, ReplacePairInOne, ClosedBlocks
    <3>3. Apart(D(w), b, Separator)
      <4>1. w # <<>> => D(w) # <<>> /\ D(w)[Len(D(w))] = w[Len(w)]
        <5> SUFFICES ASSUME w # <<>> PROVE D(w) # <<>> /\ D(w)[Len(D(w))] = w[Len(w)]
          OBVIOUS
        <5> DEFINE z == SubSeq(w, 1, Len(w) - 1)
                   d == w[Len(w)]
        <5>1. z \in Text /\ d \in Character /\ w = z \o <<d>>
          BY <1>11, LastFacts
        <5> HIDE DEF z, d
        <5> DEFINE y == IF d = Escape THEN <<Escape, Escape>> ELSE <<d>>
        <5>2. D(w) = D(z) \o y /\ D(z) \in Text /\ y \in Text
          BY <1>5, <1>6, <5>1
        <5>3. y # <<>> /\ y[Len(y)] = d
          OBVIOUS
        <5> HIDE DEF y, D
        <5>4. D(w) # <<>> /\ D(w)[Len(D(w))] = d
          BY <5>2, <5>3, LastOfJoin
        <5> QED BY <5>4 DEF d
      <4>2. w = <<>> => D(w) = <<>>
        BY <1>5, ReplaceNothing, SomeCharacters DEF EscapesDoubled
      <4> HIDE DEF b, D
      <4> QED BY <2>2, <3>2, <4>1, <4>2 DEF Apart
    <3> HIDE DEF b, D, P, X, Good
    <3> QED BY <1>4, <1>8, <1>11, <1>13, <3>1, <3>2, <3>3
  <2>3. CASE c = Separator /\ w # <<>> /\ w[Len(w)] = Escape
    <3> DEFINE z == SubSeq(w, 1, Len(w) - 1)
               b == <<Escape, Escape>> \o <<Separator>>
               k == <<Escape, Separator>>
               i == <<Escape>>
               j == <<Separator>>
    <3>1. z \in Text /\ Len(z) = Len(w) - 1 /\ w = z \o <<Escape>>
      BY <1>11, <2>3, LastFacts
    <3> HIDE DEF z
    <3>2. Good(z)
      <4>1. Len(z) < Len(u)
        BY <1>11, <1>12, <3>1
      <4> QED BY <1>7, <3>1, <4>1
    <3>3. i \in Text /\ j \in Text /\ k \in Text /\ k = i \o j /\ <<Escape, Escape>> = i \o i /\ b \in Text
      BY <1>5, SomeCharacters, JoinFacts
    <3>4. D(u) = D(z) \o b
      <4>1. D(w) = D(z) \o <<Escape, Escape>> /\ D(u) = D(w) \o <<Separator>> /\ D(z) \in Text
        BY <1>6, <1>11, <2>3, <3>1, SomeCharacters, CharactersDiffer
      <4> DEFINE s == D(z)
                 x == <<Escape, Escape>>
      <4>2. s \in Text /\ x \in Text /\ j \in Text
        BY <1>5, <3>3, <4>1
      <4> HIDE DEF s, x, j
      <4>3. (s \o x) \o j = s \o (x \o j)
        BY ONLY <4>2, JoinAssociative
      <4> QED BY <4>1, <4>3 DEF s, x, j
    <3>5. u = z \o k
      <4> HIDE DEF i, j, k
      <4>1. u = (z \o i) \o j
        BY <1>11, <2>3, <3>1 DEF i, j
      <4>2. (z \o i) \o j = z \o (i \o j)
        BY ONLY <3>1, <3>3, JoinAssociative
      <4> QED BY <3>3, <4>1, <4>2
    <3>6. P(b) = k
      <4> DEFINE x == i \o j
      <4>1. P(i) = i /\ P(k) = j
        BY ReplacePairInOne, ReplacePairInTwo, SomeCharacters
      <4>2. b = i \o k
        <5> HIDE DEF i, j, k
        <5>1. b = (i \o i) \o j
          BY <3>3 DEF j
        <5>2. (i \o i) \o j = i \o (i \o j)
          BY ONLY <3>3, JoinAssociative
        <5> QED BY <3>3, <5>1, <5>2
      <4>3. k[1] # Separator
        BY CharactersDiffer
      <4> HIDE DEF i, j, k, b
      <4>4. Apart(i, k, Separator)
        BY <4>3 DEF Apart
      <4>5. ReplacePair(i \o k, Separator) = ReplacePair(i, Separator) \o ReplacePair(k, Separator)
        BY ONLY <3>3, <4>4, ReplacePairInParts
      <4> QED BY <3>3, <4>1, <4>2, <4>5
    <3>7. X(k) = k /\ Closed(k) /\ k # <<>>
      BY ReplacePairInTwo, ClosedBlocks, SomeCharacters, CharactersDiffer
    <3>8. b # <<>> /\ b[1] = Escape
      <4> DEFINE x == <<Escape, Escape>>
      <4>1. x \in Text /\ x # <<>> /\ x[1] = Escape
        BY <1>5
      <4> HIDE DEF x, j
      <4>2. x \o j # <<>> /\ (x \o j)[1] = Escape
        BY <3>3, <4>1, FirstOfJoin
      <4> QED BY <4>2 DEF x, j
    <3> HIDE DEF b, k, i, j, D, P, X, Good
    <3>9. Apart(D(z), b, Separator)
      BY <3>8, CharactersDiffer DEF Apart
    <3> QED BY <1>4, <1>8, <3>1, <3>2, <3>3, <3>4, <3>5, <3>6, <3>7, <3>9
  <2> QED BY <2>1, <2>2, <2>3
<1> QED BY <1>3, <1>14 DEF Bad

-----------------------------------------------------------------------------
(* Line endings.                                                           *)

Free(t, c) == \A i \in 1..Len(t) : t[i] # c

LEMMA FreeJoin ==
  ASSUME NEW a \in Text, NEW b \in Text, NEW c
  PROVE  Free(a \o b, c) <=> Free(a, c) /\ Free(b, c)
<1> DEFINE ab == a \o b
<1>1. Len(a) \in Nat /\ Len(b) \in Nat
  BY TextFacts
<1>2. /\ ab \in Text /\ Len(ab) = Len(a) + Len(b)
      /\ \A i \in 1..Len(a) : ab[i] = a[i]
      /\ \A i \in 1..Len(b) : ab[Len(a) + i] = b[i]
  BY JoinFacts
<1> HIDE DEF ab
<1>3. ASSUME Free(ab, c) PROVE Free(a, c) /\ Free(b, c)
  <2>1. \A i \in 1..Len(a) : i \in 1..Len(ab)
    BY <1>1, <1>2
  <2>2. \A i \in 1..Len(b) : Len(a) + i \in 1..Len(ab)
    BY <1>1, <1>2
  <2>3. Free(a, c)
    BY <1>2, <1>3, <2>1 DEF Free
  <2>4. Free(b, c)
    BY <1>2, <1>3, <2>2 DEF Free
  <2> QED BY <2>3, <2>4
<1>4. ASSUME Free(a, c), Free(b, c), NEW i \in 1..Len(ab) PROVE ab[i] # c
  <2>1. CASE i \in 1..Len(a)
    BY <1>2, <1>4, <2>1 DEF Free
  <2>2. CASE i \notin 1..Len(a)
    <3> DEFINE j == i - Len(a)
    <3>1. j \in 1..Len(b) /\ Len(a) + j = i
      BY <1>1, <1>2, <2>2
    <3> HIDE DEF j
    <3> QED BY <1>2, <1>4, <3>1 DEF Free
  <2> QED BY <2>1, <2>2
<1> QED BY <1>3, <1>4 DEF Free, ab

LEMMA FreeBlocks ==
  /\ \A c, d : d # c => Free(<<d>>, c)
  /\ \A c, d : d # c => Free(<<Escape, d>>, c) \/ c = Escape
  /\ \A c : Free(<<>>, c)
BY DEF Free

LEMMA HasPairJoin ==
  ASSUME NEW a \in Text, NEW b \in Text, NEW x, NEW y
  PROVE  /\ HasPair(a, x, y) => HasPair(a \o b, x, y)
         /\ HasPair(a \o b, x, y) =>
              HasPair(a, x, y) \/ HasPair(b, x, y) \/ (a # <<>> /\ b # <<>> /\ a[Len(a)] = x /\ b[1] = y)
         /\ a # <<>> /\ b # <<>> /\ a[Len(a)] = x /\ b[1] = y => HasPair(a \o b, x, y)
<1> DEFINE ab == a \o b
<1>1. Len(a) \in Nat /\ Len(b) \in Nat /\ (Len(a) = 0 <=> a = <<>>) /\ (Len(b) = 0 <=> b = <<>>)
  BY TextFacts
<1>2. /\ ab \in Text /\ Len(ab) = Len(a) + Len(b)
      /\ \A i \in 1..Len(a) : ab[i] = a[i]
      /\ \A i \in 1..Len(b) : ab[Len(a) + i] = b[i]
  BY JoinFacts
<1> HIDE DEF ab
<1>3. ASSUME HasPair(a, x, y) PROVE HasPair(ab, x, y)
  <2>1. PICK i \in 1..(Len(a) - 1) : a[i] = x /\ a[i + 1] = y
    BY <1>3 DEF HasPair
  <2>2. i \in 1..Len(a) /\ i + 1 \in 1..Len(a) /\ i \in 1..(Len(ab) - 1)
    BY <1>1, <1>2
  <2> DEFINE j == i + 1
  <2>3. j \in 1..Len(a) /\ a[j] = y
    BY <2>1, <2>2
  <2> HIDE DEF j
  <2>4. ab[i] = x /\ ab[j] = y
    BY ONLY <1>2, <2>1, <2>2, <2>3
  <2> QED BY <2>2, <2>4 DEF HasPair, j
<1>4. ASSUME HasPair(ab, x, y)
      PROVE  HasPair(a, x, y) \/ HasPair(b, x, y) \/ (a # <<>> /\ b # <<>> /\ a[Len(a)] = x /\ b[1] = y)
  <2>1. PICK i \in 1..(Len(ab) - 1) : ab[i] = x /\ ab[i + 1] = y
    BY <1>4 DEF HasPair
  <2>2. CASE i < Len(a)
    <3> DEFINE j == i + 1
    <3>1. i \in 1..Len(a) /\ j \in 1..Len(a) /\ i \in 1..(Len(a) - 1) /\ ab[j] = y
      BY <1>1, <2>1, <2>2
    <3> HIDE DEF j
    <3>2. a[i] = x /\ a[j] = y
      BY ONLY <1>2, <2>1, <3>1
    <3> QED BY <3>1, <3>2 DEF HasPair, j
  <2>3. CASE i = Len(a)
    <3>1. Len(a) \in 1..Len(a) /\ 1 \in 1..Len(b) /\ Len(a) # 0 /\ Len(b) # 0
      BY <1>1, <1>2, <2>1, <2>3
    <3> QED BY <1>1, <1>2, <2>1, <2>3, <3>1
  <2>4. CASE i > Len(a)
    <3> DEFINE j == i - Len(a)
               k == j + 1
    <3>1. /\ j \in 1..Len(b) /\ k \in 1..Len(b) /\ Len(a) + j = i /\ Len(a) + k = i + 1
          /\ j \in 1..(Len(b) - 1)
      BY <1>1, <1>2, <2>1, <2>4
    <3> HIDE DEF j, k
    <3>2. ab[Len(a) + j] = b[j] /\ ab[Len(a) + k] = b[k]
      BY ONLY <1>2, <3>1
    <3>3. b[j] = x /\ b[k] = y
      BY ONLY <2>1, <3>1, <3>2
    <3> QED BY <3>1, <3>3 DEF HasPair, k
  <2>5. i < Len(a) \/ i = Len(a) \/ i > Len(a)
    BY <1>1, <2>1
  <2> QED BY <2>2, <2>3, <2>4, <2>5
<1>5. ASSUME a # <<>>, b # <<>>, a[Len(a)] = x, b[1] = y PROVE HasPair(ab, x, y)
  <2>1. Len(a) \in 1..Len(a) /\ 1 \in 1..Len(b) /\ Len(a) \in 1..(Len(ab) - 1)
    BY <1>1, <1>2, <1>5
  <2>2. ab[Len(a)] = x /\ ab[Len(a) + 1] = y
    BY <1>2, <1>5, <2>1
  <2> QED BY <2>1, <2>2 DEF HasPair
<1> QED BY <1>3, <1>4, <1>5 DEF ab

LEMMA LastOfBlock ==
  ASSUME NEW c \in Character, NEW first \in BOOLEAN
  PROVE  /\ Block(c, first) # <<>> /\ Block(c, first)[Len(Block(c, first))] = c
         /\ MandatoryBlock(c, first) # <<>> /\ MandatoryBlock(c, first)[Len(MandatoryBlock(c, first))] = c
<1>1. /\ <<c>> # <<>> /\ <<c>>[Len(<<c>>)] = c
      /\ <<Escape, c>> # <<>> /\ <<Escape, c>>[Len(<<Escape, c>>)] = c
  OBVIOUS
<1>2. MandatoryBlock(c, first) \in {<<c>>, <<Escape, c>>}
  BY DEF MandatoryBlock
<1>3. Block(c, first) \in {<<c>>, <<Escape, c>>}
  BY <1>2 DEF Block
<1> QED BY <1>1, <1>2, <1>3

(* The last character of a text stays the last one when it is encoded.     *)
LEMMA LastOfEncoded ==
  ASSUME NEW t \in Text, t # <<>>, NEW first \in BOOLEAN
  PROVE  /\ AddSimpleTextAndTextEscapeCharacters(t, first) # <<>>
         /\ LET e == AddSimpleTextAndTextEscapeCharacters(t, first) IN e[Len(e)] = t[Len(t)]
         /\ AddMandatoryEscapeCharacters(t, first) # <<>>
         /\ LET e == AddMandatoryEscapeCharacters(t, first) IN e[Len(e)] = t[Len(t)]
<1> DEFINE w == SubSeq(t, 1, Len(t) - 1)
           c == t[Len(t)]
<1>1. w \in Text /\ c \in Character /\ t = w \o <<c>>
  BY LastFacts
<1> HIDE DEF w, c
<1> DEFINE x == AddSimpleTextAndTextEscapeCharacters(w, first)
           y == AddMandatoryEscapeCharacters(w, first)
           b == Block(c, first)
           d == MandatoryBlock(c, first)
           e == AddSimpleTextAndTextEscapeCharacters(t, first)
           f == AddMandatoryEscapeCharacters(t, first)
<1>2. x \in Text /\ y \in Text /\ b \in Text /\ d \in Text /\ e = x \o b /\ f = y \o d
  BY <1>1, EncodedMore, MandatoryMore, MandatoryIsText, BlocksAreTexts
<1>3. b # <<>> /\ b[Len(b)] = c /\ d # <<>> /\ d[Len(d)] = c
  BY <1>1, LastOfBlock
<1> HIDE DEF x, y, b, d, e, f
<1>4. e # <<>> /\ e[Len(e)] = c
  BY <1>2, <1>3, LastOfJoin
<1>5. f # <<>> /\ f[Len(f)] = c
  BY <1>2, <1>3, LastOfJoin
<1> QED BY <1>4, <1>5 DEF c, e, f

(* Only a text with an escaped line ending has one when it is encoded.     *)
LEMMA EncodedHasPair ==
  ASSUME NEW t \in Text, NEW first \in BOOLEAN
  PROVE  /\ HasPair(AddSimpleTextAndTextEscapeCharacters(t, first), Escape, LineEnding) => HasPair(t, Escape, LineEnding)
         /\ Free(t, LineEnding) => Free(AddSimpleTextAndTextEscapeCharacters(t, first), LineEnding)
<1> DEFINE E(u) == AddSimpleTextAndTextEscapeCharacters(u, first)
           Pair(u) == HasPair(u, Escape, LineEnding)
           S == {u \in Text : (Pair(E(u)) => Pair(u)) /\ (Free(u, LineEnding) => Free(E(u), LineEnding))}
<1>1. <<>> \in S
  BY EncodedNothing, SomeCharacters, OneIsText
<1>2. ASSUME NEW w \in Text, NEW c \in Character, w \in S PROVE w \o <<c>> \in S
  <2> DEFINE d == <<c>>
             a == E(w)
             b == Block(c, first)
  <2>1. a \in Text /\ b \in Text /\ d \in Text /\ w \o d \in Text /\ E(w \o d) = a \o b
    BY EncodedMore, BlocksAreTexts, OneIsText, JoinFacts
  <2>2. (Pair(a) => Pair(w)) /\ (Free(w, LineEnding) => Free(a, LineEnding))
    BY <1>2
  <2>3. ~Pair(b) /\ (b # <<>> /\ b[1] = LineEnding => c = LineEnding)
        /\ (Free(d, LineEnding) => Free(b, LineEnding)) /\ d[1] = c /\ d # <<>>
    <3>1. CASE b = <<Escape, c>> /\ c # LineEnding
      <4>1. Len(b) = 2 /\ b[1] = Escape /\ b[2] = c /\ 1..(2 - 1) = {1} /\ 1 + 1 = 2
        BY <3>1
      <4>2. ~Pair(b)
        BY <3>1, <4>1 DEF HasPair
      <4>3. Free(b, LineEnding)
        BY <3>1, FreeBlocks, CharactersDiffer
      <4> QED BY <4>1, <4>2, <4>3, CharactersDiffer
    <3>2. CASE b = <<c>>
      <4>1. Len(b) = 1 /\ b[1] = c /\ 1..(1 - 1) = {}
        BY <3>2
      <4>2. ~Pair(b)
        BY <4>1 DEF HasPair
      <4> QED BY <3>2, <4>1, <4>2
    <3> QED BY <3>1, <3>2, CharactersDiffer DEF Block, MandatoryBlock
  <2>4. w # <<>> => a # <<>> /\ a[Len(a)] = w[Len(w)]
    BY LastOfEncoded
  <2>5. w = <<>> => a = <<>>
    BY EncodedNothing
  <2> HIDE DEF a, b, d
  <2>6. Pair(a \o b) => Pair(w \o d)
    <3>1. ASSUME Pair(a \o b) PROVE Pair(a) \/ (a # <<>> /\ b # <<>> /\ a[Len(a)] = Escape /\ b[1] = LineEnding)
      BY <2>1, <2>3, <3>1, HasPairJoin
    <3>2. Pair(a) => Pair(w \o d)
      BY <2>1, <2>2, HasPairJoin
    <3>3. a # <<>> /\ b # <<>> /\ a[Len(a)] = Escape /\ b[1] = LineEnding => Pair(w \o d)
      BY <2>1, <2>3, <2>4, <2>5, HasPairJoin
    <3> QED BY <3>1, <3>2, <3>3
  <2>7. Free(w \o d, LineEnding) => Free(a \o b, LineEnding)
    BY <2>1, <2>2, <2>3, FreeJoin
  <2> HIDE DEF E, Pair
  <2> QED BY <2>1, <2>6, <2>7 DEF d
<1> HIDE DEF S
<1>3. Text \subseteq S
  BY <1>1, <1>2, TextInduction
<1> QED BY <1>3 DEF S

-----------------------------------------------------------------------------
(* The decoder makes a text of every text, and of what SGFC reads of an    *)
(* encoded one what was encoded.                                           *)

LEMMA AllKept == ASSUME NEW t \in Text PROVE Flat(KeptCharacters(t, {}), Len(t)) = t
<1>1. PICK ch : ch \notin Character
  BY NoSetContainsEverything
<1>2. <<>> \in Text /\ \A i \in 1..Len(t) : t[i] # ch
  BY <1>1, TextFacts
<1> DEFINE e == <<>>
           s == [i \in 1..Len(t) |-> Replaced(t[i], ch, e)]
<1>3. e \in Text
  BY <1>2
<1> HIDE DEF e
<1>4. Replace(t, ch, e) = t
  BY <1>2, <1>3, ReplaceNone
<1>5. /\ Replace(t, ch, e) = Flat(s, Len(t)) /\ Len(t) \in Nat
      /\ \A i \in 1..Len(t) : s[i] = Replaced(t[i], ch, e)
  BY <1>3, ReplaceIs
<1> HIDE DEF s
<1>6. \A i \in 1..Len(t) : s[i] = KeptCharacters(t, {})[i]
  BY <1>2, <1>5 DEF KeptCharacters, KeptCharacter, Replaced
<1>7. Flat(s, Len(t)) = Flat(KeptCharacters(t, {}), Len(t))
  BY ONLY <1>5, <1>6, SameFlat
<1> QED BY <1>4, <1>5, <1>7

LEMMA TextLineBreaks ==
  ASSUME NEW t \in Text
  PROVE  /\ RemoveTextLineBreaks(t) \in Text
         /\ ~HasPair(t, Escape, LineEnding) => RemoveTextLineBreaks(t) = t
<1> DEFINE isEscape(i) == t[i] = Escape /\ i < Len(t) /\ t[i + 1] = LineEnding
           isEscaped(i) == i > 1 /\ isEscape(i - 1)
           R == {i \in 1..Len(t) : isEscape(i) \/ isEscaped(i)}
<1>1. Len(t) \in Nat /\ DOMAIN t = 1..Len(t)
  BY TextFacts
<1>2. RemoveTextLineBreaks(t) =
        FlattenSeq([i \in 1..Len(t) |-> IF isEscape(i) \/ isEscaped(i) THEN <<>> ELSE <<t[i]>>])
  BY <1>1 DEF RemoveTextLineBreaks
<1>3. [i \in 1..Len(t) |-> IF isEscape(i) \/ isEscaped(i) THEN <<>> ELSE <<t[i]>>]
        = [i \in 1..Len(t) |-> KeptCharacters(t, R)[i]]
  <2>1. ASSUME NEW i \in 1..Len(t)
        PROVE  (IF isEscape(i) \/ isEscaped(i) THEN <<>> ELSE <<t[i]>>) = KeptCharacters(t, R)[i]
    <3>1. i \in R <=> isEscape(i) \/ isEscaped(i)
      OBVIOUS
    <3> HIDE DEF R, isEscape, isEscaped
    <3>2. KeptCharacters(t, R)[i] = (IF i \in R THEN <<>> ELSE <<t[i]>>)
      BY KeptCharactersAreTexts DEF KeptCharacter
    <3> QED BY ONLY <3>1, <3>2
  <2> HIDE DEF R, isEscape, isEscaped
  <2> QED BY ONLY <2>1
<1>4. RemoveTextLineBreaks(t) = Flat(KeptCharacters(t, R), Len(t))
  BY ONLY <1>2, <1>3 DEF Flat
<1>5. ASSUME ~HasPair(t, Escape, LineEnding) PROVE R = {}
  <2>1. ASSUME NEW i \in 1..Len(t) PROVE ~isEscape(i)
    <3>1. ASSUME isEscape(i) PROVE FALSE
      <4>1. i \in 1..(Len(t) - 1)
        BY <1>1, <3>1
      <4> QED BY <1>5, <3>1, <4>1 DEF HasPair
    <3> QED BY <3>1
  <2>2. ASSUME NEW i \in 1..Len(t) PROVE ~isEscaped(i)
    <3>1. i > 1 => i - 1 \in 1..Len(t)
      BY <1>1
    <3> HIDE DEF isEscape
    <3> QED BY <2>1, <3>1
  <2> HIDE DEF isEscape, isEscaped
  <2> QED BY <2>1, <2>2
<1> HIDE DEF R
<1> QED BY <1>4, <1>5, AllKept, KeptCharactersAreTexts

LEMMA SimpleTextLineBreaks ==
  ASSUME NEW t \in Text
  PROVE  /\ RemoveSimpleTextLineBreaks(t) \in Text
         /\ Free(t, LineEnding) => RemoveSimpleTextLineBreaks(t) = t
<1> DEFINE s == <<Space>>
           r == RemoveTextLineBreaks(t)
<1>1. s \in Text /\ r \in Text /\ RemoveSimpleTextLineBreaks(t) = Replace(r, LineEnding, s)
  BY TextLineBreaks, SomeCharacters, OneIsText DEF RemoveSimpleTextLineBreaks
<1>2. ASSUME Free(t, LineEnding) PROVE r = t
  <2>1. ~HasPair(t, Escape, LineEnding)
    <3>1. ASSUME NEW i \in 1..(Len(t) - 1) PROVE t[i + 1] # LineEnding
      <4>1. i + 1 \in 1..Len(t)
        BY TextFacts
      <4> QED BY <1>2, <4>1 DEF Free
    <3> QED BY <3>1 DEF HasPair
  <2> QED BY <2>1, TextLineBreaks
<1> HIDE DEF r, s
<1>3. Replace(r, LineEnding, s) \in Text
  BY <1>1, ReplaceIsText
<1>4. ASSUME Free(t, LineEnding) PROVE Replace(r, LineEnding, s) = t
  <2>1. \A i \in 1..Len(t) : t[i] # LineEnding
    BY <1>4 DEF Free
  <2>2. Replace(t, LineEnding, s) = t
    BY <1>1, <2>1, ReplaceNone
  <2> QED BY <1>2, <1>4, <2>2
<1> QED BY <1>1, <1>3, <1>4

LEMMA ReplacePairIsText == \A t \in Text : \A ch : ReplacePair(t, ch) \in Text
<1> TAKE t \in Text
<1> TAKE ch
<1> QED BY ReplacePairIs

LEMMA DecodedIsText ==
  ASSUME NEW t \in Text, NEW type, NEW first \in BOOLEAN, NEW composed \in BOOLEAN
  PROVE  DecodeSingleValue(t, type, first, composed) \in Text
<1>1. ASSUME NEW u \in Text PROVE ProcessEscapes(u, type, first, composed) \in Text
  <2>1. RemoveMandatoryEscapeCharacters(u) \in Text
    BY ReplacePairIsText DEF RemoveMandatoryEscapeCharacters
  <2>2. RemoveSimpleTextAndTextEscapeCharacters(u, composed) \in Text
    BY <2>1, ReplacePairIsText DEF RemoveSimpleTextAndTextEscapeCharacters
  <2>3. RemoveMoveAndPointAndStoneEscapeCharactersForNonGoGameTypes(u, first) \in Text
    BY <2>1, ReplacePairIsText DEF RemoveMoveAndPointAndStoneEscapeCharactersForNonGoGameTypes
  <2> QED BY <2>1, <2>2, <2>3 DEF ProcessEscapes
<1> DEFINE u == CASE type = "Text" -> RemoveTextLineBreaks(t)
                  [] type = "SimpleText" -> RemoveSimpleTextLineBreaks(t)
                  [] OTHER -> t
<1>2. u \in Text
  BY TextLineBreaks, SimpleTextLineBreaks
<1>3. DecodeSingleValue(t, type, first, composed) =
        IF escapeProcessingEnabled THEN ProcessEscapes(u, type, first, composed) ELSE u
  BY DEF DecodeSingleValue
<1> HIDE DEF u
<1> QED BY <1>1, <1>2, <1>3

-----------------------------------------------------------------------------
(* A text that means nothing to SGF.                                       *)
Plain(t) == Free(t, Escape) /\ Free(t, ValueEnd) /\ Free(t, Separator) /\ Free(t, LineEnding)

LEMMA EncodedWithoutEscapes ==
  ASSUME NEW t \in Text, Free(t, Escape), NEW first \in BOOLEAN
  PROVE  AddSimpleTextAndTextEscapeCharacters(t, first) = AddMandatoryEscapeCharacters(t, first)
<1> DEFINE r == <<Escape, Escape>>
<1>1. r \in Text
  BY EscapesAreTexts, SomeCharacters
<1>2. \A i \in 1..Len(t) : t[i] # Escape
  BY DEF Free
<1> HIDE DEF r
<1>3. Replace(t, Escape, r) = t
  BY <1>1, <1>2, ReplaceNone
<1> QED BY <1>3 DEF AddSimpleTextAndTextEscapeCharacters, r

LEMMA EncodedPlain ==
  ASSUME NEW t \in Text, Plain(t), NEW first \in BOOLEAN
  PROVE  AddSimpleTextAndTextEscapeCharacters(t, first) = t
<1> DEFINE r == <<Escape, ValueEnd>>
           s == <<Escape, Separator>>
<1>1. r \in Text /\ s \in Text
  BY EscapesAreTexts, SomeCharacters
<1>2. AddMandatoryEscapeCharacters(t, first) =
        LET result == Replace(t, ValueEnd, r)
        IN  IF first THEN Replace(result, Separator, s) ELSE result
  BY DEF AddMandatoryEscapeCharacters
<1>3. \A i \in 1..Len(t) : t[i] # ValueEnd /\ t[i] # Separator
  BY DEF Plain, Free
<1> HIDE DEF r, s
<1>4. Replace(t, ValueEnd, r) = t
  BY <1>1, <1>3, ReplaceNone
<1>5. Replace(t, Separator, s) = t
  BY <1>1, <1>3, ReplaceNone
<1>6. AddSimpleTextAndTextEscapeCharacters(t, first) = AddMandatoryEscapeCharacters(t, first)
  BY EncodedWithoutEscapes DEF Plain
<1> QED BY <1>2, <1>4, <1>5, <1>6

LEMMA ReadAsIsFree == ASSUME NEW t \in Text PROVE Free(ReadAs(t, "SimpleText"), LineEnding)
<1> DEFINE R(u) == ReadAs(u, "SimpleText")
           S == {u \in Text : Free(R(u), LineEnding)}
<1>1. <<>> \in S
  BY ReadAsNothing, FreeBlocks, SomeCharacters, OneIsText
<1>2. ASSUME NEW w \in Text, NEW c \in Character, w \in S PROVE w \o <<c>> \in S
  <2> DEFINE d == <<As(c, "SimpleText")>>
             r == R(w)
  <2>1. r \in Text /\ R(w \o <<c>>) = r \o d /\ d \in Text /\ w \o <<c>> \in Text /\ Free(r, LineEnding)
    <3>1. r \in Text /\ R(w \o <<c>>) = r \o d
      BY ReadAsMore
    <3>2. d \in Text
      BY AsIsCharacter, OneIsText
    <3>3. w \o <<c>> \in Text
      BY OneIsText, JoinFacts
    <3> QED BY <1>2, <3>1, <3>2, <3>3
  <2>2. Free(d, LineEnding)
    BY FreeBlocks, CharactersDiffer DEF As
  <2> HIDE DEF d, r
  <2>3. Free(r \o d, LineEnding)
    BY <2>1, <2>2, FreeJoin
  <2> HIDE DEF R
  <2> QED BY <2>1, <2>3
<1> HIDE DEF S
<1>3. Text \subseteq S
  BY <1>1, <1>2, TextInduction
<1> QED BY <1>3 DEF S

(* The decoder's part for the texts of an encoded value, if its escapes    *)
(* are still there.                                                        *)
LEMMA EscapesOfTexts ==
  ASSUME NEW r \in Text, NEW first \in BOOLEAN, NEW composed \in BOOLEAN, first => composed
  PROVE  RemoveSimpleTextAndTextEscapeCharacters(AddSimpleTextAndTextEscapeCharacters(r, first), composed) = r
<1> DEFINE d == EscapesDoubled(r)
           e == AddSimpleTextAndTextEscapeCharacters(r, first)
           m == RemoveMandatoryEscapeCharacters(e)
<1>1. d \in Text /\ ReplacePair(d, Escape) = r /\ ReplacePair(ReplacePair(d, Separator), Escape) = r
  BY DoubledIs, SeparatorsRemoved
<1>2. e = AddMandatoryEscapeCharacters(d, first)
  BY DEF AddSimpleTextAndTextEscapeCharacters, EscapesDoubled
<1>3. RemoveSimpleTextAndTextEscapeCharacters(e, composed) =
        ReplacePair(IF composed THEN ReplacePair(m, Separator) ELSE m, Escape)
  BY DEF RemoveSimpleTextAndTextEscapeCharacters
<1> HIDE DEF d
<1>4. first => ReplacePair(m, Separator) = d
  BY <1>1, <1>2, MandatoryRemoved
<1>5. ~first => m = d
  BY <1>1, <1>2, MandatoryRemoved
<1> HIDE DEF m, e
<1>6. RemoveSimpleTextAndTextEscapeCharacters(e, composed) = r
  <2>1. CASE first
    BY <1>1, <1>3, <1>4, <2>1
  <2>2. CASE ~first /\ composed
    BY <1>1, <1>3, <1>5, <2>2
  <2>3. CASE ~first /\ ~composed
    BY <1>1, <1>3, <1>5, <2>3
  <2> QED BY <2>1, <2>2, <2>3
<1> QED BY <1>6 DEF e

LEMMA TypesDiffer ==
  /\ TextTypes = {"Text", "SimpleText"} /\ RawTypes = {"Point", "Move", "Stone"}
  /\ UnknownType = "Unknown"
  /\ \A type \in TextTypes : ~IsRaw(type) /\ type \notin RawTypes /\ type # UnknownType
  /\ \A type : IsRaw(type) => type \notin TextTypes /\ type # "SimpleText" /\ type # "Text"
BY DEF TextTypes, RawTypes, UnknownType, IsRaw

LEMMA TextsAreDecoded ==
  ASSUME NEW t \in Text, NEW type \in TextTypes, NEW first \in BOOLEAN, NEW composed \in BOOLEAN, first => composed,
         type = "Text" => ~HasPair(t, Escape, LineEnding)
  PROVE  DecodeSingleValue(ReadText(AddSimpleTextAndTextEscapeCharacters(t, first), type), type, first, composed)
           = ReadAs(t, type)
<1> DEFINE r == ReadAs(t, type)
           e == AddSimpleTextAndTextEscapeCharacters(r, first)
           x == ReadText(AddSimpleTextAndTextEscapeCharacters(t, first), type)
           Lines(u) == CASE type = "Text" -> RemoveTextLineBreaks(u)
                         [] type = "SimpleText" -> RemoveSimpleTextLineBreaks(u)
                         [] OTHER -> u
<1>1. r \in Text /\ e \in Text /\ x = IF escapeProcessingEnabled THEN e ELSE r
  BY ReadAsIsText, ReadEncoded, EncodedIsText
<1>2. \A u : DecodeSingleValue(u, type, first, composed) =
        IF escapeProcessingEnabled THEN RemoveSimpleTextAndTextEscapeCharacters(Lines(u), composed) ELSE Lines(u)
  <2>1. \A u : DecodeSingleValue(u, type, first, composed) =
          IF escapeProcessingEnabled THEN ProcessEscapes(Lines(u), type, first, composed) ELSE Lines(u)
    BY DEF DecodeSingleValue
  <2> HIDE DEF Lines
  <2>2. \A u : ProcessEscapes(u, type, first, composed) = RemoveSimpleTextAndTextEscapeCharacters(u, composed)
    <3> TAKE u
    <3> DEFINE y == RemoveSimpleTextAndTextEscapeCharacters(u, composed)
    <3>1. ProcessEscapes(u, type, first, composed) =
            CASE type \in TextTypes -> y
              [] type \in RawTypes /\ gameType # "Go" -> RemoveMoveAndPointAndStoneEscapeCharactersForNonGoGameTypes(u, first)
              [] type = UnknownType -> RemoveMandatoryEscapeCharacters(u)
              [] OTHER -> u
      BY DEF ProcessEscapes
    <3>2. type \in TextTypes /\ type \notin RawTypes /\ type # UnknownType
      BY TypesDiffer
    <3> HIDE DEF y
    <3>3. ProcessEscapes(u, type, first, composed) = y
      BY ONLY <3>1, <3>2
    <3> QED BY <3>3 DEF y
  <2> QED BY <2>1, <2>2
<1>3. RemoveSimpleTextAndTextEscapeCharacters(e, composed) = r
  BY <1>1, EscapesOfTexts
<1>4. Lines(r) = r /\ Lines(e) = e
  <2>1. CASE type = "Text"
    <3>1. r = t
      BY <2>1 DEF ReadAs
    <3>2. ~HasPair(r, Escape, LineEnding) /\ ~HasPair(e, Escape, LineEnding)
      BY <2>1, <3>1, EncodedHasPair
    <3> HIDE DEF r, e
    <3> QED BY <1>1, <2>1, <3>2, TextLineBreaks
  <2>2. CASE type = "SimpleText"
    <3>1. Free(r, LineEnding)
      BY <2>2, ReadAsIsFree
    <3>2. Free(e, LineEnding)
      BY <1>1, <3>1, EncodedHasPair
    <3> HIDE DEF r, e
    <3> QED BY <1>1, <2>2, <3>1, <3>2, SimpleTextLineBreaks
  <2> QED BY <2>1, <2>2 DEF TextTypes
<1> HIDE DEF r, e, x, Lines
<1> QED BY <1>1, <1>2, <1>3, <1>4 DEF x, r

LEMMA OthersAreDecoded ==
  ASSUME NEW t \in Text, NEW type, type \notin TextTypes, NEW first \in BOOLEAN, NEW composed \in BOOLEAN
  PROVE  /\ ReadAs(t, type) = t
         /\ Plain(t) /\ ~IsRaw(type) =>
              DecodeSingleValue(ReadText(t, type), type, first, composed) = t
         /\ Free(t, Escape) /\ IsRaw(type) /\ (type = UnknownType => ~first) =>
              DecodeSingleValue(ReadText(AddMandatoryEscapeCharacters(t, first), type), type, first, composed) = t
<1>1. ReadAs(t, type) = t /\ type # "Text" /\ type # "SimpleText"
  BY DEF ReadAs, TextTypes
<1>2. \A u : DecodeSingleValue(u, type, first, composed) =
        IF escapeProcessingEnabled THEN ProcessEscapes(u, type, first, composed) ELSE u
  BY <1>1 DEF DecodeSingleValue
<1>3. ASSUME Plain(t), ~IsRaw(type)
      PROVE  DecodeSingleValue(ReadText(t, type), type, first, composed) = t
  <2>1. ReadText(t, type) = t
    <3>1. AddSimpleTextAndTextEscapeCharacters(t, first) = t
      BY <1>3, EncodedPlain
    <3> QED BY <1>1, <3>1, ReadEncoded
  <2>2. ProcessEscapes(t, type, first, composed) = t
    BY <1>3 DEF ProcessEscapes, IsRaw
  <2> QED BY <1>2, <2>1, <2>2
<1>4. ASSUME Free(t, Escape), IsRaw(type), type = UnknownType => ~first
      PROVE  DecodeSingleValue(ReadText(AddMandatoryEscapeCharacters(t, first), type), type, first, composed) = t
  <2> DEFINE e == AddMandatoryEscapeCharacters(t, first)
             m == RemoveMandatoryEscapeCharacters(e)
  <2>1. ReadText(e, type) = IF escapeProcessingEnabled THEN e ELSE t
    <3>1. AddSimpleTextAndTextEscapeCharacters(t, first) = e
      BY <1>4, EncodedWithoutEscapes
    <3> HIDE DEF e
    <3> QED BY <1>1, <3>1, ReadEncoded
  <2>2. (first => ReplacePair(m, Separator) = t) /\ (~first => m = t)
    BY MandatoryRemoved
  <2>3. ProcessEscapes(e, type, first, composed) = IF first THEN ReplacePair(m, Separator) ELSE m
    <3>1. CASE type \in RawTypes /\ gameType # "Go"
      <4>1. ProcessEscapes(e, type, first, composed) = RemoveMoveAndPointAndStoneEscapeCharactersForNonGoGameTypes(e, first)
        BY <3>1, TypesDiffer DEF ProcessEscapes
      <4> QED BY <4>1 DEF RemoveMoveAndPointAndStoneEscapeCharactersForNonGoGameTypes
    <3>2. CASE type = UnknownType
      <4>1. ProcessEscapes(e, type, first, composed) = m
        BY <3>2, TypesDiffer DEF ProcessEscapes
      <4> QED BY <1>4, <3>2, <4>1
    <3> QED BY <1>4, <3>1, <3>2 DEF IsRaw
  <2> HIDE DEF e, m
  <2>4. ProcessEscapes(e, type, first, composed) = t
    BY <2>2, <2>3
  <2> QED BY <1>2, <2>1, <2>4 DEF e
<1> QED BY <1>1, <1>3, <1>4

LEMMA NumberInduction ==
  ASSUME NEW S, 0 \in S, \A n \in Nat : n \in S => n + 1 \in S
  PROVE  Nat \subseteq S
<1> DEFINE Bad == {n \in Nat : n \notin S}
<1> SUFFICES ASSUME Bad # {} PROVE FALSE
  OBVIOUS
<1>1. Bad \subseteq Nat
  OBVIOUS
<1> HIDE DEF Bad
<1>2. PICK k \in Bad : \A j \in Bad : k <= j
  BY <1>1, LeastNumber
<1>3. k \in Nat \ {0} /\ k - 1 \in Nat /\ ~(k <= k - 1) /\ (k - 1) + 1 = k
  BY <1>1, <1>2 DEF Bad
<1>4. k - 1 \in S
  BY <1>2, <1>3 DEF Bad
<1>5. k \in S
  BY <1>3, <1>4
<1> QED BY <1>2, <1>5 DEF Bad

-----------------------------------------------------------------------------
(* Where the values of a text end.                                         *)

Ends(t) == [i \in 1..Len(t) |-> IF i \in Unescaped(t, ValueEnd) THEN <<i>> ELSE <<>>]

LEMMA ValueEndsAre ==
  ASSUME NEW t \in Text
  PROVE  /\ ValueEnds(t) = Flat(Ends(t), Len(t)) /\ ValueEnds(t) \in Text
         /\ \A i \in 1..Len(t) : Ends(t)[i] = IF i \in Unescaped(t, ValueEnd) THEN <<i>> ELSE <<>>
         /\ \A i \in 1..Len(t) : Ends(t)[i] \in Text
<1>1. Len(t) \in Nat /\ DOMAIN t = 1..Len(t)
  BY TextFacts
<1>2. \A i \in 1..Len(t) : Ends(t)[i] = IF i \in Unescaped(t, ValueEnd) THEN <<i>> ELSE <<>>
  BY DEF Ends
<1>3. \A i \in 1..Len(t) : Ends(t)[i] \in Text
  <2>1. \A i \in 1..Len(t) : i \in Character
    BY <1>1, CharactersAre
  <2> QED BY <1>2, <2>1, OneIsText
<1>4. ValueEnds(t) = FlattenSeq([i \in 1..Len(t) |-> IF i \in Unescaped(t, ValueEnd) THEN <<i>> ELSE <<>>])
  BY <1>1 DEF ValueEnds
<1>5. [i \in 1..Len(t) |-> IF i \in Unescaped(t, ValueEnd) THEN <<i>> ELSE <<>>] = [i \in 1..Len(t) |-> Ends(t)[i]]
  BY <1>2
<1>6. ValueEnds(t) = Flat(Ends(t), Len(t))
  BY <1>4, <1>5 DEF Flat
<1>7. Flat(Ends(t), Len(t)) \in Text
  BY <1>1, <1>3, FlatIsText
<1> QED BY <1>2, <1>3, <1>6, <1>7

LEMMA FlatOfNothing ==
  ASSUME NEW n \in Nat, NEW s, \A i \in 1..n : s[i] = <<>>
  PROVE  Flat(s, n) = <<>>
<1> DEFINE S == {k \in Nat : k <= n => Flat(s, k) = <<>>}
<1>1. 0 \in S
  BY NothingFlat
<1>2. ASSUME NEW k \in Nat, k \in S PROVE k + 1 \in S
  <2>1. ASSUME k + 1 <= n PROVE Flat(s, k + 1) = <<>>
    <3>1. k + 1 \in 1..n /\ k <= n
      BY <2>1
    <3>2. s[k + 1] = <<>> /\ s[k + 1] \in Text /\ Flat(s, k) = <<>>
      BY <1>2, <3>1, OneIsText, SomeCharacters
    <3>3. Flat(s, k + 1) = Flat(s, k) \o s[k + 1]
      BY <3>2, FlatMore
    <3>4. <<>> \o <<>> = <<>>
      OBVIOUS
    <3> QED BY <3>2, <3>3, <3>4
  <2> QED BY <2>1
<1> HIDE DEF S
<1>3. Nat \subseteq S
  BY <1>1, <1>2, NumberInduction
<1> QED BY <1>3 DEF S

(* One value more ends where it ends.                                      *)
LEMMA EndsJoin ==
  ASSUME NEW a \in Text, NEW b \in Text, ~IsOpen(a), b # <<>>, Unescaped(b, ValueEnd) = {Len(b)}
  PROVE  ValueEnds(a \o b) = ValueEnds(a) \o <<Len(a) + Len(b)>>
<1> DEFINE ab == a \o b
           m == Len(b)
           q == [i \in 1..m |-> IF i = m THEN <<Len(a) + m>> ELSE <<>>]
           s == Ends(ab)
           p == Ends(a)
<1>1. Len(a) \in Nat /\ m \in Nat /\ m # 0
  BY TextFacts
<1>2. /\ ab \in Text /\ Len(ab) = Len(a) + m
      /\ \A i \in 1..Len(a) : ab[i] = a[i]
      /\ \A i \in 1..m : ab[Len(a) + i] = b[i]
  BY JoinFacts
<1>3. /\ \A i \in 1..Len(a) : i \in EscapedIn(ab) <=> i \in EscapedIn(a)
      /\ \A i \in 1..m : Len(a) + i \in EscapedIn(ab) <=> i \in EscapedIn(b)
  BY EscapedInJoin
<1> HIDE DEF ab
<1>4. Unescaped(ab, ValueEnd) = {i \in 1..Len(ab) : ab[i] = ValueEnd /\ i \notin EscapedIn(ab)}
  BY <1>2, UnescapedIs
<1>5. Unescaped(a, ValueEnd) = {i \in 1..Len(a) : a[i] = ValueEnd /\ i \notin EscapedIn(a)}
  BY UnescapedIs
<1>6. {m} = {i \in 1..m : b[i] = ValueEnd /\ i \notin EscapedIn(b)}
  BY UnescapedIs
<1> HIDE DEF m
<1>7. \A i \in 1..Len(a) : i \in Unescaped(ab, ValueEnd) <=> i \in Unescaped(a, ValueEnd)
  <2>1. \A i \in 1..Len(a) : i \in 1..Len(ab)
    BY <1>1, <1>2
  <2> QED BY ONLY <1>2, <1>3, <1>4, <1>5, <2>1
<1>8. \A i \in 1..m : Len(a) + i \in Unescaped(ab, ValueEnd) <=> i = m
  <2>1. \A i \in 1..m : Len(a) + i \in 1..Len(ab)
    BY <1>1, <1>2
  <2> QED BY ONLY <1>2, <1>3, <1>4, <1>6, <2>1
<1>9. \A i \in 1..Len(ab) : s[i] = IF i \in Unescaped(ab, ValueEnd) THEN <<i>> ELSE <<>>
  BY <1>2, ValueEndsAre
<1>10. \A i \in 1..Len(a) : p[i] = (IF i \in Unescaped(a, ValueEnd) THEN <<i>> ELSE <<>>) /\ p[i] \in Text
  BY ValueEndsAre
<1>11. Len(a) + m \in Character /\ <<Len(a) + m>> \in Text /\ <<>> \in Text
  BY <1>1, CharactersAre, OneIsText
<1>12. \A i \in 1..m : q[i] = (IF i = m THEN <<Len(a) + m>> ELSE <<>>) /\ q[i] \in Text
  BY <1>11
<1> HIDE DEF s, p, q
<1>13. BeginsWith(s, p, Len(a))
  <2>1. \A i \in 1..Len(a) : i \in 1..Len(ab)
    BY <1>1, <1>2
  <2> QED BY ONLY <1>7, <1>9, <1>10, <2>1 DEF BeginsWith
<1>14. ContinuesWith(s, Len(a), q, m)
  <2>1. ASSUME NEW i \in 1..m PROVE s[Len(a) + i] = q[i] /\ q[i] \in Text
    <3> DEFINE k == Len(a) + i
    <3>1. k \in 1..Len(ab) /\ (k \in Unescaped(ab, ValueEnd) <=> i = m)
      BY <1>1, <1>2, <1>8
    <3>2. s[k] = IF k \in Unescaped(ab, ValueEnd) THEN <<k>> ELSE <<>>
      BY <1>9, <3>1
    <3> QED BY <1>12, <3>1, <3>2
  <2> QED BY <2>1 DEF ContinuesWith
<1>15. Flat(s, Len(ab)) = Flat(p, Len(a)) \o Flat(q, m)
  BY ONLY <1>1, <1>2, <1>13, <1>14, FlatJoin
<1>16. Flat(q, m) = <<Len(a) + m>>
  <2>1. m - 1 \in Nat /\ (m - 1) + 1 = m /\ m \in 1..m /\ \A i \in 1..(m - 1) : i \in 1..m /\ i # m
    BY <1>1
  <2>2. \A i \in 1..(m - 1) : q[i] = <<>>
    BY <1>12, <2>1
  <2>3. Flat(q, m - 1) = <<>>
    BY <2>1, <2>2, FlatOfNothing
  <2>4. q[m] = <<Len(a) + m>>
    BY <1>12, <2>1
  <2> DEFINE l == m - 1
  <2>5. l \in Nat /\ l + 1 = m /\ q[l + 1] \in Text
    BY <1>11, <2>1, <2>4
  <2> HIDE DEF l
  <2>6. Flat(q, l + 1) = Flat(q, l) \o q[l + 1]
    BY ONLY <2>5, FlatMore
  <2>7. Flat(q, m) = <<>> \o <<Len(a) + m>>
    BY <2>3, <2>4, <2>5, <2>6 DEF l
  <2>8. \A u \in Text : <<>> \o u = u
    BY TextFacts
  <2> QED BY <1>11, <2>7, <2>8
<1>17. ValueEnds(ab) = Flat(s, Len(ab)) /\ ValueEnds(a) = Flat(p, Len(a))
  BY <1>2, ValueEndsAre DEF s, p
<1> QED BY ONLY <1>15, <1>16, <1>17 DEF ab, m

-----------------------------------------------------------------------------
(* The values that SGFC makes of a text.                                   *)

Wrapped(b) == <<ValueBegin>> \o b \o <<ValueEnd>>

LEMMA WrappedIs ==
  ASSUME NEW b \in Text, ~IsOpen(b), Guarded(b, ValueEnd)
  PROVE  LET w == Wrapped(b)
         IN  /\ w \in Text /\ w # <<>> /\ Len(w) = Len(b) + 2 /\ Len(b) \in Nat
             /\ w[1] = ValueBegin /\ \A i \in 1..Len(b) : w[i + 1] = b[i]
             /\ ~IsOpen(w) /\ Unescaped(w, ValueEnd) = {Len(w)}
<1> DEFINE x == <<ValueBegin>>
           y == <<ValueEnd>>
           xb == x \o b
           w == Wrapped(b)
<1>1. x \in Text /\ y \in Text /\ Len(x) = 1 /\ Len(y) = 1 /\ x[1] = ValueBegin /\ y[1] = ValueEnd /\ x # <<>> /\ y # <<>>
  BY SomeCharacters, OneIsText
<1>2. ~IsOpen(x) /\ ~IsOpen(y) /\ EscapedIn(y) = {}
  BY SomeCharacters, OneOpen, CharactersDiffer
<1>3. Guarded(x, ValueEnd)
  BY SomeCharacters, GuardedBlocks, CharactersDiffer
<1>4. w = xb \o y
  BY DEF Wrapped
<1> HIDE DEF x, y, w
<1>5. Len(b) \in Nat
  BY TextFacts
<1>6. /\ xb \in Text /\ Len(xb) = 1 + Len(b) /\ xb # <<>>
      /\ xb[1] = ValueBegin /\ \A i \in 1..Len(b) : xb[i + 1] = b[i]
  <2>1. /\ xb \in Text /\ Len(xb) = Len(x) + Len(b) /\ \A i \in 1..Len(x) : xb[i] = x[i]
        /\ \A i \in 1..Len(b) : xb[Len(x) + i] = b[i]
    BY <1>1, JoinFacts
  <2>2. 1 \in 1..Len(x) /\ \A i \in 1..Len(b) : Len(x) + i = i + 1
    BY <1>1, <1>5
  <2>3. Len(xb) # 0
    BY <1>1, <1>5, <2>1
  <2> HIDE DEF xb
  <2> QED BY <1>1, <2>1, <2>2, <2>3, TextFacts
<1>7. ~IsOpen(xb) /\ Guarded(xb, ValueEnd)
  <2>1. Guarded(xb, ValueEnd)
    BY <1>1, <1>2, <1>3, GuardedJoin
  <2>2. ~IsOpen(xb)
    <3>1. CASE b = <<>>
      <4>1. x \o <<>> = x
        BY <1>1, TextFacts
      <4> QED BY <1>2, <3>1, <4>1
    <3>2. CASE b # <<>>
      BY <1>1, <1>2, <3>2, OpenJoin
    <3> QED BY <3>1, <3>2
  <2> QED BY <2>1, <2>2
<1> HIDE DEF xb
<1>8. /\ w \in Text /\ Len(w) = Len(xb) + 1 /\ w # <<>>
      /\ \A i \in 1..Len(xb) : w[i] = xb[i] /\ w[Len(xb) + 1] = ValueEnd
  <2>1. /\ xb \o y \in Text /\ Len(xb \o y) = Len(xb) + Len(y) /\ \A i \in 1..Len(xb) : (xb \o y)[i] = xb[i]
        /\ \A i \in 1..Len(y) : (xb \o y)[Len(xb) + i] = y[i]
    BY <1>1, <1>6, JoinFacts
  <2>2. 1 \in 1..Len(y)
    BY <1>1
  <2>3. xb \o y # <<>>
    BY <1>1, <1>6, LastOfJoin
  <2> QED BY <1>1, <1>4, <2>1, <2>2, <2>3
<1>9. ~IsOpen(w)
  BY <1>1, <1>2, <1>4, <1>6, <1>7, OpenJoin
<1>10. Unescaped(w, ValueEnd) = {Len(w)}
  <2>1. Unescaped(w, ValueEnd) = {i \in 1..Len(w) : w[i] = ValueEnd /\ i \notin EscapedIn(w)}
    BY <1>8, UnescapedIs
  <2>2. /\ \A i \in 1..Len(xb) : i \in EscapedIn(w) <=> i \in EscapedIn(xb)
        /\ Len(xb) + 1 \notin EscapedIn(w)
    BY <1>1, <1>4, <1>6, <1>7, EscapedInJoin
  <2>3. ASSUME NEW i \in 1..Len(xb) PROVE i \notin Unescaped(w, ValueEnd)
    <3>1. w[i] = xb[i] /\ (xb[i] = ValueEnd => i \in EscapedIn(xb))
      BY <1>7, <1>8 DEF Guarded
    <3> QED BY <2>1, <2>2, <3>1
  <2>4. Len(w) \in 1..Len(w) /\ w[Len(w)] = ValueEnd /\ \A i \in 1..Len(w) : i \in 1..Len(xb) \/ i = Len(w)
    <3>1. 1 \in 1..Len(xb)
      BY <1>5, <1>6
    <3> QED BY <1>5, <1>6, <1>8, <3>1
  <2>5. Len(w) = Len(xb) + 1
    BY <1>8
  <2>6. Len(w) \in Unescaped(w, ValueEnd)
    BY <2>1, <2>2, <2>4, <2>5
  <2>7. Unescaped(w, ValueEnd) \subseteq 1..Len(w)
    BY <2>1
  <2> QED BY <2>3, <2>4, <2>6, <2>7
<1>11. w[1] = ValueBegin /\ \A i \in 1..Len(b) : w[i + 1] = b[i]
  <2>1. 1 \in 1..Len(xb) /\ \A i \in 1..Len(b) : i + 1 \in 1..Len(xb)
    BY <1>5, <1>6
  <2>2. w[1] = ValueBegin
    BY <1>6, <1>8, <2>1
  <2>3. ASSUME NEW i \in 1..Len(b) PROVE w[i + 1] = b[i]
    <3> DEFINE j == i + 1
    <3>1. j \in 1..Len(xb) /\ xb[j] = b[i]
      BY <1>6, <2>1
    <3> HIDE DEF j
    <3>2. w[j] = xb[j]
      BY <1>8, <3>1
    <3> QED BY <3>1, <3>2 DEF j
  <2> QED BY <2>2, <2>3
<1>12. Len(w) = Len(b) + 2
  BY <1>5, <1>6, <1>8
<1> QED BY <1>5, <1>8, <1>9, <1>10, <1>11, <1>12 DEF w

(* Some texts that end their values, one after the other.                  *)
IsValue(w) == w \in Text /\ w # <<>> /\ ~IsOpen(w) /\ Unescaped(w, ValueEnd) = {Len(w)}

ValuesUpTo(s, n) ==
  LET t == Flat(s, n)
  IN  /\ t \in Text /\ ~IsOpen(t)
      /\ Len(ValueEnds(t)) = n
      /\ \A k \in 1..n : ValueEnds(t)[k] = Len(Flat(s, k))
      /\ \A k \in 0..n : Len(Flat(s, k)) \in 0..Len(t) /\ \A i \in 1..Len(Flat(s, k)) : t[i] = Flat(s, k)[i]

LEMMA OneValueMore ==
  ASSUME NEW n \in Nat, NEW s, IsValue(s[n + 1]), ValuesUpTo(s, n)
  PROVE  ValuesUpTo(s, n + 1)
<1> DEFINE t == Flat(s, n)
           w == s[n + 1]
           u == Flat(s, n + 1)
           e == ValueEnds(t)
           l == Len(t) + Len(w)
<1>1. /\ t \in Text /\ ~IsOpen(t) /\ Len(e) = n /\ \A k \in 1..n : e[k] = Len(Flat(s, k))
  BY DEF ValuesUpTo
<1>2. \A k \in 0..n : Len(Flat(s, k)) \in 0..Len(t) /\ \A i \in 1..Len(Flat(s, k)) : t[i] = Flat(s, k)[i]
  BY DEF ValuesUpTo
<1>3. w \in Text /\ w # <<>> /\ ~IsOpen(w) /\ Unescaped(w, ValueEnd) = {Len(w)}
  BY DEF IsValue
<1>4. u = t \o w
  BY <1>3, FlatMore
<1> HIDE DEF t, w, u
<1>5. Len(t) \in Nat /\ Len(w) \in Nat /\ l \in Nat
  BY <1>1, <1>3, TextFacts
<1>6. u \in Text /\ Len(u) = l /\ \A i \in 1..Len(t) : u[i] = t[i]
  BY <1>1, <1>3, <1>4, JoinFacts
<1>7. ~IsOpen(u)
  BY <1>1, <1>3, <1>4, OpenJoin
<1>8. ValueEnds(u) = e \o <<l>>
  BY <1>1, <1>3, <1>4, EndsJoin
<1> DEFINE y == <<l>>
<1>9. e \in Text /\ y \in Text /\ Len(y) = 1 /\ y[1] = l
  <2>1. e \in Text
    BY <1>1, ValueEndsAre
  <2>2. l \in Character
    BY <1>5, CharactersAre
  <2> HIDE DEF l
  <2> QED BY <2>1, <2>2, OneIsText
<1> HIDE DEF e, y, l
<1>10. /\ Len(e \o y) = Len(e) + 1 /\ \A k \in 1..Len(e) : (e \o y)[k] = e[k]
       /\ (e \o y)[Len(e) + 1] = l
  <2>1. 1 \in 1..Len(y)
    BY <1>9
  <2>2. e \in Text /\ y \in Text
    BY <1>9
  <2>3. /\ Len(e \o y) = Len(e) + Len(y) /\ \A k \in 1..Len(e) : (e \o y)[k] = e[k]
        /\ \A k \in 1..Len(y) : (e \o y)[Len(e) + k] = y[k]
    BY ONLY <2>2, JoinFacts
  <2> QED BY ONLY <1>9, <2>1, <2>3
<1>11. /\ Len(ValueEnds(u)) = n + 1 /\ \A k \in 1..n : ValueEnds(u)[k] = Len(Flat(s, k))
       /\ ValueEnds(u)[n + 1] = Len(u)
  BY <1>1, <1>6, <1>8, <1>10 DEF y
<1>12. \A k \in 1..(n + 1) : ValueEnds(u)[k] = Len(Flat(s, k))
  <2>1. \A k \in 1..(n + 1) : k \in 1..n \/ k = n + 1
    OBVIOUS
  <2> QED BY <1>11, <2>1 DEF u
<1>13. ASSUME NEW k \in 0..(n + 1)
       PROVE  Len(Flat(s, k)) \in 0..Len(u) /\ \A i \in 1..Len(Flat(s, k)) : u[i] = Flat(s, k)[i]
  <2>1. CASE k = n + 1
    <3>1. Flat(s, k) = u
      BY <2>1 DEF u
    <3> QED BY <1>5, <1>6, <3>1
  <2>2. CASE k \in 0..n
    <3>1. Len(Flat(s, k)) \in 0..Len(t) /\ \A i \in 1..Len(Flat(s, k)) : t[i] = Flat(s, k)[i]
      BY <1>2, <2>2
    <3>2. Len(Flat(s, k)) \in 0..Len(u) /\ \A i \in 1..Len(Flat(s, k)) : i \in 1..Len(t)
      BY <1>5, <1>6, <3>1 DEF l
    <3> QED BY <1>6, <3>1, <3>2
  <2> QED BY <2>1, <2>2
<1> QED BY <1>6, <1>7, <1>11, <1>12, <1>13 DEF ValuesUpTo, u

LEMMA SeveralValues ==
  ASSUME NEW n \in Nat, NEW s, \A k \in 1..n : IsValue(s[k])
  PROVE  \A k \in 0..n : ValuesUpTo(s, k)
<1> DEFINE S == {k \in Nat : k <= n => ValuesUpTo(s, k)}
<1>1. 0 \in S
  <2> DEFINE t == <<>>
  <2>1. Flat(s, 0) = t /\ t \in Text /\ ~IsOpen(t) /\ Len(t) = 0
    BY NothingFlat, NothingOpen, OneIsText, SomeCharacters
  <2>2. ValueEnds(t) = <<>>
    <3> HIDE DEF t
    <3>1. ValueEnds(t) = Flat(Ends(t), 0)
      BY <2>1, ValueEndsAre
    <3> QED BY <3>1, NothingFlat
  <2>3. Len(ValueEnds(t)) = 0
    BY <2>2
  <2> HIDE DEF t
  <2>4. ValuesUpTo(s, 0)
    BY <2>1, <2>3 DEF ValuesUpTo
  <2> QED BY <2>4
<1>2. ASSUME NEW k \in Nat, k \in S PROVE k + 1 \in S
  <2>1. ASSUME k + 1 <= n PROVE ValuesUpTo(s, k + 1)
    <3>1. k + 1 \in 1..n /\ k <= n
      BY <2>1
    <3> QED BY <1>2, <3>1, OneValueMore
  <2> QED BY <2>1
<1> HIDE DEF S
<1>3. Nat \subseteq S
  BY <1>1, <1>2, NumberInduction
<1>4. ASSUME NEW k \in 0..n PROVE ValuesUpTo(s, k)
  <2>1. k \in Nat /\ k <= n
    OBVIOUS
  <2> QED BY <1>3, <2>1 DEF S
<1> QED BY <1>4

-----------------------------------------------------------------------------
(* What SGFC makes of a part of a text.                                    *)

LEMMA EscapedIsSequence ==
  ASSUME NEW t \in Text
  PROVE  Escaped(t) \in Seq(BOOLEAN) /\ Len(Escaped(t)) = Len(t)
<1> DEFINE e == Escaped(t)
           n == Len(t)
<1>1. n \in Nat /\ DOMAIN t = 1..n
  BY TextFacts
<1>2. \A i \in 1..n : e[i] \in BOOLEAN
  <2>1. \A i \in 1..n : e[i] = (i \in EscapedIn(t))
    BY EscapedIs
  <2>2. \A i : (i \in EscapedIn(t)) \in BOOLEAN
    OBVIOUS
  <2> HIDE DEF e
  <2> QED BY <2>1, <2>2, Zenon
<1>3. e = [i \in 1..n |-> e[i]]
  <2>1. e = [i \in DOMAIN e |-> e[i]]
    BY DEF Escaped
  <2>2. DOMAIN e = 1..n
    BY EscapedIs
  <2> HIDE DEF e
  <2> QED BY <2>1, <2>2
<1> HIDE DEF e, n
<1>4. e \in [1..n -> BOOLEAN]
  BY <1>2, <1>3, Zenon
<1>5. e \in Seq(BOOLEAN)
  BY <1>1, <1>4, SeqDef, Zenon
<1>6. DOMAIN e = 1..n
  BY <1>4, Zenon
<1>7. Len(e) = n
  BY <1>1, <1>5, <1>6
<1> QED BY <1>5, <1>7 DEF e, n

LEMMA PartIs ==
  ASSUME NEW t \in Text, NEW from \in 1..(Len(t) + 1), NEW to \in 0..Len(t), NEW type
  PROVE  LET u == SubSeq(t, from, to)
             p == Unescape(u, SubSeq(Escaped(t), from, to), type)
         IN  u \in Text /\ p \in Text /\ (from \notin EscapedIn(t) => p = ReadText(u, type))
<1> DEFINE u == SubSeq(t, from, to)
           e == Escaped(t)
           f == SubSeq(e, from, to)
           E == {i \in 1..Len(u) : f[i] = TRUE}
           k == from - 1
<1>1. Len(t) \in Nat /\ from \in Nat \ {0}
  BY TextFacts
<1>2. /\ u \in Text /\ Len(u) = (IF from <= to THEN to - from + 1 ELSE 0)
      /\ \A i \in 1..(to - from + 1) : u[i] = t[from + i - 1]
  BY <1>1, SubTextFacts
<1>3. e \in Seq(BOOLEAN) /\ Len(e) = Len(t)
  BY EscapedIsSequence
<1>4. \A i \in 1..Len(t) : e[i] = (i \in EscapedIn(t))
  BY EscapedIs
<1> HIDE DEF u, e, E
<1>5. \A i \in 1..(to - from + 1) : f[i] = e[from + i - 1]
  <2>1. from \in Int /\ to \in Int /\ \A i \in from..to : i \in DOMAIN e
    BY <1>1, <1>3
  <2>2. \A i \in from..to : e[i] \in BOOLEAN
    BY <1>3, <2>1
  <2> QED BY ONLY <2>1, <2>2, SubSeqProperties
<1>6. \A i \in 1..Len(u) : from + i - 1 \in 1..Len(t) /\ i \in 1..(to - from + 1)
  BY <1>1, <1>2
<1> HIDE DEF f
<1>7. \A i \in 1..Len(u) : f[i] = (from + i - 1 \in EscapedIn(t))
  <2> TAKE i \in 1..Len(u)
  <2> DEFINE j == from + i - 1
  <2>1. f[i] = e[j] /\ j \in 1..Len(t)
    BY <1>5, <1>6
  <2> HIDE DEF j
  <2>2. f[i] = (j \in EscapedIn(t))
    BY <1>4, <2>1, Zenon
  <2> QED BY <2>2 DEF j
<1>8. \A i \in 1..Len(u) : f[i] = (i \in E)
  <2> TAKE i \in 1..Len(u)
  <2> DEFINE j == from + i - 1
  <2>1. f[i] = (j \in EscapedIn(t)) /\ (i \in E <=> f[i] = TRUE)
    BY <1>7 DEF E
  <2> HIDE DEF j
  <2>2. (j \in EscapedIn(t)) = TRUE \/ (j \in EscapedIn(t)) = FALSE
    OBVIOUS
  <2>3. (i \in E) = TRUE \/ (i \in E) = FALSE
    OBVIOUS
  <2> QED BY ONLY <2>1, <2>2, <2>3, Zenon
<1>9. Unescape(u, f, type) \in Text
  BY <1>2, <1>8, UnescapeIs
<1>10. ASSUME from \notin EscapedIn(t) PROVE Unescape(u, f, type) = ReadText(u, type)
  <2>1. k \in Nat /\ k + Len(u) <= Len(t) /\ k + 1 \notin EscapedIn(t) /\ \A i \in 1..Len(u) : k + i = from + i - 1
    BY <1>1, <1>2, <1>10
  <2>2. \A i \in 1..Len(u) : t[k + i] = u[i]
    BY <1>2, <1>6, <2>1
  <2>3. \A i \in 1..Len(u) : k + i \in EscapedIn(t) <=> i \in EscapedIn(u)
    <3> HIDE DEF k
    <3> QED BY <1>2, <2>1, <2>2, EscapedInPart
  <2> HIDE DEF k
  <2>4. \A i \in 1..Len(u) : f[i] = (i \in EscapedIn(u))
    <3> TAKE i \in 1..Len(u)
    <3>1. f[i] = (k + i \in EscapedIn(t))
      BY <1>7, <2>1
    <3>2. k + i \in EscapedIn(t) <=> i \in EscapedIn(u)
      BY <2>3
    <3> QED BY <3>1, <3>2
  <2>5. Unescape(u, f, type) = Flat(ReadCharacters(u, EscapedIn(u), type), Len(u))
    BY <1>2, <2>4, UnescapeIs
  <2> QED BY <2>5 DEF ReadText
<1> QED BY <1>2, <1>9, <1>10 DEF u, f, e

(* The value that SGFC makes of a text.                                    *)
SingleType(D) == IF D.single # Nothing THEN D.single ELSE PartTypes(D)[1]
IsSplit(t, D) == PartTypes(D)[1] # Nothing /\ Unescaped(t, Separator) # {}

LEMMA ParseSingle ==
  ASSUME NEW t \in Text, NEW D, ~IsSplit(t, D)
  PROVE  ParseValue(t, D) = <<ReadText(t, SingleType(D))>>
<1> DEFINE n == Len(t)
<1>1. n \in Nat /\ 1 \in 1..(n + 1) /\ n \in 0..n
  BY TextFacts
<1>2. 1 \notin EscapedIn(t)
  <2>1. CASE 1 \in 1..Len(t)
    BY <2>1, EscapedIs
  <2>2. CASE 1 \notin 1..Len(t)
    BY <2>2 DEF EscapedIn
  <2> QED BY <2>1, <2>2
<1>3. Unescape(SubSeq(t, 1, n), SubSeq(Escaped(t), 1, n), SingleType(D)) = ReadText(SubSeq(t, 1, n), SingleType(D))
  BY <1>1, <1>2, PartIs
<1>4. SubSeq(t, 1, n) = t
  <2>1. 1 \in Nat \ {0} /\ n - 1 + 1 = n /\ (1 <= n \/ n = 0) /\ \A i \in 1..n : 1 + i - 1 = i
    BY <1>1
  <2>2. /\ SubSeq(t, 1, n) \in Text /\ Len(SubSeq(t, 1, n)) = (IF 1 <= n THEN n - 1 + 1 ELSE 0)
        /\ \A i \in 1..(n - 1 + 1) : SubSeq(t, 1, n)[i] = t[1 + i - 1]
    BY <1>1, <2>1, SubTextFacts
  <2>3. Len(SubSeq(t, 1, n)) = Len(t) /\ \A i \in 1..Len(t) : SubSeq(t, 1, n)[i] = t[i]
    BY <2>1, <2>2
  <2> QED BY <2>2, <2>3, SameText
<1>5. ParseValue(t, D) = <<Unescape(SubSeq(t, 1, n), SubSeq(Escaped(t), 1, n), SingleType(D))>>
  BY DEF ParseValue, IsSplit, SingleType
<1> QED BY <1>3, <1>4, <1>5

LEMMA ParseSplit ==
  ASSUME NEW t \in Text, NEW D, IsSplit(t, D)
  PROVE  \E m \in 1..Len(t) :
           /\ t[m] = Separator /\ m \notin EscapedIn(t)
           /\ \A j \in 1..(m - 1) : ~(t[j] = Separator /\ j \notin EscapedIn(t))
           /\ SubSeq(t, 1, m - 1) \in Text /\ SubSeq(t, m + 1, Len(t)) \in Text
           /\ ParseValue(t, D) = <<ReadText(SubSeq(t, 1, m - 1), PartTypes(D)[1]),
                                   ReadText(SubSeq(t, m + 1, Len(t)), PartTypes(D)[2])>>
<1> DEFINE S == Unescaped(t, Separator)
           n == Len(t)
           types == PartTypes(D)
           part(from, to, type) == Unescape(SubSeq(t, from, to), SubSeq(Escaped(t), from, to), type)
           m == Min(S)
<1>1. n \in Nat /\ S = {i \in 1..n : t[i] = Separator /\ i \notin EscapedIn(t)} /\ S # {}
  BY TextFacts, UnescapedIs DEF IsSplit
<1>2. m \in S /\ \A j \in S : m <= j
  <2>1. \E i \in S : \A j \in S : i <= j
    <3>1. S \subseteq Nat
      BY <1>1
    <3> HIDE DEF S
    <3> QED BY <1>1, <3>1, LeastNumber
  <2>2. m = CHOOSE i \in S : \A j \in S : i <= j
    BY DEF Min
  <2> HIDE DEF S, m
  <2> QED BY <2>1, <2>2, Zenon
<1>3. ParseValue(t, D) = <<part(1, m - 1, types[1]), part(m + 1, n, types[2])>>
  BY DEF ParseValue, IsSplit
<1> HIDE DEF S, m, types
<1>4. m \in 1..n /\ t[m] = Separator /\ m \notin EscapedIn(t)
  BY <1>1, <1>2
<1>5. \A j \in 1..(m - 1) : ~(t[j] = Separator /\ j \notin EscapedIn(t))
  <2> TAKE j \in 1..(m - 1)
  <2>1. j \in 1..n /\ ~(m <= j)
    BY <1>1, <1>4
  <2> QED BY <1>1, <1>2, <2>1
<1>6. 1 \notin EscapedIn(t) /\ m + 1 \notin EscapedIn(t)
  <2>1. \A i \in EscapedIn(t) : i \in 1..n /\ i > 1 /\ t[i - 1] = Escape
    BY EscapedIs DEF EscapedIn
  <2>2. ASSUME m + 1 \in EscapedIn(t) PROVE FALSE
    <3> DEFINE j == m + 1
    <3>1. j - 1 = m
      BY <1>1, <1>4
    <3> HIDE DEF j
    <3>2. t[j - 1] = Escape
      BY <2>1, <2>2 DEF j
    <3> QED BY <1>4, <3>1, <3>2, CharactersDiffer
  <2>3. ~(1 > 1)
    OBVIOUS
  <2> QED BY <2>1, <2>2, <2>3
<1>7. SubSeq(t, 1, m - 1) \in Text /\ part(1, m - 1, types[1]) = ReadText(SubSeq(t, 1, m - 1), types[1])
  <2> DEFINE k == m - 1
  <2>1. 1 \in 1..(n + 1) /\ k \in 0..n
    BY <1>1, <1>4
  <2> HIDE DEF k
  <2>2. SubSeq(t, 1, k) \in Text /\ part(1, k, types[1]) = ReadText(SubSeq(t, 1, k), types[1])
    BY <1>6, <2>1, PartIs
  <2> QED BY <2>2 DEF k
<1>8. SubSeq(t, m + 1, n) \in Text /\ part(m + 1, n, types[2]) = ReadText(SubSeq(t, m + 1, n), types[2])
  <2> DEFINE k == m + 1
  <2>1. k \in 1..(n + 1) /\ n \in 0..n
    BY <1>1, <1>4
  <2>2. k \notin EscapedIn(t)
    BY <1>6
  <2> HIDE DEF k
  <2>3. SubSeq(t, k, n) \in Text /\ part(k, n, types[2]) = ReadText(SubSeq(t, k, n), types[2])
    BY <2>1, <2>2, PartIs
  <2> QED BY <2>3 DEF k
<1> HIDE DEF part
<1>9. ParseValue(t, D) = <<ReadText(SubSeq(t, 1, m - 1), types[1]), ReadText(SubSeq(t, m + 1, n), types[2])>>
  BY <1>3, <1>7, <1>8
<1> QED BY <1>4, <1>5, <1>7, <1>8, <1>9 DEF types

(* A text of two, the first of which guards its separators, is split       *)
(* between them.                                                           *)
LEMMA ParseComposed ==
  ASSUME NEW a \in Text, NEW b \in Text, ~IsOpen(a), Guarded(a, Separator), NEW D, PartTypes(D)[1] # Nothing
  PROVE  ParseValue((a \o <<Separator>>) \o b, D) = <<ReadText(a, PartTypes(D)[1]), ReadText(b, PartTypes(D)[2])>>
<1> DEFINE y == <<Separator>>
           ay == a \o y
           t == ay \o b
           k == Len(a) + 1
<1>1. y \in Text /\ Len(y) = 1 /\ y[1] = Separator /\ y # <<>>
  BY SomeCharacters, OneIsText
<1>2. Len(a) \in Nat /\ Len(b) \in Nat
  BY TextFacts
<1> HIDE DEF y
<1>3. /\ ay \in Text /\ Len(ay) = k /\ ay[k] = Separator
      /\ \A i \in 1..Len(a) : ay[i] = a[i]
  <2>1. /\ ay \in Text /\ Len(ay) = Len(a) + Len(y) /\ \A i \in 1..Len(a) : ay[i] = a[i]
        /\ \A i \in 1..Len(y) : ay[Len(a) + i] = y[i]
    BY <1>1, JoinFacts
  <2>2. 1 \in 1..Len(y)
    BY <1>1
  <2> QED BY <1>1, <2>1, <2>2
<1>4. /\ \A i \in 1..Len(a) : i \in EscapedIn(ay) <=> i \in EscapedIn(a)
      /\ k \notin EscapedIn(ay)
  BY <1>1, EscapedInJoin
<1> HIDE DEF ay
<1>5. /\ t \in Text /\ Len(t) = k + Len(b)
      /\ \A i \in 1..k : t[i] = ay[i]
      /\ \A i \in 1..Len(b) : t[k + i] = b[i]
  <2>1. /\ t \in Text /\ Len(t) = Len(ay) + Len(b)
        /\ \A i \in 1..Len(ay) : t[i] = ay[i]
        /\ \A i \in 1..Len(b) : t[Len(ay) + i] = b[i]
    BY <1>3, JoinFacts
  <2>2. Len(ay) = k
    BY <1>3
  <2> HIDE DEF t, k
  <2> QED BY ONLY <2>1, <2>2
<1>6. \A i \in 1..k : i \in EscapedIn(t) <=> i \in EscapedIn(ay)
  BY <1>3, EscapedInJoin
<1> HIDE DEF t
<1>7. k \in 1..k /\ k \in 1..Len(t) /\ \A i \in 1..Len(a) : i \in 1..k
  BY <1>2, <1>5
<1>8. t[k] = Separator /\ k \notin EscapedIn(t)
  BY <1>3, <1>4, <1>5, <1>6, <1>7
<1>9. \A i \in 1..Len(a) : t[i] = a[i] /\ ~(t[i] = Separator /\ i \notin EscapedIn(t))
  <2> TAKE i \in 1..Len(a)
  <2>1. t[i] = a[i] /\ (i \in EscapedIn(t) <=> i \in EscapedIn(a))
    BY <1>3, <1>4, <1>5, <1>6, <1>7
  <2> QED BY <2>1 DEF Guarded
<1>10. IsSplit(t, D)
  BY <1>5, <1>7, <1>8, UnescapedIs DEF IsSplit
<1>11. PICK m \in 1..Len(t) :
         /\ t[m] = Separator /\ m \notin EscapedIn(t)
         /\ \A j \in 1..(m - 1) : ~(t[j] = Separator /\ j \notin EscapedIn(t))
         /\ SubSeq(t, 1, m - 1) \in Text /\ SubSeq(t, m + 1, Len(t)) \in Text
         /\ ParseValue(t, D) = <<ReadText(SubSeq(t, 1, m - 1), PartTypes(D)[1]),
                                 ReadText(SubSeq(t, m + 1, Len(t)), PartTypes(D)[2])>>
  BY <1>5, <1>10, ParseSplit
<1>12. m = k
  <2>1. ~(k \in 1..(m - 1))
    BY <1>8, <1>11
  <2>2. ~(m \in 1..Len(a))
    BY <1>9, <1>11
  <2> HIDE DEF t
  <2>3. m \in Nat /\ k \in Nat \ {0} /\ m > 0
    BY <1>2, <1>5, <1>11
  <2> QED BY <1>2, <2>1, <2>2, <2>3
<1>13. SubSeq(t, 1, m - 1) = a
  <2> DEFINE l == m - 1
  <2>1. l = Len(a) /\ 1 \in Nat \ {0} /\ l \in 0..Len(t)
    BY <1>2, <1>5, <1>12
  <2>2. l - 1 + 1 = l /\ (1 <= l \/ l = 0) /\ \A i \in 1..l : 1 + i - 1 = i
    BY <1>2, <2>1
  <2> HIDE DEF l
  <2>3. /\ SubSeq(t, 1, l) \in Text /\ Len(SubSeq(t, 1, l)) = (IF 1 <= l THEN l - 1 + 1 ELSE 0)
        /\ \A i \in 1..(l - 1 + 1) : SubSeq(t, 1, l)[i] = t[1 + i - 1]
    BY <1>5, <2>1, SubTextFacts
  <2>4. Len(SubSeq(t, 1, l)) = Len(a) /\ \A i \in 1..Len(a) : SubSeq(t, 1, l)[i] = t[i]
    BY <2>1, <2>2, <2>3
  <2>5. \A i \in 1..Len(a) : SubSeq(t, 1, l)[i] = a[i]
    BY <1>9, <2>4
  <2>6. SubSeq(t, 1, l) = a
    BY <2>3, <2>4, <2>5, SameText
  <2> QED BY <2>6 DEF l
<1>14. SubSeq(t, m + 1, Len(t)) = b
  <2> DEFINE l == m + 1
             n == Len(t)
             u == SubSeq(t, l, n)
  <2>1. l = k + 1 /\ l \in Nat \ {0} /\ n \in 0..Len(t) /\ n = k + Len(b) /\ k \in Nat /\ n \in Nat
    BY <1>2, <1>5, <1>12
  <2> HIDE DEF l, n, k
  <2>2. n - l + 1 = Len(b) /\ (l <= n \/ Len(b) = 0) /\ \A i \in 1..Len(b) : l + i - 1 = k + i
    BY <1>2, <2>1
  <2>3. /\ u \in Text /\ Len(u) = (IF l <= n THEN n - l + 1 ELSE 0)
        /\ \A i \in 1..(n - l + 1) : u[i] = t[l + i - 1]
    BY <1>5, <2>1, SubTextFacts
  <2> HIDE DEF u
  <2>4. Len(u) = Len(b) /\ \A i \in 1..Len(b) : u[i] = t[k + i]
    <3>1. Len(u) = Len(b)
      BY <2>1, <2>2, <2>3
    <3>2. \A i \in 1..Len(b) : u[i] = t[k + i]
      BY <2>2, <2>3
    <3> QED BY <3>1, <3>2
  <2>5. \A i \in 1..Len(u) : u[i] = b[i]
    BY <1>5, <2>4
  <2>6. u = b
    BY <2>3, <2>4, <2>5, SameText
  <2> QED BY <2>6 DEF u, l, n
<1> QED BY <1>11, <1>13, <1>14 DEF t, ay, y

-----------------------------------------------------------------------------
(* The parts of a text between its ends.                                   *)

Begin(t, k) == IF k = 1 THEN 1 ELSE ValueEnds(t)[k - 1] + 1
BodyOf(t, k) == SubSeq(t, Begin(t, k) + 1, ValueEnds(t)[k] - 1)

LEMMA ParseIs ==
  ASSUME NEW t \in Text, NEW D
  PROVE  /\ Len(ValueEnds(t)) \in Nat
         /\ Parse(t, D).intact <=>
              /\ \A k \in 1..Len(ValueEnds(t)) : t[Begin(t, k)] = ValueBegin
              /\ Len(ValueEnds(t)) # 0 /\ ValueEnds(t)[Len(ValueEnds(t))] = Len(t)
         /\ Parse(t, D).values = [k \in 1..Len(ValueEnds(t)) |-> ParseValue(BodyOf(t, k), D)]
<1> DEFINE ends == ValueEnds(t)
           begin(k) == IF k = 1 THEN 1 ELSE ends[k - 1] + 1
           P == Parse(t, D)
<1>1. ends \in Text
  BY ValueEndsAre
<1>2. Len(ends) \in Nat /\ DOMAIN ends = 1..Len(ends) /\ (ends # <<>> <=> Len(ends) # 0)
  BY <1>1, TextFacts
<1>3. P.intact = (/\ \A k \in DOMAIN ends : t[begin(k)] = ValueBegin
                  /\ ends # <<>> /\ Last(ends) = Len(t))
  BY DEF Parse
<1>4. P.values = [k \in DOMAIN ends |-> ParseValue(SubSeq(t, begin(k) + 1, ends[k] - 1), D)]
  BY DEF Parse
<1>5. Last(ends) = ends[Len(ends)]
  BY DEF Last
<1>6. \A k : begin(k) = Begin(t, k)
  BY DEF Begin
<1> HIDE DEF P, ends, begin
<1>7. P.intact <=> (/\ \A k \in 1..Len(ends) : t[Begin(t, k)] = ValueBegin
                    /\ Len(ends) # 0 /\ ends[Len(ends)] = Len(t))
  <2> DEFINE Q == /\ \A k \in 1..Len(ends) : t[Begin(t, k)] = ValueBegin
                  /\ Len(ends) # 0 /\ ends[Len(ends)] = Len(t)
             R == /\ \A k \in DOMAIN ends : t[begin(k)] = ValueBegin
                  /\ ends # <<>> /\ Last(ends) = Len(t)
  <2>1. R <=> Q
    BY <1>2, <1>5, <1>6
  <2>2. P.intact = R
    BY <1>3
  <2> HIDE DEF R, Q
  <2>3. P.intact <=> R
    BY <2>2
  <2>4. P.intact <=> Q
    BY <2>1, <2>3
  <2> QED BY <2>4 DEF Q
<1>8. P.values = [k \in 1..Len(ends) |-> ParseValue(BodyOf(t, k), D)]
  <2>1. \A k \in 1..Len(ends) : SubSeq(t, begin(k) + 1, ends[k] - 1) = BodyOf(t, k)
    BY <1>6 DEF BodyOf, ends
  <2> QED BY <1>2, <1>4, <2>1
<1> QED BY <1>2, <1>7, <1>8 DEF P, ends

(* A text that is written as some values is parsed as those values.        *)
LEMMA ParseOfValues ==
  ASSUME NEW n \in Nat \ {0}, NEW c,
         \A k \in 1..n : c[k] \in Text /\ ~IsOpen(c[k]) /\ Guarded(c[k], ValueEnd),
         NEW s, \A k \in 1..n : s[k] = Wrapped(c[k]), NEW D
  PROVE  /\ Flat(s, n) \in Text /\ Parse(Flat(s, n), D).intact
         /\ Parse(Flat(s, n), D).values = [k \in 1..n |-> ParseValue(c[k], D)]
<1> DEFINE t == Flat(s, n)
           L(k) == Len(Flat(s, k))
<1>1. \A k \in 1..n : /\ IsValue(s[k]) /\ s[k] \in Text /\ Len(s[k]) = Len(c[k]) + 2 /\ Len(c[k]) \in Nat
                      /\ s[k][1] = ValueBegin /\ \A i \in 1..Len(c[k]) : s[k][i + 1] = c[k][i]
  BY WrappedIs DEF IsValue
<1>2. \A k \in 0..n : ValuesUpTo(s, k)
  BY <1>1, SeveralValues
<1>3. ValuesUpTo(s, n) /\ n \in 0..n
  BY <1>2
<1>4. /\ t \in Text /\ Len(ValueEnds(t)) = n /\ \A k \in 1..n : ValueEnds(t)[k] = L(k)
      /\ \A k \in 0..n : L(k) \in 0..Len(t) /\ \A i \in 1..L(k) : t[i] = Flat(s, k)[i]
  BY <1>3 DEF ValuesUpTo
<1>5. L(n) = Len(t) /\ L(0) = 0 /\ \A k \in 0..n : Flat(s, k) \in Text
  <2>1. L(0) = 0
    BY NothingFlat, SomeCharacters, OneIsText, TextFacts
  <2>2. \A k \in 0..n : Flat(s, k) \in Text
    BY <1>2 DEF ValuesUpTo
  <2> QED BY <2>1, <2>2
<1> HIDE DEF t
<1>6. Len(t) \in Nat
  BY <1>4, TextFacts
<1>7. ASSUME NEW k \in 1..n
      PROVE  t[Begin(t, k)] = ValueBegin /\ BodyOf(t, k) = c[k]
  <2> DEFINE j == k - 1
             l == L(j)
             m == Len(c[k])
             f == l + 2
             g == l + m + 1
             u == SubSeq(t, f, g)
  <2>1. j \in Nat /\ j \in 0..n /\ j + 1 = k /\ k \in 0..n
    OBVIOUS
  <2>2. s[k] \in Text /\ c[k] \in Text /\ m \in Nat /\ Len(s[k]) = m + 2
    BY <1>1
  <2>3. Flat(s, k) = Flat(s, j) \o s[k] /\ Flat(s, j) \in Text
    <3> HIDE DEF j
    <3>1. Flat(s, j + 1) = Flat(s, j) \o s[j + 1]
      BY <2>1, <2>2, FlatMore
    <3> QED BY <1>5, <2>1, <3>1
  <2>4. Begin(t, k) = l + 1
    <3>1. CASE k = 1
      <4>1. j = 0 /\ l = 0
        BY <1>5, <3>1
      <4> QED BY <3>1, <4>1 DEF Begin
    <3>2. CASE k # 1
      <4>1. j \in 1..n
        BY <3>2
      <4> QED BY <1>4, <3>2, <4>1 DEF Begin
    <3> QED BY <3>1, <3>2
  <2> HIDE DEF j
  <2>5. L(k) = l + m + 2 /\ l \in Nat /\ l + m + 2 <= Len(t) /\ \A i \in 1..(m + 2) : t[l + i] = s[k][i]
    <3>1. L(k) = l + Len(s[k]) /\ \A i \in 1..Len(s[k]) : Flat(s, k)[l + i] = s[k][i]
      <4> DEFINE x == Flat(s, j)
                 y == s[k]
                 z == Flat(s, k)
      <4>1. x \in Text /\ y \in Text /\ z = x \o y
        BY <2>2, <2>3
      <4> HIDE DEF x, y, z
      <4>2. Len(z) = Len(x) + Len(y) /\ \A i \in 1..Len(y) : z[Len(x) + i] = y[i]
        BY ONLY <4>1, JoinFacts
      <4> QED BY <4>2 DEF x, y, z
    <3>2. l \in 0..Len(t) /\ L(k) \in 0..Len(t) /\ \A i \in 1..L(k) : t[i] = Flat(s, k)[i]
      BY <1>4, <2>1
    <3>3. l \in Nat /\ L(k) <= Len(t)
      BY <1>6, <3>2
    <3>4. ASSUME NEW i \in 1..(m + 2) PROVE t[l + i] = s[k][i]
      <4> DEFINE p == l + i
      <4>1. p \in 1..L(k) /\ Flat(s, k)[p] = s[k][i]
        BY <2>2, <3>1, <3>3
      <4> HIDE DEF p
      <4>2. t[p] = Flat(s, k)[p]
        BY <3>2, <4>1
      <4> QED BY <4>1, <4>2 DEF p
    <3> HIDE DEF l, L
    <3> QED BY <2>2, <3>1, <3>3, <3>4
  <2> HIDE DEF l
  <2>6. t[l + 1] = ValueBegin
    <3>1. 1 \in 1..(m + 2) /\ s[k][1] = ValueBegin
      BY <1>1, <2>2
    <3> QED BY <2>5, <3>1
  <2>7. \A i \in 1..m : s[k][i + 1] = c[k][i]
    BY <1>1
  <2>8. ValueEnds(t)[k] - 1 = g /\ Begin(t, k) + 1 = f /\ BodyOf(t, k) = u
    <3>1. ValueEnds(t)[k] = l + m + 2
      BY <1>4, <2>5
    <3>2. l + m + 2 - 1 = g /\ l + 1 + 1 = f
      BY <2>2, <2>5
    <3>3. ValueEnds(t)[k] - 1 = g /\ Begin(t, k) + 1 = f
      <4> DEFINE p == ValueEnds(t)[k]
                 q == Begin(t, k)
      <4>1. l \in Nat /\ m \in Nat /\ p = l + m + 2 /\ q = l + 1
        BY <2>2, <2>4, <2>5, <3>1
      <4> HIDE DEF p, q, m
      <4>2. p - 1 = l + m + 1 /\ q + 1 = l + 2
        BY ONLY <4>1
      <4> QED BY <4>2 DEF p, q
    <3> QED BY <3>3 DEF BodyOf
  <2> HIDE DEF m
  <2>9. f \in Nat \ {0} /\ g \in 0..Len(t) /\ g - f + 1 = m /\ (f <= g \/ m = 0) /\ \A i \in 1..m : f + i - 1 = l + (i + 1)
    BY <1>6, <2>2, <2>5
  <2> HIDE DEF f, g
  <2>10. /\ u \in Text /\ Len(u) = (IF f <= g THEN g - f + 1 ELSE 0)
         /\ \A i \in 1..(g - f + 1) : u[i] = t[f + i - 1]
    BY <1>4, <2>9, SubTextFacts
  <2> HIDE DEF u
  <2>11. Len(u) = m
    BY <2>9, <2>10
  <2>12. ASSUME NEW i \in 1..m PROVE u[i] = c[k][i]
    <3> DEFINE h == i + 1
    <3>1. u[i] = t[l + h]
      BY <2>9, <2>10
    <3>2. h \in 1..(m + 2) /\ s[k][h] = c[k][i]
      BY <2>2, <2>7 DEF m
    <3> HIDE DEF h
    <3>3. t[l + h] = s[k][h]
      BY <2>5, <3>2 DEF m
    <3> QED BY <3>1, <3>2, <3>3
  <2>13. u = c[k]
    BY <2>2, <2>10, <2>11, <2>12, SameText DEF m
  <2> QED BY <2>4, <2>6, <2>8, <2>13
<1> DEFINE P == Parse(t, D)
<1>8. /\ P.intact <=> /\ \A k \in 1..n : t[Begin(t, k)] = ValueBegin
                      /\ n # 0 /\ ValueEnds(t)[n] = Len(t)
      /\ P.values = [k \in 1..n |-> ParseValue(BodyOf(t, k), D)]
  BY <1>4, ParseIs
<1> HIDE DEF P
<1>9. n # 0 /\ ValueEnds(t)[n] = Len(t)
  BY <1>4, <1>5
<1>10. P.intact
  BY <1>7, <1>8, <1>9
<1>11. P.values = [k \in 1..n |-> ParseValue(c[k], D)]
  <2>1. [k \in 1..n |-> ParseValue(BodyOf(t, k), D)] = [k \in 1..n |-> ParseValue(c[k], D)]
    BY ONLY <1>7
  <2> QED BY <1>8, <2>1
<1> QED BY <1>4, <1>10, <1>11 DEF P, t

(* The values that any text is parsed as are parts of it.                  *)
LEMMA ParseOfAnyText ==
  ASSUME NEW t \in Text, NEW D, Parse(t, D).intact
  PROVE  \E n \in Nat \ {0} : \E u :
           /\ \A k \in 1..n : u[k] \in Text
           /\ Parse(t, D).values = [k \in 1..n |-> ParseValue(u[k], D)]
<1> DEFINE ends == ValueEnds(t)
           n == Len(ends)
           u == [k \in 1..n |-> BodyOf(t, k)]
<1>1. n \in Nat \ {0} /\ Parse(t, D).values = [k \in 1..n |-> ParseValue(BodyOf(t, k), D)]
  BY ParseIs
<1>2. Len(t) \in Nat
  BY TextFacts
<1>3. \A k \in 1..n : ends[k] \in 1..Len(t)
  <2> SUFFICES ASSUME NEW k \in 1..n, ends[k] \notin 1..Len(t) PROVE FALSE
    OBVIOUS
  <2> DEFINE c == ends[k]
             s == Ends(t)
  <2>1. /\ ends = Flat(s, Len(t))
        /\ \A i \in 1..Len(t) : s[i] = IF i \in Unescaped(t, ValueEnd) THEN <<i>> ELSE <<>>
        /\ \A i \in 1..Len(t) : s[i] \in Text
    BY ValueEndsAre
  <2> HIDE DEF s, ends, c
  <2>2. \A i \in 1..Len(t) : \A j \in 1..Len(s[i]) : s[i][j] # c
    <3> TAKE i \in 1..Len(t)
    <3>1. CASE s[i] = <<i>>
      <4>1. c # i
        BY DEF c
      <4>2. Len(<<i>>) = 1 /\ <<i>>[1] = i
        OBVIOUS
      <4>3. \A j \in 1..1 : j = 1
        OBVIOUS
      <4> QED BY <3>1, <4>1, <4>2, <4>3
    <3>2. CASE s[i] = <<>>
      <4>1. Len(<<>>) = 0 /\ 1..0 = {}
        OBVIOUS
      <4> QED BY <3>2, <4>1
    <3> QED BY <2>1, <3>1, <3>2
  <2>3. \A j \in 1..Len(Flat(s, Len(t))) : Flat(s, Len(t))[j] # c
    BY <1>2, <2>1, <2>2, CharactersOfFlat
  <2> QED BY <2>1, <2>3 DEF c
<1>4. ASSUME NEW k \in 1..n PROVE BodyOf(t, k) \in Text
  <2> DEFINE f == Begin(t, k) + 1
             g == ends[k] - 1
             w == SubSeq(t, f, g)
  <2>1. Begin(t, k) \in Nat \ {0}
    <3>1. CASE k = 1
      BY <3>1 DEF Begin
    <3>2. CASE k # 1
      <4>1. k - 1 \in 1..n
        BY <1>1, <3>2
      <4>2. ends[k - 1] \in 1..Len(t)
        BY <1>3, <4>1
      <4> HIDE DEF n
      <4>3. Begin(t, k) = ends[k - 1] + 1
        BY <3>2 DEF Begin
      <4> HIDE DEF ends
      <4> QED BY <4>2, <4>3
    <3> QED BY <3>1, <3>2
  <2>2. ends[k] \in 1..Len(t)
    BY <1>3
  <2> HIDE DEF n, ends
  <2>3. f \in Nat \ {0} /\ g \in 0..Len(t)
    BY <1>2, <2>1, <2>2
  <2>4. BodyOf(t, k) = w
    BY DEF BodyOf, ends
  <2> HIDE DEF f, g
  <2>5. w \in Text
    BY <2>3, SubTextFacts
  <2> HIDE DEF w
  <2> QED BY <2>4, <2>5
<1>5. \A k \in 1..n : u[k] = BodyOf(t, k)
  OBVIOUS
<1> HIDE DEF n, u
<1>6. Parse(t, D).values = [k \in 1..n |-> ParseValue(u[k], D)]
  <2>1. [k \in 1..n |-> ParseValue(u[k], D)] = [k \in 1..n |-> ParseValue(BodyOf(t, k), D)]
    BY ONLY <1>5
  <2> QED BY <1>1, <2>1
<1>7. \A k \in 1..n : u[k] \in Text
  BY <1>4, <1>5
<1> QED BY <1>1, <1>6, <1>7

-----------------------------------------------------------------------------
(* Raw texts, which may have escape characters of their own.               *)

HasNoBreakout(t) == ~HasPair(t, Escape, ValueEnd) /\ (t = <<>> \/ t[Len(t)] # Escape)

LEMMA GuardedMore ==
  ASSUME NEW a \in Text, NEW b \in Text, NEW ch, Guarded(a, ch), Free(b, ch)
  PROVE  Guarded(a \o b, ch)
<1> DEFINE ab == a \o b
<1>1. Len(a) \in Nat /\ Len(b) \in Nat
  BY TextFacts
<1>2. /\ ab \in Text /\ Len(ab) = Len(a) + Len(b)
      /\ \A i \in 1..Len(a) : ab[i] = a[i]
      /\ \A i \in 1..Len(b) : ab[Len(a) + i] = b[i]
  BY JoinFacts
<1>3. \A i \in 1..Len(a) : i \in EscapedIn(ab) <=> i \in EscapedIn(a)
  BY EscapedInJoin
<1> HIDE DEF ab
<1>4. ASSUME NEW i \in 1..Len(ab), ab[i] = ch PROVE i \in EscapedIn(ab)
  <2>1. CASE i \in 1..Len(a)
    BY <1>2, <1>3, <1>4, <2>1 DEF Guarded
  <2>2. CASE i \notin 1..Len(a)
    <3> DEFINE j == i - Len(a)
    <3>1. j \in 1..Len(b) /\ Len(a) + j = i
      BY <1>1, <1>2, <2>2
    <3> HIDE DEF j
    <3>2. b[j] = ch
      BY <1>2, <1>4, <3>1
    <3> QED BY <3>1, <3>2 DEF Free
  <2> QED BY <2>1, <2>2
<1> QED BY <1>4 DEF Guarded, ab

LEMMA MandatoryGuardsItsEnd ==
  ASSUME NEW t \in Text, NEW first \in BOOLEAN, ~HasPair(t, Escape, ValueEnd)
  PROVE  Guarded(AddMandatoryEscapeCharacters(t, first), ValueEnd)
<1> DEFINE M(u) == AddMandatoryEscapeCharacters(u, first)
           S == {u \in Text : ~HasPair(u, Escape, ValueEnd) => Guarded(M(u), ValueEnd)}
<1>1. <<>> \in S
  BY MandatoryNothing, GuardedBlocks, SomeCharacters, OneIsText
<1>2. ASSUME NEW w \in Text, NEW c \in Character, w \in S PROVE w \o <<c>> \in S
  <2> DEFINE y == <<c>>
             b == MandatoryBlock(c, first)
  <2>1. y \in Text /\ y # <<>> /\ y[1] = c /\ b \in Text /\ M(w) \in Text
    BY OneIsText, BlocksAreTexts, MandatoryIsText
  <2>2. M(w \o y) = M(w) \o b
    BY MandatoryMore
  <2>3. b = IF c = ValueEnd \/ (first /\ c = Separator) THEN <<Escape, c>> ELSE <<c>>
    BY DEF MandatoryBlock
  <2> HIDE DEF y, b, M
  <2>4. w \o y \in Text
    BY <2>1, JoinFacts
  <2>5. ASSUME ~HasPair(w \o y, Escape, ValueEnd) PROVE Guarded(M(w \o y), ValueEnd)
    <3>1. /\ ~HasPair(w, Escape, ValueEnd)
          /\ ~(w # <<>> /\ w[Len(w)] = Escape /\ c = ValueEnd)
      BY <2>1, <2>5, HasPairJoin
    <3>2. Guarded(M(w), ValueEnd)
      BY <1>2, <3>1
    <3>3. CASE c = ValueEnd
      <4>1. ~IsOpen(M(w))
        <5>1. CASE w = <<>>
          BY <5>1, MandatoryNothing, NothingOpen DEF M
        <5>2. CASE w # <<>>
          <6>1. M(w)[Len(M(w))] = w[Len(w)]
            BY <5>2, LastOfEncoded DEF M
          <6> QED BY <3>1, <3>3, <5>2, <6>1 DEF IsOpen
        <5> QED BY <5>1, <5>2
      <4>2. Guarded(b, ValueEnd)
        BY <2>3, <3>3, GuardedBlocks, CharactersDiffer
      <4> QED BY <2>1, <2>2, <3>2, <4>1, <4>2, GuardedJoin
    <3>4. CASE c # ValueEnd
      <4>1. Free(b, ValueEnd)
        BY <2>3, <3>4, FreeBlocks, CharactersDiffer
      <4> QED BY <2>1, <2>2, <3>2, <4>1, GuardedMore
    <3> QED BY <3>3, <3>4
  <2> QED BY <2>4, <2>5 DEF y, M
<1> HIDE DEF S
<1>3. Text \subseteq S
  BY <1>1, <1>2, TextInduction
<1> QED BY <1>3 DEF S

LEMMA MandatoryIsSafe ==
  ASSUME NEW t \in Text, NEW first \in BOOLEAN, HasNoBreakout(t)
  PROVE  IsSafe(AddMandatoryEscapeCharacters(t, first), FALSE)
<1> DEFINE e == AddMandatoryEscapeCharacters(t, first)
<1>1. e \in Text /\ Guarded(e, ValueEnd)
  BY MandatoryIsText, MandatoryGuardsItsEnd DEF HasNoBreakout
<1>2. ~IsOpen(e)
  <2>1. CASE t = <<>>
    BY <2>1, MandatoryNothing, NothingOpen
  <2>2. CASE t # <<>>
    <3>1. e[Len(e)] = t[Len(t)]
      BY <2>2, LastOfEncoded
    <3> HIDE DEF e
    <3> QED BY <2>2, <3>1 DEF IsOpen, HasNoBreakout
  <2> QED BY <2>1, <2>2
<1> QED BY <1>1, <1>2 DEF IsSafe

LEMMA MandatoryIsFree ==
  ASSUME NEW t \in Text, NEW first \in BOOLEAN, NEW d, d # Escape, Free(t, d)
  PROVE  Free(AddMandatoryEscapeCharacters(t, first), d)
<1> DEFINE M(u) == AddMandatoryEscapeCharacters(u, first)
           S == {u \in Text : Free(u, d) => Free(M(u), d)}
<1>1. <<>> \in S
  BY MandatoryNothing, SomeCharacters, OneIsText
<1>2. ASSUME NEW w \in Text, NEW c \in Character, w \in S PROVE w \o <<c>> \in S
  <2> DEFINE b == MandatoryBlock(c, first)
             u == w \o <<c>>
             y == <<c>>
  <2>1. u \in Text /\ y \in Text /\ b \in Text /\ M(w) \in Text
    BY OneIsText, JoinFacts, BlocksAreTexts, MandatoryIsText
  <2>2. M(u) = M(w) \o b
    BY MandatoryMore
  <2>3. Free(y, d) => c # d
    <3>1. Len(y) = 1 /\ y[1] = c /\ 1 \in 1..1
      OBVIOUS
    <3> QED BY <3>1 DEF Free
  <2>4. c # d => Free(b, d)
    BY FreeBlocks DEF MandatoryBlock
  <2>5. u = w \o y
    OBVIOUS
  <2> HIDE DEF b, u, y, M
  <2>6. Free(u, d) => Free(M(u), d)
    BY <1>2, <2>1, <2>2, <2>3, <2>4, <2>5, FreeJoin
  <2> QED BY <2>1, <2>6 DEF u, M
<1> HIDE DEF S
<1>3. Text \subseteq S
  BY <1>1, <1>2, TextInduction
<1> QED BY <1>3 DEF S

-----------------------------------------------------------------------------
(* The beginning of a text.                                                *)

LEMMA FirstFacts ==
  ASSUME NEW a \in Text, a # <<>>
  PROVE  \E b \in Text : a[1] \in Character /\ a = <<a[1]>> \o b
<1> DEFINE n == Len(a)
           b == SubSeq(a, 2, n)
           d == <<a[1]>>
           c == d \o b
<1>1. n \in Nat /\ n >= 1 /\ 1 \in 1..n /\ a[1] \in Character
  <2>1. n \in Nat /\ n # 0
    BY TextFacts
  <2>2. 1 \in 1..n
    BY <2>1
  <2> QED BY <2>1, <2>2, TextFacts
<1>2. b \in Text /\ Len(b) = n - 1 /\ \A i \in 1..(n - 1) : b[i] = a[1 + i]
  <2> DEFINE m == 2
  <2>1. m \in Nat \ {0} /\ n \in 0..Len(a)
    BY <1>1
  <2> HIDE DEF n
  <2>2. n - m + 1 = n - 1 /\ (m <= n \/ n - 1 = 0) /\ \A i \in 1..(n - 1) : m + i - 1 = 1 + i
    BY <1>1
  <2> HIDE DEF m
  <2>3. /\ SubSeq(a, m, n) \in Text /\ Len(SubSeq(a, m, n)) = IF m <= n THEN n - m + 1 ELSE 0
        /\ \A i \in 1..(n - m + 1) : SubSeq(a, m, n)[i] = a[m + i - 1]
    BY ONLY a \in Text, <2>1, SubTextFacts
  <2> QED BY <1>1, <2>2, <2>3 DEF m
<1>3. d \in Text /\ Len(d) = 1 /\ d[1] = a[1]
  BY <1>1, OneIsText
<1> HIDE DEF b, d
<1> HIDE DEF n
<1>4. /\ c \in Text /\ Len(c) = 1 + (n - 1) /\ c[1] = d[1]
      /\ \A i \in 1..(n - 1) : c[1 + i] = b[i]
  <2>1. /\ c \in Text /\ Len(c) = Len(d) + Len(b) /\ (\A i \in 1..Len(d) : c[i] = d[i])
        /\ \A i \in 1..Len(b) : c[Len(d) + i] = b[i]
    BY <1>2, <1>3, JoinFacts
  <2> HIDE DEF c
  <2>2. 1 \in 1..Len(d)
    BY <1>3
  <2> QED BY <1>2, <1>3, <2>1, <2>2
<1> HIDE DEF c
<1>5. \A i \in 1..n : c[i] = a[i]
  <2> TAKE i \in 1..n
  <2>1. CASE i = 1
    BY <1>3, <1>4, <2>1
  <2>2. CASE i # 1
    <3> DEFINE j == i - 1
    <3>1. j \in 1..(n - 1) /\ 1 + j = i
      BY <1>1, <2>2
    <3> HIDE DEF j
    <3> QED BY <1>2, <1>4, <3>1
  <2> QED BY <2>1, <2>2
<1>6. c = a
  BY <1>1, <1>4, <1>5, SameText DEF n
<1> QED BY <1>1, <1>2, <1>6 DEF c, d

(* The first character stays the first one, unless it is escaped.          *)
LEMMA FirstOfMandatory ==
  ASSUME NEW t \in Text, t # <<>>, NEW first \in BOOLEAN
  PROVE  LET e == AddMandatoryEscapeCharacters(t, first)
         IN  /\ e \in Text /\ e # <<>>
             /\ e[1] # Separator \/ ~first
             /\ e[1] = t[1] \/ (e[1] = Escape /\ Len(e) > 1 /\ e[2] \in {ValueEnd, Separator})
<1> DEFINE M(u) == AddMandatoryEscapeCharacters(u, first)
           c == t[1]
           a == MandatoryBlock(c, first)
<1>1. PICK r \in Text : c \in Character /\ t = <<c>> \o r
  BY FirstFacts
<1>2. <<c>> \in Text /\ M(<<c>>) = a /\ a \in Text /\ M(r) \in Text
  BY <1>1, OneIsText, MandatoryOne, BlocksAreTexts, MandatoryIsText
<1>3. M(t) = a \o M(r)
  <2> DEFINE d == <<c>>
  <2>1. d \in Text /\ M(d) = a /\ t = d \o r
    BY <1>1, <1>2
  <2> HIDE DEF d, a
  <2>2. M(d \o r) = M(d) \o M(r)
    BY <2>1, MandatoryJoin
  <2> QED BY <2>1, <2>2
<1>4. CASE c = ValueEnd \/ (first /\ c = Separator)
  <2>1. a = <<Escape, c>>
    BY <1>4 DEF MandatoryBlock
  <2>2. Len(a) = 2 /\ a[1] = Escape /\ a[2] = c /\ a # <<>> /\ 1 \in 1..2 /\ 2 \in 1..2
    <3> HIDE DEF c
    <3> QED BY <1>1, <2>1, TwoFacts, SomeCharacters
  <2> DEFINE m == M(r)
             am == a \o m
  <2> HIDE DEF a, M, m, c
  <2>3. /\ Len(am) = 2 + Len(m) /\ am[1] = Escape /\ am[2] = c
        /\ am \in Text /\ am # <<>> /\ Len(m) \in Nat
    <3>1. m \in Text /\ a \in Text
      BY <1>2 DEF m
    <3>2. /\ am \in Text /\ Len(am) = Len(a) + Len(m) /\ \A i \in 1..Len(a) : am[i] = a[i]
          /\ am # <<>> /\ Len(m) \in Nat
      BY <2>2, <3>1, JoinFacts, TextFacts
    <3> HIDE DEF am
    <3> QED BY <2>2, <3>2
  <2>4. Len(am) > 1
    BY <2>3
  <2>5. M(t) = am
    BY <1>3 DEF m
  <2> HIDE DEF am
  <2> QED BY <1>4, <2>3, <2>4, <2>5, CharactersDiffer DEF M
<1>5. CASE ~(c = ValueEnd \/ (first /\ c = Separator))
  <2>1. a = <<c>>
    BY <1>5 DEF MandatoryBlock
  <2>2. Len(a) = 1 /\ a[1] = c /\ a # <<>>
    <3> HIDE DEF c
    <3> QED BY <2>1
  <2> HIDE DEF a, M
  <2>3. a \o M(r) \in Text /\ a \o M(r) # <<>> /\ (a \o M(r))[1] = c
    BY <1>2, <2>2, JoinFacts, FirstOfJoin
  <2> QED BY <1>3, <1>5, <2>3 DEF M, c
<1> QED BY <1>4, <1>5

(* Two texts begin with an escaped line ending only if the first does, or  *)
(* is its escape character.                                                *)
LEMMA JoinBegins ==
  ASSUME NEW a \in Text, NEW b \in Text, a # <<>>, BeginsErased(a \o b)
  PROVE  BeginsErased(a) \/ (a = <<Escape>> /\ b # <<>> /\ b[1] = LineEnding)
<1> DEFINE ab == a \o b
<1>1. /\ Len(a) \in Nat /\ Len(b) \in Nat /\ Len(a) # 0 /\ (Len(b) = 0 <=> b = <<>>)
  BY TextFacts
<1>2. /\ ab \in Text /\ Len(ab) = Len(a) + Len(b)
      /\ \A i \in 1..Len(a) : ab[i] = a[i]
      /\ \A i \in 1..Len(b) : ab[Len(a) + i] = b[i]
  BY JoinFacts
<1>3. Len(ab) > 1 /\ ab[1] = Escape /\ ab[2] = LineEnding
  BY DEF BeginsErased
<1> HIDE DEF ab
<1>4. CASE Len(a) > 1
  <2>1. 1 \in 1..Len(a) /\ 2 \in 1..Len(a)
    BY <1>1, <1>4
  <2>2. a[1] = ab[1] /\ a[2] = ab[2]
    BY <1>2, <2>1
  <2> QED BY <1>3, <1>4, <2>2 DEF BeginsErased
<1>5. CASE Len(a) = 1
  <2>1. 1 \in 1..Len(a) /\ 1 \in 1..Len(b) /\ Len(a) + 1 = 2 /\ b # <<>>
    BY <1>1, <1>2, <1>3, <1>5
  <2>2. a[1] = Escape /\ b[1] = LineEnding
    BY <1>2, <1>3, <2>1
  <2>3. a = <<Escape>>
    BY <1>5, <2>2 DEF Text
  <2> QED BY <2>1, <2>2, <2>3
<1>6. Len(a) > 1 \/ Len(a) = 1
  BY <1>1
<1> QED BY <1>4, <1>5, <1>6

LEMMA MandatoryBegins ==
  ASSUME NEW t \in Text, NEW first \in BOOLEAN, BeginsErased(AddMandatoryEscapeCharacters(t, first))
  PROVE  BeginsErased(t)
<1> DEFINE M(u) == AddMandatoryEscapeCharacters(u, first)
           c == t[1]
<1>1. t # <<>>
  <2>1. Len(<<>>) = 0 /\ ~(0 > 1)
    OBVIOUS
  <2> QED BY <2>1, MandatoryNothing DEF BeginsErased
<1>2. PICK r \in Text : c \in Character /\ t = <<c>> \o r
  BY <1>1, FirstFacts
<1> DEFINE d == <<c>>
<1>3. M(t)[1] = Escape /\ M(t)[2] = LineEnding
  BY DEF BeginsErased
<1>4. c = Escape
  <2>1. M(t)[1] = c \/ M(t)[2] \in {ValueEnd, Separator}
    BY <1>1, FirstOfMandatory
  <2> HIDE DEF M, c
  <2> QED BY <1>3, <2>1, CharactersDiffer
<1>5. d \in Text /\ M(d) = d /\ d # <<>> /\ Len(d) = 1 /\ d[1] = c /\ M(r) \in Text
  <2>1. MandatoryBlock(c, first) = d
    BY <1>4, CharactersDiffer DEF MandatoryBlock
  <2>2. d \in Text /\ M(d) = MandatoryBlock(c, first) /\ M(r) \in Text
    BY <1>2, OneIsText, MandatoryOne, MandatoryIsText
  <2>3. d # <<>> /\ Len(d) = 1 /\ d[1] = c
    <3> HIDE DEF c
    <3> QED OBVIOUS
  <2> QED BY <2>1, <2>2, <2>3
<1> HIDE DEF d
<1>6. M(t) = d \o M(r)
  <2>1. t = d \o r
    BY <1>2 DEF d
  <2>2. M(d \o r) = M(d) \o M(r)
    BY <1>2, <1>5, MandatoryJoin
  <2> QED BY <1>5, <2>1, <2>2
<1> HIDE DEF M
<1>7. Len(M(t)) > 1 /\ BeginsErased(d \o M(r))
  BY <1>6 DEF M, BeginsErased
<1>8. ~BeginsErased(d)
  BY <1>5 DEF BeginsErased
<1>9. M(r) # <<>> /\ M(r)[1] = LineEnding
  BY <1>5, <1>7, <1>8, JoinBegins
<1>10. r # <<>>
  BY <1>9, MandatoryNothing DEF M
<1>11. r[1] = LineEnding
  <2>1. M(r)[1] = r[1] \/ M(r)[1] = Escape
    BY <1>10, FirstOfMandatory DEF M
  <2> QED BY <1>9, <2>1, CharactersDiffer
<1>12. Len(t) > 1 /\ t[2] = LineEnding
  <2>1. Len(r) \in Nat /\ Len(r) # 0
    BY <1>10, TextFacts
  <2>2. 1 \in 1..Len(r)
    BY <2>1
  <2>3. Len(d \o r) = 1 + Len(r) /\ (d \o r)[1 + 1] = r[1]
    <3>1. Len(d \o r) = Len(d) + Len(r) /\ \A i \in 1..Len(r) : (d \o r)[Len(d) + i] = r[i]
      BY <1>2, <1>5, JoinFacts
    <3> QED BY <1>5, <2>2, <3>1
  <2> QED BY <1>2, <1>11, <2>1, <2>3 DEF d
<1> QED BY <1>4, <1>12 DEF BeginsErased

(* SGFC leaves something of a text.                                        *)
LEMMA ReadNotEmpty ==
  ASSUME NEW t \in Text, t # <<>>, ~IsOpen(t), ~BeginsErased(t), NEW type
  PROVE  ReadText(t, type) # <<>>
<1> DEFINE n == Len(t)
           E == EscapedIn(t)
           s == ReadCharacters(t, E, type)
<1>1. n \in Nat \ {0} /\ 1 \in 1..n
  BY TextFacts
<1>2. \A i \in 1..n : s[i] = ReadCharacter(t, E, i, type) /\ s[i] \in Text
  BY ReadCharactersAreTexts
<1>3. 1 \notin E
  <2>1. ~(1 > 1)
    OBVIOUS
  <2> QED BY <1>1, <2>1, EscapedIs
<1>4. \E k \in 1..n : s[k] # <<>>
  <2>1. CASE t[1] # Escape
    <3>1. s[1] = ReadCharacter(t, E, 1, type)
      BY <1>1, <1>2
    <3> HIDE DEF s
    <3>2. s[1] # <<>>
      BY <1>3, <2>1, <3>1 DEF ReadCharacter, ReadUnescaped
    <3> QED BY <1>1, <3>2
  <2>2. CASE t[1] = Escape
    <3>1. n # 1
      BY <1>3, <2>2 DEF IsOpen
    <3>2. 2 \in 1..n /\ 2 > 1 /\ 2 - 1 = 1 /\ n > 1
      <4> HIDE DEF n
      <4> QED BY <1>1, <3>1
    <3>3. 2 \in E
      BY <1>3, <2>2, <3>2, EscapedIs
    <3>4. t[2] # LineEnding
      BY <2>2, <3>2 DEF BeginsErased
    <3>5. s[2] = ReadCharacter(t, E, 2, type)
      BY <1>2, <3>2
    <3> HIDE DEF s
    <3>6. s[2] # <<>>
      BY <3>3, <3>4, <3>5 DEF ReadCharacter, ReadEscaped
    <3> QED BY <3>2, <3>6
  <2> QED BY <2>1, <2>2
<1>5. PICK k \in 1..n : s[k] # <<>>
  BY <1>4
<1> DEFINE m == n - k
           r == [i \in 1..m |-> s[k + i]]
<1>6. k \in Nat \ {0} /\ m \in Nat /\ n = k + m /\ (\A i \in 1..k : i \in 1..n) /\ \A i \in 1..m : k + i \in 1..n
  BY <1>1, <1>5
<1>7. \A i \in 1..m : s[k + i] = r[i] /\ r[i] \in Text
  BY <1>2, <1>6
<1> HIDE DEF n, E, s, m, r
<1>8. BeginsWith(s, s, k) /\ ContinuesWith(s, k, r, m)
  BY <1>2, <1>6, <1>7 DEF BeginsWith, ContinuesWith
<1>9. Flat(s, n) = Flat(s, k) \o Flat(r, m)
  BY <1>6, <1>8, FlatJoin
<1>10. Flat(s, k) \in Text /\ Flat(r, m) \in Text /\ Flat(s, k) # <<>>
  <2>1. \A i \in 1..k : s[i] \in Text
    BY <1>2, <1>6
  <2> QED BY <1>5, <1>6, <1>7, <2>1, FlatIsText, LastOfFlat
<1>11. Flat(s, n) # <<>>
  BY <1>9, <1>10, JoinFacts
<1> QED BY <1>11 DEF ReadText, n, s, E

-----------------------------------------------------------------------------
(* The descriptors.                                                        *)

LEMMA DescriptorsAre ==
  ASSUME NEW g
  PROVE  /\ ValueTypeDescriptor("KO", g) = Basic("None")
         /\ ValueTypeDescriptor("MN", g) = Basic("Number")
         /\ ValueTypeDescriptor("V", g) = Basic("Real")
         /\ ValueTypeDescriptor("PL", g) = Basic("Color")
         /\ ValueTypeDescriptor("DM", g) = Basic("Double")
         /\ ValueTypeDescriptor("C", g) = Basic("Text")
         /\ ValueTypeDescriptor("N", g) = Basic("SimpleText")
         /\ ValueTypeDescriptor("B", g) = Basic("Move")
         /\ ValueTypeDescriptor("EX", g) = Basic("Move")
         /\ ValueTypeDescriptor("AB", g) = ListOf(Basic("Stone"))
         /\ ValueTypeDescriptor("AE", g) = ListOf(Basic("Point"))
         /\ ValueTypeDescriptor("DD", g) = ElistOf(Basic("Point"))
         /\ ValueTypeDescriptor("AP", g) = Composed("SimpleText", "SimpleText")
         /\ ValueTypeDescriptor("LB", g) = ListOf(Composed("Point", "SimpleText"))
         /\ ValueTypeDescriptor("AR", g) = ListOf(Composed("Point", "Point"))
         /\ ValueTypeDescriptor("SZ", g) = Dual("Number", "Number", "Number")
         /\ ValueTypeDescriptor("FG", g) = Dual("None", "Number", "SimpleText")
         /\ ValueTypeDescriptor("SE", g) = IF g = "LinesOfAction" THEN Basic("Point") ELSE ListOf(Basic("Point"))
         /\ ValueTypeDescriptor("HA", g) = IF g = "Go" THEN Basic("Number") ELSE Basic(UnknownType)
         /\ ValueTypeDescriptor("TB", g) = IF g = "Go" THEN ElistOf(Basic("Point")) ELSE Basic(UnknownType)
         /\ ValueTypeDescriptor(UnknownType, g) = Basic(UnknownType)
<1>1. UnknownType = "Unknown"
  BY DEF UnknownType
<1>2. /\ ValueTypeDescriptor("KO", g) = Basic("None")
      /\ ValueTypeDescriptor("MN", g) = Basic("Number")
      /\ ValueTypeDescriptor("V", g) = Basic("Real")
      /\ ValueTypeDescriptor("PL", g) = Basic("Color")
      /\ ValueTypeDescriptor("DM", g) = Basic("Double")
      /\ ValueTypeDescriptor("C", g) = Basic("Text")
      /\ ValueTypeDescriptor("N", g) = Basic("SimpleText")
      /\ ValueTypeDescriptor("B", g) = Basic("Move")
      /\ ValueTypeDescriptor("EX", g) = Basic("Move")
  BY DEF ValueTypeDescriptor, GameInfoTypes
<1>3. /\ ValueTypeDescriptor("AB", g) = ListOf(Basic("Stone"))
      /\ ValueTypeDescriptor("AE", g) = ListOf(Basic("Point"))
      /\ ValueTypeDescriptor("DD", g) = ElistOf(Basic("Point"))
      /\ ValueTypeDescriptor("AP", g) = Composed("SimpleText", "SimpleText")
      /\ ValueTypeDescriptor("LB", g) = ListOf(Composed("Point", "SimpleText"))
      /\ ValueTypeDescriptor("AR", g) = ListOf(Composed("Point", "Point"))
      /\ ValueTypeDescriptor("SZ", g) = Dual("Number", "Number", "Number")
      /\ ValueTypeDescriptor("FG", g) = Dual("None", "Number", "SimpleText")
      /\ ValueTypeDescriptor("SE", g) = IF g = "LinesOfAction" THEN Basic("Point") ELSE ListOf(Basic("Point"))
  BY DEF ValueTypeDescriptor, GameInfoTypes
<1>4. /\ ValueTypeDescriptor("HA", g) = IF g = "Go" THEN Basic("Number") ELSE Basic(UnknownType)
      /\ ValueTypeDescriptor("TB", g) = IF g = "Go" THEN ElistOf(Basic("Point")) ELSE Basic(UnknownType)
      /\ ValueTypeDescriptor("Unknown", g) = Basic(UnknownType)
  BY DEF ValueTypeDescriptor, GameInfoTypes
<1> QED BY <1>1, <1>2, <1>3, <1>4

Has(D, kind, single, type1, type2) ==
  D.kind = kind /\ D.single = single /\ D.parts = <<type1, type2>> /\ D.parts[1] = type1 /\ D.parts[2] = type2

LEMMA ShapesHave ==
  /\ \A type : /\ Has(Basic(type), "basic", type, Nothing, Nothing)
               /\ Has(ListOf(Basic(type)), "list", type, Nothing, Nothing)
               /\ Has(ElistOf(Basic(type)), "elist", type, Nothing, Nothing)
  /\ \A type1, type2 : /\ Has(Composed(type1, type2), "composed", Nothing, type1, type2)
                       /\ Has(ListOf(Composed(type1, type2)), "list", Nothing, type1, type2)
  /\ \A type, type1, type2 : Has(Dual(type, type1, type2), "dual", type, type1, type2)
BY DEF Has, Basic, ListOf, ElistOf, Composed, Dual

LEMMA NothingDiffers ==
  /\ Nothing \notin {"None", "Number", "Real", "Double", "Color", "Text", "SimpleText", "Point", "Move", "Stone", "Unknown"}
  /\ UnknownType = "Unknown"
BY Zenon DEF Nothing, UnknownType

(* The descriptors of the types that stand for all, in Go and in others.   *)
LEMMA DescriptorsHave ==
  ASSUME propertyType \in PropertyTypes, gameType \in PlayedGames, NEW D, D = Descriptor
  PROVE  \/ propertyType \in {"KO", "MN", "V", "PL", "DM", "C", "N"}
              /\ \E type \in {"None", "Number", "Real", "Color", "Double", "Text", "SimpleText"} :
                   Has(D, "basic", type, Nothing, Nothing)
         \/ propertyType \in {"B", "EX"} /\ Has(D, "basic", "Move", Nothing, Nothing)
         \/ Has(D, "list", "Point", Nothing, Nothing)
         \/ propertyType = "AB" /\ Has(D, "list", "Stone", Nothing, Nothing)
         \/ Has(D, "elist", "Point", Nothing, Nothing)
         \/ Has(D, "composed", Nothing, "SimpleText", "SimpleText")
         \/ Has(D, "list", Nothing, "Point", "SimpleText")
         \/ Has(D, "list", Nothing, "Point", "Point")
         \/ Has(D, "dual", "Number", "Number", "Number")
         \/ Has(D, "dual", "None", "Number", "SimpleText")
         \/ Has(D, "basic", "Point", Nothing, Nothing)
         \/ Has(D, "basic", "Number", Nothing, Nothing)
         \/ Has(D, "basic", "Unknown", Nothing, Nothing)
<1>1. D = ValueTypeDescriptor(propertyType, gameType)
  BY DEF Descriptor
<1>2. UnknownType = "Unknown"
  BY DEF UnknownType
<1>3. CASE propertyType \in {"KO", "MN", "V", "PL", "DM", "C", "N"}
  <2>1. \E type \in {"None", "Number", "Real", "Color", "Double", "Text", "SimpleText"} : D = Basic(type)
    BY <1>1, <1>3, DescriptorsAre
  <2> QED BY <1>3, <2>1, ShapesHave
<1>4. CASE propertyType \in {"B", "EX"}
  BY <1>1, <1>4, DescriptorsAre, ShapesHave
<1>5. CASE propertyType \in {"AB", "AE"}
  BY <1>1, <1>5, DescriptorsAre, ShapesHave
<1>6. CASE propertyType \in {"DD", "AP", "LB", "AR"}
  BY <1>1, <1>6, DescriptorsAre, ShapesHave
<1>7. CASE propertyType \in {"SZ", "FG"}
  BY <1>1, <1>7, DescriptorsAre, ShapesHave
<1>8. CASE propertyType = "SE"
  <2>1. D = Basic("Point") \/ D = ListOf(Basic("Point"))
    BY <1>1, <1>8, DescriptorsAre
  <2> QED BY <2>1, ShapesHave
<1>9. CASE propertyType \in {"HA", "TB"}
  <2>1. D = Basic("Number") \/ D = ElistOf(Basic("Point")) \/ D = Basic("Unknown")
    BY <1>1, <1>2, <1>9, DescriptorsAre
  <2> QED BY <2>1, ShapesHave
<1>10. CASE propertyType = UnknownType
  <2>1. D = Basic("Unknown")
    BY <1>1, <1>2, <1>10, DescriptorsAre
  <2> QED BY <2>1, ShapesHave
<1>11. propertyType \in {"KO", "MN", "V", "PL", "DM", "C", "N", "B", "EX", "AB", "AE", "DD", "AP", "LB", "AR",
                         "SZ", "FG", "SE", "HA", "TB", UnknownType}
  BY DEF PropertyTypes
<1> QED BY ONLY <1>3, <1>4, <1>5, <1>6, <1>7, <1>8, <1>9, <1>10, <1>11

(* A type of texts whose characters are all kept as they are, and one that *)
(* has none of those that have a meaning.                                  *)
IsStrict(type) == ~IsRaw(type) /\ type \notin TextTypes

LEMMA PartTypesAre ==
  ASSUME NEW D
  PROVE  /\ IsCompressible(D) <=> D.kind \in {"list", "elist"} /\ D.single \in {"Point", "Stone"}
         /\ IsCompressible(D) => PartTypes(D)[1] = D.single /\ PartTypes(D)[2] = D.single
         /\ ~IsCompressible(D) => PartTypes(D) = D.parts
BY DEF PartTypes, IsCompressible

LEMMA DescriptorFacts ==
  ASSUME propertyType \in PropertyTypes, gameType \in PlayedGames, NEW D, D = Descriptor
  PROVE  /\ D.single \in TextTypes => PartTypes(D)[1] = Nothing
         /\ D.single = UnknownType => PartTypes(D)[1] = Nothing /\ D.parts[1] = Nothing /\ D.kind = "basic"
         /\ D.kind = "elist" => IsCompressible(D) /\ D.single = "Point"
         /\ D.single = "None" => D.kind \notin {"list", "elist"}
         /\ gameType = "Go" /\ D.single \in {"Move", "Stone"} => HasColor(propertyType) \/ propertyType = "EX"
         /\ D.single = Nothing => PartTypes(D)[1] # Nothing
         /\ PartTypes(D)[1] # UnknownType /\ PartTypes(D)[2] # UnknownType
         /\ PartTypes(D)[1] = Nothing <=> PartTypes(D)[2] = Nothing
         /\ D.kind \in {"basic", "list", "elist", "composed", "dual"}
         /\ IsCompressible(D) => D.parts[1] = Nothing
<1>1. TextTypes = {"Text", "SimpleText"} /\ UnknownType = "Unknown"
  BY DEF TextTypes, UnknownType
<1>2. HasColor("B") /\ HasColor("AB")
  BY DEF HasColor
<1>3. /\ IsCompressible(D) <=> D.kind \in {"list", "elist"} /\ D.single \in {"Point", "Stone"}
      /\ IsCompressible(D) => PartTypes(D)[1] = D.single /\ PartTypes(D)[2] = D.single
      /\ ~IsCompressible(D) => PartTypes(D)[1] = D.parts[1] /\ PartTypes(D)[2] = D.parts[2]
  BY PartTypesAre
<1> QED BY <1>1, <1>2, <1>3, DescriptorsHave, NothingDiffers DEF Has

(* In a game but Go, a raw type has beside it none that is strict.         *)
LEMMA RawFacts ==
  ASSUME propertyType \in PropertyTypes, gameType \in PlayedGames, NEW D, D = Descriptor
  PROVE  /\ IsRaw(D.single) /\ PartTypes(D)[1] # Nothing => IsCompressible(D) /\ gameType # "Go"
         /\ \/ \A type \in {D.single, PartTypes(D)[1], PartTypes(D)[2]} : ~IsRaw(type)
            \/ \A type \in {D.single, PartTypes(D)[1], PartTypes(D)[2]} :
                 IsRaw(type) \/ type \in TextTypes \/ type = Nothing
<1>1. TextTypes = {"Text", "SimpleText"} /\ UnknownType = "Unknown"
  BY DEF TextTypes, UnknownType
<1>2. \A type : IsRaw(type) <=> type = "Unknown" \/ (type \in {"Point", "Move", "Stone"} /\ gameType # "Go")
  BY DEF IsRaw, RawTypes, UnknownType
<1>3. /\ IsCompressible(D) <=> D.kind \in {"list", "elist"} /\ D.single \in {"Point", "Stone"}
      /\ IsCompressible(D) => PartTypes(D)[1] = D.single /\ PartTypes(D)[2] = D.single
      /\ ~IsCompressible(D) => PartTypes(D)[1] = D.parts[1] /\ PartTypes(D)[2] = D.parts[2]
  BY PartTypesAre
<1> QED BY <1>1, <1>2, <1>3, DescriptorsHave, NothingDiffers DEF Has

-----------------------------------------------------------------------------
(* A value, and what is written for it between its brackets.               *)

(* A text of a value: any text, but for a strict type one without a        *)
(* character that means something to SGF.                                  *)
TextOK(t, type) == t \in Text /\ (IsStrict(type) => Plain(t))

(* A value of one text, and a value of two, as the property with           *)
(* descriptor D takes them.                                                *)
IsSingle(v, D) == v = <<v[1]>> /\ D.single \notin {Nothing, "None"} /\ TextOK(v[1], D.single)
IsPair(v, D) ==
  /\ v = <<v[1], v[2]>>
  /\ PartTypes(D)[1] # Nothing /\ (IsCompressible(D) => gameType # "Go")
  /\ TextOK(v[1], PartTypes(D)[1]) /\ TextOK(v[2], PartTypes(D)[2])
ValueOK(v, D) == IsSingle(v, D) \/ IsPair(v, D)

SingleBody(v, D) == EncodeSingleValue(v[1], D.single, FALSE)
PairBody(v, D) ==
  (EncodeSingleValue(v[1], PartTypes(D)[1], TRUE) \o <<Separator>>) \o EncodeSingleValue(v[2], PartTypes(D)[2], FALSE)
Body(v, D) == IF IsComposed(v) THEN PairBody(v, D) ELSE SingleBody(v, D)

LEMMA TuplesAre ==
  /\ \A x : Len(<<x>>) = 1 /\ <<x>>[1] = x /\ DOMAIN <<x>> = {1} /\ ~IsComposed(<<x>>)
  /\ \A x, y : /\ Len(<<x, y>>) = 2 /\ <<x, y>>[1] = x /\ <<x, y>>[2] = y /\ DOMAIN <<x, y>> = {1, 2}
               /\ IsComposed(<<x, y>>)
<1>1. \A x : Len(<<x>>) = 1 /\ <<x>>[1] = x /\ DOMAIN <<x>> = {1}
  OBVIOUS
<1>2. \A x, y : Len(<<x, y>>) = 2 /\ <<x, y>>[1] = x /\ <<x, y>>[2] = y /\ DOMAIN <<x, y>> = {1, 2}
  OBVIOUS
<1>3. \A x : ~IsComposed(<<x>>)
  BY <1>1 DEF IsComposed
<1>4. \A x, y : IsComposed(<<x, y>>)
  BY <1>2 DEF IsComposed
<1> QED BY <1>1, <1>2, <1>3, <1>4

LEMMA ShapeOfValue ==
  ASSUME NEW v, NEW D
  PROVE  /\ IsSingle(v, D) => ~IsComposed(v) /\ DOMAIN v = {1} /\ Body(v, D) = SingleBody(v, D) /\ TypesOf(v, D) = <<D.single>>
         /\ IsPair(v, D) => IsComposed(v) /\ DOMAIN v = {1, 2} /\ Body(v, D) = PairBody(v, D) /\ TypesOf(v, D) = PartTypes(D)
<1>1. ASSUME v = <<v[1]>> PROVE ~IsComposed(v) /\ DOMAIN v = {1}
  <2> DEFINE x == v[1]
  <2>1. v = <<x>>
    BY <1>1
  <2> HIDE DEF x
  <2> QED BY <2>1, TuplesAre
<1>2. ASSUME v = <<v[1], v[2]>> PROVE IsComposed(v) /\ DOMAIN v = {1, 2}
  <2> DEFINE x == v[1]
             y == v[2]
  <2>1. v = <<x, y>>
    BY <1>2
  <2> HIDE DEF x, y
  <2> QED BY <2>1, TuplesAre
<1> QED BY <1>1, <1>2 DEF IsSingle, IsPair, Body, TypesOf

LEMMA EncodedIs ==
  ASSUME NEW t, NEW type, NEW first \in BOOLEAN
  PROVE  /\ type \in TextTypes => EncodeSingleValue(t, type, first) = AddSimpleTextAndTextEscapeCharacters(t, first)
         /\ IsRaw(type) => EncodeSingleValue(t, type, first) = AddMandatoryEscapeCharacters(t, first)
         /\ IsStrict(type) => EncodeSingleValue(t, type, first) = t
         /\ type \in TextTypes \/ IsRaw(type) \/ IsStrict(type)
<1>1. type \in TextTypes => ~IsRaw(type)
  BY TypesDiffer
<1> QED BY <1>1 DEF EncodeSingleValue, IsStrict

LEMMA EncodeSingleIsText ==
  ASSUME NEW t \in Text, NEW type, NEW first \in BOOLEAN
  PROVE  EncodeSingleValue(t, type, first) \in Text
BY EncodedIs, EncodedIsText, MandatoryIsText

LEMMA WrittenValueIs ==
  ASSUME NEW v, NEW D, ValueOK(v, D)
  PROVE  EncodePropertyValue(v, D) = Wrapped(Body(v, D)) /\ Body(v, D) \in Text
<1>1. CASE IsSingle(v, D)
  <2>1. ~IsComposed(v) /\ Body(v, D) = SingleBody(v, D) /\ TypesOf(v, D) = <<D.single>> /\ v[1] \in Text
    BY <1>1, ShapeOfValue DEF IsSingle, TextOK
  <2>2. EncodePropertyValue(v, D) = (<<ValueBegin>> \o EncodeSingleValue(v[1], D.single, FALSE)) \o <<ValueEnd>>
    <3>1. TypesOf(v, D)[1] = D.single /\ ~IsComposed(v)
      BY <2>1, TuplesAre
    <3> QED BY ONLY <3>1 DEF EncodePropertyValue
  <2>3. SingleBody(v, D) \in Text
    BY <2>1, EncodeSingleIsText DEF SingleBody
  <2> QED BY <2>1, <2>2, <2>3 DEF Wrapped, SingleBody
<1>2. CASE IsPair(v, D)
  <2>1. IsComposed(v) /\ Body(v, D) = PairBody(v, D) /\ TypesOf(v, D) = PartTypes(D) /\ v[1] \in Text /\ v[2] \in Text
    BY <1>2, ShapeOfValue DEF IsPair, TextOK
  <2>2. EncodePropertyValue(v, D) = (<<ValueBegin>> \o PairBody(v, D)) \o <<ValueEnd>>
    BY <2>1 DEF EncodePropertyValue, PairBody
  <2>3. PairBody(v, D) \in Text
    <3> DEFINE y == <<Separator>>
               e == EncodeSingleValue(v[1], PartTypes(D)[1], TRUE)
               f == EncodeSingleValue(v[2], PartTypes(D)[2], FALSE)
    <3>1. e \in Text /\ f \in Text /\ y \in Text
      BY <2>1, EncodeSingleIsText, SomeCharacters, OneIsText
    <3> HIDE DEF e, f, y
    <3>2. e \o y \in Text
      BY <3>1, JoinFacts
    <3> DEFINE ey == e \o y
    <3>3. ey \o f \in Text
      <4> HIDE DEF ey
      <4> QED BY <3>1, <3>2, JoinFacts DEF ey
    <3> QED BY <3>3 DEF PairBody, e, f, y
  <2> QED BY <2>1, <2>2, <2>3 DEF Wrapped
<1> QED BY <1>1, <1>2 DEF ValueOK

LEMMA PlainIsSafe == ASSUME NEW t \in Text, Plain(t) PROVE IsSafe(t, TRUE) /\ Unescaped(t, Separator) = {}
<1>1. ~IsOpen(t)
  <2>1. t # <<>> => Len(t) \in 1..Len(t)
    BY TextFacts
  <2> QED BY <2>1 DEF IsOpen, Plain, Free
<1>2. Guarded(t, ValueEnd) /\ Guarded(t, Separator)
  BY DEF Guarded, Plain, Free
<1> QED BY <1>1, <1>2, UnescapedIs DEF IsSafe

LEMMA EncodedSingleIsSafe ==
  ASSUME NEW t, NEW type, TextOK(t, type), IsRaw(type) => HasNoBreakout(t), NEW first \in BOOLEAN
  PROVE  /\ IsSafe(EncodeSingleValue(t, type, first), FALSE)
         /\ first /\ (IsRaw(type) => Free(t, Escape)) => IsSafe(EncodeSingleValue(t, type, first), TRUE)
<1> DEFINE e == EncodeSingleValue(t, type, first)
<1>1. t \in Text
  BY DEF TextOK
<1>2. IsSafe(e, TRUE) => IsSafe(e, FALSE)
  BY DEF IsSafe
<1>3. CASE type \in TextTypes
  <2>1. e = AddSimpleTextAndTextEscapeCharacters(t, first)
    BY <1>3, EncodedIs
  <2>2. IsSafe(e, first)
    BY <1>1, <2>1, EncodedIsSafe
  <2> HIDE DEF e
  <2>3. IsSafe(e, FALSE)
    BY <2>2 DEF IsSafe
  <2>4. first => IsSafe(e, TRUE)
    BY <2>2
  <2> QED BY <2>3, <2>4 DEF e
<1>4. CASE IsRaw(type)
  <2>1. e = AddMandatoryEscapeCharacters(t, first)
    BY <1>4, EncodedIs
  <2>2. IsSafe(e, FALSE)
    BY <1>1, <1>4, <2>1, MandatoryIsSafe
  <2>3. ASSUME Free(t, Escape), first PROVE IsSafe(e, TRUE)
    <3>1. e = AddSimpleTextAndTextEscapeCharacters(t, TRUE)
      BY <1>1, <2>1, <2>3, EncodedWithoutEscapes
    <3> QED BY <1>1, <3>1, EncodedIsSafe
  <2> QED BY <1>4, <2>2, <2>3
<1>5. CASE IsStrict(type)
  <2>1. e = t /\ Plain(t)
    BY <1>5, EncodedIs DEF TextOK
  <2>2. IsSafe(t, TRUE)
    BY <1>1, <2>1, PlainIsSafe
  <2> QED BY <1>2, <2>1, <2>2
<1> QED BY <1>3, <1>4, <1>5, EncodedIs

(* No raw text of a value ends the value, or escapes the character that    *)
(* ends it.                                                                *)
NoBreakout(v, D) ==
  /\ IsSingle(v, D) /\ IsRaw(D.single) => HasNoBreakout(v[1])
  /\ IsPair(v, D) => /\ IsRaw(PartTypes(D)[1]) => HasNoBreakout(v[1])
                     /\ IsRaw(PartTypes(D)[2]) => HasNoBreakout(v[2])

LEMMA SeparatorIsSafe ==
  <<Separator>> \in Text /\ IsSafe(<<Separator>>, FALSE) /\ Len(<<Separator>>) = 1 /\ <<Separator>>[1] = Separator
  /\ <<Separator>> # <<>>
<1>1. Block(Separator, FALSE) = <<Separator>>
  BY CharactersDiffer DEF Block, MandatoryBlock
<1>2. IsSafe(<<Separator>>, FALSE)
  BY <1>1, SomeCharacters, BlockIsSafe
<1> QED BY <1>2, SomeCharacters, OneFacts, OneIsText

(* Two texts, the first of which does not escape what follows, are split.  *)
LEMMA PairIsSplit ==
  ASSUME NEW a \in Text, NEW b \in Text, ~IsOpen(a)
  PROVE  /\ (a \o <<Separator>>) \o b \in Text
         /\ Unescaped((a \o <<Separator>>) \o b, Separator) # {}
<1> DEFINE y == <<Separator>>
           ay == a \o y
           t == ay \o b
           k == Len(a) + 1
<1>1. y \in Text /\ Len(y) = 1 /\ y[1] = Separator /\ y # <<>>
  BY SeparatorIsSafe
<1>2. Len(a) \in Nat /\ Len(b) \in Nat /\ k \in Nat
  BY TextFacts
<1> HIDE DEF y
<1>3. ay \in Text /\ Len(ay) = k /\ ay[k] = Separator
  <2>1. /\ ay \in Text /\ Len(ay) = Len(a) + Len(y)
        /\ \A i \in 1..Len(y) : ay[Len(a) + i] = y[i]
    BY <1>1, JoinFacts
  <2>2. 1 \in 1..Len(y)
    BY <1>1
  <2> QED BY <1>1, <2>1, <2>2
<1>4. k \notin EscapedIn(ay)
  BY <1>1, EscapedInJoin
<1> HIDE DEF ay
<1>5. t \in Text /\ Len(t) = Len(ay) + Len(b) /\ \A i \in 1..Len(ay) : t[i] = ay[i]
  BY <1>3, JoinFacts
<1>6. \A i \in 1..Len(ay) : i \in EscapedIn(t) <=> i \in EscapedIn(ay)
  BY <1>3, EscapedInJoin
<1> HIDE DEF t
<1>7. k \in 1..Len(ay) /\ k \in 1..Len(t)
  BY <1>2, <1>3, <1>5
<1> HIDE DEF k
<1>8. t[k] = Separator /\ k \notin EscapedIn(t)
  BY <1>3, <1>4, <1>5, <1>6, <1>7
<1>9. Unescaped(t, Separator) # {}
  BY <1>5, <1>7, <1>8, UnescapedIs
<1> QED BY <1>5, <1>9 DEF t, ay, y

LEMMA BodyIsSafe ==
  ASSUME NEW v, NEW D, ValueOK(v, D), NoBreakout(v, D)
  PROVE  IsSafe(Body(v, D), FALSE)
<1>1. CASE IsSingle(v, D)
  <2>1. Body(v, D) = EncodeSingleValue(v[1], D.single, FALSE) /\ TextOK(v[1], D.single)
    BY <1>1, ShapeOfValue DEF IsSingle, SingleBody
  <2>2. IsRaw(D.single) => HasNoBreakout(v[1])
    BY <1>1 DEF NoBreakout
  <2>3. IsSafe(EncodeSingleValue(v[1], D.single, FALSE), FALSE)
    BY <2>1, <2>2, EncodedSingleIsSafe
  <2> QED BY <2>1, <2>3
<1>2. CASE IsPair(v, D)
  <2> DEFINE y == <<Separator>>
             e == EncodeSingleValue(v[1], PartTypes(D)[1], TRUE)
             f == EncodeSingleValue(v[2], PartTypes(D)[2], FALSE)
  <2>1. Body(v, D) = (e \o y) \o f /\ TextOK(v[1], PartTypes(D)[1]) /\ TextOK(v[2], PartTypes(D)[2])
    BY <1>2, ShapeOfValue DEF IsPair, PairBody
  <2>2. /\ IsRaw(PartTypes(D)[1]) => HasNoBreakout(v[1])
        /\ IsRaw(PartTypes(D)[2]) => HasNoBreakout(v[2])
    BY <1>2 DEF NoBreakout
  <2>3. IsSafe(e, FALSE) /\ IsSafe(f, FALSE)
    BY <2>1, <2>2, EncodedSingleIsSafe
  <2>4. IsSafe(y, FALSE)
    BY SeparatorIsSafe
  <2> HIDE DEF e, f, y
  <2>5. IsSafe(e \o y, FALSE)
    BY <2>3, <2>4, SafeJoin
  <2> DEFINE ey == e \o y
  <2>6. IsSafe(ey \o f, FALSE)
    <3> HIDE DEF ey
    <3> QED BY <2>3, <2>5, SafeJoin DEF ey
  <2> QED BY <2>1, <2>6
<1> QED BY <1>1, <1>2 DEF ValueOK

LEMMA PairBodyIsSplit ==
  ASSUME NEW v, NEW D, IsPair(v, D), NoBreakout(v, D)
  PROVE  IsSplit(Body(v, D), D) /\ Body(v, D) \in Text
<1> DEFINE y == <<Separator>>
           e == EncodeSingleValue(v[1], PartTypes(D)[1], TRUE)
           f == EncodeSingleValue(v[2], PartTypes(D)[2], FALSE)
<1>1. Body(v, D) = (e \o y) \o f /\ TextOK(v[1], PartTypes(D)[1]) /\ TextOK(v[2], PartTypes(D)[2]) /\ PartTypes(D)[1] # Nothing
  BY ShapeOfValue DEF IsPair, PairBody
<1>2. IsRaw(PartTypes(D)[1]) => HasNoBreakout(v[1])
  BY DEF NoBreakout
<1>3. IsSafe(e, FALSE)
  BY <1>1, <1>2, EncodedSingleIsSafe
<1>4. e \in Text /\ ~IsOpen(e)
  BY <1>3 DEF IsSafe
<1>5. f \in Text
  BY <1>1, EncodeSingleIsText DEF TextOK
<1> HIDE DEF e, f
<1>6. (e \o y) \o f \in Text /\ Unescaped((e \o y) \o f, Separator) # {}
  BY <1>4, <1>5, PairIsSplit
<1> QED BY <1>1, <1>6 DEF IsSplit

(* A single value is only split if it is one of two corners of a rectangle *)
(* and has a separator.                                                    *)
LEMMA SingleBodyIsSplit ==
  ASSUME propertyType \in PropertyTypes, gameType \in PlayedGames, NEW D, D = Descriptor,
         NEW v, IsSingle(v, D), IsSplit(Body(v, D), D)
  PROVE  IsCompressible(D) /\ gameType # "Go" /\ ~Free(v[1], Separator)
<1>1. Body(v, D) = EncodeSingleValue(v[1], D.single, FALSE) /\ TextOK(v[1], D.single) /\ v[1] \in Text
  BY ShapeOfValue DEF IsSingle, SingleBody, TextOK
<1>2. PartTypes(D)[1] # Nothing /\ Unescaped(Body(v, D), Separator) # {}
  BY DEF IsSplit
<1>3. D.single \notin TextTypes
  BY <1>2, DescriptorFacts
<1>4. ~IsStrict(D.single)
  <2>1. ASSUME IsStrict(D.single) PROVE FALSE
    <3>1. Body(v, D) = v[1] /\ Plain(v[1])
      BY <1>1, <2>1, EncodedIs DEF TextOK
    <3>2. Unescaped(v[1], Separator) = {}
      BY <1>1, <3>1, PlainIsSafe
    <3> QED BY <1>2, <3>1, <3>2
  <2> QED BY <2>1
<1>5. IsRaw(D.single)
  BY <1>3, <1>4, EncodedIs
<1>6. IsCompressible(D) /\ gameType # "Go"
  BY <1>2, <1>5, RawFacts
<1>7. ~Free(v[1], Separator)
  <2>1. ASSUME Free(v[1], Separator) PROVE FALSE
    <3> DEFINE e == AddMandatoryEscapeCharacters(v[1], FALSE)
    <3>1. Body(v, D) = e /\ e \in Text /\ Free(e, Separator)
      BY <1>1, <1>5, <2>1, EncodedIs, MandatoryIsText, MandatoryIsFree, CharactersDiffer
    <3> HIDE DEF e
    <3>2. Unescaped(e, Separator) = {}
      BY <3>1, UnescapedIs DEF Free
    <3> QED BY <1>2, <3>1, <3>2
  <2> QED BY <2>1
<1> QED BY <1>6, <1>7

(* What SGFC makes of a value.                                             *)
LEMMA ParsedIsSomeTexts ==
  ASSUME NEW t \in Text, NEW D
  PROVE  /\ IsSplit(t, D) => \E x \in Text : \E y \in Text : ParseValue(t, D) = <<x, y>>
         /\ ~IsSplit(t, D) => \E x \in Text : ParseValue(t, D) = <<x>>
         /\ IsComposed(ParseValue(t, D)) <=> IsSplit(t, D)
<1>1. ASSUME IsSplit(t, D)
      PROVE  \E x \in Text : \E y \in Text : ParseValue(t, D) = <<x, y>>
  <2>1. PICK m \in 1..Len(t) :
           /\ SubSeq(t, 1, m - 1) \in Text /\ SubSeq(t, m + 1, Len(t)) \in Text
           /\ ParseValue(t, D) = <<ReadText(SubSeq(t, 1, m - 1), PartTypes(D)[1]),
                                   ReadText(SubSeq(t, m + 1, Len(t)), PartTypes(D)[2])>>
    BY <1>1, ParseSplit
  <2>2. /\ ReadText(SubSeq(t, 1, m - 1), PartTypes(D)[1]) \in Text
        /\ ReadText(SubSeq(t, m + 1, Len(t)), PartTypes(D)[2]) \in Text
    BY <2>1, ReadTextIsText
  <2> QED BY <2>1, <2>2
<1>2. ASSUME ~IsSplit(t, D)
      PROVE  \E x \in Text : ParseValue(t, D) = <<x>>
  <2>1. ParseValue(t, D) = <<ReadText(t, SingleType(D))>> /\ ReadText(t, SingleType(D)) \in Text
    BY <1>2, ParseSingle, ReadTextIsText
  <2> QED BY <2>1
<1>3. IsComposed(ParseValue(t, D)) <=> IsSplit(t, D)
  BY <1>1, <1>2, TuplesAre
<1> QED BY <1>1, <1>2, <1>3

LEMMA ParsedValueFits ==
  ASSUME propertyType \in PropertyTypes, gameType \in PlayedGames, NEW D, D = Descriptor,
         NEW v, ValueOK(v, D), NoBreakout(v, D)
  PROVE  LET w == ParseValue(Body(v, D), D)
         IN  /\ ~HasMoveWithoutColor => Fits(w, D)
             /\ IsComposed(v) => IsComposed(w)
             /\ (IsCompressible(D) => Free(v[1], Separator)) => (IsComposed(w) => IsComposed(v))
<1> DEFINE t == Body(v, D)
           w == ParseValue(t, D)
<1>1. t \in Text
  BY WrittenValueIs
<1>2. IsComposed(w) <=> IsSplit(t, D)
  BY <1>1, ParsedIsSomeTexts
<1>3. IsPair(v, D) => IsComposed(v) /\ IsSplit(t, D)
  BY ShapeOfValue, PairBodyIsSplit
<1>4. IsSingle(v, D) => ~IsComposed(v) /\ (IsSplit(t, D) => IsCompressible(D) /\ gameType # "Go" /\ ~Free(v[1], Separator))
  <2>1. IsSingle(v, D) => ~IsComposed(v)
    BY ShapeOfValue
  <2> QED BY <2>1, SingleBodyIsSplit
<1> HIDE DEF t, w
<1>5. IsSingle(v, D) \/ IsPair(v, D)
  BY DEF ValueOK
<1>6. CASE IsComposed(w)
  <2>1. \/ IsCompressible(D) /\ gameType # "Go"
        \/ D.parts[1] # Nothing
    <3>1. CASE IsPair(v, D)
      BY <3>1, PartTypesAre DEF IsPair
    <3>2. CASE IsSingle(v, D)
      BY <1>2, <1>4, <1>6, <3>2
    <3> QED BY <1>5, <3>1, <3>2
  <2>2. Fits(w, D)
    BY <1>6, <2>1 DEF Fits
  <2> QED BY <1>2, <1>3, <1>4, <1>5, <1>6, <2>2 DEF t, w
<1>7. CASE ~IsComposed(w)
  <2>1. IsSingle(v, D)
    BY <1>2, <1>3, <1>5, <1>7
  <2>2. D.single # Nothing
    BY <2>1 DEF IsSingle
  <2>3. ~HasMoveWithoutColor => (gameType = "Go" /\ D.single \in {"Move", "Stone"} => HasColor(propertyType))
    BY DescriptorFacts DEF HasMoveWithoutColor
  <2>4. ~HasMoveWithoutColor => Fits(w, D)
    BY <1>7, <2>2, <2>3 DEF Fits
  <2> QED BY <1>4, <1>7, <2>1, <2>4 DEF t, w
<1> QED BY <1>6, <1>7

LEMMA PartBefore ==
  ASSUME NEW t \in Text, NEW m \in 1..Len(t), m # 1, m \notin EscapedIn(t)
  PROVE  LET p == SubSeq(t, 1, m - 1)
         IN  p \in Text /\ p # <<>> /\ ~IsOpen(p) /\ (BeginsErased(p) => BeginsErased(t))
<1> DEFINE n == m - 1
           p == SubSeq(t, 1, n)
<1>1. Len(t) \in Nat /\ n \in 1..Len(t) /\ n \in 0..Len(t) /\ n \in Nat /\ n # 0 /\ 1 <= n /\ m - 1 = n /\ m > 1
  BY TextFacts
<1> HIDE DEF n
<1>2. /\ p \in Text /\ Len(p) = n /\ \A i \in 1..n : p[i] = t[i]
  <2>1. 1 \in Nat \ {0} /\ n - 1 + 1 = n /\ \A i \in 1..n : 1 + i - 1 = i
    BY <1>1
  <2>2. /\ SubSeq(t, 1, n) \in Text /\ Len(SubSeq(t, 1, n)) = (IF 1 <= n THEN n - 1 + 1 ELSE 0)
        /\ \A i \in 1..(n - 1 + 1) : SubSeq(t, 1, n)[i] = t[1 + i - 1]
    BY <1>1, <2>1, SubTextFacts
  <2> QED BY <1>1, <2>1, <2>2
<1> HIDE DEF p
<1>3. p # <<>>
  BY <1>1, <1>2, TextFacts
<1>4. 1 \notin EscapedIn(t)
  <2>1. 1 \in 1..Len(t) /\ ~(1 > 1)
    BY <1>1
  <2> QED BY <2>1, EscapedIs
<1>5. \A i \in 1..Len(p) : i \in EscapedIn(t) <=> i \in EscapedIn(p)
  <2> DEFINE k == 0
  <2>1. k \in Nat /\ k + Len(p) <= Len(t) /\ k + 1 \notin EscapedIn(t) /\ \A i \in 1..Len(p) : k + i = i
    BY <1>1, <1>2, <1>4
  <2> HIDE DEF k
  <2>2. \A i \in 1..Len(p) : t[k + i] = p[i]
    BY <1>2, <2>1
  <2>3. \A i \in 1..Len(p) : k + i \in EscapedIn(t) <=> i \in EscapedIn(p)
    BY <1>2, <2>1, <2>2, EscapedInPart
  <2> QED BY <2>1, <2>3
<1>6. ~(t[n] = Escape /\ n \notin EscapedIn(t))
  <2>1. m \in EscapedIn(t) <=> m > 1 /\ t[m - 1] = Escape /\ m - 1 \notin EscapedIn(t)
    BY EscapedIs
  <2> QED BY <1>1, <2>1
<1>7. ~IsOpen(p)
  BY <1>1, <1>2, <1>5, <1>6 DEF IsOpen
<1>8. ASSUME BeginsErased(p) PROVE BeginsErased(t)
  <2>1. Len(p) > 1 /\ p[1] = Escape /\ p[2] = LineEnding
    BY <1>8 DEF BeginsErased
  <2>2. 1 \in 1..n /\ 2 \in 1..n /\ Len(t) > 1
    BY <1>1, <1>2, <2>1
  <2> QED BY <1>2, <2>1, <2>2 DEF BeginsErased
<1> QED BY <1>2, <1>3, <1>7, <1>8 DEF p, n

(* The first value of an elist that has one is not taken for none.         *)
LEMMA FirstOfElist ==
  ASSUME propertyType \in PropertyTypes, gameType \in PlayedGames, NEW D, D = Descriptor, D.kind = "elist",
         NEW v, ValueOK(v, D), NoBreakout(v, D), v[1] # <<>>, ~BeginsErased(v[1]),
         IsComposed(v) \/ Free(v[1], Separator)
  PROVE  ParseValue(Body(v, D), D)[1] # <<>>
<1> DEFINE t == Body(v, D)
<1>1. IsCompressible(D) /\ D.single = "Point" /\ PartTypes(D)[1] = "Point" /\ PartTypes(D)[2] = "Point"
  BY DescriptorFacts, PartTypesAre
<1>2. "Point" \notin TextTypes /\ (gameType # "Go" => IsRaw("Point")) /\ (IsRaw("Point") \/ IsStrict("Point"))
  <2>1. IsRaw("Point") <=> gameType # "Go"
    BY DEF IsRaw, RawTypes, UnknownType
  <2>2. "Point" \notin TextTypes
    BY DEF TextTypes
  <2> QED BY <2>1, <2>2 DEF IsStrict
<1>3. t \in Text /\ ~IsOpen(t)
  BY BodyIsSafe DEF IsSafe
<1>4. CASE IsSingle(v, D)
  <2>1. ~IsComposed(v) /\ t = EncodeSingleValue(v[1], "Point", FALSE) /\ v[1] \in Text
    BY <1>1, <1>4, ShapeOfValue DEF IsSingle, SingleBody, TextOK
  <2>2. ~IsSplit(t, D)
    BY <1>4, <2>1, SingleBodyIsSplit
  <2>3. t # <<>> /\ ~BeginsErased(t)
    <3>1. CASE IsRaw("Point")
      <4>1. t = AddMandatoryEscapeCharacters(v[1], FALSE)
        BY <2>1, <3>1, EncodedIs
      <4> HIDE DEF t
      <4> QED BY <2>1, <4>1, FirstOfMandatory, MandatoryBegins
    <3>2. CASE IsStrict("Point")
      BY <2>1, <3>2, EncodedIs
    <3> QED BY <1>2, <3>1, <3>2
  <2> HIDE DEF t
  <2>4. ParseValue(t, D) = <<ReadText(t, SingleType(D))>>
    BY <1>3, <2>2, ParseSingle
  <2>5. ReadText(t, SingleType(D)) # <<>>
    BY <1>3, <2>3, ReadNotEmpty
  <2> QED BY <2>4, <2>5, TuplesAre DEF t
<1>5. CASE IsPair(v, D)
  <2> DEFINE y == <<Separator>>
             e == AddMandatoryEscapeCharacters(v[1], TRUE)
             f == AddMandatoryEscapeCharacters(v[2], FALSE)
             ey == e \o y
  <2>1. /\ DOMAIN v = {1, 2} /\ v[1] \in Text /\ v[2] \in Text /\ gameType # "Go"
        /\ t = (EncodeSingleValue(v[1], "Point", TRUE) \o y) \o EncodeSingleValue(v[2], "Point", FALSE)
    BY <1>1, <1>5, ShapeOfValue DEF IsPair, PairBody, TextOK
  <2>2. t = ey \o f
    BY <1>2, <2>1, EncodedIs
  <2>3. e \in Text /\ f \in Text /\ e # <<>> /\ e[1] # Separator /\ ~BeginsErased(e)
    BY <2>1, MandatoryIsText, FirstOfMandatory, MandatoryBegins
  <2>4. y \in Text /\ y # <<>> /\ y[1] = Separator
    BY SeparatorIsSafe
  <2> HIDE DEF e, f, y
  <2>5. ey \in Text /\ ey # <<>> /\ ey[1] = e[1] /\ ~BeginsErased(ey) /\ ey # <<Escape>>
    <3>1. ey \in Text /\ ey # <<>> /\ ey[1] = e[1]
      BY <2>3, <2>4, JoinFacts, FirstOfJoin
    <3>2. ~BeginsErased(ey)
      BY <2>3, <2>4, JoinBegins, CharactersDiffer
    <3>3. Len(ey) # 1
      <4>1. Len(ey) = Len(e) + Len(y) /\ Len(e) \in Nat /\ Len(e) # 0 /\ Len(y) \in Nat /\ Len(y) # 0
        BY <2>3, <2>4, JoinFacts, TextFacts
      <4> QED BY <4>1
    <3>4. Len(<<Escape>>) = 1
      OBVIOUS
    <3> QED BY <3>1, <3>2, <3>3, <3>4
  <2> HIDE DEF ey
  <2>6. (ey \o f)[1] = e[1] /\ ~BeginsErased(ey \o f)
    BY <2>3, <2>5, FirstOfJoin, JoinBegins
  <2>8. IsSplit(t, D)
    BY <1>5, PairBodyIsSplit
  <2>9. t[1] # Separator /\ ~BeginsErased(t)
    BY <2>2, <2>3, <2>6
  <2> HIDE DEF t
  <2>10. PICK m \in 1..Len(t) :
           /\ t[m] = Separator /\ m \notin EscapedIn(t)
           /\ ParseValue(t, D) = <<ReadText(SubSeq(t, 1, m - 1), PartTypes(D)[1]),
                                   ReadText(SubSeq(t, m + 1, Len(t)), PartTypes(D)[2])>>
    BY <1>3, <2>8, ParseSplit
  <2>11. m # 1
    BY <2>9, <2>10
  <2> DEFINE p == SubSeq(t, 1, m - 1)
             q == ReadText(SubSeq(t, m + 1, Len(t)), PartTypes(D)[2])
  <2>12. p \in Text /\ p # <<>> /\ ~IsOpen(p) /\ ~BeginsErased(p)
    BY <1>3, <2>9, <2>10, <2>11, PartBefore
  <2>13. ParseValue(t, D) = <<ReadText(p, PartTypes(D)[1]), q>>
    BY <2>10
  <2> HIDE DEF p, q
  <2>14. ReadText(p, PartTypes(D)[1]) # <<>>
    BY <2>12, ReadNotEmpty
  <2> QED BY <2>13, <2>14, TuplesAre DEF t
<1> QED BY <1>4, <1>5 DEF ValueOK

-----------------------------------------------------------------------------
(* What the decoder makes of the values.                                   *)

LEMMA DecodedValueIs ==
  ASSUME NEW D, NEW x, NEW y
  PROVE  /\ DecodeValue(<<x>>, D) = <<DecodeSingleValue(x, D.single, FALSE, FALSE)>>
         /\ DecodeValue(<<x, y>>, D) = <<DecodeSingleValue(x, PartTypes(D)[1], TRUE, TRUE),
                                         DecodeSingleValue(y, PartTypes(D)[2], FALSE, TRUE)>>
<1>1. DecodeValue(<<x>>, D) = <<DecodeSingleValue(x, D.single, FALSE, FALSE)>>
  <2> DEFINE w == <<x>>
             T == <<D.single>>
  <2>1. DOMAIN w = {1} /\ w[1] = x /\ ~IsComposed(w) /\ T[1] = D.single
    BY TuplesAre
  <2>2. TypesOf(w, D) = T
    BY <2>1 DEF TypesOf
  <2> HIDE DEF w, T
  <2>3. DecodeValue(w, D) = [i \in {1} |-> DecodeSingleValue(w[i], T[i], IsComposed(w) /\ i = 1, IsComposed(w))]
    BY <2>1, <2>2 DEF DecodeValue
  <2>4. ASSUME NEW i \in {1}
        PROVE  DecodeSingleValue(w[i], T[i], IsComposed(w) /\ i = 1, IsComposed(w)) = DecodeSingleValue(x, D.single, FALSE, FALSE)
    <3>1. w[i] = x /\ T[i] = D.single /\ (IsComposed(w) /\ i = 1) = FALSE /\ IsComposed(w) = FALSE
      BY <2>1
    <3> QED BY ONLY <3>1
  <2> DEFINE d == DecodeSingleValue(x, D.single, FALSE, FALSE)
  <2>5. DecodeValue(w, D) = [i \in {1} |-> d]
    BY ONLY <2>3, <2>4
  <2> HIDE DEF d
  <2>6. [i \in {1} |-> d] = <<d>>
    OBVIOUS
  <2> QED BY <2>5, <2>6 DEF w, d
<1>2. DecodeValue(<<x, y>>, D) = <<DecodeSingleValue(x, PartTypes(D)[1], TRUE, TRUE),
                                   DecodeSingleValue(y, PartTypes(D)[2], FALSE, TRUE)>>
  <2> DEFINE w == <<x, y>>
             T == PartTypes(D)
             d == DecodeSingleValue(x, PartTypes(D)[1], TRUE, TRUE)
             e == DecodeSingleValue(y, PartTypes(D)[2], FALSE, TRUE)
  <2>1. DOMAIN w = {1, 2} /\ w[1] = x /\ w[2] = y /\ IsComposed(w)
    BY TuplesAre
  <2>2. TypesOf(w, D) = T
    BY <2>1 DEF TypesOf
  <2> HIDE DEF w, T
  <2>3. DecodeValue(w, D) = [i \in {1, 2} |-> DecodeSingleValue(w[i], T[i], IsComposed(w) /\ i = 1, IsComposed(w))]
    BY <2>1, <2>2 DEF DecodeValue
  <2>4. DecodeValue(w, D) = [i \in {1, 2} |-> IF i = 1 THEN d ELSE e]
    <3>1. ASSUME NEW i \in {1, 2}
          PROVE  DecodeSingleValue(w[i], T[i], IsComposed(w) /\ i = 1, IsComposed(w)) = IF i = 1 THEN d ELSE e
      <4>1. CASE i = 1
        <5>1. w[i] = x /\ T[i] = PartTypes(D)[1] /\ (IsComposed(w) /\ i = 1) = TRUE /\ IsComposed(w) = TRUE
          BY <2>1, <4>1 DEF T
        <5> QED BY ONLY <5>1, <4>1
      <4>2. CASE i = 2
        <5>1. w[i] = y /\ T[i] = PartTypes(D)[2] /\ (IsComposed(w) /\ i = 1) = FALSE /\ IsComposed(w) = TRUE
          BY <2>1, <4>2 DEF T
        <5>2. i # 1
          BY <4>2
        <5> QED BY ONLY <5>1, <5>2
      <4> QED BY <4>1, <4>2
    <3> HIDE DEF d, e
    <3> QED BY ONLY <2>3, <3>1
  <2> HIDE DEF d, e
  <2>5. [i \in {1, 2} |-> IF i = 1 THEN d ELSE e] = <<d, e>>
    OBVIOUS
  <2> QED BY <2>4, <2>5 DEF w, d, e
<1> QED BY <1>1, <1>2

(* A text of which nothing is lost: without escape characters of its own   *)
(* if it is written as it is, without an escaped line ending if it is a    *)
(* Text.                                                                   *)
TextKept(t, type) ==
  /\ IsRaw(type) => Free(t, Escape)
  /\ type = "Text" => ~HasPair(t, Escape, LineEnding)

LEMMA OneDecoded ==
  ASSUME NEW t, NEW type, TextOK(t, type), NEW first \in BOOLEAN, NEW composed \in BOOLEAN, first => composed,
         type = UnknownType => ~first
  PROVE  LET d == DecodeSingleValue(ReadText(EncodeSingleValue(t, type, first), type), type, first, composed)
         IN  /\ TextKept(t, type) => d = ReadAs(t, type)
             /\ ~IsRaw(type) => TextOK(d, type)
<1> DEFINE e == EncodeSingleValue(t, type, first)
           d == DecodeSingleValue(ReadText(e, type), type, first, composed)
<1>1. t \in Text /\ e \in Text /\ d \in Text
  <2>1. t \in Text
    BY DEF TextOK
  <2>2. e \in Text
    BY <2>1, EncodeSingleIsText
  <2> HIDE DEF e
  <2>3. ReadText(e, type) \in Text
    BY <2>2, ReadTextIsText
  <2>4. d \in Text
    BY <2>3, DecodedIsText
  <2> QED BY <2>1, <2>2, <2>4
<1>2. CASE type \in TextTypes
  <2>1. e = AddSimpleTextAndTextEscapeCharacters(t, first)
    BY <1>2, EncodedIs
  <2>2. TextKept(t, type) => d = ReadAs(t, type)
    BY <1>1, <1>2, <2>1, TextsAreDecoded DEF TextKept
  <2> HIDE DEF d
  <2>3. TextOK(d, type)
    BY <1>1, <1>2 DEF TextOK, IsStrict
  <2> QED BY <2>2, <2>3 DEF d
<1>3. CASE IsRaw(type)
  <2>1. e = AddMandatoryEscapeCharacters(t, first) /\ type \notin TextTypes
    BY <1>3, EncodedIs, TypesDiffer
  <2>2. TextKept(t, type) => d = ReadAs(t, type)
    BY <1>1, <1>3, <2>1, OthersAreDecoded DEF TextKept
  <2> QED BY <1>3, <2>2
<1>4. CASE IsStrict(type)
  <2>1. e = t /\ Plain(t) /\ ~IsRaw(type) /\ type \notin TextTypes
    BY <1>4, EncodedIs DEF TextOK, IsStrict
  <2>2. d = t /\ ReadAs(t, type) = t
    BY <1>1, <2>1, OthersAreDecoded
  <2> HIDE DEF d
  <2> QED BY <2>2 DEF d
<1> QED BY <1>2, <1>3, <1>4, EncodedIs

LEMMA FreeIsNoBreakout ==
  ASSUME NEW t \in Text, Free(t, Escape)
  PROVE  HasNoBreakout(t)
<1>1. Len(t) \in Nat /\ (t # <<>> => Len(t) \in 1..Len(t)) /\ \A i \in 1..(Len(t) - 1) : i \in 1..Len(t)
  BY TextFacts
<1> QED BY <1>1 DEF HasNoBreakout, HasPair, Free

LEMMA ParsedExactly ==
  ASSUME propertyType \in PropertyTypes, gameType \in PlayedGames, NEW D, D = Descriptor, NEW v
  PROVE  /\ /\ IsSingle(v, D) /\ (IsRaw(D.single) => Free(v[1], Escape))
            /\ IsCompressible(D) => Free(v[1], Separator)
            => ParseValue(Body(v, D), D) = <<ReadText(EncodeSingleValue(v[1], D.single, FALSE), D.single)>>
         /\ IsPair(v, D) /\ (IsRaw(PartTypes(D)[1]) => Free(v[1], Escape))
            => ParseValue(Body(v, D), D) =
                 <<ReadText(EncodeSingleValue(v[1], PartTypes(D)[1], TRUE), PartTypes(D)[1]),
                   ReadText(EncodeSingleValue(v[2], PartTypes(D)[2], FALSE), PartTypes(D)[2])>>
<1>1. ASSUME IsSingle(v, D), IsRaw(D.single) => Free(v[1], Escape), IsCompressible(D) => Free(v[1], Separator)
      PROVE  ParseValue(Body(v, D), D) = <<ReadText(EncodeSingleValue(v[1], D.single, FALSE), D.single)>>
  <2>1. Body(v, D) = EncodeSingleValue(v[1], D.single, FALSE) /\ D.single # Nothing /\ Body(v, D) \in Text
    BY <1>1, ShapeOfValue, EncodeSingleIsText DEF IsSingle, SingleBody, TextOK
  <2>2. ~IsSplit(Body(v, D), D)
    BY <1>1, SingleBodyIsSplit
  <2>3. SingleType(D) = D.single
    BY <2>1 DEF SingleType
  <2> QED BY <2>1, <2>2, <2>3, ParseSingle
<1>2. ASSUME IsPair(v, D), IsRaw(PartTypes(D)[1]) => Free(v[1], Escape)
      PROVE  ParseValue(Body(v, D), D) =
               <<ReadText(EncodeSingleValue(v[1], PartTypes(D)[1], TRUE), PartTypes(D)[1]),
                 ReadText(EncodeSingleValue(v[2], PartTypes(D)[2], FALSE), PartTypes(D)[2])>>
  <2> DEFINE e == EncodeSingleValue(v[1], PartTypes(D)[1], TRUE)
             f == EncodeSingleValue(v[2], PartTypes(D)[2], FALSE)
  <2>1. /\ Body(v, D) = (e \o <<Separator>>) \o f
        /\ TextOK(v[1], PartTypes(D)[1]) /\ v[1] \in Text /\ v[2] \in Text /\ PartTypes(D)[1] # Nothing
    BY <1>2, ShapeOfValue DEF IsPair, PairBody, TextOK
  <2>2. IsSafe(e, TRUE)
    BY <1>2, <2>1, EncodedSingleIsSafe, FreeIsNoBreakout
  <2>3. e \in Text /\ ~IsOpen(e) /\ Guarded(e, Separator)
    BY <2>2 DEF IsSafe
  <2>4. f \in Text
    BY <2>1, EncodeSingleIsText
  <2> HIDE DEF e, f
  <2>5. ParseValue((e \o <<Separator>>) \o f, D) = <<ReadText(e, PartTypes(D)[1]), ReadText(f, PartTypes(D)[2])>>
    BY <2>1, <2>3, <2>4, ParseComposed
  <2> QED BY <2>1, <2>5 DEF e, f
<1> QED BY <1>1, <1>2

(* A value whose texts are kept is read as it was written.                 *)
LEMMA ValueIsReadBack ==
  ASSUME propertyType \in PropertyTypes, gameType \in PlayedGames, NEW D, D = Descriptor, NEW v, ValueOK(v, D),
         \A i \in DOMAIN v : TextKept(v[i], TypesOf(v, D)[i]),
         ~IsComposed(v) /\ IsCompressible(D) => Free(v[1], Separator)
  PROVE  DecodeValue(ParseValue(Body(v, D), D), D) = [i \in DOMAIN v |-> ReadAs(v[i], TypesOf(v, D)[i])]
<1> DEFINE w == ParseValue(Body(v, D), D)
<1>1. CASE IsSingle(v, D)
  <2> DEFINE T == <<D.single>>
             x == ReadText(EncodeSingleValue(v[1], D.single, FALSE), D.single)
             r == ReadAs(v[1], D.single)
  <2>1. ~IsComposed(v) /\ DOMAIN v = {1} /\ TypesOf(v, D) = T /\ T[1] = D.single /\ TextOK(v[1], D.single)
    BY <1>1, ShapeOfValue, TuplesAre DEF IsSingle
  <2> HIDE DEF T
  <2>2. TextKept(v[1], D.single)
    BY <2>1
  <2>3. w = <<x>>
    BY <1>1, <2>1, <2>2, ParsedExactly DEF TextKept
  <2>4. DecodeSingleValue(x, D.single, FALSE, FALSE) = r
    BY <2>1, <2>2, OneDecoded
  <2> HIDE DEF w, x
  <2>5. DecodeValue(w, D) = <<r>>
    BY <2>3, <2>4, DecodedValueIs
  <2>6. [i \in DOMAIN v |-> ReadAs(v[i], TypesOf(v, D)[i])] = [i \in {1} |-> r]
    <3>1. \A i \in {1} : ReadAs(v[i], TypesOf(v, D)[i]) = r
      BY <2>1
    <3> HIDE DEF r
    <3> QED BY <2>1, <3>1
  <2> HIDE DEF r
  <2>7. [i \in {1} |-> r] = <<r>>
    OBVIOUS
  <2> QED BY <2>5, <2>6, <2>7 DEF w
<1>2. CASE IsPair(v, D)
  <2> DEFINE T == PartTypes(D)
             x == ReadText(EncodeSingleValue(v[1], T[1], TRUE), T[1])
             y == ReadText(EncodeSingleValue(v[2], T[2], FALSE), T[2])
             r == ReadAs(v[1], T[1])
             s == ReadAs(v[2], T[2])
  <2>1. DOMAIN v = {1, 2} /\ TypesOf(v, D) = T /\ TextOK(v[1], T[1]) /\ TextOK(v[2], T[2])
    BY <1>2, ShapeOfValue DEF IsPair
  <2>2. TextKept(v[1], T[1]) /\ TextKept(v[2], T[2])
    BY <2>1
  <2>3. w = <<x, y>>
    BY <1>2, <2>2, ParsedExactly DEF TextKept
  <2>4. T[1] # UnknownType
    BY DescriptorFacts
  <2> HIDE DEF T
  <2>5. DecodeSingleValue(x, T[1], TRUE, TRUE) = r
    BY <2>1, <2>2, <2>4, OneDecoded
  <2>6. DecodeSingleValue(y, T[2], FALSE, TRUE) = s
    BY <2>1, <2>2, OneDecoded
  <2> HIDE DEF w, x, y
  <2>7. DecodeValue(w, D) = <<r, s>>
    <3>1. DecodeValue(<<x, y>>, D) = <<DecodeSingleValue(x, T[1], TRUE, TRUE), DecodeSingleValue(y, T[2], FALSE, TRUE)>>
      BY DecodedValueIs DEF T
    <3> HIDE DEF r, s
    <3> QED BY ONLY <2>3, <2>5, <2>6, <3>1
  <2>8. [i \in DOMAIN v |-> ReadAs(v[i], TypesOf(v, D)[i])] = [i \in {1, 2} |-> IF i = 1 THEN r ELSE s]
    <3>1. \A i \in {1, 2} : ReadAs(v[i], TypesOf(v, D)[i]) = IF i = 1 THEN r ELSE s
      <4>1. ReadAs(v[1], TypesOf(v, D)[1]) = r /\ ReadAs(v[2], TypesOf(v, D)[2]) = s
        BY <2>1
      <4> HIDE DEF r, s
      <4> QED BY <4>1
    <3> HIDE DEF r, s
    <3> QED BY ONLY <2>1, <3>1
  <2> HIDE DEF r, s
  <2>9. [i \in {1, 2} |-> IF i = 1 THEN r ELSE s] = <<r, s>>
    OBVIOUS
  <2> QED BY <2>7, <2>8, <2>9 DEF w
<1> QED BY <1>1, <1>2 DEF ValueOK

-----------------------------------------------------------------------------
(* What was read can be written again.                                     *)

LEMMA DecodedValueOK ==
  ASSUME propertyType \in PropertyTypes, gameType \in PlayedGames, NEW D, D = Descriptor,
         \A type \in {D.single, PartTypes(D)[1], PartTypes(D)[2]} : ~IsStrict(type) \/ type = Nothing,
         NEW t \in Text, Fits(ParseValue(t, D), D), D.single = "None" => IsComposed(ParseValue(t, D))
  PROVE  ValueOK(DecodeValue(ParseValue(t, D), D), D)
<1> DEFINE w == ParseValue(t, D)
           S == D.single
           T == PartTypes(D)
<1>1. (\E x \in Text : \E y \in Text : w = <<x, y>>) \/ (\E x \in Text : w = <<x>>)
  BY ParsedIsSomeTexts
<1>2. CASE \E x \in Text : \E y \in Text : w = <<x, y>>
  <2>1. PICK x \in Text, y \in Text : w = <<x, y>>
    BY <1>2
  <2>2. IsComposed(w)
    BY <2>1, TuplesAre
  <2>3. T[1] # Nothing /\ T[2] # Nothing /\ (IsCompressible(D) => gameType # "Go")
    <3>1. D.parts[1] # Nothing \/ (IsCompressible(D) /\ gameType # "Go")
      BY <2>2 DEF Fits
    <3>2. D.single = Nothing => T[1] # Nothing
      BY DescriptorFacts
    <3>3. IsCompressible(D) => D.parts[1] = Nothing /\ T[1] = D.single /\ D.single \in {"Point", "Stone"}
      BY DescriptorFacts, PartTypesAre
    <3>4. ~IsCompressible(D) => T[1] = D.parts[1]
      BY PartTypesAre
    <3>5. T[1] = Nothing <=> T[2] = Nothing
      BY DescriptorFacts
    <3> HIDE DEF T
    <3> QED BY <3>1, <3>2, <3>3, <3>4, <3>5, NothingDiffers
  <2> DEFINE d == DecodeSingleValue(x, T[1], TRUE, TRUE)
             e == DecodeSingleValue(y, T[2], FALSE, TRUE)
             u == DecodeValue(w, D)
  <2>4. u = <<d, e>>
    BY <2>1, DecodedValueIs
  <2>5. d \in Text /\ e \in Text
    BY DecodedIsText
  <2>6. ~IsStrict(T[1]) /\ ~IsStrict(T[2])
    BY <2>3
  <2> HIDE DEF d, e, u, T
  <2>7. u[1] = d /\ u[2] = e
    BY <2>4, TuplesAre
  <2>8. IsPair(u, D)
    BY <2>3, <2>4, <2>5, <2>6, <2>7 DEF IsPair, TextOK, T
  <2> QED BY <2>8 DEF ValueOK, u
<1>3. CASE \E x \in Text : w = <<x>>
  <2>1. PICK x \in Text : w = <<x>>
    BY <1>3
  <2>2. ~IsComposed(w)
    BY <2>1, TuplesAre
  <2>3. S # Nothing /\ S # "None"
    BY <2>2 DEF Fits
  <2> DEFINE d == DecodeSingleValue(x, S, FALSE, FALSE)
             u == DecodeValue(w, D)
  <2>4. u = <<d>>
    BY <2>1, DecodedValueIs
  <2>5. d \in Text
    BY DecodedIsText
  <2>6. ~IsStrict(S)
    BY <2>3
  <2> HIDE DEF d, u
  <2>7. u[1] = d
    BY <2>4, TuplesAre
  <2>8. IsSingle(u, D)
    BY <2>3, <2>4, <2>5, <2>6, <2>7 DEF IsSingle, TextOK
  <2> QED BY <2>8 DEF ValueOK, u
<1> QED BY <1>1, <1>2, <1>3

LEMMA StrictValueOK ==
  ASSUME propertyType \in PropertyTypes, gameType \in PlayedGames, NEW D, D = Descriptor,
         \A type \in {D.single, PartTypes(D)[1], PartTypes(D)[2]} : ~IsRaw(type),
         NEW v, ValueOK(v, D)
  PROVE  ValueOK(DecodeValue(ParseValue(Body(v, D), D), D), D)
<1> DEFINE w == ParseValue(Body(v, D), D)
           u == DecodeValue(w, D)
<1>1. CASE IsSingle(v, D)
  <2> DEFINE x == ReadText(EncodeSingleValue(v[1], D.single, FALSE), D.single)
             d == DecodeSingleValue(x, D.single, FALSE, FALSE)
  <2>1. TextOK(v[1], D.single) /\ D.single \notin {Nothing, "None"} /\ ~IsRaw(D.single)
    BY <1>1 DEF IsSingle
  <2>2. IsCompressible(D) => Free(v[1], Separator)
    <3>1. IsCompressible(D) => D.single \in {"Point", "Stone"}
      BY PartTypesAre
    <3>2. IsCompressible(D) => IsStrict(D.single)
      BY <2>1, <3>1 DEF IsStrict, TextTypes
    <3> QED BY <2>1, <3>2 DEF TextOK, Plain
  <2>3. w = <<x>>
    BY <1>1, <2>1, <2>2, ParsedExactly
  <2>4. TextOK(d, D.single)
    BY <2>1, OneDecoded
  <2> HIDE DEF w, x
  <2>5. u = <<d>>
    BY <2>3, DecodedValueIs
  <2> HIDE DEF d, u
  <2>6. u[1] = d
    BY <2>5, TuplesAre
  <2>7. IsSingle(u, D)
    BY <2>1, <2>4, <2>5, <2>6 DEF IsSingle
  <2> QED BY <2>7 DEF ValueOK, u, w
<1>2. CASE IsPair(v, D)
  <2> DEFINE T == PartTypes(D)
             x == ReadText(EncodeSingleValue(v[1], T[1], TRUE), T[1])
             y == ReadText(EncodeSingleValue(v[2], T[2], FALSE), T[2])
             d == DecodeSingleValue(x, T[1], TRUE, TRUE)
             e == DecodeSingleValue(y, T[2], FALSE, TRUE)
  <2>1. TextOK(v[1], T[1]) /\ TextOK(v[2], T[2]) /\ ~IsRaw(T[1]) /\ ~IsRaw(T[2])
    BY <1>2 DEF IsPair
  <2>2. w = <<x, y>>
    BY <1>2, <2>1, ParsedExactly
  <2>3. T[1] # UnknownType
    BY DescriptorFacts
  <2> HIDE DEF T
  <2>4. TextOK(d, T[1]) /\ TextOK(e, T[2])
    BY <2>1, <2>3, OneDecoded
  <2> HIDE DEF w, x, y
  <2>5. u = <<d, e>>
    BY <2>2, DecodedValueIs DEF T
  <2> HIDE DEF d, e, u
  <2>6. u[1] = d /\ u[2] = e
    BY <2>5, TuplesAre
  <2>7. IsPair(u, D)
    BY <1>2, <2>4, <2>5, <2>6 DEF IsPair, T
  <2> QED BY <2>7 DEF ValueOK, u, w
<1> QED BY <1>1, <1>2 DEF ValueOK

-----------------------------------------------------------------------------
(* The values of a property.                                               *)

(* The values of a property: each fits its descriptor, none are only in an *)
(* elist or in a property that takes none, several only in a list.         *)
ValuesOK(vs, D) ==
  /\ vs \in Seq(Seq(Text))
  /\ \A k \in 1..Len(vs) : ValueOK(vs[k], D)
  /\ vs = <<>> => D.kind = "elist" \/ D.single = "None"
  /\ Len(vs) > 1 => D.kind \in {"list", "elist"} \/ D.single = UnknownType

LEMMA ValuesAre ==
  ASSUME NEW vs, NEW D, ValuesOK(vs, D)
  PROVE  Len(vs) \in Nat /\ DOMAIN vs = 1..Len(vs) /\ (vs = <<>> <=> Len(vs) = 0)
BY DEF ValuesOK

Bodies(vs, D) == [k \in 1..Len(vs) |-> Body(vs[k], D)]
Writings(vs, D) == [k \in 1..Len(vs) |-> Wrapped(Body(vs[k], D))]

LEMMA WrittenIs ==
  ASSUME NEW D, ValuesOK(values, D)
  PROVE  /\ values # <<>> => EncodeProperty(D) = Flat(Writings(values, D), Len(values))
         /\ values = <<>> => EncodeProperty(D) = Wrapped(<<>>)
         /\ \A k \in 1..Len(values) : /\ Writings(values, D)[k] = Wrapped(Bodies(values, D)[k])
                                      /\ Bodies(values, D)[k] = Body(values[k], D)
                                      /\ Body(values[k], D) \in Text
<1>1. Len(values) \in Nat /\ DOMAIN values = 1..Len(values)
  BY ValuesAre
<1>2. \A k \in 1..Len(values) : ValueOK(values[k], D)
  BY DEF ValuesOK
<1>3. \A k \in 1..Len(values) : EncodePropertyValue(values[k], D) = Wrapped(Body(values[k], D)) /\ Body(values[k], D) \in Text
  BY <1>2, WrittenValueIs
<1>4. \A k \in 1..Len(values) : /\ Writings(values, D)[k] = Wrapped(Body(values[k], D))
                                /\ Bodies(values, D)[k] = Body(values[k], D)
  BY DEF Writings, Bodies
<1>5. ASSUME values # <<>> PROVE EncodeProperty(D) = Flat(Writings(values, D), Len(values))
  <2>1. EncodeProperty(D) = FlattenSeq([k \in 1..Len(values) |-> EncodePropertyValue(values[k], D)])
    BY <1>1, <1>5 DEF EncodeProperty
  <2>2. [k \in 1..Len(values) |-> EncodePropertyValue(values[k], D)] = [k \in 1..Len(values) |-> Writings(values, D)[k]]
    BY ONLY <1>3, <1>4
  <2> QED BY <2>1, <2>2 DEF Flat
<1>6. ASSUME values = <<>> PROVE EncodeProperty(D) = Wrapped(<<>>)
  <2>1. EncodeProperty(D) = <<ValueBegin, ValueEnd>>
    BY <1>6 DEF EncodeProperty
  <2>2. <<ValueBegin, ValueEnd>> = <<ValueBegin>> \o <<ValueEnd>>
    BY TwoFacts, SomeCharacters
  <2> DEFINE x == <<ValueBegin>>
  <2>3. x \o <<>> = x
    <3>1. x \in Text
      BY OneIsText, SomeCharacters
    <3> HIDE DEF x
    <3> QED BY <3>1, TextFacts
  <2> QED BY <2>1, <2>2, <2>3 DEF Wrapped
<1> QED BY <1>3, <1>4, <1>5, <1>6

LEMMA WrappedIsText == \A b \in Text : Wrapped(b) \in Text
<1> TAKE b \in Text
<1> DEFINE x == <<ValueBegin>>
           y == <<ValueEnd>>
           xb == x \o b
<1>1. x \in Text /\ y \in Text
  BY OneIsText, SomeCharacters
<1> HIDE DEF x, y
<1>2. xb \in Text
  BY <1>1, JoinFacts
<1> HIDE DEF xb
<1>3. xb \o y \in Text
  BY <1>1, <1>2, JoinFacts
<1>4. Wrapped(b) = xb \o y
  BY DEF Wrapped, xb, x, y
<1> QED BY <1>3, <1>4

LEMMA WrittenIsText == ASSUME NEW D, ValuesOK(values, D) PROVE EncodeProperty(D) \in Text
<1> DEFINE n == Len(values)
           s == Writings(values, D)
<1>1. n \in Nat
  BY ValuesAre
<1>2. CASE values = <<>>
  <2>1. EncodeProperty(D) = Wrapped(<<>>) /\ <<>> \in Text
    BY <1>2, WrittenIs, OneIsText, SomeCharacters
  <2> QED BY <2>1, WrappedIsText
<1>3. CASE values # <<>>
  <2>1. EncodeProperty(D) = Flat(s, n)
    BY <1>3, WrittenIs
  <2>2. \A k \in 1..n : s[k] = Wrapped(Body(values[k], D)) /\ Body(values[k], D) \in Text
    BY WrittenIs
  <2>3. \A k \in 1..n : s[k] \in Text
    BY <2>2, WrappedIsText
  <2> HIDE DEF s, n
  <2>4. Flat(s, n) \in Text
    BY <1>1, <2>3, FlatIsText
  <2> QED BY <2>1, <2>4
<1> QED BY <1>2, <1>3

(* Without an escape character that breaks out of its value, a property is *)
(* parsed as the values that were written.                                 *)
LEMMA ParsedProperty ==
  ASSUME NEW D, ValuesOK(values, D), \A k \in 1..Len(values) : NoBreakout(values[k], D),
         NEW P, P = Parse(EncodeProperty(D), D)
  PROVE  /\ P.intact
         /\ values # <<>> => P.values = [k \in 1..Len(values) |-> ParseValue(Body(values[k], D), D)]
         /\ values = <<>> => \E w : P.values = [k \in 1..1 |-> w] /\ ~IsComposed(w) /\ w[1] = <<>>
<1> DEFINE n == Len(values)
           c == Bodies(values, D)
           s == Writings(values, D)
<1>1. n \in Nat /\ (values = <<>> <=> n = 0)
  BY ValuesAre
<1>2. CASE values # <<>>
  <2>1. EncodeProperty(D) = Flat(s, n)
    BY <1>2, WrittenIs
  <2>2. \A k \in 1..n : s[k] = Wrapped(c[k]) /\ c[k] = Body(values[k], D) /\ Body(values[k], D) \in Text
    BY WrittenIs
  <2>3. ASSUME NEW k \in 1..n PROVE c[k] \in Text /\ ~IsOpen(c[k]) /\ Guarded(c[k], ValueEnd)
    <3>1. ValueOK(values[k], D) /\ NoBreakout(values[k], D)
      BY DEF ValuesOK
    <3>2. IsSafe(Body(values[k], D), FALSE)
      BY <3>1, BodyIsSafe
    <3> QED BY <2>2, <3>2 DEF IsSafe
  <2>4. n \in Nat \ {0}
    BY <1>1, <1>2
  <2> HIDE DEF n, c, s
  <2>5. /\ Parse(Flat(s, n), D).intact
        /\ Parse(Flat(s, n), D).values = [k \in 1..n |-> ParseValue(c[k], D)]
    BY <2>2, <2>3, <2>4, ParseOfValues
  <2>6. [k \in 1..n |-> ParseValue(c[k], D)] = [k \in 1..n |-> ParseValue(Body(values[k], D), D)]
    BY ONLY <2>2
  <2>7. P.intact /\ P.values = [k \in 1..n |-> ParseValue(Body(values[k], D), D)]
    BY ONLY P = Parse(EncodeProperty(D), D), <2>1, <2>5, <2>6
  <2> QED BY <1>2, <2>7 DEF n
<1>3. CASE values = <<>>
  <2> DEFINE e == <<>>
             b == [k \in 1..1 |-> e]
             r == [k \in 1..1 |-> Wrapped(e)]
             one == 1
             w == ParseValue(e, D)
  <2>1. EncodeProperty(D) = Wrapped(e)
    BY <1>3, WrittenIs
  <2>2. e \in Text /\ ~IsOpen(e) /\ Guarded(e, ValueEnd) /\ Len(e) = 0
    BY OneIsText, SomeCharacters, NothingOpen, GuardedBlocks
  <2>3. w = <<e>>
    <3>1. Unescaped(e, Separator) = {}
      BY <2>2, UnescapedIs, GuardedBlocks, SomeCharacters
    <3>2. ~IsSplit(e, D)
      BY <3>1 DEF IsSplit
    <3>3. ReadText(e, SingleType(D)) = e
      BY ReadNothing
    <3> HIDE DEF e
    <3> QED BY <2>2, <3>2, <3>3, ParseSingle
  <2>4. ~IsComposed(w) /\ w[1] = e
    BY <2>3, TuplesAre
  <2>5. Flat(r, 1) = Wrapped(e)
    <3>1. Wrapped(e) \in Text
      BY <2>2, WrappedIsText
    <3>2. 1 \in 1..1 /\ 0 \in Nat /\ 0 + 1 = 1
      OBVIOUS
    <3> DEFINE W == Wrapped(e)
               z == 0
    <3>3. r[z + 1] = W
      BY <3>2
    <3> HIDE DEF r, W
    <3>4. z \in Nat
      OBVIOUS
    <3> HIDE DEF z
    <3>5. Flat(r, z + 1) = Flat(r, z) \o r[z + 1]
      BY <3>1, <3>3, <3>4, FlatMore DEF W
    <3>6. Flat(r, z) = <<>>
      BY NothingFlat DEF z
    <3>7. <<>> \o W = W
      BY <3>1, TextFacts DEF W
    <3> QED BY <3>2, <3>3, <3>5, <3>6, <3>7 DEF W, z
  <2>6. \A k \in 1..one : r[k] = Wrapped(b[k]) /\ b[k] = e
    OBVIOUS
  <2>7. one \in Nat \ {0}
    OBVIOUS
  <2> HIDE DEF e, b, r, one, w
  <2>8. \A k \in 1..one : b[k] \in Text /\ ~IsOpen(b[k]) /\ Guarded(b[k], ValueEnd)
    BY <2>2, <2>6
  <2>9. /\ Parse(Flat(r, one), D).intact
        /\ Parse(Flat(r, one), D).values = [k \in 1..one |-> ParseValue(b[k], D)]
    BY <2>6, <2>7, <2>8, ParseOfValues
  <2>10. [k \in 1..one |-> ParseValue(b[k], D)] = [k \in 1..one |-> w]
    BY ONLY <2>6 DEF w
  <2>11. P.intact /\ P.values = [k \in 1..1 |-> w]
    <3>1. Flat(r, one) = EncodeProperty(D)
      BY <2>1, <2>5 DEF one
    <3> QED BY ONLY P = Parse(EncodeProperty(D), D), <2>9, <2>10, <3>1 DEF one
  <2> QED BY <1>3, <2>4, <2>11 DEF e
<1> QED BY <1>2, <1>3

-----------------------------------------------------------------------------
(* The values of SGFC that are looked at.                                  *)

RelevantCount(n, parsed, D) ==
  IF D.kind = "list" THEN n
  ELSE IF D.kind = "elist" THEN IF parsed[1][1] = <<>> THEN 0 ELSE n
  ELSE IF D.single = "None" /\ ~IsComposed(parsed[1]) THEN 0 ELSE 1

LEMMA RelevantIs ==
  ASSUME NEW parsed, NEW D, D.single = "None" => D.kind \notin {"list", "elist"}
  PROVE  /\ D.kind = "list" => RelevantValues(parsed, D) = parsed
         /\ D.kind = "elist" => RelevantValues(parsed, D) = IF parsed[1][1] = <<>> THEN <<>> ELSE parsed
         /\ D.kind \notin {"list", "elist"} =>
              RelevantValues(parsed, D) =
                IF D.single = "None" /\ ~IsComposed(parsed[1]) THEN <<>> ELSE <<parsed[1]>>
<1> DEFINE kind == D.kind
           a == parsed[1][1] = <<>>
           b == D.single = "None" /\ ~IsComposed(parsed[1])
           x == <<parsed[1]>>
           none == <<>>
<1>1. RelevantValues(parsed, D) = CASE kind = "list" -> parsed
                                    [] kind = "elist" -> IF a THEN none ELSE parsed
                                    [] b -> none
                                    [] OTHER -> x
  <2>1. b <=> (D.single = "None" /\ ~IsComposed(parsed[1]))
    OBVIOUS
  <2> QED BY DEF RelevantValues
<1>2. a <=> parsed[1][1] = <<>>
  OBVIOUS
<1>3. b <=> D.single = "None" /\ ~IsComposed(parsed[1])
  OBVIOUS
<1>4. "list" # "elist" /\ (b => kind \notin {"list", "elist"})
  OBVIOUS
<1> HIDE DEF a, b, x, none, kind
<1>5. CASE kind = "list"
  <2>1. RelevantValues(parsed, D) = parsed
    BY <1>1, <1>4, <1>5
  <2> QED BY <1>4, <1>5, <2>1 DEF kind
<1>6. CASE kind = "elist"
  <2>1. RelevantValues(parsed, D) = IF a THEN none ELSE parsed
    BY <1>1, <1>4, <1>6
  <2> QED BY <1>2, <1>4, <1>6, <2>1 DEF kind, none
<1>7. CASE kind # "list" /\ kind # "elist"
  <2>1. RelevantValues(parsed, D) = IF b THEN none ELSE x
    BY <1>1, <1>7
  <2> QED BY <1>3, <1>7, <2>1 DEF kind, none, x
<1> QED BY <1>5, <1>6, <1>7

LEMMA RelevantAre ==
  ASSUME NEW n \in Nat \ {0}, NEW parsed, DOMAIN parsed = 1..n, NEW D,
         D.single = "None" => D.kind \notin {"list", "elist"}, NEW R, R = RelevantValues(parsed, D), NEW m, m = RelevantCount(n, parsed, D)
  PROVE  m \in 0..n /\ DOMAIN R = 1..m /\ \A k \in 1..m : R[k] = parsed[k]
<1>1. n \in 0..n /\ 0 \in 0..n /\ 1 \in 0..n
  OBVIOUS
<1> DEFINE None == <<>>
           one == <<parsed[1]>>
<1>2. DOMAIN None = 1..0 /\ \A k \in 1..0 : FALSE
  OBVIOUS
<1>3. DOMAIN one = 1..1 /\ one[1] = parsed[1] /\ \A k \in 1..1 : k = 1
  OBVIOUS
<1> HIDE DEF None, one
<1>4. CASE R = parsed /\ m = n
  BY <1>1, <1>4
<1>5. CASE R = None /\ m = 0
  BY <1>1, <1>2, <1>5
<1>6. CASE R = one /\ m = 1
  BY <1>1, <1>3, <1>6
<1>7. CASE D.kind = "list"
  BY <1>4, <1>7, RelevantIs DEF RelevantCount
<1>8. CASE D.kind = "elist" /\ parsed[1][1] = <<>>
  <2>1. R = None
    BY <1>8, RelevantIs DEF None
  <2>2. m = 0
    BY <1>8 DEF RelevantCount
  <2> QED BY <1>5, <2>1, <2>2
<1>9. CASE D.kind = "elist" /\ parsed[1][1] # <<>>
  <2>1. R = parsed
    BY <1>9, RelevantIs
  <2>2. m = n
    BY <1>9 DEF RelevantCount
  <2> QED BY <1>4, <2>1, <2>2
<1>10. CASE D.kind \notin {"list", "elist"} /\ D.single = "None" /\ ~IsComposed(parsed[1])
  <2>1. R = None
    BY <1>10, RelevantIs DEF None
  <2>2. m = 0
    BY <1>10 DEF RelevantCount
  <2> QED BY <1>5, <2>1, <2>2
<1>11. CASE D.kind \notin {"list", "elist"} /\ ~(D.single = "None" /\ ~IsComposed(parsed[1]))
  <2>1. R = one
    BY <1>11, RelevantIs DEF one
  <2>2. m = 1
    BY <1>11 DEF RelevantCount
  <2> QED BY <1>6, <2>1, <2>2
<1> QED BY <1>7, <1>8, <1>9, <1>10, <1>11

LEMMA ReadValuesAre ==
  ASSUME NEW parsed, NEW D, NEW m \in Nat, DOMAIN RelevantValues(parsed, D) = 1..m
  PROVE  GetPropertyValues(parsed, D) = [k \in 1..m |-> DecodeValue(RelevantValues(parsed, D)[k], D)]
BY DEF GetPropertyValues

-----------------------------------------------------------------------------
(* Without a breakout everything fits.                                     *)

(* The three cases in which the values that SGFC returns are not those     *)
(* that were written: a point with a separator is split, the values behind *)
(* the first of an unknown property are dropped, and the first value of an *)
(* elist is taken for the empty list.                                      *)
HasFreeSeparator(vs, D) == IsCompressible(D) /\ \E k \in 1..Len(vs) : ~IsComposed(vs[k]) /\ ~Free(vs[k][1], Separator)
IsDropped(vs, D) == D.single = UnknownType /\ Len(vs) > 1
MayVanish(vs, D) ==
  /\ D.kind = "elist" /\ vs # <<>>
  /\ vs[1][1] = <<>> \/ BeginsErased(vs[1][1])
IsExcepted(vs, D) == HasFreeSeparator(vs, D) \/ IsDropped(vs, D) \/ MayVanish(vs, D)

LEMMA IntactValues ==
  ASSUME propertyType \in PropertyTypes, gameType \in PlayedGames, NEW D, D = Descriptor,
         ValuesOK(values, D), \A k \in 1..Len(values) : NoBreakout(values[k], D),
         NEW P, P = Parse(EncodeProperty(D), D), NEW R, R = RelevantValues(P.values, D)
  PROVE  /\ P.intact
         /\ ~HasMoveWithoutColor => \A k \in DOMAIN R : Fits(R[k], D)
         /\ ~IsExcepted(values, D) =>
              /\ DOMAIN R = DOMAIN values
              /\ \A k \in DOMAIN values : IsComposed(R[k]) = IsComposed(values[k])
         /\ ~IsExcepted(values, D) =>
              /\ DOMAIN R = 1..Len(values)
              /\ \A k \in 1..Len(values) : R[k] = ParseValue(Body(values[k], D), D)
<1> DEFINE n == Len(values)
           m == RelevantCount(n, P.values, D)
<1>1. n \in Nat /\ (values = <<>> <=> n = 0) /\ DOMAIN values = 1..n
  BY ValuesAre
<1>2. P.intact
  BY ParsedProperty
<1>3. CASE values = <<>>
  <2>1. PICK w : P.values = [k \in 1..1 |-> w] /\ ~IsComposed(w) /\ w[1] = <<>>
    BY <1>3, ParsedProperty
  <2> DEFINE parsed == P.values
             one == 1
             z == RelevantCount(one, parsed, D)
  <2>2. one \in Nat \ {0} /\ DOMAIN parsed = 1..one /\ parsed[1] = w
    BY <2>1
  <2>3. D.kind = "elist" \/ D.single = "None"
    BY <1>3 DEF ValuesOK
  <2>4. D.single = "None" => D.kind \notin {"list", "elist"}
    BY DescriptorFacts
  <2>5. z = 0
    BY <2>1, <2>2, <2>3, <2>4 DEF RelevantCount
  <2> HIDE DEF parsed, one, z
  <2>6. DOMAIN RelevantValues(parsed, D) = 1..z
    BY <2>2, <2>4, RelevantAre DEF z
  <2>7. DOMAIN R = 1..0
    BY <2>5, <2>6 DEF parsed
  <2>8. n = 0 /\ \A k \in 1..0 : FALSE
    BY <1>1, <1>3
  <2> QED BY <1>1, <1>2, <2>7, <2>8
<1>4. CASE values # <<>>
  <2> DEFINE parsed == P.values
  <2>0. P.values = [k \in 1..Len(values) |-> ParseValue(Body(values[k], D), D)]
    BY <1>4, ParsedProperty
  <2>1. parsed = [k \in 1..n |-> ParseValue(Body(values[k], D), D)] /\ n \in Nat \ {0}
    BY <1>1, <1>4, <2>0
  <2>2. DOMAIN parsed = 1..n /\ \A k \in 1..n : parsed[k] = ParseValue(Body(values[k], D), D)
    BY <2>1
  <2> HIDE DEF parsed, n
  <2>3. m \in 0..n /\ DOMAIN R = 1..m /\ \A k \in 1..m : R[k] = parsed[k]
    BY DescriptorFacts, <2>1, <2>2, RelevantAre DEF parsed
  <2>4. ASSUME NEW k \in 1..n
        PROVE  /\ ~HasMoveWithoutColor => Fits(parsed[k], D)
               /\ IsComposed(values[k]) => IsComposed(parsed[k])
               /\ ~HasFreeSeparator(values, D) => (IsComposed(parsed[k]) => IsComposed(values[k]))
    <3>1. ValueOK(values[k], D) /\ NoBreakout(values[k], D)
      BY DEF ValuesOK, n
    <3>2. LET w == ParseValue(Body(values[k], D), D)
          IN  /\ ~HasMoveWithoutColor => Fits(w, D)
              /\ IsComposed(values[k]) => IsComposed(w)
              /\ (IsCompressible(D) => Free(values[k][1], Separator)) => (IsComposed(w) => IsComposed(values[k]))
      BY <3>1, ParsedValueFits
    <3>3. ~HasFreeSeparator(values, D) => IsComposed(values[k]) \/ (IsCompressible(D) => Free(values[k][1], Separator))
      BY DEF HasFreeSeparator, n
    <3> QED BY <2>2, <3>2, <3>3
  <2>5. \A k \in 1..m : k \in 1..n
    BY <2>1, <2>3
  <2>6. ~HasMoveWithoutColor => \A k \in DOMAIN R : Fits(R[k], D)
    BY <2>3, <2>4, <2>5
  <2>7. ASSUME ~IsExcepted(values, D)
        PROVE  m = n
    <3>0. ~HasFreeSeparator(values, D) /\ ~IsDropped(values, D) /\ ~MayVanish(values, D)
      BY <2>7 DEF IsExcepted
    <3>1. 1 \in 1..n /\ (n > 1 \/ n = 1)
      BY <2>1
    <3>2. CASE D.kind = "list"
      BY <3>2 DEF RelevantCount
    <3>3. CASE D.kind = "elist"
      <4> DEFINE v == values[1]
      <4>1. /\ ValueOK(v, D) /\ NoBreakout(v, D) /\ v[1] # <<>> /\ ~BeginsErased(v[1])
        BY <1>4, <3>0, <3>1, <3>3 DEF ValuesOK, MayVanish, n
      <4>2. IsCompressible(D)
        BY <3>3, DescriptorFacts
      <4>3. IsComposed(v) \/ Free(v[1], Separator)
        BY <3>0, <3>1, <4>2 DEF HasFreeSeparator, n
      <4> HIDE DEF v
      <4>4. ParseValue(Body(v, D), D)[1] # <<>>
        BY <3>3, <4>1, <4>3, FirstOfElist
      <4>5. parsed[1][1] # <<>>
        BY <2>2, <3>1, <4>4 DEF v
      <4> QED BY <3>3, <4>5 DEF RelevantCount, parsed
    <3>4. CASE D.kind \notin {"list", "elist"}
      <4>1. n = 1
        BY <3>0, <3>1, <3>4 DEF ValuesOK, IsDropped, n
      <4>2. ASSUME D.single = "None" PROVE IsComposed(parsed[1])
        <5>1. ValueOK(values[1], D)
          BY <3>1 DEF ValuesOK, n
        <5>2. IsPair(values[1], D)
          BY <4>2, <5>1 DEF ValueOK, IsSingle
        <5>3. IsComposed(values[1])
          BY <5>2, ShapeOfValue
        <5> QED BY <2>4, <3>1, <5>3
      <4> QED BY <3>4, <4>1, <4>2 DEF RelevantCount, parsed
    <3> QED BY <3>2, <3>3, <3>4
  <2> HIDE DEF m
  <2>8. ASSUME ~IsExcepted(values, D)
        PROVE  /\ DOMAIN R = 1..n
               /\ \A k \in 1..n : R[k] = parsed[k] /\ IsComposed(R[k]) = IsComposed(values[k])
    <3>1. m = n
      BY <2>7, <2>8
    <3>2. ASSUME NEW k \in 1..n PROVE R[k] = parsed[k] /\ IsComposed(R[k]) = IsComposed(values[k])
      <4>1. R[k] = parsed[k]
        BY <2>3, <3>1
      <4>2. IsComposed(parsed[k]) <=> IsComposed(values[k])
        BY <2>4, <2>8 DEF IsExcepted
      <4>3. IsComposed(parsed[k]) \in BOOLEAN /\ IsComposed(values[k]) \in BOOLEAN
        BY DEF IsComposed
      <4> QED BY <4>1, <4>2, <4>3
    <3> QED BY <2>3, <3>1, <3>2
  <2> QED BY <1>1, <1>2, <2>2, <2>6, <2>8 DEF n
<1> QED BY <1>3, <1>4

LEMMA ValueIsTexts == ASSUME NEW v, NEW D, ValueOK(v, D) PROVE v \in Seq(Text)
<1>1. CASE IsSingle(v, D)
  <2>1. v = <<v[1]>> /\ v[1] \in Text
    BY <1>1 DEF IsSingle, TextOK
  <2> DEFINE x == v[1]
  <2>2. v = <<x>> /\ x \in Text
    BY <2>1
  <2> HIDE DEF x
  <2>3. <<x>> \in Seq(Text)
    BY <2>2
  <2> QED BY <2>2, <2>3
<1>2. CASE IsPair(v, D)
  <2>1. v = <<v[1], v[2]>> /\ v[1] \in Text /\ v[2] \in Text
    BY <1>2 DEF IsPair, TextOK
  <2> DEFINE x == v[1]
             y == v[2]
  <2>2. v = <<x, y>> /\ x \in Text /\ y \in Text
    BY <2>1
  <2> HIDE DEF x, y
  <2>3. <<x, y>> \in Seq(Text)
    BY <2>2
  <2> QED BY <2>2, <2>3
<1> QED BY <1>1, <1>2 DEF ValueOK

-----------------------------------------------------------------------------
(* What is read can be written again.                                      *)

LEMMA RelevantNumber ==
  ASSUME NEW n \in Nat \ {0}, NEW parsed, NEW D, D.single = "None" => D.kind \notin {"list", "elist"},
         NEW m, m = RelevantCount(n, parsed, D)
  PROVE  /\ m = 0 => D.kind = "elist" \/ D.single = "None"
         /\ m # 0 /\ m # 1 => D.kind \in {"list", "elist"}
         /\ D.kind = "elist" /\ m # 0 => parsed[1][1] # <<>>
         /\ m # 0 /\ D.single = "None" => IsComposed(parsed[1]) /\ m = 1
BY DEF RelevantCount

LEMMA ReadElementsOK ==
  ASSUME propertyType \in PropertyTypes, gameType \in PlayedGames, NEW D, D = Descriptor,
         ValuesOK(values, D), NEW P, P = Parse(EncodeProperty(D), D), P.intact,
         NEW n \in Nat \ {0}, NEW u, \A k \in 1..n : u[k] \in Text, P.values = [k \in 1..n |-> ParseValue(u[k], D)],
         NEW m, m = RelevantCount(n, P.values, D), m \in 0..n, \A k \in 1..m : Fits(P.values[k], D)
  PROVE  \A k \in 1..m : ValueOK(DecodeValue(P.values[k], D), D)
<1> DEFINE parsed == P.values
           types == {D.single, PartTypes(D)[1], PartTypes(D)[2]}
<1>1. D.single = "None" => D.kind \notin {"list", "elist"}
  BY DescriptorFacts
<1>2. \/ \A type \in types : ~IsRaw(type)
      \/ \A type \in types : IsRaw(type) \/ type \in TextTypes \/ type = Nothing
  BY RawFacts
<1>3. parsed = [k \in 1..n |-> ParseValue(u[k], D)]
  OBVIOUS
<1>4. \A k \in 1..m : k \in 1..n
  OBVIOUS
<1>5. m = RelevantCount(n, parsed, D) /\ \A k \in 1..m : Fits(parsed[k], D)
  OBVIOUS
<1>6. CASE \A type \in types : ~IsRaw(type)
  <2>1. \A k \in 1..Len(values) : NoBreakout(values[k], D)
    BY <1>6 DEF NoBreakout
  <2>2. CASE values = <<>>
    <3>1. PICK w : P.values = [k \in 1..1 |-> w] /\ ~IsComposed(w) /\ w[1] = <<>>
      BY <2>1, <2>2, ParsedProperty
    <3>2. parsed[1] = w
      BY <3>1
    <3>3. D.kind = "elist" \/ D.single = "None"
      BY <2>2 DEF ValuesOK
    <3> HIDE DEF parsed
    <3>4. m = 0
      BY <1>1, <1>5, <3>1, <3>2, <3>3, RelevantNumber
    <3> QED BY <3>4
  <2>3. CASE values # <<>>
    <3>1. P.values = [k \in 1..Len(values) |-> ParseValue(Body(values[k], D), D)]
      BY ONLY <2>1, <2>3, ParsedProperty, ValuesOK(values, D), P = Parse(EncodeProperty(D), D)
    <3>2. DOMAIN parsed = 1..n /\ DOMAIN parsed = 1..Len(values) /\ \A k \in 1..Len(values) : parsed[k] = ParseValue(Body(values[k], D), D)
      BY <1>3, <3>1
    <3> HIDE DEF parsed
    <3>3. ASSUME NEW k \in 1..m PROVE ValueOK(DecodeValue(parsed[k], D), D)
      <4>1. k \in 1..Len(values)
        BY <1>4, <3>2
      <4>2. ValueOK(values[k], D)
        BY <4>1 DEF ValuesOK
      <4>3. ValueOK(DecodeValue(ParseValue(Body(values[k], D), D), D), D)
        BY <1>6, <4>2, StrictValueOK
      <4> QED BY <3>2, <4>1, <4>3
    <3> QED BY <3>3 DEF parsed
  <2> QED BY <2>2, <2>3
<1>7. CASE \A type \in types : IsRaw(type) \/ type \in TextTypes \/ type = Nothing
  <2>1. \A type \in types : ~IsStrict(type) \/ type = Nothing
    BY <1>7 DEF IsStrict
  <2> HIDE DEF parsed
  <2>2. ASSUME NEW k \in 1..m PROVE ValueOK(DecodeValue(parsed[k], D), D)
    <3>1. k \in 1..n /\ Fits(parsed[k], D)
      BY <1>4, <1>5
    <3>2. parsed[k] = ParseValue(u[k], D) /\ u[k] \in Text
      BY <1>3, <3>1
    <3>3. D.single = "None" => IsComposed(parsed[k])
      <4>1. m # 0 /\ (m = 1 => k = 1)
        OBVIOUS
      <4> QED BY <1>1, <1>5, <4>1, RelevantNumber
    <3>4. ValueOK(DecodeValue(ParseValue(u[k], D), D), D)
      BY <2>1, <3>1, <3>2, <3>3, DecodedValueOK
    <3> QED BY <3>2, <3>4
  <2> QED BY <2>2 DEF parsed
<1> QED BY <1>2, <1>6, <1>7

LEMMA ReadValuesOK ==
  ASSUME propertyType \in PropertyTypes, gameType \in PlayedGames, NEW D, D = Descriptor,
         ValuesOK(values, D), NEW P, P = Parse(EncodeProperty(D), D), P.intact,
         NEW R, R = RelevantValues(P.values, D), \A k \in DOMAIN R : Fits(R[k], D)
  PROVE  ValuesOK(GetPropertyValues(P.values, D), D)
<1> DEFINE t == EncodeProperty(D)
           G == GetPropertyValues(P.values, D)
<1>1. t \in Text
  BY WrittenIsText
<1>2. D.single = "None" => D.kind \notin {"list", "elist"}
  BY DescriptorFacts
<1>3. PICK n \in Nat \ {0} : \E u :
           /\ \A k \in 1..n : u[k] \in Text
           /\ P.values = [k \in 1..n |-> ParseValue(u[k], D)]
  <2> HIDE DEF t
  <2>1. P = Parse(t, D) /\ P.intact
    BY DEF t
  <2> DEFINE Q == Parse(t, D)
  <2>2. Q.intact
    BY <2>1
  <2>3. \E n \in Nat \ {0} : \E u :
           /\ \A k \in 1..n : u[k] \in Text
           /\ Q.values = [k \in 1..n |-> ParseValue(u[k], D)]
    BY ONLY <1>1, <2>2, ParseOfAnyText
  <2>4. P.values = Q.values
    BY <2>1
  <2> HIDE DEF Q
  <2> QED BY ONLY <2>3, <2>4
<1>4. PICK u : /\ \A k \in 1..n : u[k] \in Text
               /\ P.values = [k \in 1..n |-> ParseValue(u[k], D)]
  BY <1>3
<1> HIDE DEF t
<1> DEFINE parsed == P.values
           m == RelevantCount(n, parsed, D)
<1>5. DOMAIN parsed = 1..n /\ \A k \in 1..n : parsed[k] = ParseValue(u[k], D)
  BY <1>4
<1>6. m \in 0..n /\ DOMAIN R = 1..m /\ \A k \in 1..m : R[k] = parsed[k]
  <2> HIDE DEF parsed
  <2>1. R = RelevantValues(parsed, D)
    BY DEF parsed
  <2> QED BY <1>2, <1>5, <2>1, RelevantAre
<1>7. \A k \in 1..m : ValueOK(DecodeValue(P.values[k], D), D)
  <2>1. \A k \in 1..m : Fits(P.values[k], D)
    BY <1>6
  <2>2. m = RelevantCount(n, P.values, D)
    OBVIOUS
  <2> HIDE DEF m, parsed
  <2> QED BY <1>4, <1>6, <2>1, <2>2, ReadElementsOK
<1>8. m \in Nat /\ G = [k \in 1..m |-> DecodeValue(R[k], D)]
  <2> HIDE DEF m, parsed
  <2>1. m \in Nat /\ DOMAIN RelevantValues(P.values, D) = 1..m
    BY <1>6
  <2>2. GetPropertyValues(P.values, D) = [k \in 1..m |-> DecodeValue(RelevantValues(P.values, D)[k], D)]
    BY <2>1, ReadValuesAre
  <2> QED BY <2>1, <2>2
<1>9. /\ m = 0 => D.kind = "elist" \/ D.single = "None"
      /\ m # 0 /\ m # 1 => D.kind \in {"list", "elist"}
  <2> HIDE DEF parsed
  <2> QED BY <1>2, RelevantNumber
<1>10. \A k \in 1..m : k \in 1..n /\ parsed[k] = P.values[k]
  BY <1>6
<1> HIDE DEF G, m, parsed
<1>11. \A k \in 1..m : G[k] = DecodeValue(parsed[k], D) /\ ValueOK(G[k], D)
  BY <1>6, <1>7, <1>8, <1>10
<1>12. G \in Seq(Seq(Text)) /\ Len(G) = m /\ (G = <<>> => m = 0) /\ (G # <<>> => m # 0)
  <2>1. \A k \in 1..m : DecodeValue(R[k], D) \in Seq(Text)
    BY <1>8, <1>11, ValueIsTexts
  <2>2. G \in [1..m -> Seq(Text)]
    BY <1>8, <2>1
  <2>3. G \in Seq(Seq(Text))
    BY <1>8, <2>2
  <2>4. DOMAIN G = 1..m
    BY <1>8
  <2>5. Len(G) \in Nat /\ DOMAIN G = 1..Len(G)
    BY <2>3
  <2>6. Len(G) = m
    BY <1>8, <2>4, <2>5
  <2> QED BY <2>3, <2>6
<1>13. ValuesOK(G, D)
  <2>1. Len(G) > 1 => m # 0 /\ m # 1
    BY <1>8, <1>12
  <2> QED BY <1>9, <1>11, <1>12, <2>1 DEF ValuesOK
<1> QED BY <1>13 DEF G

-----------------------------------------------------------------------------
(* The values that a client sets.                                          *)

LEMMA PlainBlocks ==
  /\ <<"7">> \in Text /\ Plain(<<"7">>)
  /\ Letter \in Text /\ Plain(Letter)
<1>1. \A c \in {"7", "a"} : c \notin {Escape, ValueEnd, Separator, LineEnding}
  BY CharactersDiffer
<1>2. ASSUME NEW c \in {"7", "a"} PROVE Plain(<<c>>)
  <2> DEFINE x == <<c>>
  <2>1. Free(x, Escape) /\ Free(x, ValueEnd) /\ Free(x, Separator) /\ Free(x, LineEnding)
    BY <1>1, FreeBlocks
  <2> HIDE DEF x
  <2>2. Plain(x)
    BY <2>1 DEF Plain
  <2> QED BY <2>2 DEF x
<1> QED BY <1>2, OneIsText, SomeCharacters DEF Letter

LEMMA SingleValuesAre ==
  ASSUME NEW type, NEW composed \in BOOLEAN, NEW t \in SingleValues(type, gameType, composed)
  PROVE  TextOK(t, type) /\ type \notin {Nothing, "None"}
<1>1. StrictTypes = {"Number", "Real", "Double", "Color"} /\ TextTypes = {"Text", "SimpleText"}
      /\ RawTypes = {"Point", "Move", "Stone"} /\ UnknownType = "Unknown"
  BY DEF StrictTypes, TextTypes, RawTypes, UnknownType
<1>2. /\ TextValues \subseteq Seq(STRING) /\ ShortTextValues \subseteq Seq(STRING) /\ RawValues \subseteq Seq(STRING)
  BY ValuesAssumption
<1>3. ASSUME NEW u, u \in TextValues \/ u \in ShortTextValues \/ u \in RawValues PROVE u \in Text
  <2>1. u \in Seq(STRING)
    BY <1>2, <1>3
  <2> QED BY <2>1, StringsAreTexts
<1>4. CASE type \in StrictTypes
  <2>1. SingleValues(type, gameType, composed) = {<<"7">>}
    BY <1>1, <1>4 DEF SingleValues
  <2> QED BY <1>1, <1>4, <2>1, PlainBlocks, NothingDiffers DEF TextOK
<1>5. CASE type \in TextTypes
  <2>1. SingleValues(type, gameType, composed) = IF composed THEN ShortTextValues ELSE TextValues
    BY <1>1, <1>5 DEF SingleValues
  <2> QED BY <1>1, <1>3, <1>5, <2>1, NothingDiffers DEF TextOK, IsStrict
<1>6. CASE type \in RawTypes /\ gameType = "Go"
  <2>1. SingleValues(type, gameType, composed) = {Letter}
    BY <1>1, <1>6 DEF SingleValues
  <2> QED BY <1>1, <1>6, <2>1, PlainBlocks, NothingDiffers DEF TextOK
<1>7. CASE type = UnknownType \/ (type \in RawTypes /\ gameType # "Go")
  <2>1. SingleValues(type, gameType, composed) = RawValues
    BY <1>1, <1>7 DEF SingleValues
  <2>2. IsRaw(type)
    BY <1>7 DEF IsRaw
  <2> QED BY <1>1, <1>3, <1>7, <2>1, <2>2, NothingDiffers DEF TextOK, IsStrict
<1>8. CASE type \notin StrictTypes /\ type \notin TextTypes /\ type \notin RawTypes /\ type # UnknownType
  <2>1. SingleValues(type, gameType, composed) = {}
    BY <1>8 DEF SingleValues
  <2> QED BY <2>1
<1> QED BY <1>4, <1>5, <1>6, <1>7, <1>8

LEMMA OneIsSingle == ASSUME NEW t, NEW D, TextOK(t, D.single), D.single \notin {Nothing, "None"} PROVE ValueOK(<<t>>, D)
<1> DEFINE v == <<t>>
<1>1. v[1] = t
  BY TuplesAre
<1>2. v = <<v[1]>>
  BY <1>1
<1> HIDE DEF v
<1>3. IsSingle(v, D)
  BY <1>1, <1>2 DEF IsSingle
<1> QED BY <1>3 DEF ValueOK, v

LEMMA TwoArePair ==
  ASSUME NEW t, NEW u, NEW D, TextOK(t, PartTypes(D)[1]), TextOK(u, PartTypes(D)[2]), PartTypes(D)[1] # Nothing,
         IsCompressible(D) => gameType # "Go"
  PROVE  ValueOK(<<t, u>>, D)
<1> DEFINE v == <<t, u>>
<1>1. v[1] = t /\ v[2] = u
  BY TuplesAre
<1>2. v = <<v[1], v[2]>>
  BY <1>1
<1> HIDE DEF v
<1>3. IsPair(v, D)
  BY <1>1, <1>2 DEF IsPair
<1> QED BY <1>3 DEF ValueOK, v

LEMMA ElementsAreOK ==
  ASSUME propertyType \in PropertyTypes, gameType \in PlayedGames, NEW D, D = Descriptor,
         NEW v \in ElementValues(D, gameType)
  PROVE  ValueOK(v, D)
<1> DEFINE T == PartTypes(D)
           A == SingleValues(D.single, gameType, FALSE)
           B == SingleValues(T[1], gameType, TRUE)
           C == SingleValues(T[2], gameType, TRUE)
<1>1. v \in {<<text>> : text \in A} \/ (~(IsCompressible(D) /\ gameType = "Go") /\ v \in B \X C)
  BY DEF ElementValues
<1>2. ASSUME NEW t \in A, v = <<t>> PROVE ValueOK(v, D)
  <2>1. TextOK(t, D.single) /\ D.single \notin {Nothing, "None"}
    BY SingleValuesAre
  <2> QED BY <1>2, <2>1, OneIsSingle
<1>3. ASSUME NEW t \in B, NEW u \in C, v = <<t, u>>, ~(IsCompressible(D) /\ gameType = "Go") PROVE ValueOK(v, D)
  <2>1. TextOK(t, T[1]) /\ TextOK(u, T[2]) /\ T[1] # Nothing
    BY SingleValuesAre
  <2> QED BY <1>3, <2>1, TwoArePair
<1> HIDE DEF A, B, C
<1>4. v \in B \X C => \E t \in B : \E u \in C : v = <<t, u>>
  OBVIOUS
<1> QED BY <1>1, <1>2, <1>3, <1>4

LEMMA SimpleIsOK ==
  ASSUME propertyType \in PropertyTypes, gameType \in PlayedGames, NEW D, D = Descriptor,
         D.kind \in {"list", "elist"} \/ D.single = UnknownType
  PROVE  ValueOK(IF D.single # Nothing THEN <<Letter>> ELSE <<Letter, Letter>>, D)
<1>1. \A type : TextOK(Letter, type)
  BY PlainBlocks DEF TextOK
<1>2. CASE D.single # Nothing
  <2>1. D.single # "None"
    BY DescriptorFacts, NothingDiffers
  <2>2. ValueOK(<<Letter>>, D)
    BY <1>1, <1>2, <2>1, OneIsSingle
  <2> QED BY <1>2, <2>2
<1>3. CASE D.single = Nothing
  <2>1. PartTypes(D)[1] # Nothing
    BY <1>3, DescriptorFacts
  <2>2. ~IsCompressible(D)
    BY <1>3, PartTypesAre, NothingDiffers
  <2>3. ValueOK(<<Letter, Letter>>, D)
    BY <1>1, <2>1, <2>2, TwoArePair
  <2> QED BY <1>3, <2>3
<1> QED BY <1>2, <1>3

LEMMA ListsAreOK ==
  ASSUME NEW D, NEW v, ValueOK(v, D)
  PROVE  /\ ValuesOK(<<v>>, D)
         /\ D.kind \in {"list", "elist"} \/ D.single = UnknownType =>
              \A w : ValueOK(w, D) => ValuesOK(<<v, w>>, D)
<1>1. v \in Seq(Text)
  BY ValueIsTexts
<1>2. ValuesOK(<<v>>, D)
  <2> DEFINE vs == <<v>>
  <2>1. vs \in Seq(Seq(Text)) /\ Len(vs) = 1 /\ vs[1] = v /\ vs # <<>>
    BY <1>1
  <2>2. \A k \in 1..1 : k = 1
    OBVIOUS
  <2> HIDE DEF vs
  <2>3. ValuesOK(vs, D)
    BY <2>1, <2>2 DEF ValuesOK
  <2> QED BY <2>3 DEF vs
<1>3. ASSUME NEW w, ValueOK(w, D), D.kind \in {"list", "elist"} \/ D.single = UnknownType
      PROVE  ValuesOK(<<v, w>>, D)
  <2> DEFINE vs == <<v, w>>
  <2>1. w \in Seq(Text)
    BY <1>3, ValueIsTexts
  <2>2. vs \in Seq(Seq(Text)) /\ Len(vs) = 2 /\ vs[1] = v /\ vs[2] = w /\ vs # <<>>
    BY <1>1, <2>1
  <2>3. \A k \in 1..2 : k = 1 \/ k = 2
    OBVIOUS
  <2> HIDE DEF vs
  <2>4. ValuesOK(vs, D)
    BY <1>3, <2>2, <2>3 DEF ValuesOK
  <2> QED BY <2>4 DEF vs
<1> QED BY <1>2, <1>3

LEMMA ClientValuesOK ==
  ASSUME propertyType \in PropertyTypes, gameType \in PlayedGames, NEW D, D = Descriptor,
         NEW vs \in ClientValues(D, gameType)
  PROVE  ValuesOK(vs, D)
<1> DEFINE elements == ElementValues(D, gameType)
           simple == IF D.single # Nothing THEN <<Letter>> ELSE <<Letter, Letter>>
           many == D.kind \in {"list", "elist"} \/ D.single = UnknownType
           none == D.kind = "elist" \/ D.single = "None"
<1>1. \/ vs \in {<<value>> : value \in elements}
      \/ many /\ vs \in {<<value, simple>> : value \in elements}
      \/ none /\ vs \in {<<>>}
  BY DEF ClientValues
<1>2. \A v \in elements : ValueOK(v, D)
  BY ElementsAreOK
<1>3. many => ValueOK(simple, D)
  BY SimpleIsOK
<1> HIDE DEF elements, simple
<1>4. ASSUME NEW v \in elements PROVE ValuesOK(<<v>>, D)
  BY <1>2, ListsAreOK
<1>5. ASSUME NEW v \in elements, many PROVE ValuesOK(<<v, simple>>, D)
  <2>1. ValueOK(v, D) /\ ValueOK(simple, D)
    BY <1>2, <1>3, <1>5
  <2> QED BY <1>5, <2>1, ListsAreOK
<1>6. ASSUME none PROVE ValuesOK(<<>>, D)
  <2> DEFINE e == <<>>
  <2>1. e \in Seq(Seq(Text)) /\ Len(e) = 0 /\ \A k \in 1..0 : FALSE
    OBVIOUS
  <2> HIDE DEF e
  <2>2. ValuesOK(e, D)
    BY <1>6, <2>1 DEF ValuesOK
  <2> QED BY <2>2 DEF e
<1>7. vs \in {<<>>} => vs = <<>>
  OBVIOUS
<1> HIDE DEF many, none
<1> QED BY <1>1, <1>4, <1>5, <1>6, <1>7

-----------------------------------------------------------------------------
(* What the operators say does not change as long as the property does     *)
(* not.                                                                    *)

SameProperty == UNCHANGED <<propertyType, gameType, escapeProcessingEnabled>>

LEMMA DescriptorIsKept == ASSUME SameProperty PROVE Descriptor' = Descriptor
BY DEF SameProperty, Descriptor

LEMMA RawIsKept == ASSUME SameProperty, NEW CONSTANT type PROVE IsRaw(type)' <=> IsRaw(type)
BY DEF SameProperty, IsRaw

LEMMA WritingIsKept ==
  ASSUME SameProperty, values' = values, NEW CONSTANT D
  PROVE  EncodeProperty(D)' = EncodeProperty(D)
<1>1. ASSUME NEW CONSTANT t, NEW CONSTANT type, NEW CONSTANT first
      PROVE  EncodeSingleValue(t, type, first)' = EncodeSingleValue(t, type, first)
  BY RawIsKept DEF EncodeSingleValue
<1>2. ASSUME NEW CONSTANT v
      PROVE  EncodePropertyValue(v, D)' = EncodePropertyValue(v, D)
  BY <1>1 DEF EncodePropertyValue
<1> QED BY <1>2 DEF EncodeProperty

LEMMA ReadingIsKept ==
  ASSUME SameProperty, NEW CONSTANT t, NEW CONSTANT D
  PROVE  Parse(t, D)' = Parse(t, D)
<1>1. ASSUME NEW CONSTANT u, NEW CONSTANT e, NEW CONSTANT type PROVE Unescape(u, e, type)' = Unescape(u, e, type)
  BY DEF Unescape, SameProperty
<1>2. ASSUME NEW CONSTANT u PROVE ParseValue(u, D)' = ParseValue(u, D)
  BY <1>1 DEF ParseValue
<1> DEFINE E == ValueEnds(t)
           start(k) == IF k = 1 THEN 1 ELSE E[k - 1] + 1
           I == (\A k \in DOMAIN E : t[start(k)] = ValueBegin) /\ E # <<>> /\ Last(E) = Len(t)
           V == [k \in DOMAIN E |-> ParseValue(SubSeq(t, start(k) + 1, E[k] - 1), D)]
<1>3. V' = V
  BY <1>2
<1>4. Parse(t, D) = [intact |-> I, values |-> V]
  BY DEF Parse
<1>5. Parse(t, D)' = [intact |-> I, values |-> V']
  BY DEF Parse
<1> HIDE DEF I, V
<1> QED BY <1>3, <1>4, <1>5

LEMMA DecodingIsKept ==
  ASSUME SameProperty, NEW CONSTANT parsed, NEW CONSTANT D
  PROVE  /\ GetPropertyValues(parsed, D)' = GetPropertyValues(parsed, D)
         /\ \A w : Fits(w, D)' <=> Fits(w, D)
<1>1. ASSUME NEW CONSTANT t, NEW CONSTANT type, NEW CONSTANT first, NEW CONSTANT composed
      PROVE  DecodeSingleValue(t, type, first, composed)' = DecodeSingleValue(t, type, first, composed)
  <2>1. ASSUME NEW CONSTANT u PROVE ProcessEscapes(u, type, first, composed)' = ProcessEscapes(u, type, first, composed)
    BY DEF ProcessEscapes, SameProperty
  <2> QED BY <2>1 DEF DecodeSingleValue, SameProperty
<1>2. ASSUME NEW CONSTANT w PROVE DecodeValue(w, D)' = DecodeValue(w, D)
  BY <1>1 DEF DecodeValue
<1>3. GetPropertyValues(parsed, D)' = GetPropertyValues(parsed, D)
  BY <1>2 DEF GetPropertyValues
<1>4. ASSUME NEW CONSTANT w PROVE Fits(w, D)' <=> Fits(w, D)
  BY DEF Fits, HasColor, SameProperty
<1> QED BY <1>3, <1>4

LEMMA OKIsKept ==
  ASSUME SameProperty, NEW CONSTANT vs, NEW CONSTANT D
  PROVE  ValuesOK(vs, D)' <=> ValuesOK(vs, D)
<1>1. \A t, type : TextOK(t, type)' <=> TextOK(t, type)
  BY RawIsKept DEF TextOK, IsStrict
<1>2. \A v : ValueOK(v, D)' <=> ValueOK(v, D)
  BY <1>1 DEF ValueOK, IsSingle, IsPair, SameProperty
<1> QED BY <1>2 DEF ValuesOK

-----------------------------------------------------------------------------
(* The invariant.                                                          *)

Parsed == Parse(EncodeProperty(Descriptor), Descriptor)
ParsedRelevant == RelevantValues(Parsed.values, Descriptor)
AllFit == \A k \in DOMAIN ParsedRelevant : Fits(ParsedRelevant[k], Descriptor)

(* The invariant. The values fit the property in each stage, also after    *)
(* those that were read are taken over; the text is that of the values as  *)
(* soon as it is written; and what was read, or that nothing could be      *)
(* read, is a function of the text.                                        *)
ValueInv ==
  /\ propertyType \in PropertyTypes /\ gameType \in PlayedGames
  /\ valueStage \in {"client", "written", "read", "broken", "throws"}
  /\ ValuesOK(values, Descriptor)
  /\ valueStage # "client" => sgf = EncodeProperty(Descriptor)
  /\ valueStage = "broken" => ~Parsed.intact
  /\ valueStage = "throws" => Parsed.intact /\ ~AllFit
  /\ valueStage = "read" =>
       Parsed.intact /\ AllFit /\ readValues = GetPropertyValues(Parsed.values, Descriptor)

LEMMA ValueInvHolds == ValueSpec => []ValueInv
<1>1. ValueInit => ValueInv
  <2> SUFFICES ASSUME ValueInit PROVE ValueInv
    OBVIOUS
  <2> DEFINE D == Descriptor
  <2>1. /\ propertyType \in PropertyTypes /\ gameType \in PlayedGames /\ valueStage = "client"
        /\ values \in ClientValues(D, gameType)
    BY DEF ValueInit, Descriptor
  <2>2. ValuesOK(values, Descriptor)
    BY <2>1, ClientValuesOK
  <2> QED BY <2>1, <2>2 DEF ValueInv
<1>2. ValueInv /\ [ValueNext]_valueVars => ValueInv'
  <2> SUFFICES ASSUME ValueInv, [ValueNext]_valueVars PROVE ValueInv'
    OBVIOUS
  <2> DEFINE D == Descriptor
  <2>1. SameProperty /\ (propertyType \in PropertyTypes /\ gameType \in PlayedGames)
    BY DEF ValueNext, Encode, Decode, TakeReadValues, valueVars, SameProperty, ValueInv
  <2>2. (propertyType \in PropertyTypes /\ gameType \in PlayedGames)'
    BY <2>1 DEF SameProperty
  <2>3. Descriptor' = D
    BY <2>1, DescriptorIsKept
  <2>4. ASSUME values' = values
        PROVE  /\ ValuesOK(values, Descriptor)' /\ EncodeProperty(Descriptor)' = EncodeProperty(Descriptor)
               /\ Parsed' = Parsed /\ (AllFit' <=> AllFit)
               /\ GetPropertyValues(Parsed.values, Descriptor)' = GetPropertyValues(Parsed.values, Descriptor)
    <3>1. ValuesOK(values, Descriptor)'
      <4>1. \A vs, E : ValuesOK(vs, E)' <=> ValuesOK(vs, E)
        BY <2>1, OKIsKept
      <4>2. ValuesOK(values, Descriptor)
        BY DEF ValueInv
      <4> QED BY <2>3, <2>4, <4>1, <4>2
    <3>2. EncodeProperty(Descriptor)' = EncodeProperty(Descriptor)
      <4>1. \A E : EncodeProperty(E)' = EncodeProperty(E)
        BY <2>1, <2>4, WritingIsKept
      <4> QED BY <2>3, <4>1
    <3>3. Parsed' = Parsed
      <4>1. \A t, E : Parse(t, E)' = Parse(t, E)
        BY <2>1, ReadingIsKept
      <4> QED BY <2>3, <3>2, <4>1 DEF Parsed
    <3>4. \A parsed, E : /\ GetPropertyValues(parsed, E)' = GetPropertyValues(parsed, E)
                         /\ \A w : Fits(w, E)' <=> Fits(w, E)
      BY <2>1, DecodingIsKept
    <3>5. ParsedRelevant' = ParsedRelevant
      BY <2>3, <3>3 DEF ParsedRelevant
    <3>6. AllFit' <=> AllFit
      BY <2>3, <3>4, <3>5 DEF AllFit
    <3>7. GetPropertyValues(Parsed.values, Descriptor)' = GetPropertyValues(Parsed.values, Descriptor)
      BY <2>3, <3>3, <3>4
    <3> QED BY <3>1, <3>2, <3>3, <3>6, <3>7
  <2>5. CASE Encode
    <3>1. values' = values /\ valueStage' = "written" /\ sgf' = EncodeProperty(Descriptor)
      BY <2>5 DEF Encode, Descriptor
    <3> QED BY <2>2, <2>4, <3>1 DEF ValueInv
  <2>6. CASE Decode
    <3>1. values' = values /\ sgf' = sgf /\ sgf = EncodeProperty(Descriptor)
      BY <2>6 DEF Decode, ValueInv
    <3>2. \/ ~Parsed.intact /\ valueStage' = "broken"
          \/ Parsed.intact /\ ~AllFit /\ valueStage' = "throws"
          \/ /\ Parsed.intact /\ AllFit /\ valueStage' = "read"
             /\ readValues' = GetPropertyValues(Parsed.values, Descriptor)
      <4>1. Parsed = Parse(sgf, Descriptor)
        BY <3>1 DEF Parsed
      <4>2. CASE ~Parsed.intact
        BY <2>6, <4>1, <4>2 DEF Decode, Descriptor
      <4>3. CASE Parsed.intact /\ ~AllFit
        BY <2>6, <4>1, <4>3 DEF Decode, Descriptor, AllFit, ParsedRelevant
      <4>4. CASE Parsed.intact /\ AllFit
        BY <2>6, <4>1, <4>4 DEF Decode, Descriptor, AllFit, ParsedRelevant
      <4> QED BY <4>2, <4>3, <4>4
    <3>3. (ValuesOK(values, Descriptor) /\ sgf = EncodeProperty(Descriptor))'
      BY <2>4, <3>1
    <3>4. CASE ~Parsed.intact /\ valueStage' = "broken"
      BY <2>2, <2>4, <3>1, <3>3, <3>4 DEF ValueInv
    <3>5. CASE Parsed.intact /\ ~AllFit /\ valueStage' = "throws"
      BY <2>2, <2>4, <3>1, <3>3, <3>5 DEF ValueInv
    <3>6. CASE /\ Parsed.intact /\ AllFit /\ valueStage' = "read"
               /\ readValues' = GetPropertyValues(Parsed.values, Descriptor)
      BY <2>2, <2>4, <3>1, <3>3, <3>6 DEF ValueInv
    <3> QED BY <3>2, <3>4, <3>5, <3>6
  <2>7. CASE TakeReadValues
    <3>1. valueStage' = "client" /\ values' = readValues /\ valueStage = "read"
      BY <2>7 DEF TakeReadValues
    <3>2. /\ ValuesOK(values, D) /\ Parsed.intact /\ AllFit
          /\ readValues = GetPropertyValues(Parsed.values, D)
      BY <3>1 DEF ValueInv
    <3>3. ValuesOK(readValues, D)
      <4> DEFINE P == Parse(EncodeProperty(D), D)
                 R == RelevantValues(P.values, D)
      <4>1. P.intact /\ (\A k \in DOMAIN R : Fits(R[k], D)) /\ readValues = GetPropertyValues(P.values, D)
        BY <3>2 DEF Parsed, AllFit, ParsedRelevant
      <4>2. ValuesOK(GetPropertyValues(P.values, D), D)
        BY <2>1, <3>2, <4>1, ReadValuesOK
      <4> QED BY <4>1, <4>2
    <3>4. ValuesOK(values, Descriptor)'
      <4>1. \A vs, E : ValuesOK(vs, E)' <=> ValuesOK(vs, E)
        BY <2>1, OKIsKept
      <4> QED BY <2>3, <3>1, <3>3, <4>1
    <3> QED BY <2>2, <3>1, <3>4 DEF ValueInv
  <2>8. CASE UNCHANGED valueVars
    <3>1. values' = values /\ valueStage' = valueStage /\ sgf' = sgf /\ readValues' = readValues
      BY <2>8 DEF valueVars
    <3> QED BY <2>2, <2>4, <3>1 DEF ValueInv
  <2> QED BY <2>5, <2>6, <2>7, <2>8 DEF ValueNext
<1> QED BY <1>1, <1>2, PTL DEF ValueSpec

-----------------------------------------------------------------------------
(* What the invariant says.                                                *)

LEMMA TextsAreTyped ==
  \A k \in DOMAIN values : \A i \in DOMAIN values[k] :
    <<values[k][i], TypesOf(values[k], Descriptor)[i]>> \in TypedTexts
<1> TAKE k \in DOMAIN values
<1> TAKE i \in DOMAIN values[k]
<1>1. <<values[k][i], TypesOf(values[k], Descriptor)[i]>> \in
        {<<values[k][j], TypesOf(values[k], Descriptor)[j]>> : j \in DOMAIN values[k]}
  OBVIOUS
<1> QED BY <1>1 DEF TypedTexts

LEMMA TextOfValue ==
  ASSUME NEW v, NEW D, ValueOK(v, D)
  PROVE  /\ \A i \in DOMAIN v : v[i] \in Text
         /\ IsSingle(v, D) => 1 \in DOMAIN v /\ TypesOf(v, D)[1] = D.single
         /\ IsPair(v, D) => 1 \in DOMAIN v /\ 2 \in DOMAIN v /\ TypesOf(v, D) = PartTypes(D)
<1>1. v \in Seq(Text)
  BY ValueIsTexts
<1>2. \A i \in DOMAIN v : v[i] \in Text
  BY <1>1
<1>3. IsSingle(v, D) => DOMAIN v = {1} /\ TypesOf(v, D) = <<D.single>>
  BY ShapeOfValue
<1>4. IsPair(v, D) => DOMAIN v = {1, 2} /\ TypesOf(v, D) = PartTypes(D)
  BY ShapeOfValue
<1> QED BY <1>2, <1>3, <1>4, TuplesAre

LEMMA RangeIsFree == ASSUME NEW t \in Text, NEW c PROVE c \notin Range(t) <=> Free(t, c)
BY TextFacts DEF Range, Free

LEMMA NothingBreaksOut ==
  ASSUME NEW D, D = Descriptor, ValuesOK(values, D), ~HasBreakout
  PROVE  \A k \in 1..Len(values) : NoBreakout(values[k], D)
<1> TAKE k \in 1..Len(values)
<1> DEFINE v == values[k]
<1>1. ValueOK(v, D) /\ k \in DOMAIN values
  BY ValuesAre DEF ValuesOK
<1>2. \A i \in DOMAIN v : IsRaw(TypesOf(v, D)[i]) => HasNoBreakout(v[i])
  <2> TAKE i \in DOMAIN v
  <2> DEFINE t == v[i]
             type == TypesOf(v, D)[i]
             x == <<t, type>>
  <2>1. x \in TypedTexts /\ t \in Text
    BY <1>1, TextsAreTyped, TextOfValue
  <2>2. x[1] = t /\ x[2] = type
    OBVIOUS
  <2>3. t[Len(t)] = Last(t)
    BY DEF Last
  <2> HIDE DEF t, type, x
  <2>4. IsRaw(type) => ~(HasPair(t, Escape, ValueEnd) \/ (t # <<>> /\ Last(t) = Escape))
    BY <2>1, <2>2 DEF HasBreakout
  <2> QED BY <2>3, <2>4 DEF HasNoBreakout, t, type
<1> HIDE DEF v
<1>3. NoBreakout(v, D)
  BY <1>1, <1>2, TextOfValue DEF NoBreakout
<1> QED BY <1>3 DEF v

LEMMA NothingIsExcepted ==
  ASSUME NEW D, D = Descriptor, ValuesOK(values, D), ~HasRawSeparator, ~HasDroppedValues, ~HasVanishingValue
  PROVE  ~IsExcepted(values, D)
<1>1. ~HasFreeSeparator(values, D)
  <2> SUFFICES ASSUME IsCompressible(D), NEW k \in 1..Len(values), ~IsComposed(values[k]), ~Free(values[k][1], Separator)
               PROVE  FALSE
    BY DEF HasFreeSeparator
  <2>1. ValueOK(values[k], D) /\ k \in DOMAIN values
    BY ValuesAre DEF ValuesOK
  <2>2. IsSingle(values[k], D)
    BY <2>1, ShapeOfValue DEF ValueOK
  <2>3. values[k][1] \in Text
    BY <2>2 DEF IsSingle, TextOK
  <2>4. Separator \in Range(values[k][1])
    BY <2>3, RangeIsFree
  <2> QED BY <2>1, <2>4 DEF HasRawSeparator
<1>2. ~IsDropped(values, D) /\ ~MayVanish(values, D)
  BY DEF HasDroppedValues, HasVanishingValue, IsDropped, MayVanish
<1> QED BY <1>1, <1>2 DEF IsExcepted

LEMMA DecodedShape ==
  ASSUME NEW t \in Text, NEW D
  PROVE  IsComposed(DecodeValue(ParseValue(t, D), D)) = IsComposed(ParseValue(t, D))
<1> DEFINE w == ParseValue(t, D)
<1>1. (\E x : w = <<x>>) \/ (\E x, y : w = <<x, y>>)
  BY ParsedIsSomeTexts
<1> HIDE DEF w
<1>2. ASSUME NEW x, w = <<x>> PROVE IsComposed(DecodeValue(w, D)) = IsComposed(w)
  <2> DEFINE d == DecodeSingleValue(x, D.single, FALSE, FALSE)
  <2>1. DecodeValue(w, D) = <<d>>
    BY <1>2, DecodedValueIs
  <2> HIDE DEF d
  <2>2. ~IsComposed(w) /\ ~IsComposed(DecodeValue(w, D))
    BY <1>2, <2>1, TuplesAre
  <2> QED BY <2>2 DEF IsComposed
<1>3. ASSUME NEW x, NEW y, w = <<x, y>> PROVE IsComposed(DecodeValue(w, D)) = IsComposed(w)
  <2> DEFINE d == DecodeSingleValue(x, PartTypes(D)[1], TRUE, TRUE)
             e == DecodeSingleValue(y, PartTypes(D)[2], FALSE, TRUE)
  <2>1. DecodeValue(w, D) = <<d, e>>
    BY <1>3, DecodedValueIs
  <2> HIDE DEF d, e
  <2>2. IsComposed(w) /\ IsComposed(DecodeValue(w, D))
    BY <1>3, <2>1, TuplesAre
  <2> QED BY <2>2 DEF IsComposed
<1>4. IsComposed(DecodeValue(w, D)) = IsComposed(w)
  BY <1>1, <1>2, <1>3
<1> QED BY <1>4 DEF w

-----------------------------------------------------------------------------
(* The skeleton.                                                           *)

LEMMA SkeletonOfInv == ValueInv => SkeletonIntact
<1> SUFFICES ASSUME ValueInv, valueStage \in {"read", "broken", "throws"}, ~HasBreakout, ~HasMoveWithoutColor
             PROVE  /\ valueStage = "read"
                    /\ ~HasRawSeparator /\ ~HasDroppedValues /\ ~HasVanishingValue =>
                         /\ DOMAIN readValues = DOMAIN values
                         /\ \A k \in DOMAIN values : IsComposed(readValues[k]) = IsComposed(values[k])
  BY DEF SkeletonIntact
<1> DEFINE D == Descriptor
           P == Parse(EncodeProperty(D), D)
           R == RelevantValues(P.values, D)
           n == Len(values)
<1>1. propertyType \in PropertyTypes /\ gameType \in PlayedGames /\ ValuesOK(values, D)
  BY DEF ValueInv
<1>2. n \in Nat /\ DOMAIN values = 1..n
  BY <1>1, ValuesAre
<1>3. \A k \in 1..n : NoBreakout(values[k], D)
  BY <1>1, NothingBreaksOut
<1>4. /\ P.intact
      /\ \A k \in DOMAIN R : Fits(R[k], D)
      /\ ~IsExcepted(values, D) =>
           /\ DOMAIN R = DOMAIN values
           /\ \A k \in DOMAIN values : IsComposed(R[k]) = IsComposed(values[k])
      /\ ~IsExcepted(values, D) => \A k \in 1..n : R[k] = ParseValue(Body(values[k], D), D)
  BY <1>1, <1>3, IntactValues
<1>5. Parsed.intact /\ AllFit
  BY <1>4 DEF Parsed, AllFit, ParsedRelevant
<1>6. valueStage = "read" /\ readValues = GetPropertyValues(P.values, D)
  BY <1>5 DEF ValueInv, Parsed
<1>7. ASSUME ~HasRawSeparator, ~HasDroppedValues, ~HasVanishingValue
      PROVE  /\ DOMAIN readValues = DOMAIN values
             /\ \A k \in DOMAIN values : IsComposed(readValues[k]) = IsComposed(values[k])
  <2>1. ~IsExcepted(values, D)
    BY <1>1, <1>7, NothingIsExcepted
  <2>2. DOMAIN R = 1..n
    BY <1>2, <1>4, <2>1
  <2>3. GetPropertyValues(P.values, D) = [k \in 1..n |-> DecodeValue(R[k], D)]
    BY <1>2, <2>2, ReadValuesAre
  <2>4. \A k \in 1..n : Body(values[k], D) \in Text
    BY <1>1, WrittenIs
  <2>5. \A k \in 1..n : IsComposed(DecodeValue(R[k], D)) = IsComposed(R[k])
    BY <1>4, <2>1, <2>4, DecodedShape
  <2>6. \A k \in 1..n : IsComposed(R[k]) = IsComposed(values[k])
    BY <1>2, <1>4, <2>1
  <2> HIDE DEF R, n, P, D
  <2>7. DOMAIN readValues = 1..n /\ \A k \in 1..n : readValues[k] = DecodeValue(R[k], D)
    BY <1>6, <2>3
  <2> QED BY <1>2, <2>5, <2>6, <2>7
<1> QED BY <1>6, <1>7

(* Unless a text of a raw type breaks out of its value (HasBreakout) or a  *)
(* move has no color, an encoded property is always read again, and but    *)
(* for the three cases named it has as many values as before, single ones  *)
(* and composed ones where they were. This is what the escaping in         *)
(* SgfcDocumentEncoder is for.                                             *)
THEOREM SkeletonStaysIntact == ValueSpec => []SkeletonIntact
BY ValueInvHolds, SkeletonOfInv, PTL

-----------------------------------------------------------------------------
(* What is read back.                                                      *)

LEMMA TypesAreAnnounced ==
  ASSUME propertyType \in PropertyTypes, gameType \in PlayedGames, ValuesOK(readValues, Descriptor)
  PROVE  HasAnnouncedTypes
<1> DEFINE D == Descriptor
           T == PartTypes(D)
           announced(type) == CanPropertyHaveValueType(propertyType, gameType, type)
<1>1. \A type : announced(type) <=> \/ type \in {D.single, D.parts[1], D.parts[2]} \ {Nothing}
                                    \/ D.kind = "elist" /\ type = "None"
  BY DEF CanPropertyHaveValueType, ElementHasValueType, Descriptor
<1>2. readValues = <<>> => announced("None")
  <2>1. readValues = <<>> => D.kind = "elist" \/ D.single = "None"
    BY DEF ValuesOK
  <2> QED BY <1>1, <2>1, NothingDiffers
<1>3. ASSUME NEW k \in DOMAIN readValues, NEW i \in DOMAIN readValues[k]
      PROVE  announced(TypesOf(readValues[k], D)[i])
  <2> DEFINE v == readValues[k]
  <2>1. ValueOK(v, D)
    BY ValuesAre DEF ValuesOK
  <2> HIDE DEF v
  <2>2. CASE IsSingle(v, D)
    <3>1. DOMAIN v = {1} /\ TypesOf(v, D) = <<D.single>> /\ D.single # Nothing
      BY <2>2, ShapeOfValue DEF IsSingle
    <3>2. i = 1
      BY <1>3, <3>1 DEF v
    <3>3. TypesOf(v, D)[i] = D.single
      BY <3>1, <3>2, TuplesAre
    <3> QED BY <1>1, <3>1, <3>3 DEF v
  <2>3. CASE IsPair(v, D)
    <3>1. DOMAIN v = {1, 2} /\ TypesOf(v, D) = T /\ T[1] # Nothing
      BY <2>3, ShapeOfValue DEF IsPair
    <3>2. T[2] # Nothing
      BY <3>1, DescriptorFacts
    <3>3. T[1] \in {D.single, D.parts[1], D.parts[2]} /\ T[2] \in {D.single, D.parts[1], D.parts[2]}
      BY PartTypesAre
    <3>4. i = 1 \/ i = 2
      BY <1>3, <3>1 DEF v
    <3> QED BY <1>1, <3>1, <3>2, <3>3, <3>4 DEF v
  <2> QED BY <2>1, <2>2, <2>3 DEF ValueOK
<1> QED BY <1>2, <1>3 DEF HasAnnouncedTypes

LEMMA TextsAreKept ==
  ASSUME NEW D, D = Descriptor, ValuesOK(values, D), ~HasRawEscape, ~HasEscapedLineEnding, NEW k \in 1..Len(values)
  PROVE  \A i \in DOMAIN values[k] : TextKept(values[k][i], TypesOf(values[k], D)[i])
<1> TAKE i \in DOMAIN values[k]
<1> DEFINE t == values[k][i]
           type == TypesOf(values[k], D)[i]
           x == <<t, type>>
<1>1. ValueOK(values[k], D) /\ k \in DOMAIN values
  BY ValuesAre DEF ValuesOK
<1>2. x \in TypedTexts /\ t \in Text
  BY <1>1, TextsAreTyped, TextOfValue
<1>3. x[1] = t /\ x[2] = type
  OBVIOUS
<1> HIDE DEF t, type, x
<1>4. IsRaw(type) => Free(t, Escape)
  BY <1>2, <1>3, RangeIsFree DEF HasRawEscape
<1>5. type = "Text" => ~HasPair(t, Escape, LineEnding)
  BY <1>2, <1>3 DEF HasEscapedLineEnding
<1> QED BY <1>4, <1>5 DEF TextKept, t, type

LEMMA KeptIsNoBreakout ==
  ASSUME NEW v, NEW D, ValueOK(v, D), \A i \in DOMAIN v : TextKept(v[i], TypesOf(v, D)[i])
  PROVE  NoBreakout(v, D)
<1>1. \A i \in DOMAIN v : IsRaw(TypesOf(v, D)[i]) => HasNoBreakout(v[i])
  BY TextOfValue, FreeIsNoBreakout DEF TextKept
<1> QED BY <1>1, TextOfValue DEF NoBreakout

LEMMA ReadBackOfInv == ValueInv => ValuesReadBack
<1> SUFFICES ASSUME ValueInv, valueStage = "read"
             PROVE  /\ HasAnnouncedTypes
                    /\ ~HasRawEscape /\ ~HasRawSeparator /\ ~HasEscapedLineEnding /\ ~HasDroppedValues
                       /\ ~HasVanishingValue =>
                         readValues = [k \in DOMAIN values |->
                                        [i \in DOMAIN values[k] |->
                                          ReadAs(values[k][i], TypesOf(values[k], Descriptor)[i])]]
  BY DEF ValuesReadBack
<1> DEFINE D == Descriptor
           P == Parse(EncodeProperty(D), D)
           R == RelevantValues(P.values, D)
           n == Len(values)
           expected(k) == [i \in DOMAIN values[k] |-> ReadAs(values[k][i], TypesOf(values[k], D)[i])]
<1>1. /\ propertyType \in PropertyTypes /\ gameType \in PlayedGames /\ ValuesOK(values, D)
      /\ P.intact /\ (\A k \in DOMAIN R : Fits(R[k], D)) /\ readValues = GetPropertyValues(P.values, D)
  BY DEF ValueInv, Parsed, AllFit, ParsedRelevant
<1>2. n \in Nat /\ DOMAIN values = 1..n
  BY <1>1, ValuesAre
<1>3. HasAnnouncedTypes
  <2>1. ValuesOK(GetPropertyValues(P.values, D), D)
    BY <1>1, ReadValuesOK
  <2> QED BY <1>1, <2>1, TypesAreAnnounced
<1>4. ASSUME ~HasRawEscape, ~HasRawSeparator, ~HasEscapedLineEnding, ~HasDroppedValues, ~HasVanishingValue
      PROVE  readValues = [k \in DOMAIN values |-> expected(k)]
  <2>1. ~IsExcepted(values, D)
    BY <1>1, <1>4, NothingIsExcepted
  <2>2. \A k \in 1..n : /\ ValueOK(values[k], D)
                        /\ \A i \in DOMAIN values[k] : TextKept(values[k][i], TypesOf(values[k], D)[i])
    BY <1>1, <1>4, TextsAreKept DEF ValuesOK
  <2>3. \A k \in 1..n : NoBreakout(values[k], D)
    BY <2>2, KeptIsNoBreakout
  <2>4. DOMAIN R = 1..n /\ \A k \in 1..n : R[k] = ParseValue(Body(values[k], D), D)
    BY <1>1, <2>1, <2>3, IntactValues
  <2>5. GetPropertyValues(P.values, D) = [k \in 1..n |-> DecodeValue(R[k], D)]
    BY <1>2, <2>4, ReadValuesAre
  <2>6. ASSUME NEW k \in 1..n PROVE DecodeValue(R[k], D) = expected(k)
    <3>1. ~IsComposed(values[k]) /\ IsCompressible(D) => Free(values[k][1], Separator)
      BY <2>1 DEF IsExcepted, HasFreeSeparator
    <3>2. DecodeValue(ParseValue(Body(values[k], D), D), D) = expected(k)
      BY <1>1, <2>2, <3>1, ValueIsReadBack
    <3> QED BY <2>4, <3>2
  <2> HIDE DEF R, P, D, n, expected
  <2>7. [k \in 1..n |-> DecodeValue(R[k], D)] = [k \in 1..n |-> expected(k)]
    BY ONLY <2>6
  <2> QED BY <1>1, <1>2, <2>5, <2>7
<1> QED BY <1>3, <1>4

(* What is read of an encoded property has the value types that its        *)
(* descriptor announces, and but for the cases named each text is the one  *)
(* that was encoded, with the changes that its type makes of line endings. *)
(* SgfcPropertyDecoder undoes what SgfcDocumentEncoder has done.           *)
THEOREM ValuesAreReadBack == ValueSpec => []ValuesReadBack
BY ValueInvHolds, ReadBackOfInv, PTL

=============================================================================
