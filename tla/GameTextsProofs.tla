-------------------------- MODULE GameTextsProofs --------------------------
(***************************************************************************)
(* Proofs about TypedValues and GameTexts, for ints of any size, any       *)
(* values of a client and any texts of a file: a value that is written is  *)
(* read as the same value, but for the values named.                       *)
(*                                                                         *)
(* Digits are shown by induction over a number (LeastNumber) to be read as *)
(* the number they are written for.  Texts of numbers and reals are a sign *)
(* and digits, with or without a point; the texts of game information are  *)
(* made of them and of tokens by which their parts are found again.        *)
(***************************************************************************)
EXTENDS GameTexts, SequenceTheorems, FiniteSetTheorems, NaturalsInduction,
        WellFoundedInduction, TLAPS

-----------------------------------------------------------------------------
(* Induction: a property that some number lacks, a least number lacks.     *)

LEMMA LeastNumber ==
  ASSUME NEW S, S \subseteq Nat, S # {}
  PROVE  \E i \in S : \A j \in S : i <= j
<1> DEFINE Less == {p \in Nat \X Nat : p[1] < p[2]}
<1>1. IsWellFoundedOn(Less, Nat)
  <2>1. Less = OpToRel(<, Nat)
    BY DEF OpToRel
  <2> QED BY <2>1, NatLessThanWellFounded
<1>2. PICK i \in S : \A j \in S : ~(<<j, i>> \in Less)
  <2> HIDE DEF Less
  <2> QED BY <1>1, WFMin
<1>3. ASSUME NEW j \in S PROVE i <= j
  <2>1. i \in Nat /\ j \in Nat
    OBVIOUS
  <2>2. ~(j < i)
    BY <1>2, <2>1
  <2> QED BY <2>1, <2>2
<1> QED BY <1>3

-----------------------------------------------------------------------------
(* Numbers and their digits.                                               *)

LEMMA Division ==
  ASSUME NEW n \in Nat
  PROVE  /\ n \div 10 \in Nat /\ n % 10 \in 0..9 /\ n = 10 * (n \div 10) + (n % 10)
         /\ n >= 10 => n \div 10 < n
OBVIOUS

(* The function by which DigitsOf is defined, for the numbers up to m.     *)
WithDigit(rest, n) == rest \o <<DigitCharacters[(n % 10) + 1]>>
IsDigits(f, m) == f = [n \in 0..m |-> WithDigit(IF n < 10 THEN <<>> ELSE f[n \div 10], n)]

LEMMA DigitsAt ==
  ASSUME NEW m \in Nat, NEW f, IsDigits(f, m), NEW n \in 0..m
  PROVE  f[n] = WithDigit(IF n < 10 THEN <<>> ELSE f[n \div 10], n)
BY DEF IsDigits

LEMMA DigitsExist == ASSUME NEW m \in Nat PROVE \E f : IsDigits(f, m)
<1> DEFINE Bad == {k \in Nat : ~\E f : IsDigits(f, k)}
<1>1. 0 \notin Bad
  <2> DEFINE f == [n \in 0..0 |-> WithDigit(<<>>, 0)]
  <2>1. f = [n \in 0..0 |-> WithDigit(IF n < 10 THEN <<>> ELSE f[n \div 10], n)]
    OBVIOUS
  <2>2. IsDigits(f, 0)
    BY <2>1 DEF IsDigits
  <2> QED BY <2>2
<1>2. ASSUME NEW k \in Nat \ {0}, NEW g, IsDigits(g, k - 1) PROVE \E f : IsDigits(f, k)
  <2> DEFINE f == [n \in 0..k |-> IF n = k THEN WithDigit(IF k < 10 THEN <<>> ELSE g[k \div 10], k) ELSE g[n]]
  <2>1. ASSUME NEW n \in 0..k PROVE f[n] = WithDigit(IF n < 10 THEN <<>> ELSE f[n \div 10], n)
    <3>1. n >= 10 => n \div 10 \in 0..k /\ n \div 10 # k
      BY Division
    <3>2. CASE n = k
      <4>1. f[n] = WithDigit(IF k < 10 THEN <<>> ELSE g[k \div 10], k)
        BY <3>2
      <4>2. k >= 10 => f[k \div 10] = g[k \div 10]
        BY <3>1, <3>2
      <4> HIDE DEF f
      <4> QED BY <3>2, <4>1, <4>2
    <3>3. CASE n # k
      <4>1. n \in 0..(k - 1) /\ f[n] = g[n]
        BY <3>3
      <4>2. g[n] = WithDigit(IF n < 10 THEN <<>> ELSE g[n \div 10], n)
        BY <1>2, <4>1, DigitsAt
      <4>3. n >= 10 => f[n \div 10] = g[n \div 10]
        BY <3>1
      <4> HIDE DEF f
      <4> QED BY <4>1, <4>2, <4>3
    <3> QED BY <3>2, <3>3
  <2>2. f = [n \in 0..k |-> f[n]]
    OBVIOUS
  <2> HIDE DEF f
  <2>3. IsDigits(f, k)
    BY <2>1, <2>2 DEF IsDigits
  <2> QED BY <2>3
<1>3. Bad = {}
  <2> SUFFICES ASSUME Bad # {} PROVE FALSE
    OBVIOUS
  <2>1. Bad \subseteq Nat
    OBVIOUS
  <2> HIDE DEF Bad
  <2>2. PICK k \in Bad : \A j \in Bad : k <= j
    BY <2>1, LeastNumber
  <2>3. k \in Nat \ {0} /\ k - 1 \in Nat /\ ~(k <= k - 1)
    BY <1>1, <2>1, <2>2
  <2>4. k - 1 \notin Bad
    BY <2>2, <2>3
  <2> QED BY <1>2, <2>2, <2>3, <2>4 DEF Bad
<1> QED BY <1>3

LEMMA DigitsAgree ==
  ASSUME NEW m \in Nat, NEW k \in Nat, NEW f, NEW g, IsDigits(f, m), IsDigits(g, k),
         NEW n \in Nat, n <= m, n <= k
  PROVE  f[n] = g[n]
<1> DEFINE Bad == {i \in Nat : i <= m /\ i <= k /\ f[i] # g[i]}
<1>1. ASSUME NEW i \in Nat, i <= m, i <= k
      PROVE  /\ f[i] = WithDigit(IF i < 10 THEN <<>> ELSE f[i \div 10], i)
             /\ g[i] = WithDigit(IF i < 10 THEN <<>> ELSE g[i \div 10], i)
  BY <1>1, DigitsAt
<1>2. Bad = {}
  <2> SUFFICES ASSUME Bad # {} PROVE FALSE
    OBVIOUS
  <2>1. Bad \subseteq Nat
    OBVIOUS
  <2>2. PICK i \in Bad : \A j \in Bad : i <= j
    <3> HIDE DEF Bad
    <3> QED BY <2>1, LeastNumber
  <2>3. i \in Nat /\ i <= m /\ i <= k /\ f[i] # g[i]
    BY <2>2
  <2>4. i >= 10 => f[i \div 10] = g[i \div 10]
    <3>1. i >= 10 => i \div 10 \in Nat /\ ~(i <= i \div 10) /\ i \div 10 <= m /\ i \div 10 <= k
      BY <2>3, Division
    <3>2. i >= 10 => i \div 10 \notin Bad
      BY <2>2, <3>1
    <3> QED BY <3>1, <3>2
  <2> HIDE DEF Bad
  <2> QED BY <1>1, <2>3, <2>4
<1> QED BY <1>2

LEMMA DigitsStep ==
  ASSUME NEW n \in Nat
  PROVE  DigitsOf(n) = WithDigit(IF n < 10 THEN <<>> ELSE DigitsOf(n \div 10), n)
<1> DEFINE Fun(m) == CHOOSE f : IsDigits(f, m)
<1>1. ASSUME NEW m \in Nat PROVE DigitsOf(m) = Fun(m)[m] /\ IsDigits(Fun(m), m)
  <2>1. IsDigits(Fun(m), m)
    BY DigitsExist
  <2> QED BY <2>1 DEF DigitsOf, IsDigits, WithDigit
<1> HIDE DEF Fun
<1>2. DigitsOf(n) = WithDigit(IF n < 10 THEN <<>> ELSE Fun(n)[n \div 10], n)
  BY <1>1, DigitsAt
<1>3. n >= 10 => Fun(n)[n \div 10] = DigitsOf(n \div 10)
  <2>1. n >= 10 => n \div 10 \in Nat /\ n \div 10 <= n /\ n \div 10 <= n \div 10
    BY Division
  <2> QED BY <1>1, <2>1, DigitsAgree
<1> QED BY <1>2, <1>3

LEMMA DigitsOfSmall ==
  ASSUME NEW n \in 0..9
  PROVE  DigitsOf(n) = <<DigitCharacters[n + 1]>>
<1>1. n \in Nat /\ n < 10 /\ n % 10 = n
  OBVIOUS
<1>2. DigitsOf(n) = WithDigit(<<>>, n)
  BY <1>1, DigitsStep
<1> QED BY <1>1, <1>2 DEF WithDigit

LEMMA DigitsOfLarge ==
  ASSUME NEW n \in Nat, n >= 10
  PROVE  DigitsOf(n) = DigitsOf(n \div 10) \o <<DigitCharacters[(n % 10) + 1]>>
BY DigitsStep DEF WithDigit

(* The value of some digits and one more.                                  *)
Valued(value, c) == 10 * value + DigitValue(c)

(* The greatest of the first numbers, and the numbers below it.            *)
LEMMA MaxOfFirst ==
  ASSUME NEW k \in Nat \ {0}, NEW s \in SUBSET (1 .. k), k \in s
  PROVE  Max(s) = k
<1>1. \A x \in s : x \in Int /\ x <= k
  OBVIOUS
<1>2. \A m \in s : (\A y \in s : m >= y) => m = k
  BY <1>1
<1>3. k \in s /\ \A y \in s : k >= y
  BY <1>1
<1> QED BY <1>2, <1>3 DEF Max

(* The function by which FoldLeft is defined, for the first n digits.      *)
IsValuer(f, out, n) ==
  f = [s \in SUBSET (1 .. n) |->
         IF s = {} THEN 0 ELSE Valued(f[s \ {Max(s)}], out[Max(s)])]

LEMMA ValuerExists == ASSUME NEW out, NEW n \in Nat PROVE \E f : IsValuer(f, out, n)
<1> DEFINE Bad == {k \in Nat : ~\E f : IsValuer(f, out, k)}
<1>1. 0 \notin Bad
  <2> DEFINE f == [s \in SUBSET (1 .. 0) |-> 0]
  <2>1. \A s \in SUBSET (1 .. 0) : s = {}
    OBVIOUS
  <2>2. IsValuer(f, out, 0)
    BY <2>1 DEF IsValuer
  <2> QED BY <2>2
<1>2. ASSUME NEW k \in Nat \ {0}, NEW g, IsValuer(g, out, k - 1) PROVE \E f : IsValuer(f, out, k)
  <2> DEFINE f == [s \in SUBSET (1 .. k) |-> IF k \in s THEN Valued(g[s \ {k}], out[k]) ELSE g[s]]
  <2>1. ASSUME NEW s \in SUBSET (1 .. k), k \notin s PROVE s \in SUBSET (1 .. k - 1)
    BY <2>1
  <2>2. ASSUME NEW s \in SUBSET (1 .. k)
        PROVE  f[s] = IF s = {} THEN 0 ELSE Valued(f[s \ {Max(s)}], out[Max(s)])
    <3>1. CASE k \in s
      <4>1. Max(s) = k /\ s # {} /\ s \ {k} \in SUBSET (1 .. k) /\ k \notin s \ {k}
        BY <3>1, MaxOfFirst
      <4>2. f[s \ {k}] = g[s \ {k}]
        BY <4>1
      <4> QED BY <3>1, <4>1, <4>2
    <3>2. CASE k \notin s
      <4>1. s \in SUBSET (1 .. k - 1) /\ f[s] = g[s]
        BY <2>1, <3>2
      <4>2. g[s] = IF s = {} THEN 0 ELSE Valued(g[s \ {Max(s)}], out[Max(s)])
        BY <1>2, <4>1 DEF IsValuer
      <4>3. s \ {Max(s)} \in SUBSET (1 .. k) /\ k \notin s \ {Max(s)}
        BY <3>2
      <4>4. f[s \ {Max(s)}] = g[s \ {Max(s)}]
        BY <4>3
      <4> QED BY <4>1, <4>2, <4>4
    <3> QED BY <3>1, <3>2
  <2>3. f = [s \in SUBSET (1 .. k) |-> f[s]]
    OBVIOUS
  <2> HIDE DEF f
  <2>4. IsValuer(f, out, k)
    BY <2>2, <2>3 DEF IsValuer
  <2> QED BY <2>4
<1>3. Bad = {}
  <2> SUFFICES ASSUME Bad # {} PROVE FALSE
    OBVIOUS
  <2>1. Bad \subseteq Nat
    OBVIOUS
  <2> HIDE DEF Bad
  <2>2. PICK k \in Bad : \A j \in Bad : k <= j
    BY <2>1, LeastNumber
  <2>3. k \in Nat \ {0} /\ k - 1 \in Nat /\ ~(k <= k - 1)
    BY <1>1, <2>1
  <2>4. k - 1 \notin Bad
    BY <2>2, <2>3
  <2> QED BY <1>2, <2>3, <2>4 DEF Bad
<1> QED BY <1>3

(* The value after each digit.                                             *)
ValueSteps(after, out, n) ==
  /\ after[0] = 0
  /\ \A k \in 1 .. n : after[k] = Valued(after[k - 1], out[k])

LEMMA ValueInSteps ==
  ASSUME NEW T, NEW out \in Seq(T)
  PROVE  \E after : ValueSteps(after, out, Len(out)) /\ ValueOfDigits(out) = after[Len(out)]
<1> DEFINE IsIter(f) == f = [s \in SUBSET (DOMAIN out) |->
                               IF s = {} THEN 0 ELSE Valued(f[s \ {Max(s)}], out[Max(s)])]
           iter == CHOOSE f : IsIter(f)
           after == [k \in 0 .. Len(out) |-> iter[1 .. k]]
<1>1. DOMAIN out = 1 .. Len(out) /\ Len(out) \in Nat
  OBVIOUS
<1>2. IsIter(iter)
  <2>1. PICK f : IsValuer(f, out, Len(out))
    BY <1>1, ValuerExists
  <2>2. IsIter(f)
    BY <1>1, <2>1 DEF IsValuer
  <2> HIDE DEF IsIter
  <2> QED BY <2>2
<1>3. ValueOfDigits(out) = iter[1 .. Len(out)]
  BY <1>1 DEF ValueOfDigits, Valued, FoldLeft, MapThenFoldSet
<1> HIDE DEF iter
<1>4. \A s \in SUBSET (1 .. Len(out)) :
        iter[s] = IF s = {} THEN 0 ELSE Valued(iter[s \ {Max(s)}], out[Max(s)])
  BY <1>1, <1>2
<1>5. after[0] = 0
  <2>1. 1 .. 0 = {} /\ 0 \in 0 .. Len(out)
    BY <1>1
  <2> QED BY <1>4, <2>1
<1>6. ASSUME NEW k \in 1 .. Len(out) PROVE after[k] = Valued(after[k - 1], out[k])
  <2>1. k \in Nat \ {0} /\ k \in 1 .. k /\ k - 1 \in 0 .. Len(out) /\ k \in 0 .. Len(out)
    BY <1>1
  <2>2. Max(1 .. k) = k
    BY <2>1, MaxOfFirst
  <2>3. (1 .. k) \ {k} = 1 .. k - 1 /\ 1 .. k # {}
    <3>1. ASSUME NEW x PROVE x \in (1 .. k) \ {k} <=> x \in 1 .. k - 1
      BY <2>1
    <3> QED BY <2>1, <3>1
  <2>4. 1 .. k \in SUBSET (1 .. Len(out))
    BY <1>1
  <2>5. iter[1 .. k] = Valued(iter[1 .. k - 1], out[k])
    BY <1>4, <2>2, <2>3, <2>4
  <2> QED BY <2>1, <2>5
<1>7. after[Len(out)] = iter[1 .. Len(out)]
  BY <1>1
<1> HIDE DEF after
<1>8. ValueSteps(after, out, Len(out))
  BY <1>5, <1>6 DEF ValueSteps
<1> QED BY <1>3, <1>7, <1>8

LEMMA NoDigits == ValueOfDigits(<<>>) = 0
<1>1. <<>> \in Seq(Nat) /\ Len(<<>>) = 0
  OBVIOUS
<1> QED BY <1>1, ValueInSteps DEF ValueSteps

(* A digit more, behind the others.                                        *)
LEMMA DigitMore ==
  ASSUME NEW T, NEW out \in Seq(T), NEW c \in T
  PROVE  ValueOfDigits(Append(out, c)) = Valued(ValueOfDigits(out), c)
<1> DEFINE n == Len(out)
           new == Append(out, c)
<1>1. /\ n \in Nat /\ new \in Seq(T) /\ Len(new) = n + 1 /\ new[n + 1] = c
      /\ \A i \in 1 .. n : new[i] = out[i]
  OBVIOUS
<1>2. PICK f : ValueSteps(f, out, n) /\ ValueOfDigits(out) = f[n]
  BY ValueInSteps
<1>3. PICK g : ValueSteps(g, new, n + 1) /\ ValueOfDigits(new) = g[n + 1]
  BY <1>1, ValueInSteps
<1> HIDE DEF n, new
<1> DEFINE Bad == {k \in 0 .. n : f[k] # g[k]}
<1>4. Bad = {}
  <2> SUFFICES ASSUME Bad # {} PROVE FALSE
    OBVIOUS
  <2>1. Bad \subseteq Nat
    BY <1>1
  <2>2. PICK k \in Bad : \A j \in Bad : k <= j
    <3> HIDE DEF Bad
    <3> QED BY <2>1, LeastNumber
  <2>3. k \in 1 .. n /\ k \in 1 .. n + 1
    BY <1>1, <1>2, <1>3, <2>2 DEF ValueSteps
  <2>4. f[k - 1] = g[k - 1]
    <3>1. k - 1 \in 0 .. n /\ ~(k <= k - 1)
      BY <1>1, <2>3
    <3> QED BY <2>2, <3>1
  <2> QED BY <1>1, <1>2, <1>3, <2>2, <2>3, <2>4 DEF ValueSteps
<1>5. f[n] = g[n] /\ n + 1 \in 1 .. n + 1 /\ (n + 1) - 1 = n
  BY <1>1, <1>4
<1>6. g[n + 1] = Valued(g[n], c)
  BY <1>1, <1>3, <1>5 DEF ValueSteps
<1> QED BY <1>2, <1>3, <1>5, <1>6 DEF new


LEMMA DigitCharactersAre ==
  /\ Range(DigitCharacters) = {"0", "1", "2", "3", "4", "5", "6", "7", "8", "9"}
  /\ \A i \in 1..10 : DigitCharacters[i] \in Range(DigitCharacters)
  /\ \A i, k \in 1..10 : DigitCharacters[i] = DigitCharacters[k] => i = k
  /\ DOMAIN DigitCharacters = 1..10
<1>1. DOMAIN DigitCharacters = 1..10
  BY DEF DigitCharacters
<1>2. \A i \in 1..10 : i = 1 \/ i = 2 \/ i = 3 \/ i = 4 \/ i = 5 \/ i = 6 \/ i = 7 \/ i = 8 \/ i = 9 \/ i = 10
  OBVIOUS
<1>3. \A i, k \in 1..10 : DigitCharacters[i] = DigitCharacters[k] => i = k
  BY <1>2 DEF DigitCharacters
<1>4. Range(DigitCharacters) = {"0", "1", "2", "3", "4", "5", "6", "7", "8", "9"}
  BY <1>1, <1>2 DEF Range, DigitCharacters
<1> QED BY <1>1, <1>3, <1>4 DEF Range

LEMMA DigitIs ==
  ASSUME NEW d \in 0..9
  PROVE  /\ IsDigitCharacter(DigitCharacters[d + 1])
         /\ DigitValue(DigitCharacters[d + 1]) = d
<1>1. d + 1 \in 1..10 /\ d + 1 \in DOMAIN DigitCharacters
  BY DigitCharactersAre
<1>2. \A i \in DOMAIN DigitCharacters : DigitCharacters[i] = DigitCharacters[d + 1] => i = d + 1
  BY <1>1, DigitCharactersAre
<1>3. DigitValue(DigitCharacters[d + 1]) = (d + 1) - 1
  BY <1>1, <1>2 DEF DigitValue
<1> QED BY <1>1, <1>3, DigitCharactersAre DEF IsDigitCharacter

LEMMA DigitValueIs ==
  ASSUME NEW c, IsDigitCharacter(c)
  PROVE  DigitValue(c) \in 0..9
<1>1. \E i \in DOMAIN DigitCharacters : DigitCharacters[i] = c
  BY DEF IsDigitCharacter, Range
<1>2. PICK i \in 1..10 : DigitCharacters[i] = c
  BY <1>1, DigitCharactersAre
<1>3. (CHOOSE j \in DOMAIN DigitCharacters : DigitCharacters[j] = c) \in 1..10
  BY <1>2, DigitCharactersAre
<1> QED BY <1>3 DEF DigitValue

(* Strings, of which those below are some (a prover does not know that).   *)
Char ==
  STRING \cup Range(DigitCharacters)
    \cup {"+", "-", ".", "thousands separator", "e", "1", "2", "B", "W", " ", "(", ")", "B+", "W+", "Resign", "Time",
          "Forfeit", "Draw", "Void", "?", "k", "d", "p", "*", "kyu", "dan", "AGA", "GOE", "Japanese",
          "NZ", "ing"}

LEMMA StringsAreChars == ASSUME NEW t \in Seq(STRING) PROVE t \in Seq(Char)
<1>1. STRING \subseteq Char
  BY DEF Char
<1> HIDE DEF Char
<1>2. Len(t) \in Nat /\ \A i \in 1..Len(t) : t[i] \in Char
  <2>1. Len(t) \in Nat /\ \A i \in 1..Len(t) : t[i] \in STRING
    OBVIOUS
  <2> QED BY ONLY <1>1, <2>1
<1>3. t = [i \in 1..Len(t) |-> t[i]]
  OBVIOUS
<1>4. [i \in 1..Len(t) |-> t[i]] \in Seq(Char)
  BY <1>2
<1> QED BY <1>3, <1>4

(* Texts of digits only.                                                   *)
IsDigitText(t) == t \in Seq(Char) /\ \A i \in 1..Len(t) : IsDigitCharacter(t[i])

LEMMA DigitIsChar == ASSUME NEW c, IsDigitCharacter(c) PROVE c \in Char
BY DEF IsDigitCharacter, Char

LEMMA AppendFacts ==
  ASSUME NEW T, NEW t \in Seq(T), NEW c \in T
  PROVE  /\ Append(t, c) \in Seq(T) /\ Append(t, c) # <<>> /\ Len(Append(t, c)) = Len(t) + 1
         /\ Append(t, c)[Len(t) + 1] = c /\ \A i \in 1..Len(t) : Append(t, c)[i] = t[i]
         /\ t \o <<c>> = Append(t, c)
<1>1. t \o <<c>> = Append(t, c)
  <2>1. Len(<<c>>) = 1 /\ <<c>>[1] = c /\ <<c>> \in Seq(T)
    OBVIOUS
  <2>2. Len(t \o <<c>>) = Len(t) + 1 /\ t \o <<c>> \in Seq(T)
    BY <2>1
  <2>3. \A i \in 1..(Len(t) + 1) : (t \o <<c>>)[i] = Append(t, c)[i]
    BY <2>1
  <2>4. Append(t, c) \in Seq(T) /\ Len(Append(t, c)) = Len(t) + 1
    OBVIOUS
  <2> QED BY <2>2, <2>3, <2>4, SeqEqual
<1> QED BY <1>1

LEMMA DigitBehind ==
  ASSUME NEW t, IsDigitText(t), NEW c, IsDigitCharacter(c)
  PROVE  /\ IsDigitText(Append(t, c)) /\ t \o <<c>> = Append(t, c)
         /\ ValueOfDigits(Append(t, c)) = 10 * ValueOfDigits(t) + DigitValue(c)
<1>1. t \in Seq(Char) /\ c \in Char /\ \A i \in 1..Len(t) : IsDigitCharacter(t[i])
  BY DigitIsChar DEF IsDigitText
<1>2. IsDigitText(Append(t, c))
  <2>1. /\ Append(t, c) \in Seq(Char) /\ Len(Append(t, c)) = Len(t) + 1
        /\ Append(t, c)[Len(t) + 1] = c /\ \A i \in 1..Len(t) : Append(t, c)[i] = t[i]
    BY <1>1, AppendFacts
  <2>2. ASSUME NEW i \in 1..(Len(t) + 1) PROVE IsDigitCharacter(Append(t, c)[i])
    <3>1. i = Len(t) + 1 \/ i \in 1..Len(t)
      BY <1>1
    <3> QED BY <1>1, <2>1, <3>1
  <2> QED BY <2>1, <2>2 DEF IsDigitText
<1>3. t \o <<c>> = Append(t, c)
  BY <1>1, AppendFacts
<1>4. ValueOfDigits(Append(t, c)) = 10 * ValueOfDigits(t) + DigitValue(c)
  BY <1>1, DigitMore DEF Valued
<1> QED BY <1>2, <1>3, <1>4

LEMMA DigitsAreText ==
  ASSUME NEW n \in Nat
  PROVE  IsDigitText(DigitsOf(n)) /\ DigitsOf(n) # <<>> /\ ValueOfDigits(DigitsOf(n)) = n
<1> DEFINE Good(k) == IsDigitText(DigitsOf(k)) /\ DigitsOf(k) # <<>> /\ ValueOfDigits(DigitsOf(k)) = k
           Bad == {k \in Nat : ~Good(k)}
<1>1. ASSUME NEW k \in 0..9 PROVE Good(k)
  <2> DEFINE c == DigitCharacters[k + 1]
  <2>1. IsDigitCharacter(c) /\ DigitValue(c) = k
    BY DigitIs
  <2> HIDE DEF c
  <2>2. IsDigitText(<<>>) /\ ValueOfDigits(<<>>) = 0
    BY NoDigits DEF IsDigitText
  <2>3. Append(<<>>, c) = <<c>> /\ <<c>> # <<>>
    OBVIOUS
  <2>4. IsDigitText(<<c>>) /\ ValueOfDigits(<<c>>) = 10 * 0 + DigitValue(c)
    BY <2>1, <2>2, <2>3, DigitBehind
  <2>5. DigitsOf(k) = <<c>>
    BY DigitsOfSmall DEF c
  <2> QED BY <2>1, <2>3, <2>4, <2>5
<1>2. ASSUME NEW k \in Nat, k >= 10, Good(k \div 10) PROVE Good(k)
  <2> DEFINE c == DigitCharacters[(k % 10) + 1]
             rest == DigitsOf(k \div 10)
  <2>1. k % 10 \in 0..9 /\ k = 10 * (k \div 10) + (k % 10)
    BY Division
  <2>2. IsDigitCharacter(c) /\ DigitValue(c) = k % 10
    BY <2>1, DigitIs
  <2>3. DigitsOf(k) = rest \o <<c>>
    BY <1>2, DigitsOfLarge
  <2>4. IsDigitText(rest) /\ ValueOfDigits(rest) = k \div 10
    BY <1>2
  <2> HIDE DEF c, rest
  <2>5. rest \o <<c>> = Append(rest, c) /\ IsDigitText(Append(rest, c))
        /\ ValueOfDigits(Append(rest, c)) = 10 * (k \div 10) + (k % 10)
    BY <2>2, <2>4, DigitBehind
  <2>6. Append(rest, c) # <<>>
    BY <2>2, <2>4, DigitIsChar, AppendFacts DEF IsDigitText
  <2> QED BY <2>1, <2>3, <2>5, <2>6
<1>3. Bad = {}
  <2> SUFFICES ASSUME Bad # {} PROVE FALSE
    OBVIOUS
  <2>1. Bad \subseteq Nat
    OBVIOUS
  <2>2. PICK k \in Bad : \A j \in Bad : k <= j
    <3> HIDE DEF Bad
    <3> QED BY <2>1, LeastNumber
  <2>3. k \in Nat /\ ~Good(k)
    BY <2>2
  <2>4. k >= 10
    <3> HIDE DEF Good
    <3> QED BY <1>1, <2>3
  <2>5. k \div 10 \in Nat /\ ~(k <= k \div 10)
    BY <2>3, <2>4, Division
  <2>6. Good(k \div 10)
    <3> HIDE DEF Good
    <3> QED BY <2>2, <2>5
  <2> HIDE DEF Good, Bad
  <2> QED BY <1>2, <2>3, <2>4, <2>6
<1> QED BY <1>3

LEMMA ValueIsNumber ==
  ASSUME NEW t, IsDigitText(t)
  PROVE  ValueOfDigits(t) \in Nat
<1>1. t \in Seq(Char) /\ Len(t) \in Nat /\ \A i \in 1..Len(t) : IsDigitCharacter(t[i])
  BY DEF IsDigitText
<1>2. PICK f : ValueSteps(f, t, Len(t)) /\ ValueOfDigits(t) = f[Len(t)]
  BY <1>1, ValueInSteps
<1> DEFINE Bad == {k \in 0..Len(t) : f[k] \notin Nat}
<1>3. Bad = {}
  <2> SUFFICES ASSUME Bad # {} PROVE FALSE
    OBVIOUS
  <2>1. Bad \subseteq Nat
    BY <1>1
  <2>2. PICK k \in Bad : \A j \in Bad : k <= j
    <3> HIDE DEF Bad
    <3> QED BY <2>1, LeastNumber
  <2>3. k \in 1..Len(t) /\ f[k] \notin Nat
    BY <1>1, <1>2, <2>2 DEF ValueSteps
  <2>4. f[k - 1] \in Nat
    <3>1. k - 1 \in 0..Len(t) /\ ~(k <= k - 1)
      BY <1>1, <2>3
    <3> QED BY <2>2, <3>1
  <2>5. f[k] = 10 * f[k - 1] + DigitValue(t[k]) /\ DigitValue(t[k]) \in 0..9
    BY <1>1, <1>2, <2>3, DigitValueIs DEF ValueSteps, Valued
  <2>6. ASSUME NEW a \in Nat, NEW b \in 0..9 PROVE 10 * a + b \in Nat
    OBVIOUS
  <2> QED BY <2>3, <2>4, <2>5, <2>6
<1> QED BY <1>1, <1>2, <1>3

LEMMA ConcatFacts ==
  ASSUME NEW T, NEW s \in Seq(T), NEW t \in Seq(T)
  PROVE  /\ s \o t \in Seq(T) /\ Len(s \o t) = Len(s) + Len(t)
         /\ DOMAIN (s \o t) = 1..(Len(s) + Len(t))
         /\ \A i \in 1..Len(s) : (s \o t)[i] = s[i]
         /\ \A i \in 1..Len(t) : (s \o t)[Len(s) + i] = t[i]
         /\ \A i \in (Len(s) + 1)..(Len(s) + Len(t)) : (s \o t)[i] = t[i - Len(s)]
         /\ SubSeq(s \o t, Len(s) + 1, Len(s \o t)) = t
         /\ SubSeq(s \o t, 1, Len(s)) = s
<1> DEFINE st == s \o t
<1>1. /\ st \in Seq(T) /\ Len(st) = Len(s) + Len(t) /\ Len(s) \in Nat /\ Len(t) \in Nat
      /\ \A i \in 1..Len(s) : st[i] = s[i]
  OBVIOUS
<1>2. \A i \in (Len(s) + 1)..(Len(s) + Len(t)) : st[i] = t[i - Len(s)]
  OBVIOUS
<1>3. DOMAIN st = 1..(Len(s) + Len(t))
  BY <1>1
<1> HIDE DEF st
<1>4. \A i \in 1..Len(t) : st[Len(s) + i] = t[i]
  <2> TAKE i \in 1..Len(t)
  <2>1. Len(s) + i \in (Len(s) + 1)..(Len(s) + Len(t)) /\ (Len(s) + i) - Len(s) = i
    BY <1>1
  <2> QED BY <1>2, <2>1
<1>5. SubSeq(st, Len(s) + 1, Len(st)) = t
  <2> DEFINE u == SubSeq(st, Len(s) + 1, Len(st))
  <2>1. u \in Seq(T) /\ Len(u) = Len(t)
    BY <1>1
  <2>2. \A i \in 1..Len(t) : u[i] = st[Len(s) + i]
    BY <1>1
  <2> HIDE DEF u
  <2>3. u = t
    BY <1>4, <2>1, <2>2, SeqEqual
  <2> QED BY <2>3 DEF u
<1>6. SubSeq(st, 1, Len(s)) = s
  <2> DEFINE u == SubSeq(st, 1, Len(s))
  <2>1. u \in Seq(T) /\ Len(u) = Len(s)
    BY <1>1
  <2>2. \A i \in 1..Len(s) : u[i] = st[i]
    BY <1>1
  <2> HIDE DEF u
  <2>3. u = s
    BY <1>1, <2>1, <2>2, SeqEqual
  <2> QED BY <2>3 DEF u
<1> QED BY <1>1, <1>2, <1>3, <1>4, <1>5, <1>6 DEF st

(* A text is its first k elements and those behind them.                   *)
LEMMA SplitFacts ==
  ASSUME NEW T, NEW t \in Seq(T), NEW k \in 0..Len(t)
  PROVE  /\ SubSeq(t, 1, k) \in Seq(T) /\ Len(SubSeq(t, 1, k)) = k
         /\ \A i \in 1..k : SubSeq(t, 1, k)[i] = t[i]
         /\ SubSeq(t, k + 1, Len(t)) \in Seq(T) /\ Len(SubSeq(t, k + 1, Len(t))) = Len(t) - k
         /\ \A i \in 1..(Len(t) - k) : SubSeq(t, k + 1, Len(t))[i] = t[k + i]
         /\ t = SubSeq(t, 1, k) \o SubSeq(t, k + 1, Len(t))
<1> DEFINE a == SubSeq(t, 1, k)
           b == SubSeq(t, k + 1, Len(t))
<1>1. Len(t) \in Nat /\ k \in Nat /\ k <= Len(t)
  OBVIOUS
<1>2. a \in Seq(T) /\ Len(a) = k /\ \A i \in 1..k : a[i] = t[i]
  BY <1>1
<1>3. b \in Seq(T) /\ Len(b) = Len(t) - k /\ \A i \in 1..(Len(t) - k) : b[i] = t[k + i]
  BY <1>1
<1> HIDE DEF a, b
<1>4. t = a \o b
  <2>1. a \o b \in Seq(T) /\ Len(a \o b) = Len(t)
    <3>1. a \o b \in Seq(T) /\ Len(a \o b) = Len(a) + Len(b)
      BY <1>2, <1>3, ConcatFacts
    <3>2. k + (Len(t) - k) = Len(t)
      BY <1>1
    <3> QED BY <1>2, <1>3, <3>1, <3>2
  <2>2. ASSUME NEW i \in 1..Len(t) PROVE (a \o b)[i] = t[i]
    <3>1. CASE i \in 1..k
      BY <1>2, <1>3, <3>1, ConcatFacts
    <3>2. CASE i \notin 1..k
      <4>1. i \in (Len(a) + 1)..(Len(a) + Len(b)) /\ i - k \in 1..(Len(t) - k) /\ k + (i - k) = i
        BY <1>1, <1>2, <1>3, <3>2
      <4>2. (a \o b)[i] = b[i - k]
        BY <1>2, <1>3, <4>1, ConcatFacts
      <4> QED BY <1>3, <4>1, <4>2
    <3> QED BY <3>1, <3>2
  <2> QED BY <2>1, <2>2, SeqEqual
<1> QED BY <1>2, <1>3, <1>4 DEF a, b

LEMMA MinIs ==
  ASSUME NEW S \in SUBSET Int, NEW m \in S, \A i \in S : m <= i
  PROVE  Min(S) = m
<1>1. \A x \in S : (\A y \in S : x <= y) => x = m
  OBVIOUS
<1> QED BY <1>1 DEF Min

LEMMA MaxIs ==
  ASSUME NEW S \in SUBSET Int, NEW m \in S, \A i \in S : i <= m
  PROVE  Max(S) = m
<1>1. \A x \in S : (\A y \in S : x >= y) => x = m
  OBVIOUS
<1> QED BY <1>1 DEF Max

(* Where the digits at the beginning of a text end.                        *)
LEMMA LeadingDigitsAre ==
  ASSUME NEW d, IsDigitText(d), NEW rest \in Seq(Char), rest # <<>> => ~IsDigitCharacter(rest[1])
  PROVE  LeadingDigits(d \o rest) = d
<1> DEFINE t == d \o rest
           others == {i \in DOMAIN t : ~IsDigitCharacter(t[i])}
<1>1. d \in Seq(Char) /\ Len(d) \in Nat /\ \A i \in 1..Len(d) : IsDigitCharacter(d[i])
  BY DEF IsDigitText
<1>2. /\ t \in Seq(Char) /\ Len(t) = Len(d) + Len(rest) /\ DOMAIN t = 1..(Len(d) + Len(rest))
      /\ \A i \in 1..Len(d) : t[i] = d[i]
      /\ \A i \in 1..Len(rest) : t[Len(d) + i] = rest[i]
      /\ SubSeq(t, 1, Len(d)) = d
  BY <1>1, ConcatFacts
<1> HIDE DEF t
<1>3. CASE rest = <<>>
  <2>1. others = {} /\ t = d
    <3>1. others = {}
      BY <1>1, <1>2, <1>3
    <3> QED BY <1>1, <1>2, <1>3, <3>1, SeqEqual
  <2> QED BY <2>1 DEF LeadingDigits, t
<1>4. CASE rest # <<>>
  <2>1. Len(rest) \in Nat \ {0} /\ 1 \in 1..Len(rest)
    BY <1>4
  <2>2. Len(d) + 1 \in others
    BY <1>1, <1>2, <1>4, <2>1
  <2>3. \A i \in others : Len(d) + 1 <= i
    BY <1>1, <1>2
  <2>4. others \in SUBSET Int
    BY <1>2
  <2> HIDE DEF others
  <2>5. Min(others) = Len(d) + 1 /\ others # {}
    BY <2>2, <2>3, <2>4, MinIs
  <2>6. LeadingDigits(t) = SubSeq(t, 1, Len(d))
    <3>1. LeadingDigits(t) = IF others = {} THEN t ELSE SubSeq(t, 1, Min(others) - 1)
      BY DEF LeadingDigits, others
    <3>2. (Len(d) + 1) - 1 = Len(d)
      BY <1>1
    <3> QED BY ONLY <2>5, <3>1, <3>2
  <2> QED BY <1>2, <2>6 DEF t
<1> QED BY <1>3, <1>4

(* The digits at the beginning of any text.                                *)
LEMMA LeadingDigitsExist ==
  ASSUME NEW t \in Seq(Char)
  PROVE  \E d, rest : /\ IsDigitText(d) /\ rest \in Seq(Char) /\ t = d \o rest
                      /\ rest # <<>> => ~IsDigitCharacter(rest[1])
                      /\ LeadingDigits(t) = d /\ SubSeq(t, Len(d) + 1, Len(t)) = rest
<1> DEFINE others == {i \in 1..Len(t) : ~IsDigitCharacter(t[i])}
           Parts(d, rest) ==
             /\ IsDigitText(d) /\ rest \in Seq(Char) /\ t = d \o rest
             /\ rest # <<>> => ~IsDigitCharacter(rest[1])
<1>1. Len(t) \in Nat
  OBVIOUS
<1>2. \E d, rest : Parts(d, rest)
  <2>1. CASE others = {}
    <3>1. IsDigitText(t) /\ t = t \o <<>> /\ <<>> \in Seq(Char)
      BY <2>1 DEF IsDigitText
    <3> QED BY <3>1
  <2>2. CASE others # {}
    <3>1. PICK k \in others : \A i \in others : k <= i
      <4>1. others \subseteq Nat
        BY <1>1
      <4> HIDE DEF others
      <4> QED BY <2>2, <4>1, LeastNumber
    <3>2. k \in 1..Len(t) /\ ~IsDigitCharacter(t[k]) /\ k - 1 \in 0..Len(t) /\ (k - 1) + 1 = k
      BY <1>1
    <3> DEFINE a == SubSeq(t, 1, k - 1)
               b == SubSeq(t, (k - 1) + 1, Len(t))
    <3>3. /\ a \in Seq(Char) /\ Len(a) = k - 1 /\ \A i \in 1..(k - 1) : a[i] = t[i]
          /\ b \in Seq(Char) /\ Len(b) = Len(t) - (k - 1)
          /\ \A i \in 1..(Len(t) - (k - 1)) : b[i] = t[(k - 1) + i]
          /\ t = a \o b
      BY <3>2, SplitFacts
    <3> HIDE DEF a, b
    <3>4. \A i \in 1..(k - 1) : IsDigitCharacter(a[i])
      <4> TAKE i \in 1..(k - 1)
      <4>1. i \in 1..Len(t) /\ ~(k <= i)
        BY <1>1, <3>2
      <4> QED BY <3>1, <3>3, <4>1
    <3>5. b[1] = t[k]
      BY <1>1, <3>2, <3>3
    <3>6. Parts(a, b)
      BY <3>2, <3>3, <3>4, <3>5 DEF IsDigitText
    <3> QED BY <3>6
  <2> QED BY <2>1, <2>2
<1>3. PICK d, rest : Parts(d, rest)
  BY <1>2
<1>4. LeadingDigits(t) = d
  BY <1>3, LeadingDigitsAre
<1>5. SubSeq(t, Len(d) + 1, Len(t)) = rest
  BY <1>3, ConcatFacts DEF IsDigitText
<1> QED BY <1>3, <1>4, <1>5

(* What a text of some digits and one or two more is worth.                *)
LEMMA OneMoreDigit ==
  ASSUME NEW t, IsDigitText(t), NEW c, IsDigitCharacter(c)
  PROVE  IsDigitText(t \o <<c>>) /\ ValueOfDigits(t \o <<c>>) = 10 * ValueOfDigits(t) + DigitValue(c)
BY DigitBehind

LEMMA TwoMoreDigits ==
  ASSUME NEW t, IsDigitText(t), NEW b, IsDigitCharacter(b), NEW c, IsDigitCharacter(c)
  PROVE  /\ IsDigitText(t \o <<b, c>>)
         /\ ValueOfDigits(t \o <<b, c>>) = 100 * ValueOfDigits(t) + 10 * DigitValue(b) + DigitValue(c)
<1>1. t \in Seq(Char) /\ b \in Char /\ c \in Char
  BY DigitIsChar DEF IsDigitText
<1>2. t \o <<b, c>> = (t \o <<b>>) \o <<c>>
  <2> HIDE DEF Char
  <2>1. <<b, c>> = <<b>> \o <<c>> /\ <<b>> \in Seq(Char) /\ <<c>> \in Seq(Char)
    BY <1>1
  <2>2. (t \o <<b>>) \o <<c>> = t \o (<<b>> \o <<c>>)
    BY <1>1, <2>1, ConcatAssociative
  <2> QED BY ONLY <2>1, <2>2
<1>3. IsDigitText(t \o <<b>>) /\ ValueOfDigits(t \o <<b>>) = 10 * ValueOfDigits(t) + DigitValue(b)
  BY OneMoreDigit
<1>4. /\ IsDigitText((t \o <<b>>) \o <<c>>)
      /\ ValueOfDigits((t \o <<b>>) \o <<c>>) = 10 * (10 * ValueOfDigits(t) + DigitValue(b)) + DigitValue(c)
  BY <1>3, OneMoreDigit
<1>5. ValueOfDigits(t) \in Nat /\ DigitValue(b) \in Nat /\ DigitValue(c) \in Nat
  BY ValueIsNumber, DigitValueIs
<1>6. 10 * (10 * ValueOfDigits(t) + DigitValue(b)) = 100 * ValueOfDigits(t) + 10 * DigitValue(b)
  BY ONLY <1>5
<1> QED BY <1>2, <1>4, <1>6

LEMMA ZeroIsDigit == IsDigitCharacter("0") /\ DigitValue("0") = 0
<1>1. 0 \in 0..9 /\ DigitCharacters[0 + 1] = "0"
  BY DEF DigitCharacters
<1> QED BY <1>1, DigitIs

LEMMA NotDigits ==
  \A c \in {"+", "-", ".", "e", "B+", "W+", "?", "*", "k", "d", "p", "kyu", "dan", "R", "Resign", "T", "Time", "F",
            "Forfeit", "Draw", "Void"} : ~IsDigitCharacter(c)
BY DigitCharactersAre DEF IsDigitCharacter

-----------------------------------------------------------------------------
(* Texts with a sign.                                                      *)

Signs == {<<>>, <<"+">>, <<"-">>}
WithSign(s, value) == IF s = <<"-">> THEN -value ELSE value

LEMMA SignsDiffer == /\ <<>> # <<"+">> /\ <<>> # <<"-">> /\ <<"+">> # <<"-">>
                     /\ \A s \in Signs : s \in Seq(Char)
<1>1. <<"+">>[1] = "+" /\ <<"-">>[1] = "-" /\ "+" # "-" /\ Len(<<>>) = 0 /\ Len(<<"+">>) = 1 /\ Len(<<"-">>) = 1
  OBVIOUS
<1>2. "+" \in Char /\ "-" \in Char
  BY DEF Char
<1> QED BY <1>1, <1>2 DEF Signs

LEMMA SignFacts ==
  ASSUME NEW s \in Signs, NEW d \in Seq(Char), d # <<>> => d[1] \notin {"+", "-"}
  PROVE  /\ s \o d \in Seq(Char)
         /\ Unsigned(s \o d) = d
         /\ Unsigned(WithoutPlus(s \o d)) = d
         /\ \A v : Signed(s \o d, v) = WithSign(s, v)
         /\ \A v : Signed(WithoutPlus(s \o d), v) = WithSign(s, v)
<1>1. /\ ~Begins(d, {"+"}) /\ ~Begins(d, {"+", "-"}) /\ ~Begins(d, {"-"}) /\ <<>> \o d = d
  BY DEF Begins
<1>2. CASE s = <<>>
  <2>1. s \o d = d
    BY <1>1, <1>2
  <2> QED BY <1>1, <1>2, <2>1, SignsDiffer DEF Unsigned, WithoutPlus, Signed, WithSign
<1>3. ASSUME NEW c \in {"+", "-"}, s = <<c>>
      PROVE  /\ s \o d \in Seq(Char) /\ s \o d # <<>> /\ Head(s \o d) = c /\ Tail(s \o d) = d
  <2>1. c \in Char /\ <<c>> \in Seq(Char) /\ Len(<<c>>) = 1 /\ <<c>>[1] = c
    <3>1. c \in Char
      BY DEF Char
    <3> QED BY <3>1
  <2>2. /\ <<c>> \o d \in Seq(Char) /\ Len(<<c>> \o d) = 1 + Len(d) /\ (<<c>> \o d)[1] = c
        /\ SubSeq(<<c>> \o d, 1 + 1, Len(<<c>> \o d)) = d
    BY <2>1, ConcatFacts
  <2> DEFINE t == <<c>> \o d
  <2> HIDE DEF t
  <2>3. t \in Seq(Char) /\ t # <<>> => Tail(t) = SubSeq(t, 1 + 1, Len(t)) /\ Head(t) = t[1]
    OBVIOUS
  <2>4. t # <<>>
    <3>1. Len(t) # 0
      BY <2>2 DEF t
    <3> QED BY <3>1
  <2> QED BY <1>3, <2>2, <2>3, <2>4 DEF t
<1>4. CASE s = <<"+">>
  <2>1. s \o d \in Seq(Char) /\ s \o d # <<>> /\ Head(s \o d) = "+" /\ Tail(s \o d) = d
    BY <1>3, <1>4
  <2>2. Begins(s \o d, {"+"}) /\ Begins(s \o d, {"+", "-"}) /\ ~Begins(s \o d, {"-"})
    BY <2>1 DEF Begins
  <2>3. WithoutPlus(s \o d) = d /\ Unsigned(s \o d) = d /\ Unsigned(d) = d
    BY <1>1, <2>1, <2>2 DEF WithoutPlus, Unsigned
  <2> QED BY <1>1, <1>4, <2>1, <2>2, <2>3, SignsDiffer DEF Signed, WithSign
<1>5. CASE s = <<"-">>
  <2>1. s \o d \in Seq(Char) /\ s \o d # <<>> /\ Head(s \o d) = "-" /\ Tail(s \o d) = d
    BY <1>3, <1>5
  <2>2. ~Begins(s \o d, {"+"}) /\ Begins(s \o d, {"+", "-"}) /\ Begins(s \o d, {"-"})
    BY <2>1 DEF Begins
  <2>3. WithoutPlus(s \o d) = s \o d /\ Unsigned(s \o d) = d
    BY <2>1, <2>2 DEF WithoutPlus, Unsigned
  <2> QED BY <1>5, <2>1, <2>2, <2>3 DEF Signed, WithSign
<1> QED BY <1>2, <1>4, <1>5 DEF Signs

LEMMA SignOf ==
  ASSUME NEW t \in Seq(Char)
  PROVE  \E s \in Signs : t = s \o Unsigned(t) /\ Unsigned(t) \in Seq(Char)
<1>1. CASE Begins(t, {"+", "-"})
  <2>1. t # <<>> /\ Head(t) \in {"+", "-"} /\ Unsigned(t) = Tail(t)
    BY <1>1 DEF Begins, Unsigned
  <2>2. t = <<Head(t)>> \o Tail(t) /\ Tail(t) \in Seq(Char)
    BY <2>1
  <2>3. <<Head(t)>> \in Signs
    BY <2>1 DEF Signs
  <2> QED BY <2>1, <2>2, <2>3
<1>2. CASE ~Begins(t, {"+", "-"})
  <2>1. Unsigned(t) = t /\ t = <<>> \o t /\ <<>> \in Signs
    BY <1>2 DEF Unsigned, Signs
  <2> QED BY <2>1
<1> QED BY <1>1, <1>2

LEMMA DigitsAlone ==
  ASSUME NEW d, IsDigitText(d)
  PROVE  /\ d \in Seq(Char) /\ LeadingDigits(d) = d
         /\ d # <<>> => d[1] \notin {"+", "-"}
<1>1. d \in Seq(Char) /\ Len(d) \in Nat /\ \A i \in 1..Len(d) : IsDigitCharacter(d[i])
  BY DEF IsDigitText
<1>2. LeadingDigits(d) = d
  <2>1. d \o <<>> = d /\ <<>> \in Seq(Char)
    BY <1>1
  <2> QED BY <2>1, LeadingDigitsAre
<1>3. d # <<>> => d[1] \notin {"+", "-"}
  <2>1. d # <<>> => 1 \in 1..Len(d)
    BY <1>1
  <2> QED BY <1>1, <2>1, NotDigits
<1> QED BY <1>1, <1>2, <1>3

LEMMA DigitsBefore ==
  ASSUME NEW d, IsDigitText(d), NEW u \in Seq(Char), u # <<>> => u[1] \notin {"+", "-"}
  PROVE  d \o u \in Seq(Char) /\ (d \o u # <<>> => (d \o u)[1] \notin {"+", "-"})
<1>1. d \in Seq(Char) /\ (d # <<>> => d[1] \notin {"+", "-"})
  BY DigitsAlone
<1>2. CASE d = <<>>
  BY <1>2
<1>3. CASE d # <<>>
  <2>1. 1 \in 1..Len(d)
    BY <1>1, <1>3
  <2>2. (d \o u)[1] = d[1] /\ d \o u \in Seq(Char)
    BY <1>1, <2>1, ConcatFacts
  <2> QED BY <1>1, <1>3, <2>2
<1> QED BY <1>2, <1>3

-----------------------------------------------------------------------------
(* Numbers.                                                                *)

LEMMA ConvertedNumber ==
  ASSUME NEW s \in Signs, NEW d, IsDigitText(d), d # <<>>
  PROVE  LET value == WithSign(s, ValueOfDigits(d))
         IN  /\ TryConvertStringToNumberValue(s \o d) = IF value \in Ints THEN <<value>> ELSE <<>>
             /\ Meaning("Number", s \o d) = value
             /\ IsSgfNumber(s \o d)
<1>1. /\ d \in Seq(Char) /\ LeadingDigits(d) = d /\ d[1] \notin {"+", "-"}
      /\ \A i \in 1..Len(d) : IsDigitCharacter(d[i])
  BY DigitsAlone DEF IsDigitText
<1>2. /\ Unsigned(s \o d) = d /\ Unsigned(WithoutPlus(s \o d)) = d
      /\ Signed(s \o d, ValueOfDigits(d)) = WithSign(s, ValueOfDigits(d))
      /\ Signed(WithoutPlus(s \o d), ValueOfDigits(d)) = WithSign(s, ValueOfDigits(d))
  BY <1>1, SignFacts
<1>3. TryConvertStringToNumberValue(s \o d) =
        IF WithSign(s, ValueOfDigits(d)) \in Ints THEN <<WithSign(s, ValueOfDigits(d))>> ELSE <<>>
  BY <1>1, <1>2 DEF TryConvertStringToNumberValue
<1>4. Meaning("Number", s \o d) = WithSign(s, ValueOfDigits(d))
  BY <1>2 DEF Meaning
<1>5. IsSgfNumber(s \o d)
  BY <1>1, <1>2 DEF IsSgfNumber
<1> QED BY <1>3, <1>4, <1>5

LEMMA NumberTextIs ==
  ASSUME NEW t \in Seq(Char), IsSgfNumber(t)
  PROVE  \E s, d : s \in Signs /\ IsDigitText(d) /\ d # <<>> /\ t = s \o d
<1>1. PICK s \in Signs : t = s \o Unsigned(t) /\ Unsigned(t) \in Seq(Char)
  BY SignOf
<1>2. IsDigitText(Unsigned(t)) /\ Unsigned(t) # <<>>
  BY <1>1 DEF IsSgfNumber, IsDigitText
<1> QED BY <1>1, <1>2

LEMMA SignIs ==
  ASSUME NEW n \in Int
  PROVE  /\ Sign(n) \in Signs /\ Abs(n) \in Nat /\ WithSign(Sign(n), Abs(n)) = n
         /\ n >= 0 => Sign(n) = <<>> /\ Abs(n) = n
<1>1. CASE n < 0
  BY <1>1 DEF Sign, Abs, Signs, WithSign
<1>2. CASE ~(n < 0)
  <2>1. Sign(n) = <<>> /\ Abs(n) = n /\ n \in Nat
    BY <1>2 DEF Sign, Abs
  <2> QED BY <2>1, SignsDiffer DEF Signs, WithSign
<1> QED BY <1>1, <1>2

(* A number is read from its own text.                                     *)
LEMMA NumberReadBack ==
  ASSUME NEW n \in Ints
  PROVE  LET t == Sign(n) \o DigitsOf(Abs(n))
         IN  TryConvertStringToNumberValue(t) = <<n>> /\ IsSgfNumber(t)
<1>1. n \in Int
  BY TypedValuesAssumption DEF Ints
<1>2. /\ Sign(n) \in Signs /\ Abs(n) \in Nat /\ WithSign(Sign(n), Abs(n)) = n
  BY <1>1, SignIs
<1>3. IsDigitText(DigitsOf(Abs(n))) /\ DigitsOf(Abs(n)) # <<>> /\ ValueOfDigits(DigitsOf(Abs(n))) = Abs(n)
  BY <1>2, DigitsAreText
<1> QED BY <1>2, <1>3, ConvertedNumber

-----------------------------------------------------------------------------
(* The length of a number's text.                                          *)

IsPower(f, n) == f = [k \in 0..n |-> IF k = 0 THEN 1 ELSE 10 * f[k - 1]]

LEMMA PowerExists == ASSUME NEW n \in Nat PROVE \E f : IsPower(f, n)
<1> DEFINE Bad == {k \in Nat : ~\E f : IsPower(f, k)}
<1>1. 0 \notin Bad
  <2> DEFINE f == [k \in 0..0 |-> 1]
  <2>1. IsPower(f, 0)
    BY DEF IsPower
  <2> QED BY <2>1
<1>2. ASSUME NEW k \in Nat \ {0}, NEW g, IsPower(g, k - 1) PROVE \E f : IsPower(f, k)
  <2> DEFINE f == [i \in 0..k |-> IF i = k THEN 10 * g[k - 1] ELSE g[i]]
  <2>1. ASSUME NEW i \in 0..k PROVE f[i] = IF i = 0 THEN 1 ELSE 10 * f[i - 1]
    <3>1. CASE i = k
      <4>1. k - 1 \in 0..k /\ k - 1 # k
        OBVIOUS
      <4>2. f[k - 1] = g[k - 1] /\ f[i] = 10 * g[k - 1]
        BY <3>1, <4>1
      <4> HIDE DEF f
      <4> QED BY <3>1, <4>2
    <3>2. CASE i # k
      <4>1. i \in 0..(k - 1) /\ f[i] = g[i]
        BY <3>2
      <4>2. g[i] = IF i = 0 THEN 1 ELSE 10 * g[i - 1]
        BY <1>2, <4>1 DEF IsPower
      <4>3. i # 0 => f[i - 1] = g[i - 1]
        BY <3>2
      <4> HIDE DEF f
      <4> QED BY <4>1, <4>2, <4>3
    <3> QED BY <3>1, <3>2
  <2>2. f = [i \in 0..k |-> f[i]]
    OBVIOUS
  <2> HIDE DEF f
  <2>3. IsPower(f, k)
    BY <2>1, <2>2 DEF IsPower
  <2> QED BY <2>3
<1>3. Bad = {}
  <2> SUFFICES ASSUME Bad # {} PROVE FALSE
    OBVIOUS
  <2>1. Bad \subseteq Nat
    OBVIOUS
  <2> HIDE DEF Bad
  <2>2. PICK k \in Bad : \A j \in Bad : k <= j
    BY <2>1, LeastNumber
  <2>3. k \in Nat \ {0} /\ k - 1 \in Nat /\ ~(k <= k - 1)
    BY <1>1, <2>1, <2>2
  <2>4. k - 1 \notin Bad
    BY <2>2, <2>3
  <2> QED BY <1>2, <2>2, <2>3, <2>4 DEF Bad
<1> QED BY <1>3

LEMMA PowersAgree ==
  ASSUME NEW m \in Nat, NEW k \in Nat, NEW f, NEW g, IsPower(f, m), IsPower(g, k), m <= k
  PROVE  f[m] = g[m]
<1> DEFINE Bad == {i \in 0..m : f[i] # g[i]}
<1>1. ASSUME NEW i \in 0..m
      PROVE  f[i] = (IF i = 0 THEN 1 ELSE 10 * f[i - 1]) /\ g[i] = (IF i = 0 THEN 1 ELSE 10 * g[i - 1])
  BY DEF IsPower
<1>2. Bad = {}
  <2> SUFFICES ASSUME Bad # {} PROVE FALSE
    OBVIOUS
  <2>1. Bad \subseteq Nat
    OBVIOUS
  <2>2. PICK i \in Bad : \A j \in Bad : i <= j
    <3> HIDE DEF Bad
    <3> QED BY <2>1, LeastNumber
  <2>3. i \in 1..m
    BY <1>1, <2>2
  <2>4. f[i - 1] = g[i - 1]
    <3>1. i - 1 \in 0..m /\ ~(i <= i - 1)
      BY <2>3
    <3> QED BY <2>2, <3>1
  <2> QED BY <1>1, <2>2, <2>3, <2>4
<1> QED BY <1>2

LEMMA PowerIs ==
  /\ PowerOfTen(0) = 1
  /\ \A n \in Nat : PowerOfTen(n + 1) = 10 * PowerOfTen(n)
<1> DEFINE Fun(m) == CHOOSE f : IsPower(f, m)
<1>1. ASSUME NEW m \in Nat PROVE PowerOfTen(m) = Fun(m)[m] /\ IsPower(Fun(m), m)
  <2>1. IsPower(Fun(m), m)
    BY PowerExists
  <2> QED BY <2>1 DEF PowerOfTen, IsPower
<1> HIDE DEF Fun
<1>2. PowerOfTen(0) = 1
  BY <1>1 DEF IsPower
<1>3. ASSUME NEW n \in Nat PROVE PowerOfTen(n + 1) = 10 * PowerOfTen(n)
  <2>1. n + 1 \in Nat /\ n <= n + 1 /\ n + 1 # 0 /\ (n + 1) - 1 = n /\ n + 1 \in 0..(n + 1)
    OBVIOUS
  <2>2. Fun(n)[n] = Fun(n + 1)[n]
    BY <1>1, <2>1, PowersAgree
  <2>3. Fun(n + 1)[n + 1] = 10 * Fun(n + 1)[n]
    <3>1. PICK m \in Nat : m = n + 1
      BY <2>1
    <3>2. Fun(m)[m] = IF m = 0 THEN 1 ELSE 10 * Fun(m)[m - 1]
      BY <1>1 DEF IsPower
    <3> QED BY <2>1, <3>1, <3>2
  <2> QED BY <1>1, <2>1, <2>2, <2>3
<1> QED BY <1>2, <1>3

LEMMA PowersAreNumbers == ASSUME NEW n \in Nat PROVE PowerOfTen(n) \in Nat
<1> DEFINE Bad == {k \in Nat : PowerOfTen(k) \notin Nat}
<1>1. Bad = {}
  <2> SUFFICES ASSUME Bad # {} PROVE FALSE
    OBVIOUS
  <2>1. Bad \subseteq Nat
    OBVIOUS
  <2>2. PICK k \in Bad : \A j \in Bad : k <= j
    <3> HIDE DEF Bad
    <3> QED BY <2>1, LeastNumber
  <2>3. k \in Nat /\ PowerOfTen(k) \notin Nat
    BY <2>2
  <2>4. k # 0
    BY <2>3, PowerIs
  <2>5. k - 1 \in Nat /\ ~(k <= k - 1) /\ (k - 1) + 1 = k
    BY <2>3, <2>4
  <2>6. PowerOfTen(k - 1) \in Nat
    BY <2>2, <2>5
  <2>7. PowerOfTen(k) = 10 * PowerOfTen(k - 1)
    BY <2>5, PowerIs
  <2> QED BY <2>3, <2>6, <2>7
<1> QED BY <1>1

LEMMA SmallPowers == PowerOfTen(0) = 1 /\ PowerOfTen(1) = 10 /\ PowerOfTen(2) = 100 /\ PowerOfTen(3) = 1000
<1>1. PowerOfTen(0 + 1) = 10 * 1
  BY PowerIs
<1>2. PowerOfTen(1 + 1) = 10 * 10
  BY <1>1, PowerIs
<1>3. PowerOfTen(2 + 1) = 10 * 100
  BY <1>2, PowerIs
<1> QED BY <1>1, <1>2, <1>3, PowerIs

(* A number below a power of ten has no more digits than the exponent.     *)
LEMMA LengthOfDigits ==
  ASSUME NEW k \in Nat \ {0}, NEW n \in Nat, n < PowerOfTen(k)
  PROVE  Len(DigitsOf(n)) <= k
<1> DEFINE Good(j) == \A m \in Nat : m < PowerOfTen(j) => Len(DigitsOf(m)) <= j
           Bad == {j \in Nat \ {0} : ~Good(j)}
<1>1. Good(1)
  <2> TAKE m \in Nat
  <2> HAVE m < PowerOfTen(1)
  <2>1. m \in 0..9
    BY SmallPowers
  <2>2. DigitsOf(m) = <<DigitCharacters[m + 1]>>
    BY <2>1, DigitsOfSmall
  <2>3. \A c : Len(<<c>>) = 1
    OBVIOUS
  <2> QED BY <2>2, <2>3
<1>2. ASSUME NEW j \in Nat \ {0}, Good(j) PROVE Good(j + 1)
  <2> TAKE m \in Nat
  <2> HAVE m < PowerOfTen(j + 1)
  <2>1. CASE m < 10
    <3>1. m \in 0..9
      BY <2>1
    <3>2. DigitsOf(m) = <<DigitCharacters[m + 1]>>
      BY <3>1, DigitsOfSmall
    <3>3. \A c : Len(<<c>>) = 1
      OBVIOUS
    <3> QED BY <3>2, <3>3
  <2>2. CASE m >= 10
    <3>1. m \div 10 \in Nat /\ m % 10 \in 0..9 /\ m = 10 * (m \div 10) + (m % 10)
      BY Division
    <3>2. m \div 10 < PowerOfTen(j)
      <4>1. PICK p : p = PowerOfTen(j)
        OBVIOUS
      <4>2. m < 10 * p
        BY <4>1, PowerIs
      <4>3. p \in Int
        BY <4>1, PowersAreNumbers
      <4> QED BY <3>1, <4>1, <4>2, <4>3
    <3>3. Len(DigitsOf(m \div 10)) <= j
      BY <1>2, <3>1, <3>2
    <3>4. IsDigitText(DigitsOf(m \div 10)) /\ IsDigitCharacter(DigitCharacters[(m % 10) + 1])
      BY <3>1, DigitsAreText, DigitIs
    <3>5. DigitsOf(m) = DigitsOf(m \div 10) \o <<DigitCharacters[(m % 10) + 1]>>
      BY <2>2, DigitsOfLarge
    <3>6. Len(DigitsOf(m)) = Len(DigitsOf(m \div 10)) + 1 /\ Len(DigitsOf(m \div 10)) \in Nat
      BY <3>4, <3>5, DigitIsChar, AppendFacts DEF IsDigitText
    <3> QED BY <3>3, <3>6
  <2> QED BY <2>1, <2>2
<1>3. Bad = {}
  <2> SUFFICES ASSUME Bad # {} PROVE FALSE
    OBVIOUS
  <2>1. Bad \subseteq Nat
    OBVIOUS
  <2>2. PICK j \in Bad : \A i \in Bad : j <= i
    <3> HIDE DEF Bad
    <3> QED BY <2>1, LeastNumber
  <2>3. j \in Nat \ {0} /\ ~Good(j)
    BY <2>2
  <2> HIDE DEF Good
  <2>4. j # 1
    BY <1>1, <2>3
  <2>5. j - 1 \in Nat \ {0} /\ ~(j <= j - 1) /\ (j - 1) + 1 = j
    BY <2>3, <2>4
  <2>6. Good(j - 1)
    BY <2>2, <2>5
  <2> QED BY <1>2, <2>3, <2>5, <2>6
<1> QED BY <1>3

-----------------------------------------------------------------------------
(* Reals: a text is a sign, some digits and perhaps a point with decimals. *)

WithPoint(w, p) == w \o (<<".">> \o p)

LEMMA PointFacts ==
  ASSUME NEW w, IsDigitText(w), NEW p, IsDigitText(p)
  PROVE  /\ <<".">> \o p \in Seq(Char) /\ <<".">> \o p # <<>> /\ (<<".">> \o p)[1] = "."
         /\ Tail(<<".">> \o p) = p /\ Head(<<".">> \o p) = "."
         /\ WithPoint(w, p) \in Seq(Char)
         /\ WithPoint(w, p) # <<>> => WithPoint(w, p)[1] \notin {"+", "-"}
         /\ LeadingDigits(WithPoint(w, p)) = w
         /\ SubSeq(WithPoint(w, p), Len(w) + 1, Len(WithPoint(w, p))) = <<".">> \o p
         /\ Len(WithPoint(w, p)) = Len(w) + 1 + Len(p)
         /\ WithPoint(w, p)[Len(w) + 1] = "."
         /\ \A i \in 1..Len(w) : WithPoint(w, p)[i] = w[i]
         /\ SubSeq(WithPoint(w, p), 1, Len(w)) = w
<1> DEFINE u == <<".">> \o p
<1>1. p \in Seq(Char) /\ w \in Seq(Char) /\ Len(p) \in Nat /\ Len(w) \in Nat
  BY DEF IsDigitText
<1>2. <<".">> \in Seq(Char) /\ Len(<<".">>) = 1 /\ <<".">>[1] = "."
  <2>1. "." \in Char
    BY DEF Char
  <2> HIDE DEF Char
  <2> QED BY <2>1
<1>3. u \in Seq(Char) /\ Len(u) = 1 + Len(p) /\ u[1] = "." /\ SubSeq(u, 1 + 1, Len(u)) = p
  BY <1>1, <1>2, ConcatFacts
<1> HIDE DEF u
<1>4. u # <<>> /\ Tail(u) = p /\ Head(u) = "."
  <2>1. Len(u) # 0
    BY <1>1, <1>3
  <2>2. u # <<>>
    BY <2>1
  <2> QED BY <1>3, <2>2
<1>5. ~IsDigitCharacter(u[1]) /\ u[1] \notin {"+", "-"}
  BY <1>3, NotDigits
<1>6. LeadingDigits(w \o u) = w
  BY <1>3, <1>5, LeadingDigitsAre
<1>7. w \o u \in Seq(Char) /\ (w \o u # <<>> => (w \o u)[1] \notin {"+", "-"})
  BY <1>3, <1>5, DigitsBefore
<1>8. /\ SubSeq(w \o u, Len(w) + 1, Len(w \o u)) = u /\ Len(w \o u) = Len(w) + Len(u)
      /\ (w \o u)[Len(w) + 1] = u[1] /\ \A i \in 1..Len(w) : (w \o u)[i] = w[i]
      /\ SubSeq(w \o u, 1, Len(w)) = w
  <2>1. 1 \in 1..Len(u)
    BY <1>1, <1>3
  <2>2. /\ SubSeq(w \o u, Len(w) + 1, Len(w \o u)) = u /\ Len(w \o u) = Len(w) + Len(u)
        /\ \A i \in 1..Len(u) : (w \o u)[Len(w) + i] = u[i]
        /\ \A i \in 1..Len(w) : (w \o u)[i] = w[i]
        /\ SubSeq(w \o u, 1, Len(w)) = w
    <3>1. w \in Seq(Char) /\ u \in Seq(Char)
      BY <1>1, <1>3
    <3> QED BY ONLY <3>1, ConcatFacts
  <2> QED BY ONLY <2>1, <2>2
<1>9. Len(w \o u) = Len(w) + 1 + Len(p)
  BY <1>1, <1>3, <1>8
<1> QED BY <1>3, <1>4, <1>6, <1>7, <1>8, <1>9 DEF WithPoint, u

Hundredths(w, p) == ValueOfDigits(w \o SubSeq(p \o <<"0", "0">>, 1, 2))

LEMMA ConvertedWhole ==
  ASSUME NEW s \in Signs, NEW w, IsDigitText(w), w # <<>>
  PROVE  TryConvertStringToRealValue(s \o w) = <<WithSign(s, Hundredths(w, <<>>))>>
<1>1. w \in Seq(Char) /\ LeadingDigits(w) = w /\ w[1] \notin {"+", "-"} /\ Len(w) \in Nat
  BY DigitsAlone
<1>2. /\ Unsigned(WithoutPlus(s \o w)) = w
      /\ \A v : Signed(WithoutPlus(s \o w), v) = WithSign(s, v)
  BY <1>1, SignFacts
<1>3. SubSeq(w, Len(w) + 1, Len(w)) = <<>>
  BY <1>1
<1>4. ~Begins(<<>>, {DecimalPoint(locale)})
  BY DEF Begins
<1> QED BY <1>1, <1>2, <1>3, <1>4 DEF TryConvertStringToRealValue, Hundredths

LEMMA ConvertedWithPoint ==
  ASSUME NEW s \in Signs, NEW w, IsDigitText(w), NEW p, IsDigitText(p), DecimalPoint(locale) = "."
  PROVE  TryConvertStringToRealValue(s \o WithPoint(w, p)) =
           IF w = <<>> /\ p = <<>> THEN <<>> ELSE <<WithSign(s, Hundredths(w, p))>>
<1> DEFINE t == WithPoint(w, p)
           u == <<".">> \o p
<1>1. /\ t \in Seq(Char) /\ (t # <<>> => t[1] \notin {"+", "-"}) /\ LeadingDigits(t) = w
      /\ SubSeq(t, Len(w) + 1, Len(t)) = u /\ u # <<>> /\ Head(u) = "." /\ Tail(u) = p
  BY PointFacts
<1> HIDE DEF t, u
<1>2. /\ Unsigned(WithoutPlus(s \o t)) = t
      /\ \A v : Signed(WithoutPlus(s \o t), v) = WithSign(s, v)
  BY <1>1, SignFacts
<1>3. Begins(u, {DecimalPoint(locale)}) /\ LeadingDigits(Tail(u)) = p
  BY <1>1, DigitsAlone DEF Begins
<1>4. TryConvertStringToRealValue(s \o t) =
        IF w = <<>> /\ p = <<>> THEN <<>> ELSE <<WithSign(s, Hundredths(w, p))>>
  BY ONLY <1>1, <1>2, <1>3 DEF TryConvertStringToRealValue, Hundredths
<1> QED BY <1>4 DEF t

LEMMA OneElement == ASSUME NEW T, NEW q \in Seq(T), Len(q) = 1 PROVE q = <<q[1]>>
OBVIOUS

LEMMA TwoElements == ASSUME NEW T, NEW q \in Seq(T), Len(q) = 2 PROVE q = <<q[1], q[2]>>
OBVIOUS

(* Two decimals, for which zeros stand if they are missing.                *)
LEMMA Padded ==
  ASSUME NEW T, NEW q \in Seq(T), NEW zero \in T
  PROVE  /\ Len(q) = 0 => SubSeq(q \o <<zero, zero>>, 1, 2) = <<zero, zero>>
         /\ Len(q) = 1 => SubSeq(q \o <<zero, zero>>, 1, 2) = <<q[1], zero>>
         /\ Len(q) = 2 => SubSeq(q \o <<zero, zero>>, 1, 2) = <<q[1], q[2]>>
<1> DEFINE z == <<zero, zero>>
           r == q \o z
           u == SubSeq(r, 1, 2)
<1>1. z \in Seq(T) /\ Len(z) = 2 /\ z[1] = zero /\ z[2] = zero
  OBVIOUS
<1> HIDE DEF z
<1>2. /\ r \in Seq(T) /\ Len(r) = Len(q) + 2
      /\ \A i \in 1..Len(q) : r[i] = q[i]
      /\ \A i \in 1..2 : r[Len(q) + i] = z[i]
  BY <1>1, ConcatFacts
<1> HIDE DEF r
<1>3. Len(q) \in Nat
  OBVIOUS
<1>4. u \in Seq(T) /\ Len(u) = 2 /\ u[1] = r[1] /\ u[2] = r[2]
  BY <1>2, <1>3
<1> HIDE DEF u
<1>5. u = <<r[1], r[2]>>
  BY <1>4, TwoElements
<1>6. Len(q) = 1 => r[1] = q[1] /\ r[2] = zero
  BY <1>1, <1>2
<1>7. Len(q) = 2 => r[1] = q[1] /\ r[2] = q[2]
  BY <1>2
<1>8. Len(q) = 0 => r[1] = zero /\ r[2] = zero
  BY <1>1, <1>2
<1> QED BY <1>5, <1>6, <1>7, <1>8 DEF u, r, z

(* The hundredths that some digits and decimals are worth.                 *)
LEMMA HundredthsAre ==
  ASSUME NEW w, IsDigitText(w), NEW p, IsDigitText(p), Len(p) <= 2
  PROVE  /\ Hundredths(w, p) = ValueOfDigits(w \o p) * PowerOfTen(2 - Len(p))
         /\ IsDigitText(w \o p)
         /\ p = <<>> => Hundredths(w, p) = 100 * ValueOfDigits(w)
         /\ Len(p) = 1 => Hundredths(w, p) = 100 * ValueOfDigits(w) + 10 * DigitValue(p[1])
         /\ Len(p) = 2 => Hundredths(w, p) = 100 * ValueOfDigits(w) + 10 * DigitValue(p[1]) + DigitValue(p[2])
<1> DEFINE zeros == <<"0", "0">>
           v == ValueOfDigits(w)
<1>1. /\ p \in Seq(Char) /\ Len(p) \in Nat /\ \A i \in 1..Len(p) : IsDigitCharacter(p[i])
      /\ w \in Seq(Char) /\ v \in Nat
  BY ValueIsNumber DEF IsDigitText
<1>2. IsDigitCharacter("0") /\ DigitValue("0") = 0 /\ "0" \in Char
  BY ZeroIsDigit, DigitIsChar
<1> HIDE DEF v
<1>3. ASSUME NEW b, NEW c, IsDigitCharacter(b), IsDigitCharacter(c)
      PROVE  /\ ValueOfDigits(w \o <<b, c>>) = 100 * v + 10 * DigitValue(b) + DigitValue(c)
             /\ IsDigitText(w \o <<b, c>>) /\ DigitValue(b) \in Nat /\ DigitValue(c) \in Nat
  BY <1>3, TwoMoreDigits, DigitValueIs DEF v
<1>4. CASE Len(p) = 0
  <2>1. p = <<>> /\ w \o p = w /\ SubSeq(p \o zeros, 1, 2) = zeros
    <3>1. p = <<>> /\ w \o <<>> = w
      BY <1>1, <1>4
    <3> QED BY <1>1, <1>2, <1>4, <3>1, Padded
  <2>2. Hundredths(w, p) = 100 * v + 10 * 0 + 0
    BY <1>2, <1>3, <2>1 DEF Hundredths
  <2>3. 2 - Len(p) = 2 /\ v * 100 = 100 * v + 10 * 0 + 0 /\ 100 * v + 10 * 0 + 0 = 100 * v
    BY <1>1, <1>4
  <2>4. IsDigitText(w \o p) /\ ValueOfDigits(w \o p) = v
    BY <2>1 DEF v
  <2> QED BY ONLY <1>4, <2>1, <2>2, <2>3, <2>4, SmallPowers
<1>5. CASE Len(p) = 1
  <2>1. PICK b : b = p[1] /\ IsDigitCharacter(b) /\ b \in Char
    BY <1>1, <1>5, DigitIsChar
  <2>2. p = <<b>> /\ SubSeq(p \o zeros, 1, 2) = <<b, "0">>
    BY <1>1, <1>2, <1>5, <2>1, OneElement, Padded
  <2>3. Hundredths(w, p) = ValueOfDigits(w \o <<b, "0">>)
    BY <2>2 DEF Hundredths
  <2>4. Hundredths(w, p) = 100 * v + 10 * DigitValue(b) + 0 /\ DigitValue(b) \in Nat
    BY <1>2, <1>3, <2>1, <2>3
  <2>5. IsDigitText(w \o p) /\ ValueOfDigits(w \o p) = 10 * v + DigitValue(b)
    BY <2>1, <2>2, OneMoreDigit DEF v
  <2>6. 2 - Len(p) = 1 /\ (10 * v + DigitValue(b)) * 10 = 100 * v + 10 * DigitValue(b) + 0
        /\ 100 * v + 10 * DigitValue(b) + 0 = 100 * v + 10 * DigitValue(b)
    BY <1>1, <1>5, <2>4
  <2>7. p # <<>>
    BY <1>5
  <2> QED BY ONLY <1>5, <2>1, <2>4, <2>5, <2>6, <2>7, SmallPowers DEF v
<1>6. CASE Len(p) = 2
  <2>1. PICK b, c : b = p[1] /\ IsDigitCharacter(b) /\ c = p[2] /\ IsDigitCharacter(c)
    BY <1>1, <1>6
  <2>2. p = <<b, c>> /\ SubSeq(p \o zeros, 1, 2) = <<b, c>>
    BY <1>1, <1>2, <1>6, <2>1, TwoElements, Padded
  <2>3. Hundredths(w, p) = ValueOfDigits(w \o <<b, c>>) /\ ValueOfDigits(w \o p) = ValueOfDigits(w \o <<b, c>>)
    BY <2>2 DEF Hundredths
  <2>4. /\ ValueOfDigits(w \o <<b, c>>) = 100 * v + 10 * DigitValue(b) + DigitValue(c) /\ IsDigitText(w \o p)
        /\ DigitValue(b) \in Nat /\ DigitValue(c) \in Nat
    BY <1>3, <2>1, <2>2
  <2>5. 2 - Len(p) = 0 /\ p # <<>>
    BY <1>6
  <2>6. ASSUME NEW x \in Nat PROVE x * 1 = x
    OBVIOUS
  <2>7. 100 * v + 10 * DigitValue(b) + DigitValue(c) \in Nat
    BY <1>1, <2>4
  <2> QED BY ONLY <1>6, <2>1, <2>3, <2>4, <2>5, <2>6, <2>7, SmallPowers DEF v
<1>7. Len(p) = 0 \/ Len(p) = 1 \/ Len(p) = 2
  <2>1. ASSUME NEW n \in Nat, n <= 2 PROVE n = 0 \/ n = 1 \/ n = 2
    BY <2>1
  <2> QED BY <1>1, <2>1
<1> QED BY <1>4, <1>5, <1>6, <1>7

LEMMA CharConcat ==
  \A a, b, c \in Seq(Char) : (a \o b) \o c = a \o (b \o c)
  BY ConcatAssociative

LEMMA MeaningOfWhole ==
  ASSUME NEW s \in Signs, NEW w, IsDigitText(w), w # <<>>
  PROVE  Meaning("Real", s \o w) = WithSign(s, Hundredths(w, <<>>))
<1> DEFINE points == {i \in DOMAIN w : w[i] = "."} \cup {Len(w) + 1}
<1>1. /\ w \in Seq(Char) /\ w[1] \notin {"+", "-"} /\ Len(w) \in Nat /\ DOMAIN w = 1..Len(w)
      /\ \A i \in 1..Len(w) : IsDigitCharacter(w[i])
  BY DigitsAlone DEF IsDigitText
<1>2. Unsigned(s \o w) = w /\ \A v : Signed(s \o w, v) = WithSign(s, v)
  BY <1>1, SignFacts
<1>3. points = {Len(w) + 1}
  BY <1>1, NotDigits
<1>4. Min(points) = Len(w) + 1
  <2>1. {Len(w) + 1} \in SUBSET Int
    BY <1>1
  <2> QED BY <1>3, <2>1, MinIs
<1>5. SubSeq(w, (Len(w) + 1) + 1, Len(w)) = <<>> /\ SubSeq(w, 1, (Len(w) + 1) - 1) = w
  BY <1>1
<1>6. Meaning("Real", s \o w) = WithSign(s, ValueOfDigits(w \o <<>>) * PowerOfTen(2 - Len(<<>>)))
  BY <1>2, <1>4, <1>5 DEF Meaning
<1>7. IsDigitText(<<>>) /\ Len(<<>>) <= 2
  BY DEF IsDigitText
<1>8. Hundredths(w, <<>>) = ValueOfDigits(w \o <<>>) * PowerOfTen(2 - Len(<<>>))
  BY <1>7, HundredthsAre
<1> QED BY <1>6, <1>8

LEMMA MeaningWithPoint ==
  ASSUME NEW s \in Signs, NEW w, IsDigitText(w), NEW p, IsDigitText(p), Len(p) <= 2
  PROVE  Meaning("Real", s \o WithPoint(w, p)) = WithSign(s, Hundredths(w, p))
<1> DEFINE t == WithPoint(w, p)
           k == Len(w)
           points == {i \in DOMAIN t : t[i] = "."} \cup {Len(t) + 1}
<1>1. /\ w \in Seq(Char) /\ k \in Nat /\ p \in Seq(Char) /\ Len(p) \in Nat
      /\ \A i \in 1..k : IsDigitCharacter(w[i])
  BY DEF IsDigitText
<1>2. /\ t \in Seq(Char) /\ (t # <<>> => t[1] \notin {"+", "-"}) /\ SubSeq(t, 1, k) = w
      /\ Len(t) = k + 1 + Len(p) /\ t[k + 1] = "." /\ \A i \in 1..k : t[i] = w[i]
  <2>1. WithPoint(w, p) \in Seq(Char) /\ (WithPoint(w, p) # <<>> => WithPoint(w, p)[1] \notin {"+", "-"})
    BY PointFacts
  <2>2. Len(WithPoint(w, p)) = Len(w) + 1 + Len(p)
    BY PointFacts
  <2>3. WithPoint(w, p)[Len(w) + 1] = "."
    BY PointFacts
  <2>4. \A i \in 1..Len(w) : WithPoint(w, p)[i] = w[i]
    BY PointFacts
  <2>5. SubSeq(WithPoint(w, p), 1, Len(w)) = w
    BY PointFacts
  <2> QED BY ONLY <2>1, <2>2, <2>3, <2>4, <2>5
<1>3. SubSeq(t, (k + 1) + 1, Len(t)) = p
  <2>1. <<".">> \in Seq(Char)
    <3>1. "." \in Char
      BY DEF Char
    <3> QED BY <3>1
  <2>2. t = (w \o <<".">>) \o p
    BY <1>1, <2>1, ConcatAssociative DEF WithPoint
  <2>3. w \o <<".">> \in Seq(Char) /\ Len(w \o <<".">>) = k + Len(<<".">>)
    BY <1>1, <2>1, ConcatFacts
  <2>4. Len(<<".">>) = 1
    OBVIOUS
  <2> DEFINE a == w \o <<".">>
  <2> HIDE DEF a, t
  <2>5. SubSeq(a \o p, Len(a) + 1, Len(a \o p)) = p
    BY <1>1, <2>3, ConcatFacts DEF a
  <2>6. t = a \o p /\ Len(a) = k + 1
    BY <2>2, <2>3, <2>4 DEF a
  <2> QED BY ONLY <2>5, <2>6
<1> HIDE DEF t
<1>4. Unsigned(s \o t) = t /\ \A v : Signed(s \o t, v) = WithSign(s, v)
  BY <1>2, SignFacts
<1>5. Min(points) = k + 1
  <2>1. points \in SUBSET Int /\ DOMAIN t = 1..Len(t)
    BY <1>1, <1>2
  <2>2. k + 1 \in points
    BY <1>1, <1>2, <2>1
  <2>3. ASSUME NEW i \in points PROVE k + 1 <= i
    <3>1. i \in 1..(Len(t) + 1) /\ (i <= k => t[i] = ".")
      BY <1>1, <1>2, <2>1
    <3>2. ~(i <= k)
      <4> SUFFICES ASSUME i <= k PROVE FALSE
        OBVIOUS
      <4>1. i \in 1..k /\ t[i] = "."
        BY <1>1, <1>2, <3>1
      <4> QED BY <1>1, <1>2, <4>1, NotDigits
    <3> QED BY <1>1, <1>2, <3>1, <3>2
  <2> HIDE DEF points
  <2> QED BY <2>1, <2>2, <2>3, MinIs
<1>6. (k + 1) - 1 = k
  BY <1>1
<1>7. Meaning("Real", s \o t) = WithSign(s, ValueOfDigits(w \o p) * PowerOfTen(2 - Len(p)))
  BY ONLY <1>2, <1>3, <1>4, <1>5, <1>6 DEF Meaning
<1>8. Hundredths(w, p) = ValueOfDigits(w \o p) * PowerOfTen(2 - Len(p))
  BY HundredthsAre
<1> QED BY <1>7, <1>8 DEF t

(* A text of the standard's form is one of the two.                        *)
LEMMA RealTextIs ==
  ASSUME NEW t \in Seq(Char), IsSgfReal(t), \A i \in DOMAIN t : t[i] = "." => Len(t) <= i + 2
  PROVE  \E s, w, p :
           /\ s \in Signs /\ IsDigitText(w) /\ w # <<>> /\ IsDigitText(p)
           /\ t = s \o w \/ (t = s \o WithPoint(w, p) /\ Len(p) <= 2)
<1>1. CASE IsSgfNumber(t)
  <2>1. PICK s, w : s \in Signs /\ IsDigitText(w) /\ w # <<>> /\ t = s \o w
    BY <1>1, NumberTextIs
  <2> QED BY <2>1
<1>2. CASE ~IsSgfNumber(t)
  <2>1. PICK i \in 1..Len(t) :
          /\ t[i] = "." /\ IsSgfNumber(SubSeq(t, 1, i - 1))
          /\ i < Len(t) /\ \A k \in (i + 1)..Len(t) : IsDigitCharacter(t[k])
    BY <1>2 DEF IsSgfReal
  <2> DEFINE a == SubSeq(t, 1, i - 1)
             b == SubSeq(t, (i - 1) + 1, Len(t))
             p == SubSeq(b, 1 + 1, Len(b))
  <2>2. i - 1 \in 0..Len(t) /\ Len(t) \in Nat /\ i \in Nat /\ (i - 1) + 1 = i
    OBVIOUS
  <2>3. /\ a \in Seq(Char) /\ b \in Seq(Char) /\ Len(b) = Len(t) - (i - 1) /\ t = a \o b
        /\ \A j \in 1..(Len(t) - (i - 1)) : b[j] = t[(i - 1) + j]
    BY <2>2, SplitFacts
  <2>4. IsSgfNumber(a)
    BY <2>1
  <2> HIDE DEF a, b
  <2>5. 1 \in 0..Len(b) /\ Len(b) \in Nat /\ b[1] = "." /\ SubSeq(b, 1, 1) = <<".">>
    <3>1. b[1] = "."
      BY <2>1, <2>2, <2>3
    <3>2. 1 \in 0..Len(b) /\ Len(b) \in Nat
      BY <2>1, <2>2, <2>3
    <3>3. SubSeq(b, 1, 1) \in Seq(Char) /\ Len(SubSeq(b, 1, 1)) = 1 /\ SubSeq(b, 1, 1)[1] = b[1]
      BY <2>3, <3>2
    <3> QED BY <3>1, <3>2, <3>3, OneElement
  <2>6. /\ p \in Seq(Char) /\ Len(p) = Len(b) - 1 /\ b = <<".">> \o p
        /\ \A j \in 1..(Len(b) - 1) : p[j] = b[1 + j]
    BY <2>3, <2>5, SplitFacts
  <2> HIDE DEF p
  <2>7. IsDigitText(p)
    <3>1. ASSUME NEW j \in 1..Len(p) PROVE IsDigitCharacter(p[j])
      <4>1. 1 + j \in 1..(Len(t) - (i - 1)) /\ (i - 1) + (1 + j) = i + j /\ i + j \in (i + 1)..Len(t)
        BY <2>2, <2>3, <2>6
      <4>2. p[j] = t[i + j]
        BY <2>3, <2>6, <4>1
      <4> QED BY <2>1, <4>1, <4>2
    <3> QED BY <2>6, <3>1 DEF IsDigitText
  <2>8. Len(p) <= 2
    <3>1. Len(t) <= i + 2
      BY <2>1
    <3> QED BY <2>2, <2>3, <2>5, <2>6, <3>1
  <2>9. PICK s, w : s \in Signs /\ IsDigitText(w) /\ w # <<>> /\ a = s \o w
    BY <2>3, <2>4, NumberTextIs
  <2>10. t = s \o WithPoint(w, p)
    <3>1. s \in Seq(Char) /\ w \in Seq(Char) /\ b \in Seq(Char)
      BY <2>3, <2>9, SignsDiffer DEF IsDigitText
    <3>2. (s \o w) \o b = s \o (w \o b)
      BY ONLY <3>1, CharConcat
    <3> QED BY ONLY <2>3, <2>6, <2>9, <3>2 DEF WithPoint
  <2> QED BY <2>7, <2>8, <2>9, <2>10
<1> QED BY <1>1, <1>2

LEMMA IsRealText ==
  ASSUME NEW s \in Signs, NEW w, IsDigitText(w), w # <<>>, NEW p, IsDigitText(p), p # <<>>
  PROVE  IsSgfReal(s \o WithPoint(w, p))
<1> DEFINE u == <<".">> \o p
           a == s \o w
           t == a \o u
           i == Len(a) + 1
<1>1. /\ w \in Seq(Char) /\ s \in Seq(Char) /\ p \in Seq(Char) /\ u \in Seq(Char) /\ u[1] = "." /\ Len(p) \in Nat
      /\ \A j \in 1..Len(p) : IsDigitCharacter(p[j])
  BY PointFacts, SignsDiffer DEF IsDigitText
<1>2. s \o WithPoint(w, p) = t
  BY <1>1, ConcatAssociative DEF WithPoint
<1>3. Len(u) = 1 + Len(p) /\ \A j \in 1..Len(p) : u[1 + j] = p[j]
  <2>1. <<".">> \in Seq(Char) /\ Len(<<".">>) = 1
    <3>1. "." \in Char
      BY DEF Char
    <3> QED BY <3>1
  <2>2. Len(<<".">> \o p) = Len(<<".">>) + Len(p) /\ \A j \in 1..Len(p) : (<<".">> \o p)[Len(<<".">>) + j] = p[j]
    BY <1>1, <2>1, ConcatFacts
  <2> QED BY <2>1, <2>2
<1>4. a \in Seq(Char) /\ Len(a) \in Nat /\ IsSgfNumber(a)
  <2>1. a \in Seq(Char)
    BY <1>1, ConcatFacts
  <2> QED BY <2>1, ConvertedNumber
<1> HIDE DEF a, u
<1>5. /\ t \in Seq(Char) /\ Len(t) = Len(a) + Len(u) /\ SubSeq(t, 1, Len(a)) = a
      /\ \A j \in 1..Len(u) : t[Len(a) + j] = u[j]
  BY <1>1, <1>4, ConcatFacts
<1> HIDE DEF t
<1>6. Len(p) > 0
  BY <1>1
<1>7. i \in 1..Len(t) /\ t[i] = "." /\ i < Len(t) /\ i - 1 = Len(a)
  BY <1>1, <1>3, <1>4, <1>5, <1>6
<1>8. ASSUME NEW k \in (i + 1)..Len(t) PROVE IsDigitCharacter(t[k])
  <2>1. k - i \in 1..Len(p) /\ 1 + (k - i) \in 1..Len(u) /\ Len(a) + (1 + (k - i)) = k
    BY <1>3, <1>4, <1>5
  <2>2. t[k] = u[1 + (k - i)] /\ u[1 + (k - i)] = p[k - i]
    BY <1>3, <1>5, <2>1
  <2> QED BY <1>1, <2>1, <2>2
<1>9. IsSgfReal(t)
  BY <1>4, <1>5, <1>7, <1>8 DEF IsSgfReal
<1> QED BY <1>2, <1>9 DEF t

LEMMA HundredsOf ==
  ASSUME NEW n \in Nat
  PROVE  /\ n \div 100 \in Nat /\ n % 100 \in 0..99 /\ n = 100 * (n \div 100) + (n % 100)
         /\ \A m \in Nat : n < 100 * m => n \div 100 < m
<1> DEFINE q == n \div 100
           c == n % 100
<1>1. q \in Nat /\ c \in 0..99 /\ n = 100 * q + c
  OBVIOUS
<1> HIDE DEF q, c
<1>2. ASSUME NEW m \in Nat, n < 100 * m PROVE q < m
  BY <1>1, <1>2
<1> QED BY <1>1, <1>2 DEF q, c

(* The decimals of the factory's stream.                                   *)
DecimalsText(c) ==
  IF c % 10 = 0 THEN DigitsOf(c \div 10)
  ELSE <<DigitCharacters[(c \div 10) + 1], DigitCharacters[(c % 10) + 1]>>

LEMMA DecimalsAre ==
  ASSUME NEW c \in 1..99, NEW w, IsDigitText(w)
  PROVE  /\ IsDigitText(DecimalsText(c)) /\ DecimalsText(c) # <<>> /\ Len(DecimalsText(c)) <= 2
         /\ Hundredths(w, DecimalsText(c)) = 100 * ValueOfDigits(w) + c
<1> DEFINE a == c \div 10
           b == c % 10
<1>1. a \in 0..9 /\ b \in 0..9 /\ c = 10 * a + b
  OBVIOUS
<1>2. DecimalsText(c) = IF b = 0 THEN DigitsOf(a) ELSE <<DigitCharacters[a + 1], DigitCharacters[b + 1]>>
  BY DEF DecimalsText
<1> HIDE DEF a, b
<1>3. /\ IsDigitCharacter(DigitCharacters[a + 1]) /\ DigitValue(DigitCharacters[a + 1]) = a
      /\ IsDigitCharacter(DigitCharacters[b + 1]) /\ DigitValue(DigitCharacters[b + 1]) = b
  BY <1>1, DigitIs
<1> DEFINE A == DigitCharacters[a + 1]
           B == DigitCharacters[b + 1]
<1>4. A \in Char /\ B \in Char
  BY <1>3, DigitIsChar
<1>5. ValueOfDigits(w) \in Nat
  BY ValueIsNumber
<1>6. CASE b = 0
  <2> DEFINE q == <<A>>
  <2>1. DecimalsText(c) = q
    BY <1>1, <1>2, <1>6, DigitsOfSmall
  <2> HIDE DEF A, B
  <2>2. IsDigitText(q) /\ Len(q) = 1 /\ Len(q) <= 2 /\ q[1] = A /\ q # <<>>
    BY <1>3, <1>4 DEF IsDigitText, A
  <2> HIDE DEF q
  <2>3. Hundredths(w, q) = 100 * ValueOfDigits(w) + 10 * DigitValue(q[1])
    BY <2>2, HundredthsAre
  <2>4. DigitValue(q[1]) = a
    BY <1>3, <2>2 DEF A
  <2>5. Hundredths(w, q) = 100 * ValueOfDigits(w) + c
    BY ONLY <1>1, <1>5, <1>6, <2>3, <2>4
  <2> QED BY ONLY <2>1, <2>2, <2>5
<1>7. CASE b # 0
  <2> DEFINE q == <<A, B>>
  <2>1. DecimalsText(c) = q
    BY <1>2, <1>7
  <2> HIDE DEF A, B
  <2>2. IsDigitText(q) /\ Len(q) = 2 /\ Len(q) <= 2 /\ q[1] = A /\ q[2] = B /\ q # <<>>
    BY <1>3, <1>4 DEF IsDigitText, A, B
  <2> HIDE DEF q
  <2>3. Hundredths(w, q) = 100 * ValueOfDigits(w) + 10 * DigitValue(q[1]) + DigitValue(q[2])
    BY <2>2, HundredthsAre
  <2>4. DigitValue(q[1]) = a /\ DigitValue(q[2]) = b
    BY <1>3, <2>2 DEF A, B
  <2>5. Hundredths(w, q) = 100 * ValueOfDigits(w) + c
    BY ONLY <1>1, <1>5, <2>3, <2>4
  <2> QED BY ONLY <2>1, <2>2, <2>5
<1> QED BY <1>6, <1>7

(* Reals that the factory's stream writes with all their digits.           *)
IsWrittenInFull(real) == Rounded(Abs(real)) = Abs(real) /\ Abs(real) < 100 * PowerOfTen(RealPrecision)

LEMMA RealText ==
  ASSUME NEW real \in Int, IsWrittenInFull(real)
  PROVE  \E w, p :
           /\ IsDigitText(w) /\ w # <<>> /\ IsDigitText(p) /\ Len(p) <= 2
           /\ Hundredths(w, p) = Abs(real)
           /\ p = <<>> <=> Abs(real) % 100 = 0
           /\ CreateRealPropertyValue(real) = IF p = <<>> THEN Sign(real) \o w ELSE Sign(real) \o WithPoint(w, p)
<1> DEFINE r == Abs(real)
           w == DigitsOf(r \div 100)
           c == r % 100
           q == DecimalsText(c)
<1>1. r \in Nat /\ Sign(real) \in Signs /\ Rounded(r) = r /\ r < 100 * PowerOfTen(RealPrecision)
  BY SignIs DEF IsWrittenInFull
<1>2. RealPrecision \in Nat \ {0} /\ PowerOfTen(RealPrecision) \in Nat
  BY TypedValuesAssumption, PowersAreNumbers
<1>3. /\ r \div 100 \in Nat /\ c \in 0..99 /\ r = 100 * (r \div 100) + c
      /\ r \div 100 < PowerOfTen(RealPrecision)
  <2> HIDE DEF r
  <2> QED BY <1>1, <1>2, HundredsOf
<1>4. IsDigitText(w) /\ w # <<>> /\ ValueOfDigits(w) = r \div 100
  BY <1>3, DigitsAreText
<1>5. Len(w) <= RealPrecision /\ Len(w) \in Nat
  <2>1. Len(w) \in Nat
    BY <1>4 DEF IsDigitText
  <2> QED BY <1>2, <1>3, <2>1, LengthOfDigits
<1>6. CreateRealPropertyValue(real) = IF c = 0 THEN Sign(real) \o w ELSE Sign(real) \o w \o <<".">> \o q
  <2>1. ~(Len(w) > RealPrecision)
    BY <1>2, <1>5
  <2> QED BY ONLY <1>1, <1>5, <2>1 DEF CreateRealPropertyValue, DecimalsText
<1> HIDE DEF r, w, q
<1>7. CASE c = 0
  <2>1. IsDigitText(<<>>) /\ Len(<<>>) <= 2
    BY DEF IsDigitText
  <2>2. Hundredths(w, <<>>) = 100 * ValueOfDigits(w)
    BY <1>4, <2>1, HundredthsAre
  <2>3. Hundredths(w, <<>>) = r
    BY <1>3, <1>4, <1>7, <2>2
  <2>4. CreateRealPropertyValue(real) = Sign(real) \o w
    BY <1>6, <1>7
  <2> QED BY <1>4, <1>7, <2>1, <2>3, <2>4 DEF r
<1>8. CASE c # 0
  <2>1. c \in 1..99
    BY <1>3, <1>8
  <2>2. IsDigitText(q) /\ q # <<>> /\ Len(q) <= 2 /\ Hundredths(w, q) = 100 * ValueOfDigits(w) + c
    <3> HIDE DEF c
    <3> QED BY <1>4, <2>1, DecimalsAre DEF q
  <2>3. Hundredths(w, q) = r
    BY <1>3, <1>4, <2>2
  <2>4. CreateRealPropertyValue(real) = Sign(real) \o WithPoint(w, q)
    <3>1. CreateRealPropertyValue(real) = ((Sign(real) \o w) \o <<".">>) \o q
      BY <1>6, <1>8
    <3>2. Sign(real) \in Seq(Char) /\ w \in Seq(Char) /\ q \in Seq(Char) /\ <<".">> \in Seq(Char)
      <4>1. "." \in Char
        BY DEF Char
      <4> QED BY <1>1, <1>4, <2>2, <4>1, SignsDiffer DEF IsDigitText
    <3>3. <<".">> \o q \in Seq(Char)
      BY <3>2, ConcatFacts
    <3>4. Sign(real) \o w \in Seq(Char)
      BY <3>2, ConcatFacts
    <3>5. ((Sign(real) \o w) \o <<".">>) \o q = (Sign(real) \o w) \o (<<".">> \o q)
      BY ONLY <3>2, <3>4, ConcatAssociative
    <3>6. (Sign(real) \o w) \o (<<".">> \o q) = Sign(real) \o (w \o (<<".">> \o q))
      BY ONLY <3>2, <3>3, ConcatAssociative
    <3> QED BY ONLY <3>1, <3>5, <3>6 DEF WithPoint
  <2> QED BY <1>4, <1>8, <2>2, <2>3, <2>4 DEF r
<1> QED BY <1>3, <1>7, <1>8

LEMMA RealReadBack ==
  ASSUME NEW real \in Int, IsWrittenInFull(real), Abs(real) % 100 # 0 => DecimalPoint(locale) = "."
  PROVE  LET t == CreateRealPropertyValue(real)
         IN  TryConvertStringToRealValue(t) = <<real>> /\ IsSgfReal(t)
<1> DEFINE t == CreateRealPropertyValue(real)
           s == Sign(real)
<1>1. PICK w, p :
           /\ IsDigitText(w) /\ w # <<>> /\ IsDigitText(p) /\ Len(p) <= 2
           /\ Hundredths(w, p) = Abs(real)
           /\ p = <<>> <=> Abs(real) % 100 = 0
           /\ t = IF p = <<>> THEN s \o w ELSE s \o WithPoint(w, p)
  BY RealText
<1>2. s \in Signs /\ WithSign(s, Abs(real)) = real
  BY SignIs
<1> HIDE DEF s, t
<1>3. CASE p = <<>>
  <2>1. TryConvertStringToRealValue(s \o w) = <<WithSign(s, Hundredths(w, <<>>))>>
    BY ONLY <1>1, <1>2, ConvertedWhole
  <2>2. IsSgfNumber(s \o w)
    BY ONLY <1>1, <1>2, ConvertedNumber
  <2> QED BY <1>1, <1>2, <1>3, <2>1, <2>2 DEF IsSgfReal, t
<1>4. CASE p # <<>>
  <2>1. DecimalPoint(locale) = "."
    BY <1>1, <1>4
  <2>2. TryConvertStringToRealValue(s \o WithPoint(w, p)) = <<WithSign(s, Hundredths(w, p))>>
    BY ONLY <1>1, <1>2, <2>1, ConvertedWithPoint
  <2>3. IsSgfReal(s \o WithPoint(w, p))
    BY ONLY <1>1, <1>2, <1>4, IsRealText
  <2> QED BY <1>1, <1>2, <1>4, <2>2, <2>3 DEF t
<1> QED BY <1>3, <1>4 DEF t

(* The meaning of a text of the standard's form with at most two decimals. *)
LEMMA RealMeaning ==
  ASSUME NEW t \in Seq(Char), IsSgfReal(t), \A i \in DOMAIN t : t[i] = "." => Len(t) <= i + 2,
         DecimalPoint(locale) = "."
  PROVE  TryConvertStringToRealValue(t) = <<Meaning("Real", t)>>
<1>1. PICK s, w, p :
           /\ s \in Signs /\ IsDigitText(w) /\ w # <<>> /\ IsDigitText(p)
           /\ t = s \o w \/ (t = s \o WithPoint(w, p) /\ Len(p) <= 2)
  BY RealTextIs
<1>2. CASE t = s \o w
  <2>1. TryConvertStringToRealValue(s \o w) = <<WithSign(s, Hundredths(w, <<>>))>>
    BY ONLY <1>1, ConvertedWhole
  <2>2. Meaning("Real", s \o w) = WithSign(s, Hundredths(w, <<>>))
    BY ONLY <1>1, MeaningOfWhole
  <2> QED BY ONLY <1>2, <2>1, <2>2
<1>3. CASE t = s \o WithPoint(w, p) /\ Len(p) <= 2
  <2>1. TryConvertStringToRealValue(s \o WithPoint(w, p)) = <<WithSign(s, Hundredths(w, p))>>
    BY <1>1, ConvertedWithPoint
  <2>2. Meaning("Real", s \o WithPoint(w, p)) = WithSign(s, Hundredths(w, p))
    BY ONLY <1>1, <1>3, MeaningWithPoint
  <2> QED BY ONLY <1>3, <2>1, <2>2
<1> QED BY <1>1, <1>2, <1>3

LEMMA IntsAre == /\ MaxNumber \in Nat /\ \A n : n \in Ints <=> n \in Int /\ -MaxNumber - 1 <= n /\ n <= MaxNumber
BY TypedValuesAssumption DEF Ints

LEMMA NumberKept ==
  ASSUME NEW n \in Ints, locale = "classic" \/ Abs(n) < 1000
  PROVE  LET t == CreateNumberPropertyValue(n)
         IN  TryConvertStringToNumberValue(t) = <<n>> /\ IsSgfNumber(t)
<1>1. n \in Int /\ Abs(n) \in Nat
  BY IntsAre, SignIs
<1>2. locale = "classic" \/ Grouped(DigitsOf(Abs(n))) = DigitsOf(Abs(n))
  <2> SUFFICES ASSUME Abs(n) < 1000 PROVE Grouped(DigitsOf(Abs(n))) = DigitsOf(Abs(n))
    OBVIOUS
  <2>1. Abs(n) < PowerOfTen(3) /\ 3 \in Nat \ {0}
    BY SmallPowers
  <2>2. Len(DigitsOf(Abs(n))) <= 3
    BY ONLY <1>1, <2>1, LengthOfDigits
  <2> QED BY <2>2 DEF Grouped
<1>3. CreateNumberPropertyValue(n) = Sign(n) \o DigitsOf(Abs(n))
  BY <1>2 DEF CreateNumberPropertyValue
<1> QED BY <1>3, NumberReadBack

LEMMA DoubleKept ==
  ASSUME NEW v \in {"Normal", "Emphasized"}
  PROVE  LET t == CreateDoublePropertyValue(v)
         IN  TryConvertStringToDoubleValue(t) = <<v>> /\ t \in {<<"1">>, <<"2">>}
BY DEF CreateDoublePropertyValue, TryConvertStringToDoubleValue

LEMMA ColorKept ==
  ASSUME NEW v \in {"Black", "White"}
  PROVE  LET t == CreateColorPropertyValue(v)
         IN  TryConvertStringToColorValue(t) = <<v>> /\ t \in {<<"B">>, <<"W">>}
BY DEF CreateColorPropertyValue, TryConvertStringToColorValue

ValueTypes == {"Number", "Real", "Double", "Color"}

LEMMA ClientValueKept ==
  ASSUME valueType \in ValueTypes, NEW v \in ClientTypedValues[valueType], meant = <<v>>,
         ~HasThousandsSeparator, ~HasManyDigits, ~HasForeignPoint
  PROVE  TryConvert(CreatePropertyValue(v)) = <<v>> /\ IsWellFormedValue(CreatePropertyValue(v))
<1>1. meant # <<>> /\ meant[1] = v
  OBVIOUS
<1>2. CASE valueType = "Number"
  <2>1. v \in ClientNumbers
    BY <1>2 DEF ClientTypedValues
  <2>2. v \in Ints /\ v \in Int /\ Abs(v) \in Nat
    BY <2>1, TypedValuesAssumption, IntsAre, SignIs
  <2>3. locale = "classic" \/ Abs(v) < 1000
    BY <1>1, <1>2, <2>2 DEF HasThousandsSeparator
  <2> DEFINE t == CreateNumberPropertyValue(v)
  <2>4. TryConvertStringToNumberValue(t) = <<v>> /\ IsSgfNumber(t)
    BY <2>2, <2>3, NumberKept
  <2>5. CreatePropertyValue(v) = t
    BY <1>2 DEF CreatePropertyValue
  <2> HIDE DEF t
  <2> QED BY <1>2, <2>4, <2>5 DEF TryConvert, IsWellFormedValue
<1>3. CASE valueType = "Real"
  <2>1. v \in Int
    BY <1>3, TypedValuesAssumption DEF ClientTypedValues
  <2>2. IsWrittenInFull(v) /\ DecimalPoint(locale) = "."
    <3>1. Abs(v) \in Nat /\ PowerOfTen(RealPrecision) \in Nat
      BY <2>1, SignIs, PowersAreNumbers, TypedValuesAssumption
    <3> QED BY <1>1, <1>3, <3>1 DEF HasManyDigits, HasForeignPoint, IsWrittenInFull
  <2> DEFINE t == CreateRealPropertyValue(v)
  <2>3. TryConvertStringToRealValue(t) = <<v>> /\ IsSgfReal(t)
    BY <2>1, <2>2, RealReadBack
  <2>4. CreatePropertyValue(v) = t
    BY <1>3 DEF CreatePropertyValue
  <2> HIDE DEF t
  <2> QED BY <1>3, <2>3, <2>4 DEF TryConvert, IsWellFormedValue
<1>4. CASE valueType = "Double"
  <2>1. v \in {"Normal", "Emphasized"}
    BY <1>4 DEF ClientTypedValues
  <2> DEFINE t == CreateDoublePropertyValue(v)
  <2>2. TryConvertStringToDoubleValue(t) = <<v>> /\ t \in {<<"1">>, <<"2">>}
    BY <2>1, DoubleKept
  <2>3. CreatePropertyValue(v) = t
    BY <1>4 DEF CreatePropertyValue
  <2> HIDE DEF t
  <2> QED BY <1>4, <2>2, <2>3 DEF TryConvert, IsWellFormedValue
<1>5. CASE valueType = "Color"
  <2>1. v \in {"Black", "White"}
    BY <1>5 DEF ClientTypedValues
  <2> DEFINE t == CreateColorPropertyValue(v)
  <2>2. TryConvertStringToColorValue(t) = <<v>> /\ t \in {<<"B">>, <<"W">>}
    BY <2>1, ColorKept
  <2>3. CreatePropertyValue(v) = t
    BY <1>5 DEF CreatePropertyValue
  <2> HIDE DEF t
  <2> QED BY <1>5, <2>2, <2>3 DEF TryConvert, IsWellFormedValue
<1> QED BY <1>2, <1>3, <1>4, <1>5 DEF ValueTypes

LEMMA FileValueKept ==
  ASSUME valueType \in {"Number", "Real"}, NEW t \in FileTexts[valueType], IsWellFormedValue(t), ~HasForeignPoint
  PROVE  LET meaning == Meaning(valueType, t)
         IN  TryConvert(t) = IF valueType = "Number" /\ meaning \notin Ints THEN <<>> ELSE <<meaning>>
<1>1. CASE valueType = "Number"
  <2>1. t \in Seq(Char) /\ IsSgfNumber(t)
    BY <1>1, TypedValuesAssumption, StringsAreChars DEF FileTexts, IsWellFormedValue
  <2>2. PICK s, d : s \in Signs /\ IsDigitText(d) /\ d # <<>> /\ t = s \o d
    BY <2>1, NumberTextIs
  <2> DEFINE value == WithSign(s, ValueOfDigits(d))
  <2>3. /\ TryConvertStringToNumberValue(s \o d) = IF value \in Ints THEN <<value>> ELSE <<>>
        /\ Meaning("Number", s \o d) = value
    BY ONLY <2>2, ConvertedNumber
  <2> HIDE DEF value
  <2>4. TryConvert(t) = TryConvertStringToNumberValue(s \o d) /\ Meaning(valueType, t) = Meaning("Number", s \o d)
    BY <1>1, <2>2 DEF TryConvert
  <2> QED BY ONLY <1>1, <2>3, <2>4
<1>2. CASE valueType = "Real"
  <2>1. t \in RealTexts
    BY <1>2 DEF FileTexts
  <2>2. t \in Seq(Char) /\ IsSgfReal(t) /\ \A i \in DOMAIN t : t[i] = "." => Len(t) <= i + 2
    BY <1>2, <2>1, TypedValuesAssumption, StringsAreChars DEF IsWellFormedValue
  <2>3. DecimalPoint(locale) = "."
    BY <1>2 DEF HasForeignPoint
  <2>4. TryConvertStringToRealValue(t) = <<Meaning("Real", t)>>
    BY ONLY <2>2, <2>3, RealMeaning
  <2>5. TryConvert(t) = TryConvertStringToRealValue(t)
    BY <1>2 DEF TryConvert
  <2> QED BY ONLY <1>2, <2>4, <2>5
<1> QED BY <1>1, <1>2

-----------------------------------------------------------------------------
(* Where a value, its text and its typed value come from.                  *)

GivenByClient == \E v \in ClientTypedValues[valueType] : meant = <<v>> /\ rawValue = <<CreatePropertyValue(v)>>
TakenFromFile == meant = <<>> /\ \E t \in FileTexts[valueType] : rawValue = <<t>>

TypedInv ==
  /\ valueType \in ValueTypes
  /\ typedStage \in {"client", "object", "read", "corrected"}
  /\ typedStage = "client" => \E v \in ClientTypedValues[valueType] : meant = <<v>>
  /\ typedStage # "client" => GivenByClient \/ TakenFromFile
  /\ typedStage = "read" => typedValue = TryConvert(rawValue[1])
  /\ typedStage = "corrected" => ~IsWellFormedValue(rawValue[1])

LEMMA SameConversions ==
  ASSUME UNCHANGED <<valueType, locale>>
  PROVE  /\ \A v : CreatePropertyValue(v)' = CreatePropertyValue(v)
         /\ \A t : TryConvert(t)' = TryConvert(t)
         /\ \A t : IsWellFormedValue(t)' = IsWellFormedValue(t)
<1>1. ASSUME NEW v PROVE CreatePropertyValue(v)' = CreatePropertyValue(v)
  BY DEF CreatePropertyValue, CreateNumberPropertyValue
<1>2. ASSUME NEW t PROVE TryConvert(t)' = TryConvert(t)
  BY DEF TryConvert, TryConvertStringToRealValue
<1>3. ASSUME NEW t PROVE IsWellFormedValue(t)' = IsWellFormedValue(t)
  BY DEF IsWellFormedValue
<1> QED BY <1>1, <1>2, <1>3

LEMMA TypedInitInv == TypedInit => TypedInv
<1> SUFFICES ASSUME TypedInit PROVE TypedInv
  OBVIOUS
<1>1. valueType \in ValueTypes
  BY DEF TypedInit, FileTexts, ValueTypes
<1>2. CASE typedStage = "client" /\ \E value \in ClientTypedValues[valueType] : meant = <<value>>
  BY <1>1, <1>2 DEF TypedInv
<1>3. CASE typedStage = "object" /\ meant = <<>> /\ \E t \in FileTexts[valueType] : rawValue = <<t>>
  BY <1>1, <1>3 DEF TypedInv, TakenFromFile
<1> QED BY <1>2, <1>3 DEF TypedInit

LEMMA TypedNextInv == TypedInv /\ [TypedNext]_typedVars => TypedInv'
<1> SUFFICES ASSUME TypedInv, [TypedNext]_typedVars PROVE TypedInv'
  OBVIOUS
<1>1. UNCHANGED <<valueType, locale>>
  BY DEF TypedNext, CreateValue, ReadValue, CorrectValue, typedVars
<1>2. /\ \A v : CreatePropertyValue(v)' = CreatePropertyValue(v)
      /\ \A t : TryConvert(t)' = TryConvert(t)
      /\ \A t : IsWellFormedValue(t)' = IsWellFormedValue(t)
      /\ ClientTypedValues' = ClientTypedValues /\ FileTexts' = FileTexts
  BY <1>1, SameConversions DEF ClientTypedValues, FileTexts
<1>3. CASE CreateValue
  <2>1. PICK v \in ClientTypedValues[valueType] : meant = <<v>>
    BY <1>3 DEF CreateValue, TypedInv
  <2>2. meant' = <<v>> /\ rawValue' = <<CreatePropertyValue(v)>> /\ typedStage' = "object"
    BY <1>3, <2>1 DEF CreateValue
  <2>3. rawValue' = <<CreatePropertyValue(v)'>>
    BY <1>2, <2>2
  <2>4. GivenByClient'
    BY <1>1, <2>1, <2>2, <2>3 DEF GivenByClient, ClientTypedValues
  <2> QED BY <1>1, <2>2, <2>4 DEF TypedInv
<1>4. ASSUME UNCHANGED <<meant, rawValue>>
      PROVE  (GivenByClient \/ TakenFromFile) => (GivenByClient \/ TakenFromFile)'
  <2>1. GivenByClient => GivenByClient'
    BY <1>1, <1>2, <1>4 DEF GivenByClient
  <2>2. TakenFromFile => TakenFromFile'
    BY <1>1, <1>2, <1>4 DEF TakenFromFile
  <2> QED BY <2>1, <2>2
<1>5. CASE ReadValue
  BY <1>1, <1>2, <1>4, <1>5 DEF ReadValue, TypedInv
<1>6. CASE CorrectValue
  BY <1>1, <1>2, <1>4, <1>6 DEF CorrectValue, TypedInv
<1>7. CASE UNCHANGED typedVars
  BY <1>1, <1>2, <1>4, <1>7 DEF typedVars, TypedInv
<1> QED BY <1>3, <1>5, <1>6, <1>7 DEF TypedNext

(* SgfcPropertyValueFactory, SgfcPropertyDecoder, SgfcValueConverter: for  *)
(* all values and texts, the value of a client is read as it was given and *)
(* a well-formed text as the value it means, with the exceptions named.    *)
THEOREM TypedValuesAreKept == TypedSpec => []TypedValuesKept
<1>1. TypedInv => TypedValuesKept
  <2> SUFFICES ASSUME TypedInv, typedStage \in {"read", "corrected"},
                      ~HasThousandsSeparator, ~HasManyDigits, ~HasForeignPoint
               PROVE  IF meant # <<>>
                      THEN typedStage = "read" /\ typedValue = meant
                      ELSE typedStage = "read" /\ valueType \in {"Number", "Real"} /\ IsWellFormedValue(rawValue[1]) =>
                             LET meaning == Meaning(valueType, rawValue[1])
                             IN  typedValue = IF valueType = "Number" /\ meaning \notin Ints THEN <<>> ELSE <<meaning>>
    BY DEF TypedValuesKept
  <2>1. CASE GivenByClient
    <3>1. PICK v \in ClientTypedValues[valueType] : meant = <<v>> /\ rawValue = <<CreatePropertyValue(v)>>
      BY <2>1 DEF GivenByClient
    <3>2. TryConvert(CreatePropertyValue(v)) = <<v>> /\ IsWellFormedValue(CreatePropertyValue(v))
      BY <3>1, ClientValueKept DEF TypedInv
    <3>3. meant # <<>> /\ rawValue[1] = CreatePropertyValue(v)
      BY <3>1
    <3> QED BY <3>1, <3>2, <3>3 DEF TypedInv
  <2>2. CASE TakenFromFile
    <3>1. PICK t \in FileTexts[valueType] : rawValue = <<t>> /\ meant = <<>>
      BY <2>2 DEF TakenFromFile
    <3>2. rawValue[1] = t
      BY <3>1
    <3> SUFFICES ASSUME typedStage = "read", valueType \in {"Number", "Real"}, IsWellFormedValue(rawValue[1])
                 PROVE  LET meaning == Meaning(valueType, rawValue[1])
                        IN  typedValue = IF valueType = "Number" /\ meaning \notin Ints THEN <<>> ELSE <<meaning>>
      BY <3>1
    <3> QED BY <3>2, FileValueKept DEF TypedInv
  <2> QED BY <2>1, <2>2 DEF TypedInv
<1> QED BY <1>1, TypedInitInv, TypedNextInv, PTL DEF TypedSpec

-----------------------------------------------------------------------------
(* Texts of game information.                                              *)

LEMMA EmptyText == \A t \in Seq(Char) : <<>> \o t = t /\ t \o <<>> = t
<1>1. ASSUME NEW T, NEW t \in Seq(T) PROVE <<>> \o t = t /\ t \o <<>> = t
  OBVIOUS
<1> QED BY <1>1

(* A text that begins with a token.                                        *)
LEMMA TokenAndText ==
  ASSUME NEW c \in Char, NEW x \in Seq(Char)
  PROVE  /\ <<c>> \o x \in Seq(Char) /\ <<c>> \o x # <<>> /\ Head(<<c>> \o x) = c /\ Tail(<<c>> \o x) = x
         /\ (<<c>> \o x)[1] = c /\ Len(<<c>> \o x) = 1 + Len(x)
         /\ \A i \in 1..Len(x) : (<<c>> \o x)[1 + i] = x[i]
<1> DEFINE q == <<c>>
           u == q \o x
<1>1. q \in Seq(Char) /\ x \in Seq(Char) /\ Len(q) = 1 /\ q[1] = c /\ Len(x) \in Nat
  OBVIOUS
<1> HIDE DEF q
<1>2. /\ u \in Seq(Char) /\ Len(u) = Len(q) + Len(x) /\ SubSeq(u, Len(q) + 1, Len(u)) = x
      /\ \A i \in 1..Len(q) : u[i] = q[i]
      /\ \A i \in 1..Len(x) : u[Len(q) + i] = x[i]
  <2>1. q \in Seq(Char) /\ x \in Seq(Char)
    BY <1>1
  <2>2. /\ q \o x \in Seq(Char) /\ Len(q \o x) = Len(q) + Len(x)
        /\ SubSeq(q \o x, Len(q) + 1, Len(q \o x)) = x
        /\ \A i \in 1..Len(q) : (q \o x)[i] = q[i]
        /\ \A i \in 1..Len(x) : (q \o x)[Len(q) + i] = x[i]
    BY ONLY <2>1, ConcatFacts
  <2> QED BY <2>2
<1> HIDE DEF u
<1>3. u[1] = c /\ Len(u) = 1 + Len(x) /\ SubSeq(u, 2, Len(u)) = x /\ \A i \in 1..Len(x) : u[1 + i] = x[i]
  BY <1>1, <1>2
<1>4. u # <<>> /\ Head(u) = c /\ Tail(u) = x
  <2>1. Len(u) # 0
    BY <1>1, <1>3
  <2>2. u # <<>>
    BY <2>1
  <2> QED BY <1>2, <1>3, <2>2
<1> QED BY <1>2, <1>3, <1>4 DEF u, q

ScoreWords == {<<"R">>, <<"Resign">>, <<"T">>, <<"Time">>, <<"F">>, <<"Forfeit">>}

LEMMA ScoreReadBack ==
  ASSUME NEW score \in Nat, IsWrittenInFull(score), score % 100 # 0 => DecimalPoint(locale) = "."
  PROVE  LET t == CreateRealPropertyValue(score)
         IN  /\ t \in Seq(Char) /\ t # <<>> /\ t \notin ScoreWords /\ IsScoreText(t)
             /\ TryConvertStringToRealValue(t) = <<score>>
<1> DEFINE t == CreateRealPropertyValue(score)
<1>1. Sign(score) = <<>> /\ Abs(score) = score /\ score \in Int
  BY SignIs
<1>2. TryConvertStringToRealValue(t) = <<score>>
  BY <1>1, RealReadBack
<1>3. PICK w, p :
           /\ IsDigitText(w) /\ w # <<>> /\ IsDigitText(p) /\ Len(p) <= 2
           /\ t = IF p = <<>> THEN Sign(score) \o w ELSE Sign(score) \o WithPoint(w, p)
  BY <1>1, RealText
<1> HIDE DEF t
<1>4. /\ w \in Seq(Char) /\ Len(w) \in Nat /\ p \in Seq(Char) /\ Len(p) \in Nat /\ WithPoint(w, p) \in Seq(Char)
      /\ \A i \in 1..Len(w) : IsDigitCharacter(w[i])
      /\ \A i \in 1..Len(p) : IsDigitCharacter(p[i])
  BY <1>3, PointFacts DEF IsDigitText
<1>5. t = IF p = <<>> THEN w ELSE WithPoint(w, p)
  BY <1>1, <1>3, <1>4, EmptyText
<1>6. Len(w) > 0
  BY <1>3, <1>4
<1> DEFINE Scored == /\ t \in Seq(Char) /\ IsScoreText(t) /\ IsDigitCharacter(t[1])
<1>7. ASSUME p = <<>> PROVE Scored
  <2>1. t = w
    BY <1>5, <1>7
  <2>2. \A i \in DOMAIN w : IsDigitCharacter(w[i]) /\ w[i] # "."
    BY <1>4, NotDigits
  <2> QED BY <1>4, <1>6, <2>1, <2>2 DEF IsScoreText
<1>8. ASSUME p # <<>> PROVE Scored
  <2>1. t = w \o (<<".">> \o p)
    BY <1>5, <1>8 DEF WithPoint
  <2> DEFINE u == <<".">> \o p
  <2>2. "." \in Char
    BY DEF Char
  <2>3. u \in Seq(Char) /\ Len(u) = 1 + Len(p) /\ u[1] = "." /\ \A i \in 1..Len(p) : u[1 + i] = p[i]
    BY <1>4, <2>2, TokenAndText
  <2> HIDE DEF u
  <2>4. /\ t \in Seq(Char) /\ DOMAIN t = 1..(Len(w) + Len(u))
        /\ \A i \in 1..Len(w) : t[i] = w[i]
        /\ \A i \in (Len(w) + 1)..(Len(w) + Len(u)) : t[i] = u[i - Len(w)]
    <3>1. t = w \o u
      BY <2>1 DEF u
    <3>2. w \in Seq(Char) /\ u \in Seq(Char)
      BY <1>4, <2>3
    <3>3. /\ w \o u \in Seq(Char) /\ DOMAIN (w \o u) = 1..(Len(w) + Len(u))
          /\ \A i \in 1..Len(w) : (w \o u)[i] = w[i]
          /\ \A i \in (Len(w) + 1)..(Len(w) + Len(u)) : (w \o u)[i] = u[i - Len(w)]
      BY ONLY <3>2, ConcatFacts
    <3> QED BY ONLY <3>1, <3>3
  <2>5. ASSUME NEW i \in DOMAIN t
        PROVE  (i = Len(w) + 1 /\ t[i] = ".") \/ (i # Len(w) + 1 /\ IsDigitCharacter(t[i]))
    <3>1. i \in Int /\ (i \in 1..Len(w) \/ i = Len(w) + 1 \/ i \in (Len(w) + 2)..(Len(w) + Len(u)))
      <4>1. i \in 1..(Len(w) + Len(u))
        BY <2>4
      <4>2. Len(w) \in Nat /\ Len(u) \in Nat
        BY <1>4, <2>3
      <4> QED BY ONLY <4>1, <4>2
    <3>2. CASE i \in 1..Len(w)
      BY <1>4, <2>4, <3>2
    <3>3. CASE i = Len(w) + 1
      <4>1. i \in (Len(w) + 1)..(Len(w) + Len(u)) /\ i - Len(w) = 1
        BY <1>4, <2>3, <3>3
      <4> QED BY <2>3, <2>4, <3>3, <4>1
    <3>4. CASE i \in (Len(w) + 2)..(Len(w) + Len(u))
      <4>1. i - Len(w) - 1 \in 1..Len(p) /\ 1 + (i - Len(w) - 1) = i - Len(w) /\ i # Len(w) + 1
            /\ i \in (Len(w) + 1)..(Len(w) + Len(u))
        BY <1>4, <2>3, <3>4
      <4>2. t[i] = p[i - Len(w) - 1]
        BY <2>3, <2>4, <4>1
      <4> QED BY <1>4, <4>1, <4>2
    <3> QED BY <3>1, <3>2, <3>3, <3>4
  <2>6. IsScoreText(t)
    BY <2>5, NotDigits DEF IsScoreText
  <2>7. IsDigitCharacter(t[1])
    <3>1. 1 \in 1..Len(w)
      BY <1>4, <1>6
    <3> QED BY <1>4, <2>4, <3>1
  <2> QED BY <2>4, <2>6, <2>7
<1>9. Scored
  BY <1>7, <1>8
<1>10. t # <<>>
  <2>1. <<>> \notin Seq(Char) \/ w # <<>>
    BY <1>3
  <2>2. p # <<>> => WithPoint(w, p) # <<>>
    <3>1. Len(WithPoint(w, p)) = Len(w) + 1 + Len(p)
      BY <1>3, PointFacts
    <3>2. Len(WithPoint(w, p)) # 0
      BY <1>4, <3>1
    <3> QED BY <3>2
  <2> QED BY <1>3, <1>5, <2>2
<1>11. t \notin ScoreWords
  <2>1. \A c \in {"R", "Resign", "T", "Time", "F", "Forfeit"} : ~IsDigitCharacter(c) /\ <<c>>[1] = c
    BY NotDigits
  <2> QED BY <1>9, <2>1 DEF ScoreWords
<1> QED BY <1>2, <1>9, <1>10, <1>11 DEF t

(* The text of a win: the winner, and how it was won.                      *)
Winner(b) == IF b = "B+" THEN "BlackWin" ELSE "WhiteWin"

LEMMA WinTextIs ==
  ASSUME NEW b \in {"B+", "W+"}, NEW x \in Seq(Char)
  PROVE  LET t == <<b>> \o x
         IN  /\ t \in Seq(Char) /\ IsWinText(t) /\ Head(t) = b /\ Tail(t) = x
             /\ t \notin {<<"0">>, <<"Draw">>, <<"Void">>, <<"?">>}
<1> DEFINE t == <<b>> \o x
<1>1. b \in Char
  BY DEF Char
<1>2. t \in Seq(Char) /\ t # <<>> /\ Head(t) = b /\ Tail(t) = x /\ t[1] = b
  BY <1>1, TokenAndText
<1> HIDE DEF t
<1>3. IsWinText(t)
  BY <1>2 DEF IsWinText, Begins
<1>4. \A c \in {"0", "Draw", "Void", "?"} : c # b /\ <<c>>[1] = c
  OBVIOUS
<1>5. t \notin {<<"0">>, <<"Draw">>, <<"Void">>, <<"?">>}
  BY <1>2, <1>4
<1> QED BY <1>2, <1>3, <1>5 DEF t

LEMMA ScoreWordsAre ==
  /\ \A c \in {"R", "Resign", "T", "Time", "F", "Forfeit"} : ~IsScoreText(<<c>>) /\ <<c>> # <<>>
  /\ \A c \in {"T", "Time", "F", "Forfeit"} : <<c>> \notin {<<"R">>, <<"Resign">>}
  /\ \A c \in {"R", "Resign", "F", "Forfeit"} : <<c>> \notin {<<"T">>, <<"Time">>}
  /\ \A c \in {"R", "Resign", "T", "Time"} : <<c>> \notin {<<"F">>, <<"Forfeit">>}
<1>1. ASSUME NEW c \in {"R", "Resign", "T", "Time", "F", "Forfeit"} PROVE ~IsScoreText(<<c>>)
  <2> DEFINE q == <<c>>
  <2>1. 1 \in DOMAIN q /\ q[1] = c /\ c # "." /\ ~IsDigitCharacter(c)
    BY NotDigits
  <2> HIDE DEF q
  <2>2. ~IsScoreText(q)
    BY ONLY <2>1 DEF IsScoreText
  <2> QED BY <2>2 DEF q
<1>2. \A c, d : <<c>> = <<d>> => c = d
  OBVIOUS
<1>3. \A c : <<c>> # <<>>
  OBVIOUS
<1>4. \A c \in {"T", "Time", "F", "Forfeit"} : <<c>> \notin {<<"R">>, <<"Resign">>}
  BY ONLY <1>2
<1>5. \A c \in {"R", "Resign", "F", "Forfeit"} : <<c>> \notin {<<"T">>, <<"Time">>}
  BY ONLY <1>2
<1>6. \A c \in {"R", "Resign", "T", "Time"} : <<c>> \notin {<<"F">>, <<"Forfeit">>}
  BY ONLY <1>2
<1> QED BY <1>1, <1>3, <1>4, <1>5, <1>6

LEMMA WinRead ==
  ASSUME NEW b \in {"B+", "W+"}, NEW x \in Seq(Char)
  PROVE  LET r == ResultFromText(<<b>> \o x)
         IN  /\ x = <<>> => r = <<GameResult(Winner(b), "WinWithoutScore", 0)>>
             /\ x = <<"Resign">> => r = <<GameResult(Winner(b), "WinByResignation", 0)>>
             /\ x = <<"Time">> => r = <<GameResult(Winner(b), "WinOnTime", 0)>>
             /\ x = <<"Forfeit">> => r = <<GameResult(Winner(b), "WinByForfeit", 0)>>
             /\ x # <<>> /\ x \notin ScoreWords /\ IsScoreText(x) =>
                  r = <<GameResult(Winner(b), "WinWithScore", TryConvertStringToRealValue(x)[1])>>
<1> DEFINE t == <<b>> \o x
<1>1. /\ IsWinText(t) /\ Head(t) = b /\ Tail(t) = x
      /\ t \notin {<<"0">>, <<"Draw">>} /\ t # <<"Void">> /\ t # <<"?">>
  BY WinTextIs
<1> HIDE DEF t
<1>2. /\ \A c \in {"R", "Resign", "T", "Time", "F", "Forfeit"} : ~IsScoreText(<<c>>) /\ <<c>> # <<>>
      /\ \A c \in {"T", "Time", "F", "Forfeit"} : <<c>> \notin {<<"R">>, <<"Resign">>}
      /\ \A c \in {"R", "Resign", "F", "Forfeit"} : <<c>> \notin {<<"T">>, <<"Time">>}
      /\ \A c \in {"R", "Resign", "T", "Time"} : <<c>> \notin {<<"F">>, <<"Forfeit">>}
  BY ScoreWordsAre
<1>3. x = <<>> => ResultFromText(t) = <<GameResult(Winner(b), "WinWithoutScore", 0)>>
  BY ONLY <1>1, <1>2 DEF ResultFromText, Winner
<1>4. x = <<"Resign">> => ResultFromText(t) = <<GameResult(Winner(b), "WinByResignation", 0)>>
  BY ONLY <1>1, <1>2 DEF ResultFromText, Winner
<1>5. x = <<"Time">> => ResultFromText(t) = <<GameResult(Winner(b), "WinOnTime", 0)>>
  BY ONLY <1>1, <1>2 DEF ResultFromText, Winner
<1>6. x = <<"Forfeit">> => ResultFromText(t) = <<GameResult(Winner(b), "WinByForfeit", 0)>>
  BY ONLY <1>1, <1>2 DEF ResultFromText, Winner
<1>7. x # <<>> /\ x \notin ScoreWords /\ IsScoreText(x) =>
        ResultFromText(t) = <<GameResult(Winner(b), "WinWithScore", TryConvertStringToRealValue(x)[1])>>
  BY ONLY <1>1, <1>2 DEF ResultFromText, Winner, ScoreWords
<1> QED BY <1>3, <1>4, <1>5, <1>6, <1>7 DEF t

GameResults == [type : ResultTypes, win : WinTypes, score : Int]

LEMMA ResultFields ==
  ASSUME NEW v \in GameResults
  PROVE  /\ v.type \in ResultTypes /\ v.win \in WinTypes /\ v.score \in Int
         /\ v = GameResult(v.type, v.win, v.score)
         /\ [v EXCEPT !.score = 0] = GameResult(v.type, v.win, 0)
BY DEF GameResults, GameResult

LEMMA OtherResults ==
  /\ ResultFromText(<<"Draw">>) = <<GameResult("Draw", "WinWithScore", 0)>>
  /\ ResultFromText(<<"Void">>) = <<GameResult("NoResult", "WinWithScore", 0)>>
  /\ ResultFromText(<<"?">>) = <<GameResult("UnknownResult", "WinWithScore", 0)>>
  /\ \A c \in {"Draw", "Void", "?"} : ~IsUnconvertibleResult(<<c>>)
<1>1. ASSUME NEW c \in {"Draw", "Void", "?"} PROVE ~IsUnconvertibleResult(<<c>>) /\ ~IsWinText(<<c>>)
  <2>1. Head(<<c>>) = c
    OBVIOUS
  <2>2. c \notin {"B+", "W+"}
    OBVIOUS
  <2> QED BY <2>1, <2>2 DEF IsUnconvertibleResult, IsWinText, Begins
<1>2. <<"Void">> \notin {<<"0">>, <<"Draw">>} /\ <<"?">> \notin {<<"0">>, <<"Draw">>} /\ <<"?">> # <<"Void">>
  OBVIOUS
<1>0. <<"Draw">> # <<"Void">> /\ <<"Draw">> # <<"?">>
  OBVIOUS
<1>3. ResultFromText(<<"Draw">>) = <<GameResult("Draw", "WinWithScore", 0)>>
  BY <1>0, <1>1 DEF ResultFromText
<1>4. ResultFromText(<<"Void">>) = <<GameResult("NoResult", "WinWithScore", 0)>>
  BY <1>1, <1>2 DEF ResultFromText
<1>5. ResultFromText(<<"?">>) = <<GameResult("UnknownResult", "WinWithScore", 0)>>
  BY <1>1, <1>2 DEF ResultFromText
<1> QED BY <1>1, <1>3, <1>4, <1>5

LEMMA ResultReadBack ==
  ASSUME NEW v \in GameResults, ~HasNoText("RE", v)
  PROVE  LET t == ResultToText(v)
         IN  ~IsUnconvertibleResult(t) /\ ResultFromText(t) = <<Effective("RE", v)>>
<1> DEFINE t == ResultToText(v)
<1>1. /\ v.type \in ResultTypes /\ v.win \in WinTypes /\ v.score \in Int
      /\ v = GameResult(v.type, v.win, v.score)
      /\ [v EXCEPT !.score = 0] = GameResult(v.type, v.win, 0)
  BY ResultFields
<1>2. CASE v.type \notin {"BlackWin", "WhiteWin"}
  <2>1. Effective("RE", v) = GameResult(v.type, "WinWithScore", 0)
    BY <1>2 DEF Effective, IsWin
  <2>2. /\ v.type = "Draw" => t = <<"Draw">>
        /\ v.type = "NoResult" => t = <<"Void">>
        /\ v.type = "UnknownResult" => t = <<"?">>
    BY DEF ResultToText
  <2> HIDE DEF t
  <2>3. CASE v.type = "Draw"
    BY <2>1, <2>2, <2>3, OtherResults DEF t
  <2>4. CASE v.type = "NoResult"
    BY <2>1, <2>2, <2>4, OtherResults DEF t
  <2>5. CASE v.type = "UnknownResult"
    BY <2>1, <2>2, <2>5, OtherResults DEF t
  <2> QED BY <1>1, <1>2, <2>3, <2>4, <2>5 DEF ResultTypes
<1>3. CASE v.type \in {"BlackWin", "WhiteWin"}
  <2> DEFINE b == IF v.type = "BlackWin" THEN "B+" ELSE "W+"
             x == CASE v.win = "WinWithScore" -> CreateRealPropertyValue(v.score)
                    [] v.win = "WinWithoutScore" -> <<>>
                    [] v.win = "WinByResignation" -> <<"Resign">>
                    [] v.win = "WinOnTime" -> <<"Time">>
                    [] v.win = "WinByForfeit" -> <<"Forfeit">>
  <2>1. b \in {"B+", "W+"} /\ Winner(b) = v.type /\ t = <<b>> \o x
    BY <1>3 DEF ResultToText, Winner
  <2> HIDE DEF b, t
  <2>2. CASE v.win = "WinWithScore"
    <3>1. v.score \in Nat /\ IsWrittenInFull(v.score) /\ (v.score % 100 # 0 => DecimalPoint(locale) = ".")
      <4>1. /\ ~(v.score < 0) /\ Rounded(v.score) = v.score /\ ~(v.score >= 100 * PowerOfTen(RealPrecision))
            /\ v.score % 100 # 0 => DecimalPoint(locale) = "."
        BY <1>3, <2>2 DEF HasNoText, HasScore, IsWin
      <4>2. v.score \in Nat /\ PowerOfTen(RealPrecision) \in Nat
        BY <1>1, <4>1, PowersAreNumbers, TypedValuesAssumption
      <4>3. Abs(v.score) = v.score
        BY <4>2, SignIs
      <4> QED BY <4>1, <4>2, <4>3 DEF IsWrittenInFull
    <3> DEFINE y == CreateRealPropertyValue(v.score)
    <3>2. y \in Seq(Char) /\ y # <<>> /\ y \notin ScoreWords /\ IsScoreText(y) /\ TryConvertStringToRealValue(y) = <<v.score>>
      BY <3>1, ScoreReadBack
    <3>3. x = y
      BY <2>2
    <3> HIDE DEF x, y
    <3>4. ResultFromText(t) = <<GameResult(v.type, "WinWithScore", TryConvertStringToRealValue(y)[1])>>
      BY ONLY <2>1, <3>2, <3>3, WinRead
    <3>5. ~IsUnconvertibleResult(t)
      <4>1. Tail(t) = y
        BY ONLY <2>1, <3>2, <3>3, WinTextIs
      <4>2. TryConvertStringToRealValue(Tail(t)) # <<>>
        <5>1. \A n : <<n>> # <<>>
          OBVIOUS
        <5> QED BY ONLY <3>2, <4>1, <5>1
      <4> QED BY ONLY <4>2 DEF IsUnconvertibleResult
    <3>6. Effective("RE", v) = v
      BY <1>3, <2>2 DEF Effective, IsWin, HasScore
    <3> QED BY <1>1, <2>2, <3>2, <3>4, <3>5, <3>6 DEF t
  <2>3. CASE v.win # "WinWithScore"
    <3>1. x \in {<<>>, <<"Resign">>, <<"Time">>, <<"Forfeit">>}
      BY <1>1, <2>3 DEF WinTypes
    <3>2. x \in Seq(Char)
      <4>1. "Resign" \in Char /\ "Time" \in Char /\ "Forfeit" \in Char
        BY DEF Char
      <4>2. \A c \in Char : <<c>> \in Seq(Char)
        OBVIOUS
      <4>3. <<>> \in Seq(Char) /\ <<"Resign">> \in Seq(Char) /\ <<"Time">> \in Seq(Char) /\ <<"Forfeit">> \in Seq(Char)
        BY <4>1, <4>2
      <4> HIDE DEF x
      <4> QED BY ONLY <3>1, <4>3
    <3>3. /\ v.win = "WinWithoutScore" => x = <<>>
          /\ v.win = "WinByResignation" => x = <<"Resign">>
          /\ v.win = "WinOnTime" => x = <<"Time">>
          /\ v.win = "WinByForfeit" => x = <<"Forfeit">>
      OBVIOUS
    <3> HIDE DEF x
    <3>4. Tail(t) = x
      BY ONLY <2>1, <3>2, WinTextIs
    <3>5. x = <<>> \/ ~IsScoreText(x)
      <4>1. \A c \in {"Resign", "Time", "Forfeit"} : ~IsDigitCharacter(c) /\ c # "." /\ 1 \in DOMAIN <<c>> /\ <<c>>[1] = c
        BY NotDigits
      <4> QED BY <3>1, <4>1 DEF IsScoreText
    <3>6. ~IsUnconvertibleResult(t)
      BY <3>4, <3>5 DEF IsUnconvertibleResult
    <3>7. Effective("RE", v) = GameResult(v.type, v.win, 0)
      BY <1>1, <1>3, <2>3 DEF Effective, IsWin, HasScore
    <3>8. /\ x = <<>> => ResultFromText(t) = <<GameResult(v.type, "WinWithoutScore", 0)>>
          /\ x = <<"Resign">> => ResultFromText(t) = <<GameResult(v.type, "WinByResignation", 0)>>
          /\ x = <<"Time">> => ResultFromText(t) = <<GameResult(v.type, "WinOnTime", 0)>>
          /\ x = <<"Forfeit">> => ResultFromText(t) = <<GameResult(v.type, "WinByForfeit", 0)>>
      BY ONLY <2>1, <3>2, WinRead
    <3>9. ResultFromText(t) = <<GameResult(v.type, v.win, 0)>>
      BY <1>1, <2>3, <3>3, <3>8 DEF WinTypes
    <3> QED BY <3>6, <3>7, <3>9 DEF t
  <2> QED BY <2>2, <2>3
<1> QED BY <1>2, <1>3

-----------------------------------------------------------------------------
(* Ranks: what follows the digits names the type and the rating.           *)

RankLetter(type) == CASE type = "Kyu" -> "k" [] type = "AmateurDan" -> "d" [] type = "ProfessionalDan" -> "p"
RankWord(type) == CASE type = "Kyu" -> "kyu" [] type = "AmateurDan" -> "dan" [] type = "ProfessionalDan" -> "p"

KindsOfRank == {"Kyu", "AmateurDan", "ProfessionalDan"}
KindsOfRating == {"Uncertain", "Established", "Unspecified"}

LEMMA RankWordsAre ==
  /\ DOMAIN RankTypes = KindsOfRank /\ DOMAIN RatingTypes = KindsOfRating
  /\ \A k \in KindsOfRank : /\ RankTypes[k] = <<RankLetter(k)>> /\ LongRankTypes[k] = <<RankWord(k)>>
                            /\ RankLetter(k) \in Char /\ RankWord(k) \in Char /\ RankTypes[k] \in Seq(Char)
                            /\ ~IsDigitCharacter(RankLetter(k)) /\ ~IsDigitCharacter(RankWord(k))
  /\ \A k \in KindsOfRating : RatingTypes[k] \in Seq(Char)
  /\ \A k, l \in KindsOfRank : RankLetter(k) \in {RankLetter(l), RankWord(l)} => k = l
  /\ \A k, l \in KindsOfRating : RatingTypes[k] = RatingTypes[l] => k = l
<1>1. DOMAIN RankTypes = KindsOfRank /\ DOMAIN RatingTypes = KindsOfRating
  BY DEF RankTypes, RatingTypes, KindsOfRank, KindsOfRating
<1>2. ASSUME NEW k \in KindsOfRank
      PROVE  /\ RankTypes[k] = <<RankLetter(k)>> /\ LongRankTypes[k] = <<RankWord(k)>>
             /\ RankLetter(k) \in {"k", "d", "p"} /\ RankWord(k) \in {"kyu", "dan", "p"}
  BY DEF RankTypes, LongRankTypes, RankLetter, RankWord, KindsOfRank
<1>3. {"k", "d", "p", "kyu", "dan", "?", "*"} \subseteq Char
  BY DEF Char
<1>4. \A k, l \in KindsOfRank : RankLetter(k) \in {RankLetter(l), RankWord(l)} => k = l
  BY DEF RankLetter, RankWord, KindsOfRank
<1>5. /\ RatingTypes["Uncertain"] = <<"?">> /\ RatingTypes["Established"] = <<"*">>
      /\ RatingTypes["Unspecified"] = <<>>
  BY DEF RatingTypes
<1>6. \A k \in KindsOfRating : RatingTypes[k] \in Seq(Char)
  <2>1. <<"?">> \in Seq(Char) /\ <<"*">> \in Seq(Char) /\ <<>> \in Seq(Char)
    BY <1>3
  <2> QED BY ONLY <1>5, <2>1 DEF KindsOfRating
<1>7. \A k, l \in KindsOfRating : RatingTypes[k] = RatingTypes[l] => k = l
  <2>1. <<"?">> # <<"*">> /\ <<"?">> # <<>> /\ <<"*">> # <<>>
    OBVIOUS
  <2> QED BY ONLY <1>5, <2>1 DEF KindsOfRating
<1>8. \A k \in KindsOfRank : ~IsDigitCharacter(RankLetter(k)) /\ ~IsDigitCharacter(RankWord(k))
  BY <1>2, NotDigits
<1>9. \A k \in KindsOfRank : RankTypes[k] \in Seq(Char)
  <2>1. \A a \in Char : <<a>> \in Seq(Char)
    OBVIOUS
  <2>2. \A k \in KindsOfRank : RankTypes[k] = <<RankLetter(k)>> /\ RankLetter(k) \in Char
    BY <1>2, <1>3
  <2> QED BY ONLY <2>1, <2>2
<1> QED BY <1>1, <1>2, <1>3, <1>4, <1>6, <1>7, <1>8, <1>9

LEMMA RankTextIs ==
  ASSUME NEW d, IsDigitText(d), d # <<>>, NEW kind \in KindsOfRank, NEW rating \in KindsOfRating
  PROVE  LET t == d \o (RankTypes[kind] \o RatingTypes[rating])
         IN  /\ LeadingDigits(t) = d
             /\ \A k \in KindsOfRank, r \in KindsOfRating : IsRankText(t, k, r) <=> k = kind /\ r = rating
<1> DEFINE x == RankTypes[kind] \o RatingTypes[rating]
           t == d \o x
           c == RankLetter(kind)
<1>1. d \in Seq(Char) /\ c \in Char /\ RatingTypes[rating] \in Seq(Char) /\ x = <<c>> \o RatingTypes[rating]
      /\ ~IsDigitCharacter(c)
  BY RankWordsAre DEF IsDigitText
<1> HIDE DEF c
<1>2. x \in Seq(Char) /\ x[1] = c /\ Tail(x) = RatingTypes[rating]
  BY <1>1, TokenAndText
<1> HIDE DEF x
<1>3. LeadingDigits(t) = d
  BY <1>1, <1>2, LeadingDigitsAre
<1>4. SubSeq(t, Len(d) + 1, Len(t)) = x
  <2>1. d \in Seq(Char) /\ x \in Seq(Char)
    BY <1>1, <1>2
  <2>2. SubSeq(d \o x, Len(d) + 1, Len(d \o x)) = x
    BY ONLY <2>1, ConcatFacts
  <2> QED BY <2>2
<1>5. IsRankText(t, kind, rating)
  <2>1. t = (d \o RankTypes[kind]) \o RatingTypes[rating]
    <3>1. RankTypes[kind] \in Seq(Char)
      BY RankWordsAre
    <3>2. (d \o RankTypes[kind]) \o RatingTypes[rating] = d \o (RankTypes[kind] \o RatingTypes[rating])
      BY ONLY <1>1, <3>1, CharConcat
    <3> QED BY <3>2 DEF x
  <2> HIDE DEF t
  <2> QED BY <1>3, <2>1 DEF IsRankText
<1>6. ASSUME NEW k \in KindsOfRank, NEW r \in KindsOfRating, IsRankText(t, k, r)
      PROVE  k = kind /\ r = rating
  <2>1. PICK suffix \in {RankTypes[k], LongRankTypes[k]} : t = (d \o suffix) \o RatingTypes[r]
    <3> HIDE DEF t
    <3> QED BY <1>3, <1>6 DEF IsRankText
  <2>2. PICK w \in {RankLetter(k), RankWord(k)} : suffix = <<w>> /\ w \in Char
    BY RankWordsAre
  <2> DEFINE y == <<w>> \o RatingTypes[r]
  <2>3. RatingTypes[r] \in Seq(Char) /\ <<w>> \in Seq(Char)
    <3>1. \A a \in Char : <<a>> \in Seq(Char)
      OBVIOUS
    <3> QED BY <2>2, <3>1, RankWordsAre
  <2>4. y \in Seq(Char) /\ y[1] = w /\ Tail(y) = RatingTypes[r]
    BY <2>2, <2>3, TokenAndText
  <2>5. t = d \o y
    <3>1. (d \o <<w>>) \o RatingTypes[r] = d \o (<<w>> \o RatingTypes[r])
      BY ONLY <1>1, <2>3, CharConcat
    <3> QED BY ONLY <2>1, <2>2, <3>1 DEF y
  <2> HIDE DEF y, t
  <2>6. SubSeq(t, Len(d) + 1, Len(t)) = y
    <3>1. SubSeq(d \o y, Len(d) + 1, Len(d \o y)) = y
      BY ONLY <1>1, <2>4, ConcatFacts
    <3> QED BY ONLY <2>5, <3>1
  <2>7. x = y
    BY ONLY <1>4, <2>6
  <2>8. c = w /\ RatingTypes[rating] = RatingTypes[r]
    BY ONLY <1>2, <2>4, <2>7
  <2> QED BY <2>2, <2>8, RankWordsAre DEF c
<1> QED BY <1>3, <1>5, <1>6 DEF t, x

RankValues == [rank : Ints, type : DOMAIN RankTypes, rating : DOMAIN RatingTypes]

LEMMA RankReadBack ==
  ASSUME NEW v \in RankValues, ~HasNoText("BR", v)
  PROVE  LET t == RankToText(v)
         IN  ~IsUnconvertibleRank(t) /\ RankFromText(t) = <<v>>
<1> DEFINE n == v.rank
           d == DigitsOf(n)
           t == RankToText(v)
           found == RankParts(t)
<1>1. /\ n \in Ints /\ v.type \in KindsOfRank /\ v.rating \in KindsOfRating
      /\ v = [rank |-> n, type |-> v.type, rating |-> v.rating]
  BY RankWordsAre DEF RankValues
<1>2. n \in Nat
  BY <1>1, IntsAre DEF HasNoText
<1>3. Sign(n) = <<>> /\ Abs(n) = n
  BY <1>2, SignIs
<1>4. IsDigitText(d) /\ d # <<>> /\ d \in Seq(Char) /\ <<>> \o d = d
  BY <1>2, DigitsAreText, EmptyText DEF IsDigitText
<1>5. TryConvertStringToNumberValue(d) = <<n>>
  BY <1>1, <1>3, <1>4, NumberReadBack
<1>6. t = d \o (RankTypes[v.type] \o RatingTypes[v.rating])
  <2>1. RankTypes[v.type] \in Seq(Char) /\ RatingTypes[v.rating] \in Seq(Char)
    BY <1>1, RankWordsAre
  <2>2. t = (d \o RankTypes[v.type]) \o RatingTypes[v.rating]
    BY <1>3, <1>4 DEF RankToText
  <2> HIDE DEF d, t
  <2>3. (d \o RankTypes[v.type]) \o RatingTypes[v.rating] = d \o (RankTypes[v.type] \o RatingTypes[v.rating])
    BY ONLY <1>4, <2>1, CharConcat
  <2> QED BY ONLY <2>2, <2>3
<1> HIDE DEF d, t, n
<1>7. /\ LeadingDigits(t) = d
      /\ \A k \in KindsOfRank, r \in KindsOfRating : IsRankText(t, k, r) <=> k = v.type /\ r = v.rating
  BY ONLY <1>1, <1>4, <1>6, RankTextIs
<1>8. ~IsUnconvertibleRank(t)
  <2>1. \A a : <<a>> # <<>>
    OBVIOUS
  <2> QED BY <1>5, <1>7, <2>1 DEF IsUnconvertibleRank
<1>9. \A parts \in found : parts = <<v.type, v.rating>>
  BY <1>7, RankWordsAre DEF RankParts
<1>10. <<v.type, v.rating>> \in found
  BY <1>1, <1>7, RankWordsAre DEF RankParts
<1>11. found # {} /\ (CHOOSE parts \in found : TRUE) = <<v.type, v.rating>>
  <2> HIDE DEF found
  <2>1. found # {}
    BY <1>10
  <2>2. (CHOOSE parts \in found : TRUE) \in found
    BY <2>1
  <2> QED BY <1>9, <2>1, <2>2
<1>12. RankFromText(t) = <<[rank |-> n, type |-> v.type, rating |-> v.rating]>>
  <2>1. TryConvertStringToNumberValue(LeadingDigits(t))[1] = n
    BY <1>5, <1>7
  <2> DEFINE p == CHOOSE parts \in RankParts(t) : TRUE
  <2>2. RankFromText(t) = <<[rank |-> TryConvertStringToNumberValue(LeadingDigits(t))[1], type |-> p[1], rating |-> p[2]]>>
    BY <1>11, Zenon DEF RankFromText
  <2>3. p = <<v.type, v.rating>>
    BY <1>11
  <2> HIDE DEF p
  <2> QED BY <2>1, <2>2, <2>3
<1> QED BY <1>1, <1>8, <1>12 DEF t

-----------------------------------------------------------------------------
(* Rounds: the last opening is the one before the round's type.            *)

RoundValues == [number : Seq(Char), type : Seq(Char)]

LEMMA SameText ==
  ASSUME NEW a \in Seq(Char), NEW b \in Seq(Char), Len(a) = Len(b), \A i \in 1..Len(a) : a[i] = b[i]
  PROVE  a = b
OBVIOUS

(* Three facts about the concatenation of two texts.                       *)
Joined(u, a, b) ==
  /\ u \in Seq(Char) /\ Len(u) = Len(a) + Len(b)
  /\ \A i \in 1..Len(a) : u[i] = a[i]
  /\ \A i \in 1..Len(b) : u[Len(a) + i] = b[i]

LEMMA JoinedTexts == ASSUME NEW a \in Seq(Char), NEW b \in Seq(Char) PROVE Joined(a \o b, a, b)
<1>1. a \in Seq(Char) /\ b \in Seq(Char)
  OBVIOUS
<1>2. /\ a \o b \in Seq(Char) /\ Len(a \o b) = Len(a) + Len(b)
      /\ \A i \in 1..Len(a) : (a \o b)[i] = a[i]
      /\ \A i \in 1..Len(b) : (a \o b)[Len(a) + i] = b[i]
  BY ONLY <1>1, ConcatFacts
<1> QED BY ONLY <1>2 DEF Joined

LEMMA RoundTokens ==
  /\ Blank \in Char /\ OpenParenthesis \in Char /\ CloseParenthesis \in Char
  /\ Blank # OpenParenthesis /\ OpenParenthesis # CloseParenthesis
  /\ NewLine # Blank /\ NewLine # OpenParenthesis /\ NewLine # CloseParenthesis
BY DEF Char, Blank, OpenParenthesis, CloseParenthesis, NewLine

(* The text of a round, character by character.                            *)
LEMMA RoundTextIs ==
  ASSUME NEW v \in RoundValues
  PROVE  LET t == RoundToText(v)
             n == Len(v.number)
             m == Len(v.type)
         IN  /\ n \in Nat /\ m \in Nat /\ t \in Seq(Char) /\ Len(t) = n + m + 3
             /\ \A i \in 1..n : t[i] = v.number[i]
             /\ t[n + 1] = Blank /\ t[n + 2] = OpenParenthesis
             /\ \A i \in 1..m : t[n + 2 + i] = v.type[i]
             /\ t[n + m + 3] = CloseParenthesis
<1> DEFINE n == Len(v.number)
           m == Len(v.type)
           a == v.number
           o == <<Blank, OpenParenthesis>>
           b == v.type
           e == <<CloseParenthesis>>
<1>1. a \in Seq(Char) /\ b \in Seq(Char) /\ n \in Nat /\ m \in Nat
  BY DEF RoundValues
<1>2. o \in Seq(Char) /\ Len(o) = 2 /\ o[1] = Blank /\ o[2] = OpenParenthesis /\ e \in Seq(Char) /\ Len(e) = 1 /\ e[1] = CloseParenthesis
  <2>1. Blank \in Char /\ OpenParenthesis \in Char /\ CloseParenthesis \in Char
    BY RoundTokens
  <2> QED BY <2>1
<1>3. RoundToText(v) = ((a \o o) \o b) \o e
  BY DEF RoundToText
<1> DEFINE ao == a \o o
           aob == ao \o b
           t == aob \o e
<1> HIDE DEF a, o, b, e
<1>4. Joined(ao, a, o)
  BY <1>1, <1>2, JoinedTexts
<1> HIDE DEF ao
<1>5. Joined(aob, ao, b)
  <2>1. ao \in Seq(Char)
    BY <1>4 DEF Joined
  <2> QED BY <1>1, <2>1, JoinedTexts
<1> HIDE DEF aob
<1>6. Joined(t, aob, e) /\ t \in Seq(Char)
  <2>1. aob \in Seq(Char)
    BY <1>5 DEF Joined
  <2>2. Joined(t, aob, e)
    BY <1>2, <2>1, JoinedTexts
  <2> QED BY <2>2 DEF Joined
<1> HIDE DEF t
<1>7. Len(a) = n /\ Len(b) = m /\ Len(o) = 2 /\ Len(e) = 1 /\ Len(ao) = n + 2 /\ Len(aob) = n + m + 2 /\ Len(t) = n + m + 3
  <2>1. Len(a) = n /\ Len(b) = m
    BY DEF a, b
  <2> HIDE DEF n, m
  <2> QED BY <1>1, <1>2, <1>4, <1>5, <1>6, <2>1 DEF Joined
<1> HIDE DEF n, m
<1>8. \A i \in 1..n : t[i] = a[i]
  BY <1>1, <1>4, <1>5, <1>6, <1>7 DEF Joined
<1>9. t[n + 1] = Blank /\ t[n + 2] = OpenParenthesis
  <2>1. n + 1 \in 1..(n + 2) /\ n + 2 \in 1..(n + 2) /\ n + 1 \in 1..(n + m + 2) /\ n + 2 \in 1..(n + m + 2)
        /\ 1 \in 1..2 /\ 2 \in 1..2
    BY <1>1
  <2>2. ao[n + 1] = o[1] /\ ao[n + 2] = o[2]
    BY ONLY <1>4, <1>7, <2>1 DEF Joined
  <2>3. t[n + 1] = ao[n + 1] /\ t[n + 2] = ao[n + 2]
    BY ONLY <1>5, <1>6, <1>7, <2>1 DEF Joined
  <2> QED BY ONLY <1>2, <2>2, <2>3
<1>10. \A i \in 1..m : t[n + 2 + i] = b[i]
  <2> TAKE i \in 1..m
  <2>1. n + 2 + i \in 1..(n + m + 2)
    BY <1>1
  <2> QED BY ONLY <1>5, <1>6, <1>7, <2>1, i \in 1..m DEF Joined
<1>11. t[n + m + 3] = CloseParenthesis
  <2>1. 1 \in 1..1 /\ (n + m + 2) + 1 = n + m + 3
    BY <1>1
  <2> QED BY ONLY <1>2, <1>6, <1>7, <2>1 DEF Joined
<1> QED BY <1>1, <1>3, <1>6, <1>7, <1>8, <1>9, <1>10, <1>11 DEF t, aob, ao, a, o, b, e, n, m

(* The m characters behind the first k.                                    *)
LEMMA MiddleFacts ==
  ASSUME NEW t \in Seq(Char), NEW k \in Nat, NEW m \in Nat, k + m <= Len(t)
  PROVE  LET q == SubSeq(t, k + 1, k + m)
         IN  q \in Seq(Char) /\ Len(q) = m /\ \A i \in 1..m : q[i] = t[k + i]
OBVIOUS

LEMMA RoundReadBack ==
  ASSUME NEW v \in RoundValues, ~HasNoText("RO", v)
  PROVE  RoundFromText(RoundToText(v)) = <<v>>
<1> DEFINE t == RoundToText(v)
           n == Len(v.number)
           m == Len(v.type)
<1>1. /\ n \in Nat /\ m \in Nat /\ t \in Seq(Char) /\ Len(t) = n + m + 3
      /\ \A i \in 1..n : t[i] = v.number[i]
      /\ t[n + 1] = Blank /\ t[n + 2] = OpenParenthesis
      /\ \A i \in 1..m : t[n + 2 + i] = v.type[i]
      /\ t[n + m + 3] = CloseParenthesis
  BY RoundTextIs
<1>2. /\ v.number \in Seq(Char) /\ v.type \in Seq(Char) /\ DOMAIN v.number = 1..n /\ DOMAIN v.type = 1..m
      /\ v = [number |-> v.number, type |-> v.type]
  BY DEF RoundValues
<1>3. Openings(v.type) = {} /\ ~HasNewLine(v.number \o v.type)
  BY DEF HasNoText
<1> HIDE DEF t
<1>4. /\ \A i \in 1..n : v.number[i] # NewLine
      /\ \A i \in 1..m : v.type[i] # NewLine
  <2> DEFINE q == v.number \o v.type
  <2>1. /\ DOMAIN q = 1..(n + m) /\ \A i \in 1..n : q[i] = v.number[i]
        /\ \A i \in 1..m : q[n + i] = v.type[i]
    BY ONLY <1>2, ConcatFacts DEF n, m
  <2> HIDE DEF q
  <2>2. NewLine \notin {q[i] : i \in DOMAIN q}
    BY <1>3 DEF HasNewLine, Range, q
  <2> HIDE DEF n, m
  <2>3. ASSUME NEW i \in 1..n PROVE v.number[i] # NewLine
    <3>1. i \in 1..(n + m)
      BY <1>1
    <3> QED BY <2>1, <2>2, <3>1
  <2>4. ASSUME NEW i \in 1..m PROVE v.type[i] # NewLine
    <3>1. n + i \in 1..(n + m)
      BY <1>1
    <3> QED BY <2>1, <2>2, <3>1
  <2> QED BY <2>3, <2>4
<1> HIDE DEF n, m
<1>5. DOMAIN t = 1..(n + m + 3)
  BY <1>1
<1>6. ~HasNewLine(t)
  <2>1. ASSUME NEW i \in 1..(n + m + 3) PROVE t[i] # NewLine
    <3>1. CASE i \in 1..n
      BY <1>1, <1>4, <3>1
    <3>2. CASE i = n + 1 \/ i = n + 2 \/ i = n + m + 3
      BY <1>1, <3>2, RoundTokens
    <3>3. CASE i \in (n + 3)..(n + m + 2)
      <4>1. i - n - 2 \in 1..m /\ n + 2 + (i - n - 2) = i
        BY <1>1, <3>3
      <4> QED BY <1>1, <1>4, <4>1
    <3>4. i \in 1..n \/ i = n + 1 \/ i = n + 2 \/ i = n + m + 3 \/ i \in (n + 3)..(n + m + 2)
      BY <1>1
    <3> QED BY <3>1, <3>2, <3>3, <3>4
  <2> QED BY <1>5, <2>1 DEF HasNewLine, Range
<1>7. n + 1 \in Openings(t)
  <2>1. n + 1 \in 1..(Len(t) - 1) /\ (n + 1) + 1 = n + 2
    BY <1>1
  <2> QED BY <1>1, <2>1 DEF Openings
<1>8. ASSUME NEW i \in Openings(t) PROVE i <= n + 1
  <2>1. i \in 1..(Len(t) - 1) /\ t[i] = Blank /\ t[i + 1] = OpenParenthesis
    BY DEF Openings
  <2> SUFFICES ASSUME ~(i <= n + 1) PROVE FALSE
    OBVIOUS
  <2>2. i # n + 2
    BY <1>1, <2>1, RoundTokens
  <2>3. i + 1 # n + m + 3
    BY <1>1, <2>1, RoundTokens
  <2>4. i - n - 2 \in 1..(m - 1) /\ i - n - 2 \in 1..m /\ i - n - 1 \in 1..m
        /\ n + 2 + (i - n - 2) = i /\ n + 2 + (i - n - 1) = i + 1 /\ (i - n - 2) + 1 = i - n - 1
    BY <1>1, <2>1, <2>2, <2>3
  <2>5. v.type[i - n - 2] = Blank /\ v.type[(i - n - 2) + 1] = OpenParenthesis
    BY <1>1, <2>1, <2>4
  <2>6. i - n - 2 \in Openings(v.type)
    BY <2>4, <2>5 DEF Openings, m
  <2> QED BY <1>3, <2>6
<1>9. Max(Openings(t)) = n + 1
  <2>1. Openings(t) \in SUBSET Int
    BY <1>1 DEF Openings
  <2> QED BY <1>7, <1>8, <2>1, MaxIs
<1>10. Last(t) = CloseParenthesis
  BY <1>1 DEF Last
<1>11. RoundFromText(t) = SplitAt(t, n + 1)
  BY <1>6, <1>7, <1>9, <1>10 DEF RoundFromText, IsRoundText
<1>12. SubSeq(t, 1, (n + 1) - 1) = v.number
  <2>1. n \in 0..Len(t) /\ (n + 1) - 1 = n
    BY <1>1
  <2> DEFINE q == SubSeq(t, 1, n)
  <2>2. q \in Seq(Char) /\ Len(q) = n /\ \A i \in 1..n : q[i] = t[i]
    BY <1>1, <2>1, SplitFacts
  <2> HIDE DEF q
  <2>3. Len(v.number) = n
    BY DEF n
  <2>4. q = v.number
    BY <1>1, <1>2, <2>2, <2>3, SameText
  <2> QED BY <2>1, <2>4 DEF q
<1>13. SubSeq(t, (n + 1) + 2, Len(t) - 1) = v.type
  <2>1. (n + 1) + 2 = n + 3 /\ Len(t) - 1 = n + m + 2
    BY <1>1
  <2> DEFINE q == SubSeq(t, n + 3, n + m + 2)
  <2>2. q \in Seq(Char) /\ Len(q) = m /\ \A i \in 1..m : q[i] = t[n + 2 + i]
    <3>1. /\ t \in Seq(Char) /\ n + 2 \in Nat /\ m \in Nat /\ (n + 2) + m <= Len(t)
          /\ (n + 2) + 1 = n + 3 /\ (n + 2) + m = n + m + 2
      BY <1>1
    <3> DEFINE r == SubSeq(t, (n + 2) + 1, (n + 2) + m)
    <3>2. r \in Seq(Char) /\ Len(r) = m /\ \A i \in 1..m : r[i] = t[(n + 2) + i]
      BY ONLY <3>1, MiddleFacts DEF r
    <3>3. r = q
      BY ONLY <3>1 DEF r, q
    <3> HIDE DEF r, q
    <3> QED BY ONLY <3>2, <3>3
  <2> HIDE DEF q
  <2>3. Len(v.type) = m
    BY DEF m
  <2>4. \A i \in 1..m : q[i] = v.type[i]
    <3> TAKE i \in 1..m
    <3>1. q[i] = t[n + 2 + i] /\ t[n + 2 + i] = v.type[i]
      BY <1>1, <2>2
    <3> QED BY ONLY <3>1
  <2>5. q = v.type
    <3>1. q \in Seq(Char) /\ v.type \in Seq(Char) /\ Len(q) = Len(v.type) /\ \A i \in 1..Len(q) : q[i] = v.type[i]
      BY <1>2, <2>2, <2>3, <2>4
    <3> QED BY ONLY <3>1, SameText
  <2> QED BY <2>1, <2>5 DEF q
<1> QED BY <1>2, <1>11, <1>12, <1>13 DEF SplitAt, t

-----------------------------------------------------------------------------
(* Rulesets: a text stands for one ruleset or none.                        *)

KindsOfRuleset == {"AGA", "Ing", "Japanese", "NZ"}

LEMMA RulesetsAre ==
  /\ DOMAIN Rulesets = KindsOfRuleset
  /\ \A k, l \in KindsOfRuleset : Rulesets[k] = Rulesets[l] => k = l
<1>1. DOMAIN Rulesets = KindsOfRuleset
  BY DEF Rulesets, KindsOfRuleset
<1>2. /\ Rulesets["AGA"] = <<"AGA">> /\ Rulesets["Ing"] = <<"GOE">>
      /\ Rulesets["Japanese"] = <<"Japanese">> /\ Rulesets["NZ"] = <<"NZ">>
  BY DEF Rulesets
<1>3. \A c, d : <<c>> = <<d>> => c = d
  OBVIOUS
<1>4. \A k, l \in KindsOfRuleset : Rulesets[k] = Rulesets[l] => k = l
  BY ONLY <1>2, <1>3 DEF KindsOfRuleset
<1> QED BY <1>1, <1>4

LEMMA NoElements == SetToSeq({}) = <<>>
<1>1. Cardinality({}) = 0
  BY FS_EmptySet
<1>2. \A f \in [1..0 -> {}] : f = <<>>
  OBVIOUS
<1>3. <<>> \in [1..0 -> {}] /\ IsInjective(<<>>)
  BY DEF IsInjective
<1> DEFINE f == CHOOSE g \in [1..0 -> {}] : IsInjective(g)
<1>4. f \in [1..0 -> {}]
  BY <1>3
<1>5. SetToSeq({}) = f
  BY <1>1 DEF SetToSeq
<1> HIDE DEF f
<1> QED BY <1>2, <1>4, <1>5

LEMMA OnlyElement == ASSUME NEW e PROVE SetToSeq({e}) = <<e>>
<1>1. Cardinality({e}) = 1
  BY FS_Singleton
<1>2. \A f \in [1..1 -> {e}] : f = <<e>>
  OBVIOUS
<1>3. <<e>> \in [1..1 -> {e}] /\ IsInjective(<<e>>)
  BY DEF IsInjective
<1> DEFINE f == CHOOSE g \in [1..1 -> {e}] : IsInjective(g)
<1>4. f \in [1..1 -> {e}]
  BY <1>3
<1>5. SetToSeq({e}) = f
  BY <1>1 DEF SetToSeq
<1> HIDE DEF f
<1> QED BY <1>2, <1>4, <1>5

LEMMA RulesetRead ==
  ASSUME NEW t
  PROVE  /\ \A k \in KindsOfRuleset : Rulesets[k] = t => RulesetFromText(t) = <<k>>
         /\ (\A k \in KindsOfRuleset : Rulesets[k] # t) => RulesetFromText(t) = <<>>
<1> DEFINE S == {ruleset \in DOMAIN Rulesets : Rulesets[ruleset] = t}
<1>1. ASSUME NEW k \in KindsOfRuleset, Rulesets[k] = t PROVE RulesetFromText(t) = <<k>>
  <2>1. S = {k}
    BY <1>1, RulesetsAre
  <2> QED BY <2>1, OnlyElement DEF RulesetFromText
<1>2. ASSUME \A k \in KindsOfRuleset : Rulesets[k] # t PROVE RulesetFromText(t) = <<>>
  <2>1. S = {}
    BY <1>2, RulesetsAre
  <2> QED BY <2>1, NoElements DEF RulesetFromText
<1> QED BY <1>1, <1>2

-----------------------------------------------------------------------------
(* Values of each kind.                                                    *)

IsGameValue(kind, value) ==
  \/ kind = "RE" /\ value \in GameResults
  \/ kind = "BR" /\ value \in RankValues
  \/ kind = "RO" /\ value \in RoundValues
  \/ kind = "RU" /\ value \in KindsOfRuleset

KindsOfText == {"RE", "BR", "RO", "RU"}

LEMMA GameValueReadBack ==
  ASSUME NEW kind, NEW v, IsGameValue(kind, v), ~HasNoText(kind, v)
  PROVE  LET t == TextOf(kind, v)
         IN  ~IsUnconvertible(kind, t) /\ DecomposedValue(kind, t) = <<Effective(kind, v)>>
<1> DEFINE t == TextOf(kind, v)
<1>1. CASE kind = "RE" /\ v \in GameResults
  <2>1. t = ResultToText(v)
    BY <1>1 DEF TextOf
  <2>2. ~IsUnconvertibleResult(t) /\ ResultFromText(t) = <<Effective("RE", v)>>
    BY <1>1, <2>1, ResultReadBack
  <2> HIDE DEF t
  <2> QED BY <1>1, <2>2 DEF IsUnconvertible, DecomposedValue, t
<1>2. CASE kind = "BR" /\ v \in RankValues
  <2>1. t = RankToText(v)
    BY <1>2 DEF TextOf
  <2>2. ~IsUnconvertibleRank(t) /\ RankFromText(t) = <<v>>
    BY <1>2, <2>1, RankReadBack
  <2>3. Effective(kind, v) = v
    BY <1>2 DEF Effective
  <2> HIDE DEF t
  <2> QED BY <1>2, <2>2, <2>3 DEF IsUnconvertible, DecomposedValue, t
<1>3. CASE kind = "RO" /\ v \in RoundValues
  <2>1. t = RoundToText(v)
    BY <1>3 DEF TextOf
  <2>2. RoundFromText(t) = <<v>>
    BY <1>3, <2>1, RoundReadBack
  <2>3. Effective(kind, v) = v
    BY <1>3 DEF Effective
  <2> HIDE DEF t
  <2> QED BY <1>3, <2>2, <2>3 DEF IsUnconvertible, DecomposedValue, t
<1>4. CASE kind = "RU" /\ v \in KindsOfRuleset
  <2>1. t = Rulesets[v]
    BY <1>4 DEF TextOf
  <2>2. RulesetFromText(t) = <<v>>
    BY <1>4, <2>1, RulesetRead
  <2>3. Effective(kind, v) = v
    BY <1>4 DEF Effective
  <2> HIDE DEF t
  <2> QED BY <1>4, <2>2, <2>3 DEF IsUnconvertible, DecomposedValue, t
<1> QED BY <1>1, <1>2, <1>3, <1>4 DEF IsGameValue

-----------------------------------------------------------------------------
(* What is read from a text is a value of its kind.                        *)

LEMMA TailIsText ==
  ASSUME NEW t \in Seq(Char), t # <<>>
  PROVE  Tail(t) \in Seq(Char) /\ Len(Tail(t)) = Len(t) - 1 /\ \A i \in 1..(Len(t) - 1) : Tail(t)[i] = t[i + 1]
OBVIOUS

LEMMA UnsignedIsText == ASSUME NEW t \in Seq(Char) PROVE Unsigned(t) \in Seq(Char) /\ WithoutPlus(t) \in Seq(Char)
BY TailIsText DEF Unsigned, WithoutPlus, Begins

(* Two decimals at most, filled with zeros.                                *)
LEMMA PaddedIsDigits ==
  ASSUME NEW p, IsDigitText(p)
  PROVE  IsDigitText(SubSeq(p \o <<"0", "0">>, 1, 2))
<1> DEFINE z == <<"0", "0">>
           q == p \o z
<1>1. IsDigitCharacter("0") /\ "0" \in Char
  BY ZeroIsDigit, DigitIsChar
<1>2. z \in Seq(Char) /\ Len(z) = 2 /\ z[1] = "0" /\ z[2] = "0"
  BY <1>1
<1> HIDE DEF z
<1>3. p \in Seq(Char) /\ Len(p) \in Nat /\ \A i \in 1..Len(p) : IsDigitCharacter(p[i])
  BY DEF IsDigitText
<1>4. Joined(q, p, z)
  BY <1>2, <1>3, JoinedTexts
<1> HIDE DEF q
<1>5. q \in Seq(Char) /\ Len(q) = Len(p) + 2
  BY <1>2, <1>4 DEF Joined
<1>6. ASSUME NEW i \in 1..Len(q) PROVE IsDigitCharacter(q[i])
  <2>1. CASE i \in 1..Len(p)
    BY <1>3, <1>4, <2>1 DEF Joined
  <2>2. CASE i \notin 1..Len(p)
    <3>1. i - Len(p) \in {1, 2} /\ Len(p) + (i - Len(p)) = i /\ i - Len(p) \in 1..Len(z)
      BY <1>2, <1>3, <1>5, <2>2
    <3>2. q[i] = z[i - Len(p)]
      BY <1>4, <3>1 DEF Joined
    <3> QED BY <1>1, <1>2, <3>1, <3>2
  <2> QED BY <2>1, <2>2
<1> DEFINE s == SubSeq(q, 1, 2)
<1>7. 2 \in 0..Len(q) /\ Len(q) \in Nat
  BY <1>3, <1>5
<1>8. s \in Seq(Char) /\ Len(s) = 2 /\ \A i \in 1..2 : s[i] = q[i]
  BY ONLY <1>5, <1>7, SplitFacts DEF s
<1> HIDE DEF s
<1>9. IsDigitText(s)
  <2>1. 1..2 \subseteq 1..Len(q)
    BY <1>3, <1>5
  <2> QED BY <1>6, <1>8, <2>1 DEF IsDigitText
<1> QED BY <1>9 DEF s, q, z

LEMMA DigitsTogether ==
  ASSUME NEW a, IsDigitText(a), NEW b, IsDigitText(b)
  PROVE  IsDigitText(a \o b)
<1>1. a \in Seq(Char) /\ b \in Seq(Char) /\ Len(a) \in Nat /\ Len(b) \in Nat
      /\ (\A i \in 1..Len(a) : IsDigitCharacter(a[i])) /\ (\A i \in 1..Len(b) : IsDigitCharacter(b[i]))
  BY DEF IsDigitText
<1> DEFINE u == a \o b
<1>2. Joined(u, a, b)
  BY <1>1, JoinedTexts
<1> HIDE DEF u
<1>3. u \in Seq(Char) /\ Len(u) = Len(a) + Len(b)
  BY <1>2 DEF Joined
<1>4. ASSUME NEW i \in 1..Len(u) PROVE IsDigitCharacter(u[i])
  <2>1. CASE i \in 1..Len(a)
    BY <1>1, <1>2, <2>1 DEF Joined
  <2>2. CASE i \notin 1..Len(a)
    <3>1. i - Len(a) \in 1..Len(b) /\ Len(a) + (i - Len(a)) = i
      BY <1>1, <1>3, <2>2
    <3> QED BY <1>1, <1>2, <3>1 DEF Joined
  <2> QED BY <2>1, <2>2
<1> QED BY <1>3, <1>4 DEF IsDigitText, u

LEMMA LeadingAreDigits ==
  ASSUME NEW t \in Seq(Char)
  PROVE  /\ IsDigitText(LeadingDigits(t))
         /\ SubSeq(t, Len(LeadingDigits(t)) + 1, Len(t)) \in Seq(Char)
BY LeadingDigitsExist

LEMMA RealIsNumber ==
  ASSUME NEW t \in Seq(Char), TryConvertStringToRealValue(t) # <<>>
  PROVE  TryConvertStringToRealValue(t)[1] \in Int
<1> DEFINE real     == WithoutPlus(t)
           digits   == LeadingDigits(Unsigned(real))
           rest     == SubSeq(Unsigned(real), Len(digits) + 1, Len(Unsigned(real)))
           decimals == IF Begins(rest, {DecimalPoint(locale)}) THEN LeadingDigits(Tail(rest)) ELSE <<>>
           value    == ValueOfDigits(digits \o SubSeq(decimals \o <<"0", "0">>, 1, 2))
<1>1. TryConvertStringToRealValue(t) = <<Signed(real, value)>>
  BY DEF TryConvertStringToRealValue
<1>2. IsDigitText(digits) /\ rest \in Seq(Char)
  BY UnsignedIsText, LeadingAreDigits
<1> HIDE DEF digits, rest
<1>3. IsDigitText(decimals)
  <2>1. IsDigitText(<<>>)
    BY DEF IsDigitText
  <2>2. Begins(rest, {DecimalPoint(locale)}) => Tail(rest) \in Seq(Char)
    BY <1>2, TailIsText DEF Begins
  <2> QED BY <2>1, <2>2, LeadingAreDigits
<1> HIDE DEF decimals
<1>4. value \in Nat
  BY <1>2, <1>3, PaddedIsDigits, DigitsTogether, ValueIsNumber
<1> HIDE DEF value, real
<1> QED BY <1>1, <1>4 DEF Signed

LEMMA NumberIsInt ==
  ASSUME NEW t, TryConvertStringToNumberValue(t) # <<>>
  PROVE  TryConvertStringToNumberValue(t)[1] \in Ints
BY DEF TryConvertStringToNumberValue

LEMMA ResultIsTyped ==
  ASSUME NEW t \in Seq(Char), ~IsUnconvertibleResult(t), ResultFromText(t) # <<>>
  PROVE  \E v \in GameResults : ResultFromText(t) = <<v>>
<1>1. ASSUME NEW k \in ResultTypes, NEW w \in WinTypes, NEW n \in Int PROVE GameResult(k, w, n) \in GameResults
  BY DEF GameResults, GameResult
<1>2. {"BlackWin", "WhiteWin", "Draw", "NoResult", "UnknownResult"} \subseteq ResultTypes
      /\ {"WinWithScore", "WinWithoutScore", "WinByResignation", "WinOnTime", "WinByForfeit"} \subseteq WinTypes
      /\ 0 \in Int
  BY DEF ResultTypes, WinTypes
<1> DEFINE winner == IF Head(t) = "B+" THEN "BlackWin" ELSE "WhiteWin"
           score  == TryConvertStringToRealValue(Tail(t))[1]
<1>3. \/ ResultFromText(t) = <<GameResult("Draw", "WinWithScore", 0)>>
      \/ ResultFromText(t) = <<GameResult("NoResult", "WinWithScore", 0)>>
      \/ ResultFromText(t) = <<GameResult("UnknownResult", "WinWithScore", 0)>>
      \/ \E w \in WinTypes : ResultFromText(t) = <<GameResult(winner, w, 0)>>
      \/ /\ IsWinText(t) /\ Tail(t) # <<>> /\ IsScoreText(Tail(t))
         /\ ResultFromText(t) = <<GameResult(winner, "WinWithScore", score)>>
  <2> DEFINE x == Tail(t)
             Won(w) == <<GameResult(winner, w, 0)>>
  <2>1. CASE IsWinText(t)
    <3>1. t \notin {<<"0">>, <<"Draw">>} /\ t # <<"Void">> /\ t # <<"?">>
      <4>1. Head(t) \in {"B+", "W+"}
        BY <2>1 DEF IsWinText, Begins
      <4>2. \A c \in {"0", "Draw", "Void", "?"} : Head(<<c>>) = c
        OBVIOUS
      <4> QED BY <4>1, <4>2
    <3>2. /\ \A c \in {"R", "Resign", "T", "Time", "F", "Forfeit"} : ~IsScoreText(<<c>>) /\ <<c>> # <<>>
          /\ \A c \in {"T", "Time", "F", "Forfeit"} : <<c>> \notin {<<"R">>, <<"Resign">>}
          /\ \A c \in {"R", "Resign", "F", "Forfeit"} : <<c>> \notin {<<"T">>, <<"Time">>}
          /\ \A c \in {"R", "Resign", "T", "Time"} : <<c>> \notin {<<"F">>, <<"Forfeit">>}
      BY ScoreWordsAre
    <3>3. x = <<>> => ResultFromText(t) = Won("WinWithoutScore")
      BY ONLY <2>1, <3>1, <3>2 DEF ResultFromText, winner, x, Won
    <3>4. x \in {<<"R">>, <<"Resign">>} => ResultFromText(t) = Won("WinByResignation")
      BY ONLY <2>1, <3>1, <3>2 DEF ResultFromText, winner, x, Won
    <3>5. x \in {<<"T">>, <<"Time">>} => ResultFromText(t) = Won("WinOnTime")
      BY ONLY <2>1, <3>1, <3>2 DEF ResultFromText, winner, x, Won
    <3>6. x \in {<<"F">>, <<"Forfeit">>} => ResultFromText(t) = Won("WinByForfeit")
      BY ONLY <2>1, <3>1, <3>2 DEF ResultFromText, winner, x, Won
    <3>7. x # <<>> /\ x \notin ScoreWords /\ IsScoreText(x) =>
            ResultFromText(t) = <<GameResult(winner, "WinWithScore", score)>>
      BY ONLY <2>1, <3>1, <3>2 DEF ResultFromText, winner, score, x, ScoreWords
    <3>8. x # <<>> /\ x \notin ScoreWords /\ ~IsScoreText(x) => ResultFromText(t) = <<>>
      BY ONLY <2>1, <3>1, <3>2 DEF ResultFromText, x, ScoreWords
    <3>9. x \in ScoreWords <=> x \in {<<"R">>, <<"Resign">>} \/ x \in {<<"T">>, <<"Time">>} \/ x \in {<<"F">>, <<"Forfeit">>}
      BY DEF ScoreWords
    <3> HIDE DEF winner, score
    <3> QED BY <1>2, <2>1, <3>3, <3>4, <3>5, <3>6, <3>7, <3>8, <3>9
  <2>2. CASE ~IsWinText(t)
    <3>1. \/ ResultFromText(t) = <<GameResult("Draw", "WinWithScore", 0)>>
          \/ ResultFromText(t) = <<GameResult("NoResult", "WinWithScore", 0)>>
          \/ ResultFromText(t) = <<GameResult("UnknownResult", "WinWithScore", 0)>>
          \/ ResultFromText(t) = <<>>
      BY ONLY <2>2 DEF ResultFromText
    <3> QED BY <3>1
  <2> QED BY <2>1, <2>2
<1>4. ASSUME IsWinText(t), Tail(t) # <<>>, IsScoreText(Tail(t)) PROVE score \in Int
  <2>1. Tail(t) \in Seq(Char)
    BY <1>4, TailIsText DEF IsWinText, Begins
  <2>2. TryConvertStringToRealValue(Tail(t)) # <<>>
    BY <1>4 DEF IsUnconvertibleResult
  <2> QED BY <2>1, <2>2, RealIsNumber
<1>5. winner \in ResultTypes
  BY <1>2
<1> HIDE DEF winner, score
<1> QED BY <1>1, <1>2, <1>3, <1>4, <1>5

LEMMA RankIsTyped ==
  ASSUME NEW t, ~IsUnconvertibleRank(t), RankFromText(t) # <<>>
  PROVE  \E v \in RankValues : RankFromText(t) = <<v>>
<1> DEFINE p == CHOOSE parts \in RankParts(t) : TRUE
           n == TryConvertStringToNumberValue(LeadingDigits(t))[1]
<1>1. RankParts(t) # {}
  BY DEF RankFromText
<1>2. p \in RankParts(t)
  BY <1>1
<1>3. RankFromText(t) = <<[rank |-> n, type |-> p[1], rating |-> p[2]]>>
  BY <1>1, Zenon DEF RankFromText
<1> HIDE DEF p
<1>4. p[1] \in DOMAIN RankTypes /\ p[2] \in DOMAIN RatingTypes /\ IsRankText(t, p[1], p[2])
  BY <1>2 DEF RankParts
<1>5. TryConvertStringToNumberValue(LeadingDigits(t)) # <<>>
  BY <1>4 DEF IsUnconvertibleRank
<1>6. n \in Ints
  BY <1>5, NumberIsInt
<1> HIDE DEF n
<1>7. [rank |-> n, type |-> p[1], rating |-> p[2]] \in RankValues
  BY <1>4, <1>6 DEF RankValues
<1> QED BY <1>3, <1>7

LEMMA RoundIsTyped ==
  ASSUME NEW t \in Seq(Char), RoundFromText(t) # <<>>
  PROVE  \E v \in RoundValues : RoundFromText(t) = <<v>>
<1> DEFINE i == Max(Openings(t))
<1>1. Openings(t) # {} /\ RoundFromText(t) = SplitAt(t, i)
  BY DEF RoundFromText, IsRoundText
<1>2. i \in Openings(t)
  <2>1. Openings(t) \subseteq 1..(Len(t) - 1) /\ Len(t) \in Nat
    BY DEF Openings
  <2>2. IsFiniteSet(Openings(t))
    <3>1. IsFiniteSet(1..(Len(t) - 1))
      BY <2>1, FS_Interval
    <3> QED BY <2>1, <3>1, FS_Subset
  <2>3. PICK m \in Openings(t) : \A j \in Openings(t) : j <= m
    <3> DEFINE S == {(Len(t) - j) : j \in Openings(t)}
    <3>1. S \subseteq Nat /\ S # {}
      BY <1>1, <2>1
    <3>2. PICK k \in S : \A j \in S : k <= j
      BY <3>1, LeastNumber
    <3>3. PICK m \in Openings(t) : k = Len(t) - m
      BY <3>2
    <3>4. ASSUME NEW j \in Openings(t) PROVE j <= m
      <4>1. Len(t) - j \in S
        OBVIOUS
      <4> HIDE DEF S
      <4>2. Len(t) - m <= Len(t) - j
        BY <3>2, <3>3, <4>1
      <4> QED BY <2>1, <4>2
    <3> QED BY <3>4
  <2>4. Openings(t) \in SUBSET Int
    BY <2>1
  <2>5. Max(Openings(t)) = m
    BY <2>3, <2>4, MaxIs
  <2> QED BY <2>3, <2>5
<1>3. i \in 1..(Len(t) - 1) /\ Len(t) \in Nat
  BY <1>2 DEF Openings
<1> HIDE DEF i
<1>4. SubSeq(t, 1, i - 1) \in Seq(Char) /\ SubSeq(t, i + 2, Len(t) - 1) \in Seq(Char)
  BY <1>3
<1>5. [number |-> SubSeq(t, 1, i - 1), type |-> SubSeq(t, i + 2, Len(t) - 1)] \in RoundValues
  BY <1>4 DEF RoundValues
<1> QED BY <1>1, <1>5 DEF SplitAt

LEMMA RulesetIsTyped ==
  ASSUME NEW t, RulesetFromText(t) # <<>>
  PROVE  \E v \in KindsOfRuleset : RulesetFromText(t) = <<v>>
BY RulesetRead

LEMMA DecomposedIsTyped ==
  ASSUME NEW kind \in KindsOfText, NEW t \in Seq(Char), ~IsUnconvertible(kind, t), DecomposedValue(kind, t) # <<>>
  PROVE  \E v : IsGameValue(kind, v) /\ DecomposedValue(kind, t) = <<v>>
<1>1. CASE kind = "RE"
  <2>1. DecomposedValue(kind, t) = ResultFromText(t) /\ ~IsUnconvertibleResult(t)
    BY <1>1 DEF DecomposedValue, IsUnconvertible
  <2> QED BY <1>1, <2>1, ResultIsTyped DEF IsGameValue
<1>2. CASE kind = "BR"
  <2>1. DecomposedValue(kind, t) = RankFromText(t) /\ ~IsUnconvertibleRank(t)
    BY <1>2 DEF DecomposedValue, IsUnconvertible
  <2> QED BY <1>2, <2>1, RankIsTyped DEF IsGameValue
<1>3. CASE kind = "RO"
  <2>1. DecomposedValue(kind, t) = RoundFromText(t)
    BY <1>3 DEF DecomposedValue
  <2> QED BY <1>3, <2>1, RoundIsTyped DEF IsGameValue
<1>4. CASE kind = "RU"
  <2>1. DecomposedValue(kind, t) = RulesetFromText(t)
    BY <1>4 DEF DecomposedValue
  <2> QED BY <1>4, <2>1, RulesetIsTyped DEF IsGameValue
<1> QED BY <1>1, <1>2, <1>3, <1>4 DEF KindsOfText

-----------------------------------------------------------------------------
(* Texts that cannot be converted.                                         *)

HasNoValue(t) ==
  \/ \A i \in DOMAIN t : ~IsDigitCharacter(t[i])
  \/ ValueOfDigits(LeadingDigits(t)) > MaxNumber
  \/ DecimalPoint(locale) # "."

LEMMA RealHasDigit ==
  ASSUME NEW t \in Seq(Char), IsScoreText(t), TryConvertStringToRealValue(t) = <<>>, DecimalPoint(locale) = "."
  PROVE  \A i \in DOMAIN t : ~IsDigitCharacter(t[i])
<1> SUFFICES ASSUME NEW i \in DOMAIN t, IsDigitCharacter(t[i]) PROVE FALSE
  OBVIOUS
<1>1. i \in 1..Len(t) /\ Len(t) \in Nat /\ DOMAIN t = 1..Len(t) /\ 1 \in 1..Len(t) /\ t # <<>>
  OBVIOUS
<1>2. t[1] \notin {"+", "-"}
  BY <1>1, NotDigits DEF IsScoreText
<1>3. Unsigned(WithoutPlus(t)) = t
  <2>1. Head(t) = t[1]
    BY <1>1
  <2>2. ~Begins(t, {"+"}) /\ ~Begins(t, {"+", "-"})
    BY ONLY <1>2, <2>1 DEF Begins
  <2> QED BY ONLY <2>2 DEF Unsigned, WithoutPlus
<1>4. PICK d, rest : /\ IsDigitText(d) /\ rest \in Seq(Char) /\ t = d \o rest
                     /\ rest # <<>> => ~IsDigitCharacter(rest[1])
                     /\ LeadingDigits(t) = d /\ SubSeq(t, Len(d) + 1, Len(t)) = rest
  BY LeadingDigitsExist
<1> DEFINE decimals == IF Begins(rest, {"."}) THEN LeadingDigits(Tail(rest)) ELSE <<>>
<1>5. d = <<>> /\ decimals = <<>>
  <2>1. \A x : <<x>> # <<>>
    OBVIOUS
  <2>2. TryConvertStringToRealValue(t) =
          IF d = <<>> /\ decimals = <<>> THEN <<>>
          ELSE <<Signed(WithoutPlus(t), ValueOfDigits(d \o SubSeq(decimals \o <<"0", "0">>, 1, 2)))>>
    BY ONLY <1>3, <1>4, DecimalPoint(locale) = "." DEF TryConvertStringToRealValue, decimals
  <2> HIDE DEF decimals
  <2> QED BY ONLY <2>1, <2>2, TryConvertStringToRealValue(t) = <<>>
<1>6. rest = t
  BY <1>4, <1>5, EmptyText
<1>7. ~IsDigitCharacter(t[1]) /\ t[1] = "."
  BY <1>1, <1>4, <1>6 DEF IsScoreText
<1>8. i # 1 /\ i - 1 \in 1..(Len(t) - 1) /\ (i - 1) + 1 = i
  BY <1>1, <1>7
<1> DEFINE u == Tail(t)
<1>9. u \in Seq(Char) /\ Len(u) = Len(t) - 1 /\ \A j \in 1..(Len(t) - 1) : u[j] = t[j + 1]
  BY <1>1, TailIsText
<1>10. LeadingDigits(u) = <<>>
  BY <1>1, <1>5, <1>6, <1>7 DEF Begins
<1> HIDE DEF u
<1>11. PICK e, more : /\ IsDigitText(e) /\ more \in Seq(Char) /\ u = e \o more
                      /\ more # <<>> => ~IsDigitCharacter(more[1])
                      /\ LeadingDigits(u) = e
  BY <1>9, LeadingDigitsExist
<1>12. u = more
  BY <1>10, <1>11, EmptyText
<1>13. u # <<>> /\ 1 \in 1..(Len(t) - 1) /\ ~IsDigitCharacter(u[1])
  <2>1. Len(u) > 0 /\ 1 \in 1..(Len(t) - 1)
    BY <1>1, <1>8, <1>9
  <2>2. u # <<>>
    BY <2>1
  <2> QED BY <1>11, <1>12, <2>1, <2>2
<1>14. t[2] = u[1] /\ 2 \in DOMAIN t
  BY <1>1, <1>9, <1>13
<1>15. t[2] = "."
  BY <1>13, <1>14 DEF IsScoreText
<1> QED BY <1>1, <1>7, <1>14, <1>15 DEF IsScoreText

LEMMA UnconvertibleIs ==
  ASSUME NEW kind, NEW t \in Seq(Char), IsUnconvertible(kind, t)
  PROVE  HasNoValue(t)
<1>1. CASE IsUnconvertibleResult(t)
  <2>1. /\ IsWinText(t) /\ Tail(t) # <<>> /\ IsScoreText(Tail(t)) /\ TryConvertStringToRealValue(Tail(t)) = <<>>
    BY <1>1 DEF IsUnconvertibleResult
  <2>2. t # <<>> /\ t[1] \in {"B+", "W+"}
    BY <2>1 DEF IsWinText, Begins
  <2> DEFINE u == Tail(t)
  <2>3. u \in Seq(Char) /\ Len(u) = Len(t) - 1 /\ (\A j \in 1..(Len(t) - 1) : u[j] = t[j + 1]) /\ Len(t) \in Nat
    BY <2>2, TailIsText
  <2> HIDE DEF u
  <2>4. DecimalPoint(locale) = "." => \A i \in DOMAIN u : ~IsDigitCharacter(u[i])
    BY <2>1, <2>3, RealHasDigit DEF u
  <2>5. ASSUME DecimalPoint(locale) = ".", NEW i \in DOMAIN t PROVE ~IsDigitCharacter(t[i])
    <3>1. CASE i = 1
      BY <2>2, <3>1, NotDigits
    <3>2. CASE i # 1
      <4>1. i - 1 \in 1..(Len(t) - 1) /\ (i - 1) + 1 = i /\ i - 1 \in DOMAIN u
        BY <2>3, <3>2
      <4> QED BY <2>3, <2>4, <2>5, <4>1
    <3> QED BY <3>1, <3>2
  <2> QED BY <2>5 DEF HasNoValue
<1>2. CASE IsUnconvertibleRank(t)
  <2> DEFINE d == LeadingDigits(t)
  <2>1. d # <<>> /\ IsDigitText(d) /\ TryConvertStringToNumberValue(d) = <<>>
    BY <1>2, LeadingAreDigits DEF IsUnconvertibleRank, IsRankText
  <2> HIDE DEF d
  <2>2. <<>> \in Signs /\ <<>> \o d = d /\ WithSign(<<>>, ValueOfDigits(d)) = ValueOfDigits(d)
    <3>1. d \in Seq(Char)
      BY <2>1 DEF IsDigitText
    <3>2. <<>> # <<"-">>
      OBVIOUS
    <3> QED BY <3>1, <3>2, EmptyText DEF Signs, WithSign
  <2>3. TryConvertStringToNumberValue(<<>> \o d) =
          IF WithSign(<<>>, ValueOfDigits(d)) \in Ints THEN <<WithSign(<<>>, ValueOfDigits(d))>> ELSE <<>>
    BY ONLY <2>1, <2>2, ConvertedNumber
  <2>4. ValueOfDigits(d) \notin Ints
    <3>1. \A x : <<x>> # <<>>
      OBVIOUS
    <3> QED BY ONLY <2>1, <2>2, <2>3, <3>1
  <2>5. ValueOfDigits(d) > MaxNumber
    BY <2>1, <2>4, ValueIsNumber, IntsAre
  <2> QED BY <2>5 DEF HasNoValue, d
<1> QED BY <1>1, <1>2 DEF IsUnconvertible

-----------------------------------------------------------------------------
(* The texts of all values, of those without a text of the form too.       *)

LEMMA PowersArePositive == ASSUME NEW n \in Nat PROVE PowerOfTen(n) \in Nat \ {0}
<1> DEFINE Bad == {k \in Nat : PowerOfTen(k) = 0}
<1>1. PowerOfTen(0) = 1 /\ \A k \in Nat : PowerOfTen(k + 1) = 10 * PowerOfTen(k)
  BY PowerIs
<1>2. SUFFICES ASSUME Bad # {} PROVE FALSE
  BY PowersAreNumbers
<1>3. PICK k \in Bad : \A j \in Bad : k <= j
  <2>1. Bad \subseteq Nat
    OBVIOUS
  <2> QED BY <1>2, <2>1, LeastNumber
<1>4. k # 0 /\ k - 1 \in Nat /\ (k - 1) + 1 = k /\ ~(k <= k - 1)
  BY <1>1, <1>3
<1>5. PowerOfTen(k) = 10 * PowerOfTen(k - 1)
  BY <1>1, <1>4
<1>6. PowerOfTen(k) = 0 /\ PowerOfTen(k - 1) # 0 /\ PowerOfTen(k - 1) \in Nat
  BY <1>3, <1>4, PowersAreNumbers
<1> QED BY <1>5, <1>6

LEMMA Quotient == ASSUME NEW a \in Nat, NEW b \in Nat \ {0} PROVE a \div b \in Nat
OBVIOUS

LEMMA RoundedIsNumber == ASSUME NEW n \in Nat PROVE Rounded(n) \in Nat
<1> DEFINE excess == Len(DigitsOf(n)) - RealPrecision
           unit   == IF excess > 0 THEN PowerOfTen(excess) ELSE 1
           half   == unit \div 2
           q      == (n + half) \div unit
<1>1. excess \in Int
  <2>1. Len(DigitsOf(n)) \in Nat
    BY DigitsAreText DEF IsDigitText
  <2> QED BY <2>1, TypedValuesAssumption
<1> HIDE DEF excess
<1>2. unit \in Nat \ {0}
  <2>1. CASE excess > 0
    <3>1. excess \in Nat
      BY <1>1, <2>1
    <3> QED BY <2>1, <3>1, PowersArePositive
  <2> QED BY <2>1
<1> HIDE DEF unit
<1>3. half \in Nat
  BY <1>2, Quotient
<1> HIDE DEF half
<1>4. n + half \in Nat
  BY <1>3
<1>5. q \in Nat
  BY <1>2, <1>4, Quotient
<1> HIDE DEF q
<1>6. q * unit \in Nat
  BY <1>2, <1>5
<1> QED BY <1>6 DEF Rounded, q, half, unit, excess

LEMMA ConcatIsText == ASSUME NEW a \in Seq(Char), NEW b \in Seq(Char) PROVE a \o b \in Seq(Char)
BY JoinedTexts DEF Joined

LEMMA RealTextIsText == ASSUME NEW real \in Int PROVE CreateRealPropertyValue(real) \in Seq(Char)
<1> DEFINE r == Rounded(Abs(real))
           w == DigitsOf(r \div 100)
           c == r % 100
           s == Sign(real)
           q == DecimalsText(c)
           h == Head(w)
           x == DigitsOf(Len(w) - 1)
<1>1. r \in Nat /\ s \in Seq(Char)
  BY SignIs, SignsDiffer, RoundedIsNumber
<1> HIDE DEF r, s
<1>2. IsDigitText(w) /\ w # <<>> /\ w \in Seq(Char) /\ c \in 0..99
  BY <1>1, HundredsOf, DigitsAreText DEF IsDigitText
<1>3. /\ Len(w) > RealPrecision => CreateRealPropertyValue(real) = (s \o <<h, "e">>) \o x
      /\ ~(Len(w) > RealPrecision) /\ c = 0 => CreateRealPropertyValue(real) = s \o w
      /\ ~(Len(w) > RealPrecision) /\ c # 0 => CreateRealPropertyValue(real) = ((s \o w) \o <<".">>) \o q
  <2>1. Len(w) \in Nat /\ RealPrecision \in Nat
    BY <1>2, TypedValuesAssumption
  <2>2. Len(w) > RealPrecision \/ Len(w) <= RealPrecision
    BY ONLY <2>1
  <2>3. ~(Len(w) > RealPrecision /\ Len(w) <= RealPrecision)
    BY ONLY <2>1
  <2> QED BY ONLY <2>2, <2>3 DEF CreateRealPropertyValue, DecimalsText, r, s, w, c, q, h, x
<1> HIDE DEF w
<1>4. <<".">> \in Seq(Char) /\ <<h, "e">> \in Seq(Char) /\ Len(w) - 1 \in Nat
  <2>1. "." \in Char /\ "e" \in Char
    BY DEF Char
  <2>2. h \in Char /\ Len(w) - 1 \in Nat
    BY <1>2
  <2> HIDE DEF h, Char
  <2> QED BY <2>1, <2>2
<1>5. x \in Seq(Char)
  BY <1>4, DigitsAreText DEF IsDigitText
<1>6. c # 0 => q \in Seq(Char)
  <2>1. c # 0 => c \in 1..99
    BY <1>2
  <2> HIDE DEF c
  <2> QED BY <1>2, <2>1, DecimalsAre DEF IsDigitText
<1> HIDE DEF q, h, x, c
<1>7. /\ (s \o <<h, "e">>) \o x \in Seq(Char) /\ s \o w \in Seq(Char)
      /\ c # 0 => ((s \o w) \o <<".">>) \o q \in Seq(Char)
  BY <1>1, <1>2, <1>4, <1>5, <1>6, ConcatIsText
<1> QED BY <1>3, <1>7

LEMMA ResultTextIsText == ASSUME NEW v \in GameResults PROVE ResultToText(v) \in Seq(Char)
<1> DEFINE x == CASE v.win = "WinWithScore" -> CreateRealPropertyValue(v.score)
                  [] v.win = "WinWithoutScore" -> <<>>
                  [] v.win = "WinByResignation" -> <<"Resign">>
                  [] v.win = "WinOnTime" -> <<"Time">>
                  [] v.win = "WinByForfeit" -> <<"Forfeit">>
<1>1. v.type \in ResultTypes /\ v.win \in WinTypes /\ v.score \in Int
  BY ResultFields
<1>2. {"Resign", "Time", "Forfeit", "B+", "W+", "Draw", "Void", "?"} \subseteq Char
  BY DEF Char
<1>3. \A c \in {"Resign", "Time", "Forfeit", "B+", "W+", "Draw", "Void", "?"} : <<c>> \in Seq(Char)
  BY <1>2
<1>4. CreateRealPropertyValue(v.score) \in Seq(Char) /\ <<>> \in Seq(Char)
  BY <1>1, RealTextIsText
<1>5. x \in Seq(Char)
  <2>1. x \in {CreateRealPropertyValue(v.score), <<>>, <<"Resign">>, <<"Time">>, <<"Forfeit">>}
    BY <1>1 DEF WinTypes
  <2> HIDE DEF x
  <2> QED BY <1>3, <1>4, <2>1
<1>6. ResultToText(v) = CASE v.type = "BlackWin" -> <<"B+">> \o x
                          [] v.type = "WhiteWin" -> <<"W+">> \o x
                          [] v.type = "Draw" -> <<"Draw">>
                          [] v.type = "NoResult" -> <<"Void">>
                          [] v.type = "UnknownResult" -> <<"?">>
  BY DEF ResultToText
<1> HIDE DEF x
<1>7. ResultToText(v) \in {<<"B+">> \o x, <<"W+">> \o x, <<"Draw">>, <<"Void">>, <<"?">>}
  BY <1>1, <1>6 DEF ResultTypes
<1>8. <<"B+">> \o x \in Seq(Char) /\ <<"W+">> \o x \in Seq(Char)
  BY <1>3, <1>5, ConcatIsText
<1> QED BY <1>3, <1>7, <1>8

LEMMA RankTextIsText == ASSUME NEW v \in RankValues PROVE RankToText(v) \in Seq(Char)
<1>1. v.rank \in Int /\ v.type \in KindsOfRank /\ v.rating \in KindsOfRating
  BY RankWordsAre, IntsAre DEF RankValues
<1>2. Sign(v.rank) \in Seq(Char) /\ DigitsOf(Abs(v.rank)) \in Seq(Char)
  BY <1>1, SignIs, SignsDiffer, DigitsAreText DEF IsDigitText
<1>3. RankTypes[v.type] \in Seq(Char) /\ RatingTypes[v.rating] \in Seq(Char)
  BY <1>1, RankWordsAre
<1> QED BY <1>2, <1>3, ConcatIsText DEF RankToText

(* Only the texts of results and ranks may be impossible to convert.       *)
LEMMA GameTextIsText ==
  ASSUME NEW kind, NEW v, IsGameValue(kind, v), kind \in {"RE", "BR"}
  PROVE  TextOf(kind, v) \in Seq(Char)
<1>1. CASE kind = "RE"
  BY <1>1, ResultTextIsText DEF IsGameValue, TextOf
<1>2. CASE kind = "BR"
  BY <1>2, RankTextIsText DEF IsGameValue, TextOf
<1> QED BY <1>1, <1>2

-----------------------------------------------------------------------------
(* Where a text and what was read from it come from.                       *)

TextInv ==
  /\ textKind \in KindsOfText
  /\ textStage \in {"client", "text", "read", "logic_error"}
  /\ textStage = "client" => \E v : IsGameValue(textKind, v) /\ decomposed = <<v>>
  /\ textStage # "client" =>
       \/ decomposed = <<>> /\ gameText \in Seq(Char)
       \/ \E v : IsGameValue(textKind, v) /\ decomposed = <<v>> /\ gameText = TextOf(textKind, v)
  /\ textStage = "read" => ~IsUnconvertible(textKind, gameText) /\ recomposed = DecomposedValue(textKind, gameText)
  /\ textStage = "logic_error" => IsUnconvertible(textKind, gameText)

LEMMA TextInvReadsBack == ASSUME TextInv PROVE TextsReadBack
<1>1. ASSUME textStage \in {"read", "logic_error"}, decomposed # <<>>, ~HasNoText(textKind, decomposed[1])
      PROVE  textStage = "read" /\ recomposed = <<Effective(textKind, decomposed[1])>>
  <2>1. PICK v : IsGameValue(textKind, v) /\ decomposed = <<v>> /\ gameText = TextOf(textKind, v)
    BY <1>1 DEF TextInv
  <2>2. decomposed[1] = v
    BY <2>1
  <2>3. /\ ~IsUnconvertible(textKind, TextOf(textKind, v))
        /\ DecomposedValue(textKind, TextOf(textKind, v)) = <<Effective(textKind, v)>>
    BY <1>1, <2>1, <2>2, GameValueReadBack
  <2> QED BY <1>1, <2>1, <2>2, <2>3 DEF TextInv
<1>2. ASSUME textStage = "logic_error" PROVE HasNoValue(gameText)
  <2>1. textKind \in {"RE", "BR"} /\ IsUnconvertible(textKind, gameText)
    BY <1>2 DEF TextInv, IsUnconvertible
  <2>2. gameText \in Seq(Char)
    BY <1>2, <2>1, GameTextIsText DEF TextInv
  <2> QED BY <2>1, <2>2, UnconvertibleIs
<1> QED BY <1>1, <1>2 DEF TextsReadBack, HasNoValue

LEMMA TextInitInv == GameTextInit => TextInv
<1> SUFFICES ASSUME GameTextInit PROVE TextInv
  OBVIOUS
<1>1. textKind \in KindsOfText
  BY DEF GameTextInit, ClientGameValues, KindsOfText
<1>2. CASE textStage = "client" /\ \E value \in ClientGameValues[textKind] : decomposed = <<value>>
  <2>1. PICK value \in ClientGameValues[textKind] : decomposed = <<value>>
    BY <1>2
  <2>2. IsGameValue(textKind, value)
    <3>1. CASE textKind = "RE"
      <4>1. value \in {GameResult(type, win, score) : type \in ResultTypes, win \in WinTypes, score \in Scores}
        BY <2>1, <3>1 DEF ClientGameValues
      <4>2. value \in GameResults
        BY <4>1, GameTextsAssumption DEF GameResults, GameResult
      <4> QED BY <3>1, <4>2 DEF IsGameValue
    <3>2. CASE textKind = "BR"
      <4>1. value \in [rank : Ranks, type : DOMAIN RankTypes, rating : DOMAIN RatingTypes]
        BY <2>1, <3>2 DEF ClientGameValues
      <4>2. value \in RankValues
        BY <4>1, GameTextsAssumption DEF RankValues
      <4> QED BY <3>2, <4>2 DEF IsGameValue
    <3>3. CASE textKind = "RO"
      <4>1. value \in [number : RoundNumbers, type : RoundTypes]
        BY <2>1, <3>3 DEF ClientGameValues
      <4>2. \A n \in RoundNumbers \cup RoundTypes : n \in Seq(Char)
        BY GameTextsAssumption, StringsAreChars
      <4>3. value \in RoundValues
        BY <4>1, <4>2 DEF RoundValues
      <4> QED BY <3>3, <4>3 DEF IsGameValue
    <3>4. CASE textKind = "RU"
      BY <2>1, <3>4, RulesetsAre DEF ClientGameValues, IsGameValue
    <3> QED BY <1>1, <3>1, <3>2, <3>3, <3>4 DEF KindsOfText
  <2> QED BY <1>1, <1>2, <2>1, <2>2 DEF TextInv
<1>3. CASE textStage = "text" /\ decomposed = <<>> /\ gameText \in FileGameTexts[textKind]
  <2>1. gameText \in Seq(Char)
    <3>1. \A t \in ResultTexts \cup RankTexts \cup RoundTexts : t \in Seq(Char)
      BY GameTextsAssumption, StringsAreChars
    <3>2. \A t \in Range(Rulesets) \cup {<<"ing">>} : t \in Seq(Char)
      <4>1. "ing" \in Char /\ {"AGA", "GOE", "Japanese", "NZ"} \subseteq Char
        BY DEF Char
      <4>2. \A c \in Char : <<c>> \in Seq(Char)
        OBVIOUS
      <4>3. <<"ing">> \in Seq(Char) /\ \A c \in {"AGA", "GOE", "Japanese", "NZ"} : <<c>> \in Seq(Char)
        BY <4>1, <4>2
      <4>4. \A t \in Range(Rulesets) : \E c \in {"AGA", "GOE", "Japanese", "NZ"} : t = <<c>>
        BY DEF Rulesets, Range
      <4> QED BY <4>1, <4>3, <4>4
    <3> QED BY <1>1, <1>3, <3>1, <3>2 DEF FileGameTexts, KindsOfText
  <2> QED BY <1>1, <1>3, <2>1 DEF TextInv
<1> QED BY <1>2, <1>3 DEF GameTextInit

LEMMA SameDecomposition ==
  ASSUME UNCHANGED locale
  PROVE  \A k, t : /\ IsUnconvertible(k, t)' <=> IsUnconvertible(k, t)
                   /\ DecomposedValue(k, t)' = DecomposedValue(k, t)
<1>1. ASSUME NEW t PROVE TryConvertStringToRealValue(t)' = TryConvertStringToRealValue(t)
  BY DEF TryConvertStringToRealValue
<1>2. ASSUME NEW t PROVE IsUnconvertibleResult(t)' <=> IsUnconvertibleResult(t)
  BY <1>1 DEF IsUnconvertibleResult
<1>3. ASSUME NEW t PROVE ResultFromText(t)' = ResultFromText(t)
  BY <1>1 DEF ResultFromText
<1>4. ASSUME NEW k, NEW t PROVE IsUnconvertible(k, t)' <=> IsUnconvertible(k, t)
  BY <1>2 DEF IsUnconvertible
<1>5. ASSUME NEW k, NEW t PROVE DecomposedValue(k, t)' = DecomposedValue(k, t)
  BY <1>3 DEF DecomposedValue
<1> QED BY <1>4, <1>5

LEMMA TextNextInv == TextInv /\ [GameTextNext]_<<gameTextVars, locale>> => TextInv'
<1> SUFFICES ASSUME TextInv, [GameTextNext]_<<gameTextVars, locale>> PROVE TextInv'
  OBVIOUS
<1>1. UNCHANGED locale /\ UNCHANGED textKind
  BY DEF GameTextNext, WriteGameText, ReadGameText, WriteAgain, gameTextVars
<1>2. \A k, t : /\ IsUnconvertible(k, t)' <=> IsUnconvertible(k, t)
                /\ DecomposedValue(k, t)' = DecomposedValue(k, t)
  BY <1>1, SameDecomposition
<1>3. CASE WriteGameText
  <2>1. PICK v : IsGameValue(textKind, v) /\ decomposed = <<v>>
    BY <1>3 DEF WriteGameText, TextInv
  <2>2. gameText' = TextOf(textKind', v) /\ decomposed' = <<v>> /\ textStage' = "text"
    BY <1>1, <1>3, <2>1 DEF WriteGameText
  <2> QED BY <1>1, <2>1, <2>2 DEF TextInv
<1>4. CASE ReadGameText
  <2>1. /\ textStage = "text" /\ UNCHANGED <<textKind, decomposed, gameText>>
        /\ \/ IsUnconvertible(textKind, gameText) /\ textStage' = "logic_error"
           \/ /\ ~IsUnconvertible(textKind, gameText) /\ textStage' = "read"
              /\ recomposed' = DecomposedValue(textKind, gameText)
    BY <1>4 DEF ReadGameText
  <2>2. IsUnconvertible(textKind', gameText') <=> IsUnconvertible(textKind, gameText)
    BY <2>1
  <2> QED BY <1>1, <1>2, <2>1 DEF TextInv
<1>5. CASE WriteAgain
  <2>1. textStage = "read" /\ decomposed = <<>> /\ recomposed # <<>> /\ textStage' = "client" /\ decomposed' = recomposed
    BY <1>5 DEF WriteAgain
  <2>2. gameText \in Seq(Char) /\ ~IsUnconvertible(textKind, gameText) /\ recomposed = DecomposedValue(textKind, gameText)
    BY <2>1 DEF TextInv
  <2>3. \E v : IsGameValue(textKind, v) /\ recomposed = <<v>>
    BY <2>1, <2>2, DecomposedIsTyped DEF TextInv
  <2> QED BY <1>1, <2>1, <2>3 DEF TextInv
<1>6. CASE UNCHANGED <<gameTextVars, locale>>
  BY <1>2, <1>6 DEF gameTextVars, TextInv
<1> QED BY <1>3, <1>4, <1>5, <1>6 DEF GameTextNext

(* SgfcGameResult, SgfcGoPlayerRank, SgfcRoundInformation, SgfcGoRuleset:  *)
(* whatever ToPropertyValue writes, FromPropertyValue reads as the same    *)
(* value, but for the values named; it throws only if a number has no      *)
(* digits, or too many.                                                    *)
THEOREM GameTextsReadBack == GameTextSpec => []TextsReadBack
<1>1. TextInv => TextsReadBack
  BY TextInvReadsBack
<1> QED BY <1>1, TextInitInv, TextNextInv, PTL DEF GameTextSpec
=============================================================================
