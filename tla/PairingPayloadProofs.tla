----------------------- MODULE PairingPayloadProofs -------------------------
(* Proofs about PairingPayload, for payloads of any bytes and any length.     *)
(*                                                                            *)
(* The codec computes byte by byte.  What it computes is proved from the      *)
(* least number for which it would go wrong (SmallestNat), and that its       *)
(* recursive functions exist at all from CourseOfValues.                      *)
EXTENDS PairingPayload, SequenceTheorems, WellFoundedInduction, TLAPS

-----------------------------------------------------------------------------
(* Recursion and induction.                                                  *)

\* A set of natural numbers that is not empty has a least element.
LEMMA SmallestNat ==
  ASSUME NEW T, T \subseteq Nat, T # {}
  PROVE  \E x \in T : \A y \in T : x <= y
<1> DEFINE R == OpToRel(<, Nat)
<1>1. IsWellFoundedOn(R, Nat)
  BY NatLessThanWellFounded
<1>2. R = {ss \in Nat \X Nat : ss[1] < ss[2]}
  BY DEF OpToRel
<1> HIDE DEF R
<1>3. PICK x \in T : \A y \in T : <<y, x>> \notin R
  BY <1>1, WFMin
<1>4. ASSUME NEW y \in T PROVE x <= y
  <2>1. ~(y < x)
    BY <1>2, <1>3
  <2>2. x \in Nat /\ y \in Nat
    OBVIOUS
  <2> QED
    BY <2>1, <2>2
<1> QED
  BY <1>4

\* A set that holds n whenever it holds every smaller number holds them all.
LEMMA StrongInduction ==
  ASSUME NEW N \in Nat, NEW P,
         \A n \in 0..N : (\A k \in 0..(n - 1) : k \in P) => n \in P
  PROVE  0..N \subseteq P
<1> SUFFICES ASSUME (0..N) \ P # {}
             PROVE  FALSE
  OBVIOUS
<1> DEFINE T == (0..N) \ P
<1>1. PICK n \in T : \A y \in T : n <= y
  <2>1. T \subseteq Nat
    OBVIOUS
  <2> HIDE DEF T
  <2> QED
    BY <2>1, SmallestNat DEF T
<1>2. \A k \in 0..(n - 1) : k \in P
  BY <1>1
<1> QED
  BY <1>1, <1>2

\* The same, one step at a time.
LEMMA Induction ==
  ASSUME NEW N \in Nat, NEW P, 0 \in P,
         \A n \in 1..N : n - 1 \in P => n \in P
  PROVE  0..N \subseteq P
<1>1. ASSUME NEW n \in 0..N, \A k \in 0..(n - 1) : k \in P
      PROVE  n \in P
  <2>1. CASE n = 0
    BY <2>1
  <2>2. CASE n # 0
    <3>1. n \in 1..N /\ n - 1 \in 0..(n - 1)
      BY <2>2
    <3> QED
      BY <1>1, <3>1
  <2> QED
    BY <2>1, <2>2
<1> QED
  BY <1>1, StrongInduction

\* The values of f below k.
Below(f, k) == [j \in 0..(k - 1) |-> f[j]]

\* H[k] gives the value at k of a function from its values below k.
Steps(H, N, S) == \A k \in 0..N : H[k] \in [[0..(k - 1) -> S] -> S]

ByRecursion(f, H, N, S) ==
  f \in [0..N -> S] /\ \A k \in 0..N : f[k] = H[k][Below(f, k)]

\* There is a function with these values.
LEMMA CourseOfValues ==
  ASSUME NEW N \in Nat, NEW S, NEW H, Steps(H, N, S)
  PROVE  \E f : ByRecursion(f, H, N, S)
<1> USE DEF Steps, Below
<1> DEFINE Works(n, f) == \A k \in 0..n : f[k] = H[k][[j \in 0..(k - 1) |-> f[j]]]
           P == {n \in 0..N : \E f \in [0..n -> S] : Works(n, f)}
<1>1. ASSUME NEW n \in 0..N, \A k \in 0..(n - 1) : k \in P
      PROVE  n \in P
  <2>1. PICK g \in [0..(n - 1) -> S] : Works(n - 1, g)
    <3>1. CASE n = 0
      <4>1. 0..(n - 1) = {}
        BY <3>1
      <4>2. [j \in {} |-> 0] \in [0..(n - 1) -> S]
        BY <4>1
      <4>3. \A g : Works(n - 1, g)
        BY <4>1
      <4> HIDE DEF Works
      <4> QED
        BY <4>2, <4>3
    <3>2. CASE n # 0
      <4>1. n - 1 \in P
        BY SMTT(30), <1>1, <3>2
      <4> HIDE DEF Works
      <4> QED
        BY <4>1
    <3> QED
      BY <3>1, <3>2
  <2> DEFINE f == [k \in 0..n |-> IF k = n THEN H[n][g] ELSE g[k]]
  <2>2. H[n][g] \in S
    OBVIOUS
  <2>3. f \in [0..n -> S]
    BY <2>2
  <2>4. ASSUME NEW k \in 0..n
        PROVE  f[k] = H[k][[j \in 0..(k - 1) |-> f[j]]]
    <3>1. CASE k = n
      <4>1. [j \in 0..(n - 1) |-> f[j]] = g
        OBVIOUS
      <4>2. f[n] = H[n][g]
        OBVIOUS
      <4> HIDE DEF f
      <4> QED
        BY <3>1, <4>1, <4>2
    <3>2. CASE k # n
      <4>1. k \in 0..(n - 1) /\ f[k] = g[k]
        BY <3>2
      <4>2. [j \in 0..(k - 1) |-> f[j]] = [j \in 0..(k - 1) |-> g[j]]
        BY <3>2
      <4> HIDE DEF f
      <4> QED
        BY <2>1, <4>1, <4>2
    <3> QED
      BY <3>1, <3>2
  <2> HIDE DEF f
  <2> QED
    BY <2>3, <2>4
<1>2. N \in P
  <2> HIDE DEF P
  <2> QED
    BY <1>1, StrongInduction
<1> QED
  BY <1>2 DEF ByRecursion

LEMMA BelowType ==
  ASSUME NEW N, N \in Nat, NEW S, NEW H, NEW f, ByRecursion(f, H, N, S), NEW k, k \in 0..N
  PROVE  Below(f, k) \in [0..(k - 1) -> S]
<1>1. \A j \in 0..(k - 1) : j \in 0..N
  OBVIOUS
<1> QED
  BY <1>1 DEF ByRecursion, Below

-----------------------------------------------------------------------------
(* Percent-encoding.                                                         *)

\* What encodeComponent makes of one byte.
Code(c) == IF isUnreserved(c) THEN <<c>> ELSE Triplet(c)

LEMMA HexDigits ==
  ASSUME NEW n \in 0..15
  PROVE  upperhex(n) \in Bytes \ (Delimiters \cup {Percent}) /\ unhex(upperhex(n)) = {n}
<1>1. CASE n < 10
  <2>1. upperhex(n) = 48 + n /\ upperhex(n) \in Digits
    BY <1>1 DEF upperhex, Digits
  <2> QED
    BY <1>1, <2>1 DEF unhex, Bytes, Digits, Delimiters, Percent
<1>2. CASE ~(n < 10)
  <2>1. upperhex(n) = 55 + n /\ upperhex(n) \in 65..70
    BY <1>2 DEF upperhex
  <2>2. upperhex(n) \notin Digits /\ upperhex(n) \notin 97..102
    BY <2>1 DEF Digits
  <2>3. unhex(upperhex(n)) = {upperhex(n) - 55}
    BY <2>1, <2>2 DEF unhex
  <2> QED
    BY <2>1, <2>3 DEF Bytes, Delimiters, Percent
<1> QED
  BY <1>1, <1>2

\* A byte is itself or three bytes, and can be told from them.
LEMMA CodeCases ==
  ASSUME NEW c \in Bytes
  PROVE  /\ Code(c) \in Seq(Bytes)
         /\ \A i \in 1..Len(Code(c)) : Code(c)[i] \notin Delimiters
         /\ isUnreserved(c) => Len(Code(c)) = 1 /\ Code(c)[1] = c /\ c # Percent
         /\ ~isUnreserved(c) =>
              /\ Len(Code(c)) = 3
              /\ Code(c)[1] = Percent
              /\ Code(c)[2] = upperhex(c \div 16)
              /\ Code(c)[3] = upperhex(c % 16)
              /\ unhex(Code(c)[2]) = {c \div 16}
              /\ unhex(Code(c)[3]) = {c % 16}
<1>1. CASE isUnreserved(c)
  <2>1. Code(c) = <<c>>
    BY <1>1 DEF Code
  <2>2. c \notin Delimiters /\ c # Percent
    BY <1>1 DEF isUnreserved, Delimiters, Percent, Digits
  <2> QED
    BY <1>1, <2>1, <2>2
<1>2. CASE ~isUnreserved(c)
  <2>1. c \div 16 \in 0..15 /\ c % 16 \in 0..15
    BY DEF Bytes
  <2>2. Code(c) = <<Percent, upperhex(c \div 16), upperhex(c % 16)>>
    BY <1>2 DEF Code, Triplet
  <2>3. Percent \in Bytes \ Delimiters
    BY DEF Percent, Bytes, Delimiters
  <2>4. /\ upperhex(c \div 16) \in Bytes \ Delimiters /\ unhex(upperhex(c \div 16)) = {c \div 16}
        /\ upperhex(c % 16) \in Bytes \ Delimiters /\ unhex(upperhex(c % 16)) = {c % 16}
    BY <2>1, HexDigits
  <2>5. /\ Len(Code(c)) = 3 /\ Code(c) \in Seq(Bytes)
        /\ Code(c)[1] = Percent
        /\ Code(c)[2] = upperhex(c \div 16)
        /\ Code(c)[3] = upperhex(c % 16)
    BY <2>2, <2>3, <2>4
  <2>6. \A i \in 1..Len(Code(c)) : Code(c)[i] \notin Delimiters
    <3>1. 1..3 = {1, 2, 3}
      OBVIOUS
    <3> QED
      BY <2>3, <2>4, <2>5, <3>1
  <2> QED
    BY <1>2, <2>4, <2>5, <2>6
<1> QED
  BY <1>1, <1>2

\* E[i] is the encoding of the first i bytes of s.
Encoding(s, E) ==
  /\ E \in [0..Len(s) -> Seq(Bytes)]
  /\ E[0] = <<>>
  /\ \A i \in 1..Len(s) : E[i] = E[i - 1] \o Code(s[i])

\* encodeComponent is the last value of its recursive function.
LEMMA EncodeUnfolds ==
  ASSUME NEW s \in Seq(Bytes)
  PROVE  \E E : Encoding(s, E) /\ encodeComponent(s) = E[Len(s)]
<1> DEFINE n == Len(s)
           Enc(f) == f = [i \in 0..n |-> IF i = 0 THEN <<>> ELSE f[i - 1] \o Code(s[i])]
           H == [i \in 0..n |-> [g \in [0..(i - 1) -> Seq(Bytes)] |->
                   IF i = 0 THEN <<>> ELSE g[i - 1] \o Code(s[i])]]
<1>1. n \in Nat /\ \A i \in 1..n : s[i] \in Bytes /\ Code(s[i]) \in Seq(Bytes)
  BY CodeCases
<1>2. encodeComponent(s) = (CHOOSE f : Enc(f))[n]
  BY DEF encodeComponent, Code
<1>3. \E f : Enc(f)
  <2>1. ASSUME NEW i \in 0..n
        PROVE  H[i] \in [[0..(i - 1) -> Seq(Bytes)] -> Seq(Bytes)]
    <3>1. ASSUME NEW g \in [0..(i - 1) -> Seq(Bytes)]
          PROVE  (IF i = 0 THEN <<>> ELSE g[i - 1] \o Code(s[i])) \in Seq(Bytes)
      <4>1. CASE i = 0
        BY <4>1
      <4>2. CASE i # 0
        <5>1. g[i - 1] \in Seq(Bytes) /\ Code(s[i]) \in Seq(Bytes)
          BY <1>1, <4>2
        <5> QED
          BY <4>2, <5>1
      <4> QED
        BY <4>1, <4>2
    <3> QED
      BY <3>1
  <2>2. PICK f : ByRecursion(f, H, n, Seq(Bytes))
    <3>1. n \in Nat /\ Steps(H, n, Seq(Bytes))
      BY <1>1, <2>1, Zenon DEF Steps
    <3> HIDE DEF H
    <3> QED
      BY <3>1, CourseOfValues
  <2>3. ASSUME NEW k \in 0..n
        PROVE  f[k] = IF k = 0 THEN <<>> ELSE f[k - 1] \o Code(s[k])
    <3> DEFINE g == Below(f, k)
    <3>1. /\ g \in [0..(k - 1) -> Seq(Bytes)] /\ f[k] = H[k][g]
          /\ \A j \in 0..(k - 1) : g[j] = f[j]
      <4>1. n \in Nat /\ k \in 0..n
        BY <1>1
      <4>2. ByRecursion(f, H, n, Seq(Bytes))
        BY <2>2
      <4> HIDE DEF H, n
      <4>3. f[k] = H[k][Below(f, k)]
        BY <4>1, <4>2, Zenon DEF ByRecursion
      <4>4. \A j \in 0..(k - 1) : Below(f, k)[j] = f[j]
        BY DEF Below
      <4>5. Below(f, k) \in [0..(k - 1) -> Seq(Bytes)]
        BY <4>1, <4>2, BelowType
      <4> QED
        BY <4>3, <4>4, <4>5
    <3> HIDE DEF g
    <3>2. f[k] = IF k = 0 THEN <<>> ELSE g[k - 1] \o Code(s[k])
      BY <3>1
    <3>3. k # 0 => g[k - 1] = f[k - 1]
      BY <1>1, <3>1
    <3> QED
      BY <3>2, <3>3
  <2>4. f = [i \in 0..n |-> IF i = 0 THEN <<>> ELSE f[i - 1] \o Code(s[i])]
    BY <2>2, <2>3 DEF ByRecursion
  <2> QED
    BY <2>4
<1> DEFINE E == CHOOSE f : Enc(f)
<1>4. Enc(E)
  BY <1>3
<1> HIDE DEF E
<1>5. /\ E[0] = <<>>
      /\ \A i \in 1..n : E[i] = E[i - 1] \o Code(s[i])
  <2>1. 0 \in 0..n /\ \A i \in 1..n : i \in 0..n /\ i # 0
    BY <1>1
  <2> HIDE DEF n
  <2>2. \A i \in 0..n : E[i] = IF i = 0 THEN <<>> ELSE E[i - 1] \o Code(s[i])
    BY <1>4, Zenon
  <2>3. E[0] = <<>>
    BY <2>1, <2>2, Zenon
  <2>4. ASSUME NEW i \in 1..n
        PROVE  E[i] = E[i - 1] \o Code(s[i])
    BY <2>1, <2>2, Zenon
  <2> QED
    BY <2>3, <2>4
<1>6. 0..n \subseteq {i \in 0..n : E[i] \in Seq(Bytes)}
  <2> DEFINE P == {i \in 0..n : E[i] \in Seq(Bytes)}
  <2>1. 0 \in P
    <3>1. 0 \in 0..n /\ <<>> \in Seq(Bytes)
      BY <1>1
    <3> QED
      BY <1>5, <3>1, Zenon
  <2>2. ASSUME NEW i \in 1..n, i - 1 \in P
        PROVE  i \in P
    <3>1. i \in 0..n
      BY <1>1
    <3>2. E[i - 1] \in Seq(Bytes) /\ Code(s[i]) \in Seq(Bytes)
      BY <1>1, <2>2
    <3>3. E[i - 1] \o Code(s[i]) \in Seq(Bytes)
      BY <3>2
    <3> QED
      BY <1>5, <3>1, <3>3, Zenon
  <2> HIDE DEF P
  <2> QED
    BY <1>1, <2>1, <2>2, Induction DEF P
<1>7. Encoding(s, E)
  BY <1>4, <1>5, <1>6 DEF Encoding
<1> QED
  BY <1>2, <1>7 DEF E

-----------------------------------------------------------------------------
(* Percent-decoding.                                                         *)

\* A byte, or one written as two hexadecimal digits, before the rest.
Before(b, rests) == {<<b>> \o rest : rest \in rests}
HexPut(hi, lo, rest) == <<16 * hi + lo>> \o rest
HexBefore(c, d, rests) ==
  {HexPut(hi, lo, rest) : hi \in unhex(c), lo \in unhex(d), rest \in rests}

\* What t decodes to from its i-th byte on, given what it decodes to from the
\* next one on, and from the third next one on.
DecodeAt(t, i, one, three) ==
  IF i > Len(t) THEN {<<>>}
  ELSE IF t[i] # Percent THEN Before(t[i], one)
  ELSE IF i + 2 > Len(t) THEN {}
  ELSE HexBefore(t[i + 1], t[i + 2], three)

\* D[i] is what the bytes of t from the i-th on decode to.
Decoding(t, D) == \A i \in 1..(Len(t) + 1) : D[i] = DecodeAt(t, i, D[i + 1], D[i + 3])

LEMMA HexValues == ASSUME NEW c \in Int PROVE unhex(c) \subseteq Int
<1>1. /\ c \in Digits => unhex(c) = {c - 48}
      /\ c \notin Digits /\ c \in 97..102 => unhex(c) = {c - 87}
      /\ c \notin Digits /\ c \notin 97..102 /\ c \in 65..70 => unhex(c) = {c - 55}
      /\ c \notin Digits /\ c \notin 97..102 /\ c \notin 65..70 => unhex(c) = {}
  <2>1. c \in 97..102 => c \notin Digits /\ c \notin 65..70
    BY DEF Digits
  <2>2. c \in 65..70 => c \notin Digits
    BY DEF Digits
  <2> QED
    BY <2>1, <2>2, Zenon DEF unhex
<1> QED
  BY <1>1

LEMMA BeforeType ==
  ASSUME NEW rests, rests \in SUBSET Seq(Int), NEW b \in Int, NEW c \in Int, NEW d \in Int
  PROVE  Before(b, rests) \in SUBSET Seq(Int) /\ HexBefore(c, d, rests) \in SUBSET Seq(Int)
<1>1. ASSUME NEW v \in Int, NEW rest \in rests
      PROVE  <<v>> \o rest \in Seq(Int)
  <2>1. <<v>> \in Seq(Int) /\ rest \in Seq(Int)
    OBVIOUS
  <2> QED
    BY <2>1, ConcatProperties
<1>2. ASSUME NEW hi \in unhex(c), NEW lo \in unhex(d)
      PROVE  16 * hi + lo \in Int
  <2>1. hi \in Int /\ lo \in Int
    BY HexValues
  <2> QED
    BY <2>1
<1>3. ASSUME NEW x \in Before(b, rests)
      PROVE  x \in Seq(Int)
  BY <1>1, <1>3, Zenon DEF Before
<1>4. ASSUME NEW x \in HexBefore(c, d, rests)
      PROVE  x \in Seq(Int)
  <2>1. PICK hi \in unhex(c), lo \in unhex(d), rest \in rests :
          x = HexPut(hi, lo, rest)
    BY <1>4 DEF HexBefore
  <2> QED
    BY <1>1, <1>2, <2>1 DEF HexPut
<1> QED
  BY <1>3, <1>4

\* What is looked at is what is there.
LEMMA DecodeAtCases ==
  ASSUME NEW t \in Seq(Bytes), NEW i \in Int, NEW one, NEW three
  PROVE  /\ i > Len(t) => DecodeAt(t, i, one, three) = {<<>>}
         /\ i <= Len(t) /\ t[i] # Percent => DecodeAt(t, i, one, three) = Before(t[i], one)
         /\ i <= Len(t) /\ t[i] = Percent /\ i + 2 > Len(t) => DecodeAt(t, i, one, three) = {}
         /\ i <= Len(t) /\ t[i] = Percent /\ i + 2 <= Len(t) =>
              DecodeAt(t, i, one, three) = HexBefore(t[i + 1], t[i + 2], three)
<1> DEFINE n == Len(t)
<1>1. n \in Int /\ (i <= n <=> ~(i > n)) /\ (i + 2 <= n <=> ~(i + 2 > n))
  OBVIOUS
<1> QED
  BY <1>1, Zenon DEF DecodeAt

\* What is not looked at does not matter.
LEMMA DecodeAtIgnores ==
  ASSUME NEW t, NEW i, NEW one, NEW three, NEW x, NEW y
  PROVE  /\ i > Len(t) => DecodeAt(t, i, one, three) = DecodeAt(t, i, x, y)
         /\ i + 2 > Len(t) => DecodeAt(t, i, one, three) = DecodeAt(t, i, one, y)
BY Zenon DEF DecodeAt

\* A function that decodes exists.
LEMMA DecodeExists ==
  ASSUME NEW t \in Seq(Bytes), NEW n \in Nat, n = Len(t)
  PROVE  \E d : d = [i \in 1..(n + 1) |-> DecodeAt(t, i, d[i + 1], d[i + 3])]
<1> DEFINE S == SUBSET Seq(Int)
           H == [k \in 0..n |-> [g \in [0..(k - 1) -> S] |->
                   DecodeAt(t, n + 1 - k, g[k - 1], g[k - 3])]]
<1>1. \A i \in 1..n : t[i] \in Int
  <2>1. \A i \in 1..n : t[i] \in Bytes
    OBVIOUS
  <2>2. \A b \in Bytes : b \in Int
    BY DEF Bytes
  <2> QED
    BY <2>1, <2>2
<1>2. ASSUME NEW i \in 1..(n + 1), NEW one, NEW three,
             i < n + 1 => one \in S, i + 2 < n + 1 => three \in S
      PROVE  DecodeAt(t, i, one, three) \in S
  <2>1. CASE i > n
    <3>1. DecodeAt(t, i, one, three) = {<<>>}
      BY <2>1, DecodeAtCases
    <3>2. {<<>>} \in SUBSET Seq(Int)
      OBVIOUS
    <3> QED
      BY <3>1, <3>2
  <2>2. CASE i <= n /\ t[i] # Percent
    <3>1. one \in S /\ t[i] \in Int
      BY <1>1, <1>2, <2>2
    <3>2. Before(t[i], one) \in S
      BY <3>1, BeforeType
    <3> QED
      BY <2>2, <3>2, DecodeAtCases
  <2>3. CASE i <= n /\ t[i] = Percent /\ i + 2 > n
    BY <2>3, DecodeAtCases
  <2>4. CASE i <= n /\ t[i] = Percent /\ i + 2 <= n
    <3>1. three \in S /\ t[i + 1] \in Int /\ t[i + 2] \in Int
      BY <1>1, <1>2, <2>4
    <3>2. HexBefore(t[i + 1], t[i + 2], three) \in S
      BY <3>1, BeforeType
    <3> QED
      BY <2>4, <3>2, DecodeAtCases
  <2> QED
    BY <2>1, <2>2, <2>3, <2>4
<1> HIDE DEF S
<1>3. PICK f : ByRecursion(f, H, n, S)
  <2>1. ASSUME NEW k \in 0..n, NEW g \in [0..(k - 1) -> S]
        PROVE  DecodeAt(t, n + 1 - k, g[k - 1], g[k - 3]) \in S
    <3>1. n + 1 - k \in 1..(n + 1)
      OBVIOUS
    <3>2. n + 1 - k < n + 1 => g[k - 1] \in S
      OBVIOUS
    <3>3. n + 1 - k + 2 < n + 1 => g[k - 3] \in S
      OBVIOUS
    <3> QED
      BY <1>2, <3>1, <3>2, <3>3
  <2>2. Steps(H, n, S)
    BY <2>1 DEF Steps
  <2> HIDE DEF H
  <2> QED
    BY <2>2, CourseOfValues
<1>4. ASSUME NEW k \in 0..n
      PROVE  f[k] = DecodeAt(t, n + 1 - k, f[k - 1], f[k - 3])
  <2> DEFINE g == Below(f, k)
  <2>1. g \in [0..(k - 1) -> S] /\ f[k] = H[k][g]
    <3> HIDE DEF H
    <3>1. g \in [0..(k - 1) -> S]
      BY <1>3, BelowType
    <3>2. f[k] = H[k][g]
      BY <1>3, Zenon DEF ByRecursion
    <3> QED
      BY <3>1, <3>2
  <2>2. \A j \in 0..(k - 1) : g[j] = f[j]
    BY DEF Below
  <2> HIDE DEF g
  <2>3. f[k] = DecodeAt(t, n + 1 - k, g[k - 1], g[k - 3])
    BY <2>1
  <2> DEFINE i == n + 1 - k
  <2>4. i \in 1..(n + 1)
    OBVIOUS
  <2>5. CASE k = 0
    <3>1. i > n
      BY <2>5
    <3> QED
      BY <2>3, <3>1, DecodeAtIgnores
  <2>6. CASE k \in 1..2
    <3>1. g[k - 1] = f[k - 1] /\ i + 2 > n /\ i <= n
      BY <2>2, <2>6
    <3> QED
      BY <2>3, <3>1, DecodeAtIgnores
  <2>7. CASE k > 2
    <3>1. k - 1 \in 0..(k - 1) /\ k - 3 \in 0..(k - 1)
      BY <2>7
    <3> QED
      BY <2>2, <2>3, <3>1, Zenon
  <2> QED
    BY <2>5, <2>6, <2>7
<1> DEFINE d == [i \in 1..(n + 1) |-> f[n + 1 - i]]
<1>5. ASSUME NEW i \in 1..(n + 1)
      PROVE  d[i] = DecodeAt(t, i, d[i + 1], d[i + 3])
  <2>1. d[i] = DecodeAt(t, i, f[n + 1 - i - 1], f[n + 1 - i - 3])
    <3>1. n + 1 - i \in 0..n /\ n + 1 - (n + 1 - i) = i /\ d[i] = f[n + 1 - i]
      OBVIOUS
    <3> HIDE DEF d
    <3> QED
      BY <1>4, <3>1
  <2>2. i <= n => d[i + 1] = f[n + 1 - i - 1]
    OBVIOUS
  <2>3. i + 2 <= n => d[i + 3] = f[n + 1 - i - 3]
    OBVIOUS
  <2> HIDE DEF d
  <2>4. CASE i > n
    BY <2>1, <2>4, DecodeAtIgnores
  <2>5. CASE i <= n /\ i + 2 > n
    <3>1. d[i + 1] = f[n + 1 - i - 1]
      BY <2>2, <2>5
    <3> QED
      BY <2>1, <2>5, <3>1, DecodeAtIgnores
  <2>6. CASE i + 2 <= n
    BY <2>1, <2>2, <2>3, <2>6
  <2> QED
    BY <2>4, <2>5, <2>6
<1>6. d = [i \in 1..(n + 1) |-> DecodeAt(t, i, d[i + 1], d[i + 3])]
  BY <1>5
<1> HIDE DEF d
<1> QED
  BY <1>6

\* decodeComponent is the first value of its recursive function.
LEMMA DecodeUnfolds ==
  ASSUME NEW t \in Seq(Bytes)
  PROVE  \E D : Decoding(t, D) /\ decodeComponent(t) = D[1]
<1> DEFINE n == Len(t)
           Dec(f) == f = [i \in 1..(n + 1) |-> DecodeAt(t, i, f[i + 1], f[i + 3])]
           D == CHOOSE f : Dec(f)
<1>1. decodeComponent(t) = D[1]
  BY DEF decodeComponent, DecodeAt, Before, HexBefore, HexPut
<1>2. Dec(D)
  <2>1. \E f : Dec(f)
    BY DecodeExists
  <2> HIDE DEF Dec
  <2> QED
    BY <2>1, Zenon
<1> HIDE DEF D
<1>3. Decoding(t, D)
  BY <1>2 DEF Decoding
<1> QED
  BY <1>1, <1>3

-----------------------------------------------------------------------------
(* What is encoded decodes to itself.                                        *)

\* w is u followed by v; w begins with x; no byte of w is a delimiter.
Joins(u, v, w) ==
  /\ u \in Seq(Bytes) /\ v \in Seq(Bytes) /\ w \in Seq(Bytes)
  /\ Len(w) = Len(u) + Len(v)
  /\ \A k \in 1..Len(u) : w[k] = u[k]
  /\ \A k \in 1..Len(v) : w[Len(u) + k] = v[k]
Begins(x, w) == Len(x) <= Len(w) /\ \A k \in 1..Len(x) : w[k] = x[k]
Safe(w) == \A k \in 1..Len(w) : w[k] \notin Delimiters

LEMMA ConcatJoins ==
  ASSUME NEW u \in Seq(Bytes), NEW v \in Seq(Bytes)
  PROVE  Joins(u, v, u \o v)
BY DEF Joins

LEMMA BeginsStill ==
  ASSUME NEW x \in Seq(Bytes), NEW u, NEW v, NEW w, Joins(u, v, w), Begins(x, u)
  PROVE  Begins(x, w)
<1>1. Len(x) \in Nat /\ Len(u) \in Nat /\ Len(v) \in Nat
  BY DEF Joins
<1> QED
  BY <1>1 DEF Joins, Begins

LEMMA SafeJoins ==
  ASSUME NEW u, NEW v, NEW w, Joins(u, v, w), Safe(u), Safe(v)
  PROVE  Safe(w)
<1>1. Len(u) \in Nat /\ Len(v) \in Nat
  BY DEF Joins
<1>2. ASSUME NEW k \in 1..Len(w), k > Len(u)
      PROVE  w[k] \notin Delimiters
  <2> DEFINE h == k - Len(u)
  <2>1. h \in 1..Len(v) /\ Len(u) + h = k
    BY <1>1, <1>2 DEF Joins
  <2> HIDE DEF h
  <2> QED
    BY <2>1 DEF Joins, Safe
<1>3. ASSUME NEW k \in 1..Len(w), ~(k > Len(u))
      PROVE  w[k] \notin Delimiters
  <2>1. k \in 1..Len(u)
    BY <1>1, <1>3
  <2> QED
    BY <2>1 DEF Joins, Safe
<1>4. \A k \in 1..Len(w) : w[k] \notin Delimiters
  BY <1>2, <1>3
<1> QED
  BY <1>4 DEF Safe

\* The encoding of one more byte is the one before, and the code of that byte.
LEMMA EncodingGrows ==
  ASSUME NEW s \in Seq(Bytes), NEW E, Encoding(s, E), NEW i, i \in 1..Len(s)
  PROVE  s[i] \in Bytes /\ Joins(E[i - 1], Code(s[i]), E[i])
<1>1. s[i] \in Bytes
  OBVIOUS
<1>2. E[i - 1] \in Seq(Bytes)
  BY DEF Encoding
<1>3. E[i] = E[i - 1] \o Code(s[i])
  BY DEF Encoding
<1>4. Code(s[i]) \in Seq(Bytes)
  BY <1>1, CodeCases
<1>5. Joins(E[i - 1], Code(s[i]), E[i - 1] \o Code(s[i]))
  BY <1>2, <1>4, ConcatJoins
<1> QED
  BY <1>1, <1>3, <1>5

LEMMA EncodingType ==
  ASSUME NEW s \in Seq(Bytes), NEW E, Encoding(s, E), NEW i, i \in 0..Len(s)
  PROVE  E[i] \in Seq(Bytes) /\ Len(E[i]) \in Nat
BY DEF Encoding

LEMMA EncodingPrefix ==
  ASSUME NEW s \in Seq(Bytes), NEW E, Encoding(s, E), NEW m, m \in 0..Len(s),
         NEW i, i \in 0..m
  PROVE  Begins(E[i], E[m])
<1> DEFINE n == Len(s)
           P == {j \in 0..(n - i) : Begins(E[i], E[i + j])}
<1>1. n \in Nat /\ i \in 0..n /\ n - i \in Nat
  OBVIOUS
<1>2. 0 \in P
  <2>1. i + 0 = i /\ 0 \in 0..(n - i)
    BY <1>1
  <2>2. Begins(E[i], E[i])
    BY <1>1, EncodingType DEF Begins
  <2> QED
    BY <2>1, <2>2
<1>3. ASSUME NEW j \in 1..(n - i), j - 1 \in P
      PROVE  j \in P
  <2>1. /\ i + j \in 1..n /\ i + (j - 1) = i + j - 1
        /\ j \in 0..(n - i)
    BY <1>1
  <2>2. Joins(E[i + j - 1], Code(s[i + j]), E[i + j])
    BY <2>1, EncodingGrows
  <2>3. Begins(E[i], E[i + j - 1])
    BY <1>3, <2>1
  <2>4. E[i] \in Seq(Bytes)
    BY <1>1, EncodingType
  <2>5. Begins(E[i], E[i + j])
    BY <2>2, <2>3, <2>4, BeginsStill
  <2> QED
    BY <2>1, <2>5
<1>4. m - i \in P
  <2>1. m - i \in 0..(n - i)
    BY <1>1
  <2> HIDE DEF P
  <2>2. 0..(n - i) \subseteq P
    BY <1>1, <1>2, <1>3, Induction
  <2> QED
    BY <2>1, <2>2
<1>5. i + (m - i) = m
  BY <1>1
<1> QED
  BY <1>4, <1>5

\* No encoding holds a delimiter.
LEMMA EncodingIsSafe ==
  ASSUME NEW s \in Seq(Bytes), NEW E, Encoding(s, E)
  PROVE  Safe(E[Len(s)])
<1> DEFINE n == Len(s)
           P == {i \in 0..n : Safe(E[i])}
<1>1. n \in Nat
  OBVIOUS
<1>2. 0 \in P
  <2>1. Safe(<<>>)
    BY DEF Safe
  <2> QED
    BY <1>1, <2>1 DEF Encoding
<1>3. ASSUME NEW i \in 1..n, i - 1 \in P
      PROVE  i \in P
  <2>1. s[i] \in Bytes /\ Joins(E[i - 1], Code(s[i]), E[i])
    BY EncodingGrows
  <2>2. Safe(Code(s[i]))
    BY <2>1, CodeCases DEF Safe
  <2>3. Safe(E[i - 1])
    BY <1>3
  <2>4. Safe(E[i])
    BY <2>1, <2>2, <2>3, SafeJoins
  <2> QED
    BY <1>1, <2>4
<1> HIDE DEF P
<1>4. 0..n \subseteq P
  BY <1>1, <1>2, <1>3, Induction
<1> QED
  BY <1>1, <1>4 DEF P
-----------------------------------------------------------------------------
(* Decoding an encoding.                                                     *)

\* x, or an error.
Of(ok, x) == IF ok THEN {x} ELSE {}

LEMMA BeforeOf ==
  ASSUME NEW ok \in BOOLEAN, NEW x, NEW b
  PROVE  Before(b, Of(ok, x)) = Of(ok, <<b>> \o x)
<1>1. Before(b, {x}) = {<<b>> \o x}
  BY DEF Before
<1>2. Before(b, {}) = {}
  BY DEF Before
<1> QED
  BY <1>1, <1>2 DEF Of

LEMMA HexBeforeOf ==
  ASSUME NEW ok \in BOOLEAN, NEW x, NEW b \in Bytes, NEW c, NEW d,
         unhex(c) = {b \div 16}, unhex(d) = {b % 16}
  PROVE  HexBefore(c, d, Of(ok, x)) = Of(ok, <<b>> \o x)
<1>1. HexPut(b \div 16, b % 16, x) = <<b>> \o x
  <2>1. 16 * (b \div 16) + (b % 16) = b
    BY DEF Bytes
  <2> QED
    BY <2>1 DEF HexPut
<1>2. HexBefore(c, d, {x}) = {HexPut(b \div 16, b % 16, x)}
  <2>1. ASSUME NEW y \in HexBefore(c, d, {x})
        PROVE  y = HexPut(b \div 16, b % 16, x)
    <3>1. PICK hi \in unhex(c), lo \in unhex(d), rest \in {x} : y = HexPut(hi, lo, rest)
      BY DEF HexBefore
    <3>2. hi = b \div 16 /\ lo = b % 16 /\ rest = x
      OBVIOUS
    <3> QED
      BY <3>1, <3>2
  <2>2. HexPut(b \div 16, b % 16, x) \in HexBefore(c, d, {x})
    BY DEF HexBefore
  <2> QED
    BY <2>1, <2>2
<1>3. HexBefore(c, d, {}) = {}
  <2>1. ASSUME NEW y \in HexBefore(c, d, {})
        PROVE  FALSE
    <3>1. \E hi \in unhex(c), lo \in unhex(d), rest \in {} : y = HexPut(hi, lo, rest)
      BY DEF HexBefore
    <3> QED
      BY <3>1
  <2> QED
    BY <2>1
<1> QED
  BY <1>1, <1>2, <1>3 DEF Of

LEMMA SubSeqGrows ==
  ASSUME NEW S, NEW s \in Seq(S), NEW m, m \in 0..Len(s), NEW i, i \in 1..m
  PROVE  <<s[i]>> \o SubSeq(s, i + 1, m) = SubSeq(s, i, m)
<1> DEFINE u == <<s[i]>> \o SubSeq(s, i + 1, m)
           v == SubSeq(s, i, m)
<1>1. /\ u \in Seq(S) /\ v \in Seq(S)
      /\ Len(u) = m - i + 1 /\ Len(v) = m - i + 1
  OBVIOUS
<1>2. ASSUME NEW k \in 1..(m - i + 1)
      PROVE  u[k] = v[k]
  OBVIOUS
<1> HIDE DEF u, v
<1>3. u = v
  BY <1>1, <1>2, SeqEqual
<1> QED
  BY <1>3 DEF u, v

\* A text that starts with the encoding of the first m bytes of s decodes to
\* these bytes and what the rest decodes to, if nothing or an error.
LEMMA DecodePrefix ==
  ASSUME NEW s \in Seq(Bytes), NEW E, Encoding(s, E), NEW m, m \in 0..Len(s),
         NEW t \in Seq(Bytes), Begins(E[m], t), NEW D, Decoding(t, D),
         NEW ok \in BOOLEAN, D[Len(E[m]) + 1] = Of(ok, <<>>)
  PROVE  D[1] = Of(ok, SubSeq(s, 1, m))
<1> DEFINE P == {j \in 0..m : D[Len(E[m - j]) + 1] = Of(ok, SubSeq(s, m - j + 1, m))}
<1>0. m \in Nat /\ Len(s) \in Nat /\ Len(t) \in Nat
  OBVIOUS
<1>1. 0 \in P
  <2>1. SubSeq(s, m + 1, m) = <<>> /\ m - 0 = m /\ m - 0 + 1 = m + 1 /\ 0 \in 0..m
    BY <1>0
  <2> QED
    BY <2>1
<1>2. ASSUME NEW j \in 1..m, j - 1 \in P
      PROVE  j \in P
  <2> DEFINE i == m - j + 1
             a == Len(E[i - 1])
             c == s[i]
             x == SubSeq(s, i + 1, m)
  <2>1. i \in 1..m /\ i \in 1..Len(s) /\ m - j = i - 1 /\ m - (j - 1) = i /\ j \in 0..m
        /\ i - 1 \in 0..Len(s)
    BY <1>0
  <2>2. D[Len(E[i]) + 1] = Of(ok, x)
    BY <1>2, <2>1
  <2>3. <<c>> \o x = SubSeq(s, i, m)
    BY <2>1, SubSeqGrows
  <2> HIDE DEF P, i
  <2>4. c \in Bytes /\ Joins(E[i - 1], Code(c), E[i])
    BY <2>1, EncodingGrows
  <2>5. a \in Nat /\ Len(E[i]) = a + Len(Code(c))
    BY <2>1, <2>4, EncodingType DEF Joins
  <2>6. Begins(E[i], E[m])
    BY <2>1, EncodingPrefix
  <2> HIDE DEF a, c, x
  <2>7. /\ a + Len(Code(c)) <= Len(t)
        /\ \A k \in 1..Len(Code(c)) : t[a + k] = Code(c)[k]
    <3>1. /\ Len(E[m]) \in Nat /\ Len(E[i]) <= Len(E[m]) /\ Len(E[m]) <= Len(t)
          /\ Len(Code(c)) \in Nat
      <4>1. Code(c) \in Seq(Bytes)
        BY <2>4, CodeCases
      <4>2. Len(E[m]) \in Nat
        BY EncodingType
      <4> QED
        BY <2>6, <4>1, <4>2 DEF Begins
    <3>2. ASSUME NEW k \in 1..Len(Code(c))
          PROVE  t[a + k] = Code(c)[k]
      <4>1. a + k \in 1..Len(E[i]) /\ a + k \in 1..Len(E[m])
        BY <2>5, <3>1
      <4>2. E[i][a + k] = Code(c)[k]
        BY <2>4 DEF Joins, a
      <4>3. E[m][a + k] = E[i][a + k]
        BY <2>6, <4>1 DEF Begins
      <4>4. t[a + k] = E[m][a + k]
        BY <4>1 DEF Begins
      <4> QED
        BY <4>2, <4>3, <4>4
    <3> QED
      BY <2>5, <3>1, <3>2
  <2>8. D[a + 1] = DecodeAt(t, a + 1, D[a + 1 + 1], D[a + 1 + 3])
    <3>1. a + 1 \in 1..(Len(t) + 1)
      <4>1. Len(Code(c)) \in Nat
        BY <2>4, CodeCases
      <4> QED
        BY <2>5, <2>7, <4>1, <1>0
    <3> QED
      BY <3>1, Zenon DEF Decoding
  <2>9. CASE isUnreserved(c)
    <3>1. Len(Code(c)) = 1 /\ Code(c)[1] = c /\ c # Percent
      BY <2>4, <2>9, CodeCases
    <3>2. a + 1 <= Len(t) /\ t[a + 1] = c /\ a + 1 + 1 = Len(E[i]) + 1
      BY <2>5, <2>7, <3>1
    <3>3. D[a + 1] = Before(c, D[a + 1 + 1])
      BY <2>5, <2>8, <3>1, <3>2, DecodeAtCases
    <3>4. D[a + 1] = Of(ok, <<c>> \o x)
      BY <2>2, <3>2, <3>3, BeforeOf
    <3> QED
      BY <2>1, <2>3, <3>4 DEF P, a, c, x, i
  <2>10. CASE ~isUnreserved(c)
    <3>1. /\ Len(Code(c)) = 3 /\ Code(c)[1] = Percent
          /\ unhex(Code(c)[2]) = {c \div 16} /\ unhex(Code(c)[3]) = {c % 16}
      BY <2>4, <2>10, CodeCases
    <3>2. /\ a + 1 <= Len(t) /\ a + 1 + 2 <= Len(t) /\ t[a + 1] = Percent
          /\ t[a + 1 + 1] = Code(c)[2] /\ t[a + 1 + 2] = Code(c)[3]
          /\ a + 1 + 3 = Len(E[i]) + 1
      <4>1. 1 \in 1..3 /\ 2 \in 1..3 /\ 3 \in 1..3
        OBVIOUS
      <4> QED
        BY <1>0, <2>5, <2>7, <3>1, <4>1
    <3>3. D[a + 1] = HexBefore(Code(c)[2], Code(c)[3], D[a + 1 + 3])
      BY <2>5, <2>8, <3>2, DecodeAtCases
    <3>4. D[a + 1] = HexBefore(Code(c)[2], Code(c)[3], Of(ok, x))
      BY <2>2, <3>2, <3>3
    <3>5. HexBefore(Code(c)[2], Code(c)[3], Of(ok, x)) = Of(ok, <<c>> \o x)
      BY <2>4, <3>1, HexBeforeOf
    <3>6. D[a + 1] = Of(ok, <<c>> \o x)
      BY <3>4, <3>5
    <3> QED
      BY <2>1, <2>3, <3>6 DEF P, a, c, x, i
  <2> QED
    BY <2>9, <2>10
<1>3. m \in P
  <2> HIDE DEF P
  <2>1. 0..m \subseteq P
    BY <1>0, <1>1, <1>2, Induction
  <2> QED
    BY <1>0, <2>1
<1>4. m - m = 0 /\ m - m + 1 = 1 /\ E[0] = <<>> /\ Len(E[0]) + 1 = 1
  BY <1>0 DEF Encoding
<1> QED
  BY <1>3, <1>4

\* What the encoding of every string decodes to: the string, no more and no less.
LEMMA RoundTrip ==
  ASSUME NEW s, s \in Seq(Bytes)
  PROVE  /\ decodeComponent(encodeComponent(s)) = {s}
         /\ encodeComponent(s) \in Seq(Bytes)
         /\ Safe(encodeComponent(s))
<1> DEFINE n == Len(s)
<1>1. PICK E : Encoding(s, E) /\ encodeComponent(s) = E[n]
  BY EncodeUnfolds
<1>2. n \in 0..Len(s) /\ E[n] \in Seq(Bytes) /\ Len(E[n]) \in Nat
  BY <1>1, EncodingType
<1>3. PICK D : Decoding(E[n], D) /\ decodeComponent(E[n]) = D[1]
  BY <1>2, DecodeUnfolds
<1>4. Begins(E[n], E[n])
  BY <1>2 DEF Begins
<1>5. D[Len(E[n]) + 1] = Of(TRUE, <<>>)
  <2> DEFINE i == Len(E[n]) + 1
  <2>1. i \in 1..(Len(E[n]) + 1) /\ i > Len(E[n]) /\ i \in Int
    BY <1>2
  <2> HIDE DEF i
  <2>2. D[i] = DecodeAt(E[n], i, D[i + 1], D[i + 3])
    BY <1>3, <2>1, Zenon DEF Decoding
  <2>3. D[i] = {<<>>}
    BY <1>2, <2>1, <2>2, DecodeAtCases
  <2> QED
    BY <2>3 DEF i, Of
<1>6. D[1] = Of(TRUE, SubSeq(s, 1, n))
  <2> HIDE DEF n
  <2>1. PICK ok \in BOOLEAN : ok = TRUE
    OBVIOUS
  <2>2. D[Len(E[n]) + 1] = Of(ok, <<>>)
    BY <1>5, <2>1
  <2>3. D[1] = Of(ok, SubSeq(s, 1, n))
    BY <1>1, <1>2, <1>3, <1>4, <2>2, DecodePrefix
  <2> QED
    BY <2>1, <2>3
<1>7. SubSeq(s, 1, n) = s
  OBVIOUS
<1>8. Safe(E[n])
  BY <1>1, EncodingIsSafe
<1> QED
  BY <1>1, <1>2, <1>3, <1>6, <1>7, <1>8 DEF Of

\* Only the empty string has an empty encoding.
LEMMA EncodingOfEmpty ==
  ASSUME NEW s, s \in Seq(Bytes)
  PROVE  encodeComponent(s) = <<>> <=> s = <<>>
<1>1. PICK E : Encoding(s, E) /\ encodeComponent(s) = E[Len(s)]
  BY EncodeUnfolds
<1>2. CASE s = <<>>
  BY <1>1, <1>2 DEF Encoding
<1>3. CASE s # <<>>
  <2>1. Len(s) \in 1..Len(s)
    BY <1>3
  <2>2. s[Len(s)] \in Bytes /\ Joins(E[Len(s) - 1], Code(s[Len(s)]), E[Len(s)])
    BY <1>1, <2>1, EncodingGrows
  <2>3. Len(Code(s[Len(s)])) \in {1, 3}
    BY <2>2, CodeCases
  <2>4. Len(E[Len(s)]) # 0
    <3>1. ASSUME NEW u, NEW v, NEW w, Joins(u, v, w), Len(v) \in {1, 3}
          PROVE  Len(w) # 0
      <4>1. u \in Seq(Bytes) /\ Len(w) = Len(u) + Len(v)
        BY <3>1 DEF Joins
      <4>2. Len(u) \in Nat
        BY <4>1
      <4>3. CASE Len(v) = 1
        BY <4>1, <4>2, <4>3
      <4>4. CASE Len(v) = 3
        BY <4>1, <4>2, <4>4
      <4> QED
        BY <3>1, <4>3, <4>4
    <3> QED
      BY <2>2, <2>3, <3>1
  <2> QED
    BY <1>1, <1>3, <2>4
<1> QED
  BY <1>2, <1>3

\* t is w without its last byte.
CutOf(w, t) ==
  /\ w \in Seq(Bytes) /\ t \in Seq(Bytes)
  /\ Len(w) = Len(t) + 1
  /\ \A k \in 1..Len(t) : t[k] = w[k]

LEMMA CutIsSubSeq ==
  ASSUME NEW w, w \in Seq(Bytes), w # <<>>
  PROVE  CutOf(w, ButLast(w))
<1> DEFINE n == Len(w) - 1
           t == SubSeq(w, 1, n)
<1>1. n \in Nat /\ n + 1 = Len(w)
  BY EmptySeq
<1>2. t \in Seq(Bytes) /\ Len(t) = n /\ \A k \in 1..n : t[k] = w[k]
  BY <1>1, SubSeqProperties
<1> HIDE DEF t
<1>3. CutOf(w, t)
  BY <1>1, <1>2 DEF CutOf
<1> QED
  BY <1>3 DEF t, ButLast

\* Without its last byte the code of a byte is nothing or half a triplet.
LEMMA CutCode ==
  ASSUME NEW c, c \in Bytes, NEW u, NEW w, Joins(u, Code(c), w), NEW t, CutOf(w, t)
  PROVE  /\ Begins(u, t)
         /\ Len(u) + 1 \in 1..(Len(t) + 1)
         /\ isUnreserved(c) => Len(u) + 1 > Len(t)
         /\ ~isUnreserved(c) => /\ Len(u) + 1 <= Len(t) /\ Len(u) + 1 + 2 > Len(t)
                               /\ t[Len(u) + 1] = Percent
<1>1. /\ Len(u) \in Nat /\ Len(t) \in Nat
      /\ Len(t) = Len(u) + Len(Code(c)) - 1
      /\ \A k \in 1..Len(t) : t[k] = w[k]
      /\ \A k \in 1..Len(u) : w[k] = u[k]
      /\ \A k \in 1..Len(Code(c)) : w[Len(u) + k] = Code(c)[k]
  <2>1. /\ u \in Seq(Bytes) /\ w \in Seq(Bytes) /\ Code(c) \in Seq(Bytes)
        /\ Len(w) = Len(u) + Len(Code(c))
        /\ \A k \in 1..Len(u) : w[k] = u[k]
        /\ \A k \in 1..Len(Code(c)) : w[Len(u) + k] = Code(c)[k]
    BY DEF Joins
  <2>2. /\ t \in Seq(Bytes) /\ Len(w) = Len(t) + 1
        /\ \A k \in 1..Len(t) : t[k] = w[k]
    BY DEF CutOf
  <2> QED
    BY <2>1, <2>2
<1>2. CASE isUnreserved(c)
  <2>0. Len(Code(c)) = 1
    BY <1>2, CodeCases
  <2>1. Len(t) = Len(u)
    BY <1>1, <2>0
  <2> QED
    BY <1>1, <1>2, <2>1 DEF Begins
<1>3. CASE ~isUnreserved(c)
  <2>0. Len(Code(c)) = 3 /\ Code(c)[1] = Percent
    BY <1>3, CodeCases
  <2>1. Len(t) = Len(u) + 2
    BY <1>1, <2>0
  <2>2. t[Len(u) + 1] = Percent
    BY <1>1, <2>0, <2>1
  <2> QED
    BY <1>1, <1>3, <2>1, <2>2 DEF Begins
<1> QED
  BY <1>2, <1>3

\* An encoding without its last byte decodes to the string without its last
\* byte, or it is refused: a triplet may have been cut.
LEMMA CutComponent ==
  ASSUME NEW s, s \in Seq(Bytes), s # <<>>, NEW t, CutOf(encodeComponent(s), t)
  PROVE  \E ok \in BOOLEAN : decodeComponent(t) = Of(ok, ButLast(s))
<1> DEFINE n == Len(s)
           m == n - 1
           c == s[n]
<1>1. PICK E : Encoding(s, E) /\ encodeComponent(s) = E[n]
  BY EncodeUnfolds
<1>2. n \in 1..n /\ m \in 0..n /\ n \in 0..n /\ m = n - 1 /\ n = Len(s)
  OBVIOUS
<1> HIDE DEF n, m
<1>3. c \in Bytes /\ Joins(E[m], Code(c), E[n])
  BY <1>1, <1>2, EncodingGrows
<1> HIDE DEF c
<1> DEFINE i == Len(E[m]) + 1
<1>4. /\ t \in Seq(Bytes) /\ E[m] \in Seq(Bytes) /\ Begins(E[m], t)
      /\ i \in 1..(Len(t) + 1)
      /\ isUnreserved(c) => i > Len(t)
      /\ ~isUnreserved(c) => i <= Len(t) /\ i + 2 > Len(t) /\ t[i] = Percent
  <2>1. CutOf(E[n], t)
    BY <1>1
  <2>2. t \in Seq(Bytes) /\ E[m] \in Seq(Bytes)
    BY <1>3, <2>1 DEF CutOf, Joins
  <2> QED
    BY <1>3, <2>1, <2>2, CutCode
<1>5. PICK D : Decoding(t, D) /\ decodeComponent(t) = D[1]
  BY <1>4, DecodeUnfolds
<1> HIDE DEF i
<1>6. D[i] = DecodeAt(t, i, D[i + 1], D[i + 3])
  BY <1>4, <1>5, Zenon DEF Decoding
<1>7. i \in Int
  BY <1>4
<1>8. PICK ok \in BOOLEAN : D[i] = Of(ok, <<>>)
  <2>1. CASE isUnreserved(c)
    <3>1. D[i] = {<<>>}
      BY <1>4, <1>6, <1>7, <2>1, DecodeAtCases
    <3> QED
      BY <3>1 DEF Of
  <2>2. CASE ~isUnreserved(c)
    <3>1. D[i] = {}
      BY <1>4, <1>6, <1>7, <2>2, DecodeAtCases
    <3> QED
      BY <3>1 DEF Of
  <2> QED
    BY <2>1, <2>2
<1>9. D[1] = Of(ok, SubSeq(s, 1, m))
  <2>1. D[Len(E[m]) + 1] = Of(ok, <<>>)
    BY <1>8 DEF i
  <2>2. m \in 0..Len(s)
    BY <1>2
  <2> QED
    BY <1>1, <1>4, <1>5, <2>1, <2>2, DecodePrefix
<1> QED
  BY <1>2, <1>5, <1>9 DEF ButLast

-----------------------------------------------------------------------------
(* Ports.                                                                    *)

\* A digit is appended to the decimal of the number without its last digit.
DecimalAt(k, before) == IF k < 10 THEN <<48 + k>> ELSE before \o <<48 + (k % 10)>>

\* f[k] is the decimal of k.
Decimals(n, f) == \A k \in 0..n : f[k] = DecimalAt(k, f[k \div 10])

LEMMA DecimalExists ==
  ASSUME NEW n, n \in Nat
  PROVE  \E f : f = [k \in 0..n |-> DecimalAt(k, f[k \div 10])]
<1> DEFINE S == Seq(Digits)
           H == [k \in 0..n |-> [g \in [0..(k - 1) -> S] |-> DecimalAt(k, g[k \div 10])]]
<1>1. ASSUME NEW k \in 0..n
      PROVE  /\ k < 10 => \A b : DecimalAt(k, b) = <<48 + k>>
             /\ k < 10 => \A b : DecimalAt(k, b) \in S
             /\ ~(k < 10) => /\ k \div 10 \in 0..(k - 1)
                            /\ \A b \in S : DecimalAt(k, b) \in S
  <2>1. k < 10 => <<48 + k>> \in S
    BY DEF Digits
  <2>2. ASSUME NEW b \in S
        PROVE  b \o <<48 + (k % 10)>> \in S
    <3>1. 48 + (k % 10) \in Digits
      BY DEF Digits
    <3>2. <<48 + (k % 10)>> \in S
      BY <3>1
    <3> QED
      BY <3>2
  <2>3. ~(k < 10) => k \div 10 \in 0..(k - 1)
    OBVIOUS
  <2> HIDE DEF S
  <2> QED
    BY <2>1, <2>2, <2>3, Zenon DEF DecimalAt
<1>2. PICK f : ByRecursion(f, H, n, S)
  <2>1. ASSUME NEW k \in 0..n
        PROVE  H[k] \in [[0..(k - 1) -> S] -> S]
    <3>1. ASSUME NEW g \in [0..(k - 1) -> S]
          PROVE  DecimalAt(k, g[k \div 10]) \in S
      <4> HIDE DEF S
      <4> QED
        BY <1>1
    <3> HIDE DEF S
    <3> QED
      BY <3>1
  <2>2. Steps(H, n, S)
    <3> HIDE DEF H
    <3> QED
      BY <2>1, Zenon DEF Steps
  <2> HIDE DEF H, S
  <2> QED
    BY <2>2, CourseOfValues
<1>3. ASSUME NEW k \in 0..n
      PROVE  f[k] = DecimalAt(k, f[k \div 10])
  <2> DEFINE g == Below(f, k)
  <2>1. g \in [0..(k - 1) -> S]
    <3> HIDE DEF H, S
    <3> QED
      BY <1>2, BelowType
  <2>2. f[k] = H[k][g]
    <3> HIDE DEF H, S
    <3> QED
      BY <1>2, Zenon DEF ByRecursion
  <2>3. \A j \in 0..(k - 1) : g[j] = f[j]
    BY DEF Below
  <2> HIDE DEF g
  <2>4. f[k] = DecimalAt(k, g[k \div 10])
    <3> HIDE DEF S
    <3> QED
      BY <2>1, <2>2
  <2>5. CASE k < 10
    BY <1>1, <2>4, <2>5
  <2>6. CASE ~(k < 10)
    BY <1>1, <2>3, <2>4, <2>6
  <2> QED
    BY <2>5, <2>6
<1>4. DOMAIN f = 0..n /\ f = [k \in DOMAIN f |-> f[k]]
  <2> HIDE DEF H, S
  <2> QED
    BY <1>2 DEF ByRecursion
<1>5. f = [k \in 0..n |-> DecimalAt(k, f[k \div 10])]
  BY <1>3, <1>4
<1> QED
  BY <1>5

LEMMA DecimalUnfolds ==
  ASSUME NEW n, n \in Nat
  PROVE  \E f : Decimals(n, f) /\ Decimal(n) = f[n]
<1> DEFINE Dec(f) == f = [k \in 0..n |-> DecimalAt(k, f[k \div 10])]
           f == CHOOSE g : Dec(g)
<1>1. Decimal(n) = f[n]
  BY DEF Decimal, DecimalAt
<1>2. Dec(f)
  <2>1. \E g : Dec(g)
    BY DecimalExists
  <2> HIDE DEF Dec
  <2> QED
    BY <2>1, Zenon
<1> HIDE DEF f
<1>3. Decimals(n, f)
  BY <1>2 DEF Decimals
<1> QED
  BY <1>1, <1>3

\* V[i] is the number the first i digits of s stand for.
Values(s, V) ==
  /\ V \in [0..Len(s) -> Int]
  /\ V[0] = 0
  /\ \A i \in 1..Len(s) : V[i] = 10 * V[i - 1] + s[i] - 48

\* s is a numeral of n.
Numeral(s, n) ==
  s \in Seq(Digits) /\ Len(s) \in Nat \ {0} /\ \E V : Values(s, V) /\ V[Len(s)] = n

LEMMA OneDigit ==
  ASSUME NEW k, k \in 0..9
  PROVE  Numeral(<<48 + k>>, k)
<1> DEFINE s == <<48 + k>>
           V == [i \in 0..1 |-> IF i = 0 THEN 0 ELSE k]
<1>1. s \in Seq(Digits) /\ Len(s) = 1 /\ s[1] = 48 + k
  BY DEF Digits
<1>2. V \in [0..1 -> Int] /\ V[0] = 0 /\ V[1] = k
  OBVIOUS
<1> HIDE DEF s, V
<1>3. \A i \in 1..1 : V[i] = 10 * V[i - 1] + s[i] - 48
  BY <1>1, <1>2
<1>4. Values(s, V)
  BY <1>1, <1>2, <1>3 DEF Values
<1>5. Numeral(s, k)
  BY <1>1, <1>2, <1>4 DEF Numeral
<1> QED
  BY <1>5 DEF s

LEMMA MoreDigits ==
  ASSUME NEW s, NEW n, n \in Nat, Numeral(s, n), NEW k, k \in 0..9
  PROVE  Numeral(s \o <<48 + k>>, 10 * n + k)
<1>1. PICK V : Values(s, V) /\ V[Len(s)] = n
  BY DEF Numeral
<1> DEFINE l == Len(s)
           t == s \o <<48 + k>>
           W == [i \in 0..(l + 1) |-> IF i = l + 1 THEN 10 * n + k ELSE V[i]]
<1>2. s \in Seq(Digits) /\ l \in Nat \ {0}
  BY DEF Numeral
<1>3. 48 + k \in Digits
  BY DEF Digits
<1>4. /\ t \in Seq(Digits) /\ Len(t) = l + 1 /\ t[l + 1] = 48 + k
      /\ \A i \in 1..l : t[i] = s[i]
  <2>1. <<48 + k>> \in Seq(Digits) /\ Len(<<48 + k>>) = 1 /\ <<48 + k>>[1] = 48 + k
    BY <1>3
  <2> QED
    BY <1>2, <2>1, ConcatProperties
<1>5. V \in [0..l -> Int] /\ V[0] = 0 /\ \A i \in 1..l : V[i] = 10 * V[i - 1] + s[i] - 48
  BY <1>1 DEF Values
<1> HIDE DEF l, t
<1>6. /\ W \in [0..(l + 1) -> Int] /\ W[l + 1] = 10 * n + k
      /\ \A i \in 0..l : W[i] = V[i]
  BY <1>2, <1>5
<1>7. V[l] = n
  BY <1>1 DEF l
<1> HIDE DEF W
<1>8. ASSUME NEW i \in 1..(l + 1)
      PROVE  W[i] = 10 * W[i - 1] + t[i] - 48
  <2>1. CASE i = l + 1
    <3>1. i - 1 = l /\ l \in 0..l
      BY <1>2, <2>1
    <3>2. W[i - 1] = n /\ W[i] = 10 * n + k /\ t[i] = 48 + k
      BY <1>4, <1>6, <1>7, <2>1, <3>1
    <3> QED
      BY <3>2
  <2>2. CASE i # l + 1
    <3>1. i \in 1..l /\ i \in 0..l /\ i - 1 \in 0..l
      BY <1>2, <2>2
    <3> QED
      BY <1>4, <1>5, <1>6, <3>1
  <2> QED
    BY <2>1, <2>2
<1>9. W[0] = 0
  BY <1>2, <1>5, <1>6
<1>10. Values(t, W)
  BY <1>4, <1>6, <1>8, <1>9 DEF Values
<1>11. Numeral(t, 10 * n + k)
  BY <1>2, <1>4, <1>6, <1>10 DEF Numeral
<1> QED
  BY <1>11 DEF t

\* Decimal writes a numeral.
LEMMA DecimalIsNumeral ==
  ASSUME NEW n, n \in Nat
  PROVE  Numeral(Decimal(n), n)
<1>1. PICK f : Decimals(n, f) /\ Decimal(n) = f[n]
  BY DecimalUnfolds
<1> DEFINE P == {k \in 0..n : Numeral(f[k], k)}
<1>2. ASSUME NEW k \in 0..n, \A j \in 0..(k - 1) : j \in P
      PROVE  k \in P
  <2>1. f[k] = DecimalAt(k, f[k \div 10])
    BY <1>1, Zenon DEF Decimals
  <2>2. CASE k < 10
    <3>1. f[k] = <<48 + k>> /\ k \in 0..9
      BY <2>1, <2>2 DEF DecimalAt
    <3> QED
      BY <3>1, OneDigit
  <2>3. CASE ~(k < 10)
    <3> DEFINE q == k \div 10
               r == k % 10
    <3>1. q \in 0..(k - 1) /\ q \in Nat /\ r \in 0..9 /\ 10 * q + r = k
      BY <2>3
    <3>2. f[k] = f[q] \o <<48 + r>>
      BY <2>1, <2>3, Zenon DEF DecimalAt
    <3> HIDE DEF q, r
    <3>3. Numeral(f[q], q)
      BY <1>2, <3>1
    <3>4. Numeral(f[q] \o <<48 + r>>, 10 * q + r)
      BY <3>1, <3>3, MoreDigits
    <3> QED
      BY <3>1, <3>2, <3>4
  <2> QED
    BY <2>2, <2>3
<1>3. n \in P
  <2> HIDE DEF P
  <2>1. 0..n \subseteq P
    BY <1>2, StrongInduction
  <2> QED
    BY <2>1
<1> QED
  BY <1>1, <1>3

\* A numeral is read as its number.
LEMMA ScanNumeral ==
  ASSUME NEW s, NEW n, Numeral(s, n)
  PROVE  ScanInt(s) = {n}
<1> DEFINE l == Len(s)
           Val(f) == f = [i \in 0..l |-> IF i = 0 THEN 0 ELSE 10 * f[i - 1] + s[i] - 48]
           val == CHOOSE f : Val(f)
           lengths == {m \in 1..l : \A i \in 1..m : s[i] \in Digits}
<1>1. ScanInt(s) = {val[m] : m \in {x \in lengths : \A k \in lengths : k <= x}}
  BY DEF ScanInt
<1>2. l \in Nat \ {0} /\ \A i \in 1..l : s[i] \in Digits
  BY DEF Numeral
<1>3. PICK V : Values(s, V) /\ V[l] = n
  BY DEF Numeral
<1>4. V \in [0..l -> Int] /\ V[0] = 0 /\ \A i \in 1..l : V[i] = 10 * V[i - 1] + s[i] - 48
  BY <1>3 DEF Values
<1> HIDE DEF l
<1>5. Val(val)
  <2>1. \A i \in 0..l : V[i] = IF i = 0 THEN 0 ELSE 10 * V[i - 1] + s[i] - 48
    <3>1. \A i \in 0..l : i # 0 => i \in 1..l
      BY <1>2
    <3> QED
      BY <1>4, <3>1, Zenon
  <2>2. Val(V)
    BY <1>4, <2>1
  <2> HIDE DEF Val
  <2> QED
    BY <2>2, Zenon
<1> HIDE DEF val
<1> DEFINE P == {i \in 0..l : val[i] = V[i]}
<1>6. 0 \in P
  BY <1>2, <1>4, <1>5
<1>7. ASSUME NEW i \in 1..l, i - 1 \in P
      PROVE  i \in P
  <2>1. i \in 0..l /\ i # 0
    BY <1>2
  <2>2. val[i] = 10 * val[i - 1] + s[i] - 48
    BY <1>5, <2>1, Zenon
  <2> QED
    BY <1>4, <1>7, <2>1, <2>2
<1>8. val[l] = n
  <2> HIDE DEF P
  <2>1. 0..l \subseteq P
    BY <1>2, <1>6, <1>7, Induction
  <2> QED
    BY <1>2, <1>3, <2>1 DEF P
<1>9. lengths = 1..l
  BY <1>2
<1> HIDE DEF lengths
<1>10. {x \in lengths : \A k \in lengths : k <= x} = {l}
  BY <1>2, <1>9
<1> QED
  BY <1>1, <1>8, <1>10

-----------------------------------------------------------------------------
(* Addresses.                                                                *)

LEMMA LastIndexIs ==
  ASSUME NEW a, NEW c, NEW i, i \in DOMAIN a, a[i] = c, DOMAIN a \subseteq Int,
         \A j \in DOMAIN a : a[j] = c => j <= i
  PROVE  Has(a, c) /\ LastIndex(a, c) = i
<1> DEFINE Q(x) == x \in DOMAIN a /\ a[x] = c /\ \A j \in DOMAIN a : a[j] = c => j <= x
<1>1. LastIndex(a, c) = CHOOSE x : Q(x)
  BY DEF LastIndex
<1>2. Q(CHOOSE x : Q(x))
  <2>1. Q(i)
    OBVIOUS
  <2> HIDE DEF Q
  <2> QED
    BY <2>1, Zenon
<1>3. LastIndex(a, c) <= i /\ i <= LastIndex(a, c) /\ LastIndex(a, c) \in Int /\ i \in Int
  BY <1>1, <1>2
<1> QED
  BY <1>3 DEF Has

\* a is the host h, a colon and the port d.
HostPort(h, d, a) ==
  /\ h \in Seq(Bytes) /\ d \in Seq(Bytes) \cap Seq(Digits) /\ a \in Seq(Bytes)
  /\ Len(a) = Len(h) + 1 + Len(d)
  /\ \A k \in 1..Len(h) : a[k] = h[k]
  /\ a[Len(h) + 1] = Colon
  /\ \A k \in 1..Len(d) : a[Len(h) + 1 + k] = d[k]

LEMMA HostPortIs ==
  ASSUME NEW h, h \in Seq(Bytes), NEW d, d \in Seq(Digits)
  PROVE  HostPort(h, d, h \o <<Colon>> \o d)
<1> DEFINE x == h \o <<Colon>>
           a == x \o d
<1>1. <<Colon>> \in Seq(Bytes) /\ Len(<<Colon>>) = 1 /\ <<Colon>>[1] = Colon
  BY DEF Colon, Bytes
<1>2. d \in Seq(Bytes)
  <2>1. \A b \in Digits : b \in Bytes
    BY DEF Digits, Bytes
  <2> QED
    BY <2>1, ElementOfSeq, SeqDef
<1>3. /\ x \in Seq(Bytes) /\ Len(x) = Len(h) + 1
      /\ \A k \in 1..Len(h) : x[k] = h[k]
      /\ x[Len(h) + 1] = Colon
  BY <1>1, ConcatProperties
<1> HIDE DEF x
<1>4. /\ a \in Seq(Bytes) /\ Len(a) = Len(x) + Len(d)
      /\ \A k \in 1..Len(x) : a[k] = x[k]
      /\ \A k \in 1..Len(d) : a[Len(x) + k] = d[k]
  BY <1>2, <1>3, ConcatJoins DEF Joins
<1> HIDE DEF a
<1>5. Len(h) \in Nat /\ Len(d) \in Nat
  OBVIOUS
<1>6. HostPort(h, d, a)
  BY <1>2, <1>3, <1>4, <1>5 DEF HostPort
<1> QED
  BY <1>6 DEF a, x

\* The port is after the last colon, and what is before it is the host.
LEMMA SplitPlain ==
  ASSUME NEW h, NEW d, NEW a, HostPort(h, d, a), h # <<>>, Head(h) # Open
  PROVE  splitHostPort(a) = {[host |-> h, port |-> d]}
<1>1. /\ h \in Seq(Bytes) /\ d \in Seq(Bytes) \cap Seq(Digits) /\ a \in Seq(Bytes)
      /\ Len(a) = Len(h) + 1 + Len(d)
      /\ \A k \in 1..Len(h) : a[k] = h[k]
      /\ a[Len(h) + 1] = Colon
      /\ \A k \in 1..Len(d) : a[Len(h) + 1 + k] = d[k]
  BY DEF HostPort
<1> DEFINE n == Len(h)
           i == n + 1
<1>2. n \in Nat \ {0} /\ Len(d) \in Nat /\ n # 0
  BY <1>1, EmptySeq
<1>3. a # <<>> /\ Head(a) # Open
  BY <1>1, <1>2
<1>4. Has(a, Colon) /\ LastIndex(a, Colon) = i
  <2>1. i \in DOMAIN a /\ a[i] = Colon /\ DOMAIN a \subseteq Int
    BY <1>1, <1>2
  <2>2. ASSUME NEW j \in DOMAIN a, a[j] = Colon
        PROVE  j <= i
    <3>1. SUFFICES ASSUME ~(j <= i)
                   PROVE  FALSE
      OBVIOUS
    <3>2. j - i \in 1..Len(d) /\ i + (j - i) = j
      <4>1. j \in 1..Len(a) /\ i \in Nat /\ Len(a) = i + Len(d)
        BY <1>1, <1>2
      <4> HIDE DEF i
      <4> QED
        BY <1>2, <3>1, <4>1
    <3>3. a[j] = d[j - i] /\ d[j - i] \in Digits
      BY <1>1, <3>2
    <3> QED
      BY <2>2, <3>3 DEF Digits, Colon
  <2> HIDE DEF i
  <2> QED
    BY <2>1, <2>2, LastIndexIs
<1>5. SubSeq(a, 1, i - 1) = h
  <2>1. SubSeq(a, 1, i - 1) \in Seq(Bytes) /\ Len(SubSeq(a, 1, i - 1)) = n
        /\ \A k \in 1..n : SubSeq(a, 1, i - 1)[k] = h[k]
    BY <1>1, <1>2
  <2> QED
    BY <1>1, <2>1, SeqEqual
<1>6. SubSeq(a, i + 1, Len(a)) = d
  <2> DEFINE r == SubSeq(a, i + 1, Len(a))
  <2>1. r \in Seq(Bytes) /\ Len(r) = Len(d)
    BY <1>1, <1>2
  <2>2. ASSUME NEW k \in 1..Len(d)
        PROVE  r[k] = d[k]
    BY <1>1, <1>2
  <2> HIDE DEF r
  <2>3. r = d
    BY <1>1, <2>1, <2>2, SeqEqual
  <2> QED
    BY <2>3 DEF r
<1> HIDE DEF i, n
<1> QED
  BY <1>3, <1>4, <1>5, <1>6 DEF splitHostPort

InBrackets(ip, h) == h = <<Open>> \o ip \o <<Shut>>

\* In brackets the host is all of what they hold.
LEMMA SplitBracketed ==
  ASSUME NEW ip, ip \in Seq(Bytes), NEW h, InBrackets(ip, h),
         NEW d, NEW a, HostPort(h, d, a)
  PROVE  splitHostPort(a) = {[host |-> ip, port |-> d]}
<1>1. /\ h \in Seq(Bytes) /\ d \in Seq(Bytes) \cap Seq(Digits) /\ a \in Seq(Bytes)
      /\ Len(a) = Len(h) + 1 + Len(d)
      /\ \A k \in 1..Len(h) : a[k] = h[k]
      /\ a[Len(h) + 1] = Colon
      /\ \A k \in 1..Len(d) : a[Len(h) + 1 + k] = d[k]
  BY DEF HostPort
<1> DEFINE n == Len(ip)
           i == n + 2
           rest == SubSeq(a, i + 1, Len(a))
<1>2. n \in Nat /\ Len(d) \in Nat
  BY <1>1
<1>3. /\ Len(h) = i /\ h[1] = Open /\ h[i] = Shut
      /\ \A k \in 1..n : h[1 + k] = ip[k]
  <2> DEFINE x == <<Open>> \o ip
  <2>1. /\ <<Open>> \in Seq(Bytes) /\ Len(<<Open>>) = 1 /\ <<Open>>[1] = Open
        /\ <<Shut>> \in Seq(Bytes) /\ Len(<<Shut>>) = 1 /\ <<Shut>>[1] = Shut
    BY DEF Open, Shut, Bytes
  <2>2. x \in Seq(Bytes) /\ Len(x) = 1 + n /\ x[1] = Open /\ \A k \in 1..n : x[1 + k] = ip[k]
    BY <2>1, ConcatProperties
  <2> HIDE DEF x
  <2>3. /\ Len(x \o <<Shut>>) = Len(x) + 1
        /\ \A k \in 1..Len(x) : (x \o <<Shut>>)[k] = x[k]
        /\ (x \o <<Shut>>)[Len(x) + 1] = Shut
    BY <2>1, <2>2, ConcatProperties
  <2>4. h = x \o <<Shut>>
    BY DEF x, InBrackets
  <2> QED
    BY <1>2, <2>2, <2>3, <2>4
<1>4. a # <<>> /\ Head(a) = Open
  <2>0. 1 \in 1..Len(h)
    BY <1>2, <1>3
  <2>1. Len(a) = i + 1 + Len(d) /\ a[1] = Open
    BY <1>1, <1>3, <2>0
  <2>2. Len(a) # 0
    BY <1>2, <2>1
  <2> QED
    BY <1>1, <2>1, <2>2
<1>5. Has(a, Shut) /\ LastIndex(a, Shut) = i
  <2>1. i \in DOMAIN a /\ a[i] = Shut /\ DOMAIN a \subseteq Int
    BY <1>1, <1>2, <1>3
  <2>2. ASSUME NEW j \in DOMAIN a, a[j] = Shut
        PROVE  j <= i
    <3>1. SUFFICES ASSUME ~(j <= i)
                   PROVE  FALSE
      OBVIOUS
    <3>2. CASE j = i + 1
      BY <1>1, <1>3, <2>2, <3>2 DEF Shut, Colon
    <3>3. CASE j # i + 1
      <4>1. j - i - 1 \in 1..Len(d) /\ i + 1 + (j - i - 1) = j
        <5>1. j \in 1..Len(a) /\ i \in Nat /\ Len(a) = i + 1 + Len(d)
          BY <1>1, <1>2, <1>3
        <5> HIDE DEF i
        <5> QED
          BY <1>2, <3>1, <3>3, <5>1
      <4>2. a[j] = d[j - i - 1] /\ d[j - i - 1] \in Digits
        BY <1>1, <1>3, <4>1
      <4> QED
        BY <2>2, <4>2 DEF Digits, Shut
    <3> QED
      BY <3>2, <3>3
  <2> HIDE DEF i
  <2> QED
    BY <2>1, <2>2, LastIndexIs
<1>6. SubSeq(a, 2, i - 1) = ip
  <2> DEFINE r == SubSeq(a, 2, i - 1)
  <2>1. r \in Seq(Bytes) /\ Len(r) = n
    BY <1>1, <1>2, <1>3
  <2>2. ASSUME NEW k \in 1..n
        PROVE  r[k] = ip[k]
    <3>1. r[k] = a[1 + k] /\ 1 + k \in 1..Len(h)
      BY <1>1, <1>2, <1>3
    <3> HIDE DEF r
    <3> QED
      BY <1>1, <1>3, <3>1
  <2> HIDE DEF r
  <2>3. r = ip
    BY <2>1, <2>2, SeqEqual
  <2> QED
    BY <2>3 DEF r
<1>7. rest # <<>> /\ Head(rest) = Colon /\ Tail(rest) = d
  <2>1. /\ rest \in Seq(Bytes) /\ Len(rest) = 1 + Len(d)
        /\ rest[1] = Colon
    BY <1>1, <1>2, <1>3
  <2>2. ASSUME NEW k \in 1..Len(d)
        PROVE  rest[1 + k] = d[k]
    BY <1>1, <1>2, <1>3
  <2> HIDE DEF rest
  <2>3. rest # <<>> /\ Head(rest) = Colon
    BY <1>2, <2>1
  <2>4. /\ Tail(rest) \in Seq(Bytes) /\ Len(Tail(rest)) = Len(d)
        /\ \A k \in 1..Len(d) : Tail(rest)[k] = d[k]
    BY <1>2, <2>1, <2>2, <2>3
  <2>5. Tail(rest) = d
    BY <1>1, <2>4, SeqEqual
  <2> QED
    BY <2>3, <2>5
<1>8. splitHostPort(a) = IF rest = <<>> \/ Head(rest) # Colon THEN {}
                         ELSE {[host |-> SubSeq(a, 2, i - 1), port |-> Tail(rest)]}
  <2> HIDE DEF i
  <2> QED
    BY <1>4, <1>5 DEF splitHostPort
<1> HIDE DEF i, rest
<1> QED
  BY <1>6, <1>7, <1>8

\* The host and the port that were encoded.
LEMMA SplitAddress ==
  ASSUME NEW ip, ip \in Seq(Bytes), ip # <<>>, Head(ip) # Open, NEW d, d \in Seq(Digits)
  PROVE  splitHostPort(Bracketed(ip) \o <<Colon>> \o d) = {[host |-> ip, port |-> d]}
<1>1. CASE Has(ip, Colon)
  <2> DEFINE h == <<Open>> \o ip \o <<Shut>>
  <2>1. Bracketed(ip) = h
    BY <1>1 DEF Bracketed
  <2>2. h \in Seq(Bytes)
    BY DEF Open, Shut, Bytes
  <2>3. HostPort(h, d, h \o <<Colon>> \o d)
    <3> HIDE DEF h
    <3> QED
      BY <2>2, HostPortIs
  <2>4. splitHostPort(h \o <<Colon>> \o d) = {[host |-> ip, port |-> d]}
    BY <2>3, SplitBracketed DEF InBrackets
  <2> QED
    BY <2>1, <2>4
<1>2. CASE ~Has(ip, Colon)
  <2>1. Bracketed(ip) = ip
    BY <1>2 DEF Bracketed
  <2> QED
    BY <2>1, HostPortIs, SplitPlain
<1> QED
  BY <1>1, <1>2

-----------------------------------------------------------------------------
(* Payloads.                                                                 *)

\* A payload Encode accepts, for a host that is no bracketed literal already.
Complete(p) ==
  /\ p \in [ip : Seq(Bytes), port : Nat, id : Seq(Bytes), name : Seq(Bytes),
            app : Seq(Bytes), fp : Seq(Bytes), token : Seq(Bytes)]
  /\ p.ip # <<>> /\ Head(p.ip) # Open
  /\ p.port # 0
  /\ \A k \in Required : p[k] # <<>>

LEMMA ParamFacts ==
  /\ DOMAIN canonicalParamOrder = 1..5
  /\ \A i, j \in 1..5 : canonicalParamOrder[i] = canonicalParamOrder[j] => i = j
  /\ Params = {"id", "name", "app", "fp", "token"}
  /\ \A i \in 1..5 : canonicalParamOrder[i] \in Params
  /\ Required \subseteq Params
  /\ "lang" \notin Params
<1>1. /\ DOMAIN canonicalParamOrder = 1..5
      /\ canonicalParamOrder[1] = "id" /\ canonicalParamOrder[2] = "name"
      /\ canonicalParamOrder[3] = "app" /\ canonicalParamOrder[4] = "fp"
      /\ canonicalParamOrder[5] = "token"
  BY DEF canonicalParamOrder
<1>2. 1..5 = {1, 2, 3, 4, 5}
  OBVIOUS
<1>3. Params = {"id", "name", "app", "fp", "token"}
  BY <1>1, <1>2 DEF Params
<1>4. \A i, j \in 1..5 : canonicalParamOrder[i] = canonicalParamOrder[j] => i = j
  BY <1>1, <1>2
<1>5. \A i \in 1..5 : canonicalParamOrder[i] \in Params
  BY <1>1 DEF Params
<1> QED
  BY <1>1, <1>3, <1>4, <1>5 DEF Required

LEMMA CompleteFields ==
  ASSUME NEW p, Complete(p)
  PROVE  /\ p.ip \in Seq(Bytes) /\ p.port \in Nat /\ p.port # 0
         /\ \A k \in Params : p[k] \in Seq(Bytes)
         /\ DOMAIN p = {"ip", "port"} \cup Params
BY ParamFacts DEF Complete

\* The URI of a payload.
URI(p) ==
  [authority |-> Bracketed(p.ip) \o <<Colon>> \o Decimal(p.port),
   params |-> [i \in DOMAIN canonicalParamOrder |->
                 [key |-> canonicalParamOrder[i],
                  value |-> encodeComponent(p[canonicalParamOrder[i]])]]]

LEMMA EncodeIsURI == ASSUME NEW p, Complete(p) PROVE Encode(p) = {URI(p)}
<1>1. ~(p.ip = <<>> \/ p.port = 0 \/ \E k \in Required : p[k] = <<>>)
  BY DEF Complete
<1> QED
  BY <1>1, Zenon DEF Encode, URI

LEMMA OrderFacts ==
  ASSUME NEW o, o \in Orders
  PROVE  /\ o \in Seq(1..5) /\ DOMAIN o = 1..Len(o) /\ Len(o) \in Nat
         /\ \A i \in 1..Len(o) : o[i] \in 1..5
         /\ \A i, j \in 1..Len(o) : o[i] = o[j] => i = j
<1>1. PICK n \in 0..Len(canonicalParamOrder) : o \in [1..n -> DOMAIN canonicalParamOrder]
  BY DEF Orders
<1>2. Len(canonicalParamOrder) = 5
  BY DEF canonicalParamOrder
<1>3. n \in Nat /\ o \in [1..n -> 1..5]
  BY <1>1, <1>2, ParamFacts
<1>4. o \in Seq(1..5) /\ Len(o) = n /\ DOMAIN o = 1..n
  BY <1>3
<1>5. \A i, j \in DOMAIN o : o[i] = o[j] => i = j
  BY DEF Orders
<1> QED
  BY <1>3, <1>4, <1>5

\* v is what a value is after the edit: whole, but for the last one, which may
\* have lost its last byte.
SentAs(p, e, j, v) ==
  LET s == p[canonicalParamOrder[e.order[j]]]
  IN  \/ v = encodeComponent(s)
      \/ e.cut /\ j = Len(e.order) /\ s # <<>> /\ CutOf(encodeComponent(s), v)

\* Q are the parameters after the edit, x of them unknown.
Arrived(p, e, x, Q) ==
  /\ x \in {0, 1}
  /\ DOMAIN Q = 1..(x + Len(e.order))
  /\ \A i \in 1..x : Q[i].key = "lang" /\ Q[i].value = <<>>
  /\ \A j \in 1..Len(e.order) : /\ Q[x + j].key = canonicalParamOrder[e.order[j]]
                              /\ SentAs(p, e, j, Q[x + j].value)

LEMMA EditedArrives ==
  ASSUME NEW p, Complete(p), NEW e, e \in Edits
  PROVE  /\ Edited(URI(p), e).authority = URI(p).authority
         /\ \E x : Arrived(p, e, x, Edited(URI(p), e).params)
<1> DEFINE o == e.order
           n == Len(o)
           R == [i \in 1..n |-> Left(URI(p), e, i)]
           A == Added(e)
           x == Len(A)
           Q == A \o R
<1>1. e.order \in Orders /\ e.extra \in BOOLEAN /\ e.cut \in BOOLEAN
  BY DEF Edits
<1>2. n \in Nat /\ \A j \in 1..n : o[j] \in 1..5
  BY <1>1, OrderFacts
<1>3. Edited(URI(p), e) = [authority |-> URI(p).authority, params |-> Q]
  BY DEF Edited
<1>4. ASSUME NEW j \in 1..n
      PROVE  /\ Left(URI(p), e, j).key = canonicalParamOrder[o[j]]
             /\ SentAs(p, e, j, Left(URI(p), e, j).value)
  <2> DEFINE k == canonicalParamOrder[o[j]]
             v == encodeComponent(p[k])
  <2>1. URI(p).params[o[j]] = [key |-> k, value |-> v]
    BY <1>2, ParamFacts DEF URI
  <2>2. p[k] \in Seq(Bytes)
    BY <1>2, ParamFacts, CompleteFields
  <2>3. v \in Seq(Bytes) /\ (v = <<>> <=> p[k] = <<>>)
    BY <2>2, RoundTrip, EncodingOfEmpty
  <2> HIDE DEF k, v
  <2>4. CASE ~(e.cut /\ j = n)
    <3>1. Left(URI(p), e, j) = [key |-> k, value |-> v]
      BY <2>1, <2>4 DEF Left
    <3> QED
      BY <3>1 DEF SentAs, k, v
  <2>5. CASE e.cut /\ j = n
    <3>1. Left(URI(p), e, j) = [key |-> k, value |-> ButLast(v)]
      BY <2>1, <2>5 DEF Left
    <3>2. CASE p[k] = <<>>
      <4>1. ButLast(v) = <<>>
        BY <2>3, <3>2 DEF ButLast
      <4> QED
        BY <2>3, <3>1, <3>2, <4>1 DEF SentAs, k, v
    <3>3. CASE p[k] # <<>>
      <4>1. CutOf(v, ButLast(v))
        BY <2>3, <3>3, CutIsSubSeq
      <4> QED
        BY <2>5, <3>1, <3>3, <4>1 DEF SentAs, k, v
    <3> QED
      BY <3>2, <3>3
  <2> QED
    BY <2>4, <2>5
<1>5. /\ x \in {0, 1}
      /\ \A i \in 1..x : A[i] = [key |-> "lang", value |-> <<>>]
  <2>1. CASE e.extra
    <3>1. A = <<[key |-> "lang", value |-> <<>>]>>
      BY <2>1 DEF Added
    <3> QED
      BY <3>1
  <2>2. CASE ~e.extra
    <3>1. A = <<>>
      BY <2>2 DEF Added
    <3> QED
      BY <3>1
  <2> QED
    BY <1>1, <2>1, <2>2
<1>6. /\ DOMAIN Q = 1..(x + n)
      /\ \A i \in 1..x : Q[i] = A[i]
      /\ \A j \in 1..n : Q[x + j] = R[j]
  <2> DEFINE T == {R[j] : j \in 1..n} \cup {[key |-> "lang", value |-> <<>>]}
  <2>1. R \in Seq(T) /\ Len(R) = n
    <3>1. R \in [1..n -> T]
      OBVIOUS
    <3> HIDE DEF R, T
    <3> QED
      BY <1>2, <3>1
  <2>2. A \in Seq(T)
    <3>1. [key |-> "lang", value |-> <<>>] \in T
      OBVIOUS
    <3>2. A = <<>> \/ A = <<[key |-> "lang", value |-> <<>>]>>
      BY DEF Added
    <3>3. <<[key |-> "lang", value |-> <<>>]>> \in Seq(T)
      <4> HIDE DEF T
      <4>1. \A y \in T : <<y>> \in Seq(T)
        OBVIOUS
      <4> QED
        BY <3>1, <4>1
    <3>4. <<>> \in Seq(T)
      OBVIOUS
    <3> HIDE DEF T, A
    <3> QED
      BY <3>2, <3>3, <3>4
  <2>3. Len(Q) = x + n
    <3> HIDE DEF T, R, A
    <3> QED
      BY <2>1, <2>2
  <2>4. Len(A) \in Nat /\ Q \in Seq(T)
    <3> HIDE DEF T, R, A
    <3> QED
      BY <2>1, <2>2
  <2>5. DOMAIN Q = 1..(x + n)
    <3> HIDE DEF T, R, A, x, Q
    <3> QED
      BY <2>3, <2>4
  <2>6. \A i \in 1..x : Q[i] = A[i]
    <3> HIDE DEF T, R, A
    <3> QED
      BY <2>1, <2>2, <2>4
  <2>7. ASSUME NEW j \in 1..n
        PROVE  Q[x + j] = R[j]
    <3>1. n \in Nat /\ x \in Nat
      BY <1>2, <2>4
    <3>2. x + j \in 1..(Len(A) + Len(R)) /\ ~(x + j <= Len(A)) /\ (x + j) - Len(A) = j
      <4> HIDE DEF T, R, A
      <4> QED
        BY <2>1, <2>4, <3>1
    <3> HIDE DEF T, R, A
    <3> QED
      BY <2>1, <2>2, <3>2
  <2> HIDE DEF T, R, A, x, Q
  <2> QED
    BY <2>5, <2>6, <2>7
<1>7. \A j \in 1..n : R[j] = Left(URI(p), e, j)
  OBVIOUS
<1> HIDE DEF Q, R, A, x
<1>8. Arrived(p, e, x, Q)
  BY <1>4, <1>5, <1>6, <1>7 DEF Arrived
<1> QED
  BY <1>3, <1>8

\* A parameter that was dropped is read as empty.
LEMMA FieldLost ==
  ASSUME NEW p, NEW e, e \in Edits, NEW x, NEW Q, Arrived(p, e, x, Q), NEW k, k \in Lost(e)
  PROVE  Field(Q, k) = <<>>
<1>1. k \in Params /\ \A j \in 1..Len(e.order) : canonicalParamOrder[e.order[j]] # k
  <2>1. e.order \in Orders
    BY DEF Edits
  <2> QED
    BY <2>1, OrderFacts DEF Lost
<1>2. ASSUME NEW i \in DOMAIN Q, Q[i].key = k
      PROVE  FALSE
  <2>1. x \in {0, 1} /\ i \in 1..(x + Len(e.order)) /\ Len(e.order) \in Nat
    <3>1. e.order \in Orders
      BY DEF Edits
    <3> QED
      BY <3>1, OrderFacts DEF Arrived
  <2>2. CASE i <= x
    <3>1. Q[i].key = "lang"
      BY <2>1, <2>2 DEF Arrived
    <3> QED
      BY <1>1, <1>2, <3>1, ParamFacts
  <2>3. CASE ~(i <= x)
    <3>1. i - x \in 1..Len(e.order) /\ x + (i - x) = i
      BY <2>1, <2>3
    <3>2. Q[i].key = canonicalParamOrder[e.order[i - x]]
      BY <3>1 DEF Arrived
    <3> QED
      BY <1>1, <1>2, <3>1, <3>2
  <2> QED
    BY <2>2, <2>3
<1>3. {i \in DOMAIN Q : Q[i].key = k} = {}
  BY <1>2
<1> QED
  BY <1>3 DEF Field

\* A parameter that is left comes once.
LEMMA FieldKept ==
  ASSUME NEW p, NEW e, e \in Edits, NEW x, NEW Q, Arrived(p, e, x, Q),
         NEW j, j \in 1..Len(e.order)
  PROVE  /\ x + j \in DOMAIN Q
         /\ Field(Q, canonicalParamOrder[e.order[j]]) =
              CHOOSE v \in decodeComponent(Q[x + j].value) : TRUE
<1> DEFINE n == Len(e.order)
           k == canonicalParamOrder[e.order[j]]
           at == {i \in DOMAIN Q : Q[i].key = k}
<1>1. /\ n \in Nat /\ \A i \in 1..n : e.order[i] \in 1..5
      /\ \A h, i \in 1..n : e.order[h] = e.order[i] => h = i
  <2>1. e.order \in Orders
    BY DEF Edits
  <2> QED
    BY <2>1, OrderFacts
<1>2. k \in Params /\ k # "lang"
  BY <1>1, ParamFacts
<1>3. \A i \in 1..n : canonicalParamOrder[e.order[i]] = k => i = j
  BY <1>1, ParamFacts
<1>4. /\ x \in {0, 1} /\ DOMAIN Q = 1..(x + n)
      /\ \A i \in 1..x : Q[i].key = "lang"
      /\ \A i \in 1..n : Q[x + i].key = canonicalParamOrder[e.order[i]]
  BY DEF Arrived
<1>5. x + j \in DOMAIN Q /\ Q[x + j].key = k
  BY <1>1, <1>4
<1>6. ASSUME NEW i \in DOMAIN Q, Q[i].key = k
      PROVE  i = x + j
  <2>1. i \in 1..(x + n)
    BY <1>4
  <2>2. CASE i <= x
    <3>1. i \in 1..x
      BY <1>4, <2>1, <2>2
    <3> HIDE DEF k
    <3> QED
      BY <1>2, <1>4, <1>6, <3>1
  <2>3. CASE ~(i <= x)
    <3>1. i - x \in 1..n /\ x + (i - x) = i
      BY <1>1, <1>4, <2>1, <2>3
    <3>2. Q[i].key = canonicalParamOrder[e.order[i - x]]
      BY <1>4, <3>1
    <3> HIDE DEF k, n
    <3>3. i - x = j
      BY <1>3, <1>6, <3>1, <3>2
    <3> QED
      BY <3>1, <3>3
  <2> QED
    BY <2>2, <2>3
<1> HIDE DEF k
<1>7. at = {x + j}
  BY <1>5, <1>6
<1>8. x + j <= x + j
  BY <1>1, <1>4
<1>9. Field(Q, k) = IF at = {} THEN <<>>
                    ELSE LET i == CHOOSE y \in at : \A z \in at : z <= y
                         IN  CHOOSE v \in decodeComponent(Q[i].value) : TRUE
  BY DEF Field
<1>10. (CHOOSE y \in at : \A z \in at : z <= y) = x + j
  <2> HIDE DEF at
  <2>1. \E y \in at : \A z \in at : z <= y
    BY <1>7, <1>8
  <2> QED
    BY <1>7, <2>1
<1> HIDE DEF at
<1>11. Field(Q, k) = CHOOSE v \in decodeComponent(Q[x + j].value) : TRUE
  BY <1>7, <1>9, <1>10, Zenon
<1> QED
  BY <1>5, <1>11 DEF k

\* It is read as it was, unless it is the one that was cut.
LEMMA FieldIs ==
  ASSUME NEW p, Complete(p), NEW e, e \in Edits, NEW x, NEW Q, Arrived(p, e, x, Q),
         NEW k, k \in Params \ Lost(e),
         \A i \in DOMAIN Q : decodeComponent(Q[i].value) # {}
  PROVE  /\ Field(Q, k) \in {p[k], ButLast(p[k])}
         /\ k \notin Cut(e) => Field(Q, k) = p[k]
<1>1. e.order \in Orders
  BY DEF Edits
<1>2. PICK j \in 1..Len(e.order) : canonicalParamOrder[e.order[j]] = k
  BY <1>1, OrderFacts DEF Lost
<1>3. p[k] \in Seq(Bytes)
  BY CompleteFields
<1> DEFINE v == Q[x + j].value
<1>4. x + j \in DOMAIN Q /\ Field(Q, k) = CHOOSE w \in decodeComponent(v) : TRUE
  BY <1>2, FieldKept
<1>5. \/ v = encodeComponent(p[k])
      \/ e.cut /\ j = Len(e.order) /\ p[k] # <<>> /\ CutOf(encodeComponent(p[k]), v)
  <2>1. SentAs(p, e, j, v)
    BY DEF Arrived
  <2> QED
    BY <1>2, <2>1 DEF SentAs
<1>6. decodeComponent(v) # {}
  BY <1>4
<1> HIDE DEF v
<1>7. CASE v = encodeComponent(p[k])
  <2>1. decodeComponent(v) = {p[k]}
    BY <1>3, <1>7, RoundTrip
  <2> QED
    BY <1>4, <2>1
<1>8. CASE e.cut /\ j = Len(e.order) /\ p[k] # <<>> /\ CutOf(encodeComponent(p[k]), v)
  <2>1. PICK ok \in BOOLEAN : decodeComponent(v) = Of(ok, ButLast(p[k]))
    BY <1>3, <1>8, CutComponent
  <2>2. decodeComponent(v) = {ButLast(p[k])}
    BY <1>6, <2>1 DEF Of
  <2>3. k \in Cut(e)
    <3>1. Len(e.order) \in 1..Len(e.order)
      BY <1>8
    <3>2. e.order # <<>>
      BY <3>1
    <3> QED
      BY <1>2, <1>8, <3>2 DEF Cut
  <2> QED
    BY <1>4, <2>2, <2>3
<1> QED
  BY <1>5, <1>7, <1>8

\* What the parameters are read as, with the host and the port.
ReadAs(p, Q) ==
  [ip |-> p.ip, port |-> p.port,
   id |-> Field(Q, "id"), name |-> Field(Q, "name"), app |-> Field(Q, "app"),
   fp |-> Field(Q, "fp"), token |-> Field(Q, "token")]

LEMMA ParsedIsRead ==
  ASSUME NEW p, Complete(p), NEW u, u.authority = URI(p).authority
  PROVE  Parsed(u) = {ReadAs(p, u.params)}
<1>1. Numeral(Decimal(p.port), p.port)
  BY CompleteFields, DecimalIsNumeral
<1>2. Decimal(p.port) \in Seq(Digits) /\ ScanInt(Decimal(p.port)) = {p.port}
  BY <1>1, ScanNumeral DEF Numeral
<1>3. splitHostPort(u.authority) = {[host |-> p.ip, port |-> Decimal(p.port)]}
  <2>1. u.authority = Bracketed(p.ip) \o <<Colon>> \o Decimal(p.port)
    BY DEF URI
  <2>2. p.ip \in Seq(Bytes) /\ p.ip # <<>> /\ Head(p.ip) # Open
    BY CompleteFields DEF Complete
  <2> QED
    BY <1>2, <2>1, <2>2, SplitAddress
<1> DEFINE Q == u.params
           Of1(hp, n) == [ip |-> hp.host, port |-> n,
             id |-> Field(Q, "id"), name |-> Field(Q, "name"), app |-> Field(Q, "app"),
             fp |-> Field(Q, "fp"), token |-> Field(Q, "token")]
           hp == [host |-> p.ip, port |-> Decimal(p.port)]
<1>4. Parsed(u) = UNION {{Of1(h, n) : n \in ScanInt(h.port)} : h \in splitHostPort(u.authority)}
  BY DEF Parsed
<1>5. hp.host = p.ip /\ hp.port = Decimal(p.port)
  OBVIOUS
<1>6. Of1(hp, p.port) = ReadAs(p, Q)
  BY <1>5 DEF ReadAs
<1> HIDE DEF Of1, hp
<1>7. splitHostPort(u.authority) = {hp}
  BY <1>3 DEF hp
<1>8. {Of1(hp, n) : n \in ScanInt(hp.port)} = {Of1(hp, p.port)}
  BY <1>2, <1>5
<1> QED
  BY <1>4, <1>6, <1>7, <1>8

LEMMA ReadAsFields ==
  ASSUME NEW p, NEW Q
  PROVE  /\ ReadAs(p, Q).ip = p.ip /\ ReadAs(p, Q).port = p.port
         /\ \A k \in Params : ReadAs(p, Q)[k] = Field(Q, k)
BY ParamFacts DEF ReadAs

\* Decode, given back what Encode made of any complete payload, after any edit:
\* every parameter that is left is read as it was shown, but for a last one
\* that was cut, and a payload that lost what is required is refused.
THEOREM RereadIsFaithful ==
  ASSUME NEW p, Complete(p), NEW e, e \in Edits
  PROVE  Faithful(p, e, Reread(p, e))
<1> DEFINE u == Edited(URI(p), e)
           Q == u.params
           r == ReadAs(p, Q)
<1>1. Reread(p, e) = Decode(u)
  <2> HIDE DEF u
  <2>1. Reread(p, e) = UNION {Decode(Edited(v, e)) : v \in {URI(p)}}
    BY EncodeIsURI, Zenon DEF Reread
  <2> QED
    BY <2>1 DEF u
<1>2. u.authority = URI(p).authority /\ \E x : Arrived(p, e, x, Q)
  BY EditedArrives
<1>3. PICK x : Arrived(p, e, x, Q)
  BY <1>2
<1> HIDE DEF u
<1>4. Parsed(u) = {r}
  BY <1>2, ParsedIsRead
<1>5. /\ r.ip = p.ip /\ r.port = p.port
      /\ \A k \in Params : r[k] = Field(Q, k)
  BY ReadAsFields
<1>6. \A k \in Lost(e) : k \in Params /\ r[k] = <<>>
  <2>1. \A k \in Lost(e) : k \in Params
    BY DEF Lost
  <2> QED
    BY <1>3, <1>5, <2>1, FieldLost
<1> HIDE DEF r, Q
<1>7. Decodes(u) <=> \A i \in DOMAIN Q : decodeComponent(Q[i].value) # {}
  BY DEF Decodes, Q
<1>8. ASSUME Decodes(u), NEW k \in Params \ Lost(e)
      PROVE  r[k] \in {p[k], ButLast(p[k])} /\ (k \notin Cut(e) => r[k] = p[k])
  BY <1>3, <1>5, <1>7, <1>8, FieldIs
<1>9. Decode(u) \subseteq {r} /\ (Decode(u) # {} => Decodes(u))
  BY <1>4 DEF Decode
<1>10. ASSUME NEW q \in Reread(p, e)
       PROVE  /\ \A k \in DOMAIN p \ (Lost(e) \cup Cut(e)) : q[k] = p[k]
              /\ \A k \in Cut(e) : q[k] \in {p[k], ButLast(p[k])}
              /\ \A k \in Lost(e) : q[k] = <<>>
  <2>1. q = r /\ Decodes(u)
    BY <1>1, <1>9
  <2>2. ASSUME NEW k \in DOMAIN p \ (Lost(e) \cup Cut(e))
        PROVE  r[k] = p[k]
    <3>1. CASE k \in Params
      BY <1>8, <2>1, <3>1
    <3>2. CASE k \in {"ip", "port"}
      BY <1>5, <3>2
    <3> QED
      BY <3>1, <3>2, CompleteFields
  <2>3. ASSUME NEW k \in Cut(e)
        PROVE  r[k] \in {p[k], ButLast(p[k])}
    <3>1. k \in Params \ Lost(e)
      <4>1. e.order \in Orders /\ e.order # <<>> /\ k = canonicalParamOrder[e.order[Len(e.order)]]
        BY DEF Edits, Cut
      <4>2. Len(e.order) \in 1..Len(e.order) /\ DOMAIN e.order = 1..Len(e.order)
        BY <4>1, OrderFacts
      <4>3. k \in Params
        BY <4>1, <4>2, OrderFacts, ParamFacts
      <4> QED
        BY <4>1, <4>2, <4>3 DEF Lost
    <3> QED
      BY <1>8, <2>1, <3>1
  <2> QED
    BY <1>6, <2>1, <2>2, <2>3
<1>11. ASSUME Lost(e) \cap Required # {}
       PROVE  Reread(p, e) = {}
  <2>1. \E k \in Required : r[k] = <<>>
    BY <1>6, <1>11
  <2> QED
    BY <1>1, <1>4, <2>1 DEF Decode
<1>12. ASSUME Lost(e) \cap Required = {}, ~e.cut
       PROVE  Reread(p, e) # {}
  <2>1. ASSUME NEW i \in DOMAIN Q
        PROVE  decodeComponent(Q[i].value) # {}
    <3>1. e.order \in Orders
      BY DEF Edits
    <3>2. /\ x \in {0, 1} /\ i \in 1..(x + Len(e.order)) /\ Len(e.order) \in Nat
          /\ \A j \in 1..Len(e.order) : e.order[j] \in 1..5
      BY <1>3, <3>1, OrderFacts DEF Arrived
    <3>3. CASE i <= x
      <4>1. Q[i].value = <<>>
        BY <1>3, <3>2, <3>3 DEF Arrived
      <4>2. <<>> \in Seq(Bytes)
        OBVIOUS
      <4>3. encodeComponent(<<>>) = <<>>
        BY <4>2, EncodingOfEmpty
      <4>4. decodeComponent(<<>>) = {<<>>}
        BY <4>2, <4>3, RoundTrip
      <4> QED
        BY <4>1, <4>4
    <3>4. CASE ~(i <= x)
      <4> DEFINE j == i - x
                 k == canonicalParamOrder[e.order[j]]
      <4>1. j \in 1..Len(e.order) /\ x + j = i
        BY <3>2, <3>4
      <4>2. p[k] \in Seq(Bytes)
        BY <3>2, <4>1, ParamFacts, CompleteFields
      <4> HIDE DEF j
      <4>3. SentAs(p, e, j, Q[x + j].value)
        BY <1>3, <4>1 DEF Arrived
      <4>4. Q[i].value = encodeComponent(p[k])
        BY <1>12, <4>1, <4>3 DEF SentAs
      <4> HIDE DEF k
      <4>5. decodeComponent(encodeComponent(p[k])) = {p[k]}
        BY <4>2, RoundTrip
      <4> QED
        BY <4>4, <4>5
    <3> QED
      BY <3>3, <3>4
  <2>2. Decodes(u)
    BY <1>7, <2>1
  <2>3. ASSUME NEW k \in Required
        PROVE  r[k] # <<>>
    <3>1. k \in Params \ Lost(e) /\ k \notin Cut(e)
      BY <1>12, ParamFacts DEF Cut
    <3>2. r[k] = p[k]
      BY <1>8, <2>2, <3>1
    <3> QED
      BY <3>2 DEF Complete
  <2>4. r.port # 0
    BY <1>5, CompleteFields
  <2> QED
    BY <1>1, <1>4, <2>2, <2>3, <2>4 DEF Decode
<1> QED
  BY <1>10, <1>11, <1>12 DEF Faithful

\* Every string survives, not just each byte, and no encoding holds a delimiter.
THEOREM ComponentsSurvive ==
  ASSUME NEW s \in Seq(Bytes)
  PROVE  /\ decodeComponent(encodeComponent(s)) = {s}
         /\ \A d \in Delimiters : ~Has(encodeComponent(s), d)
BY RoundTrip DEF Safe, Has
=============================================================================
