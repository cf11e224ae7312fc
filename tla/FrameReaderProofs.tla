------------------------- MODULE FrameReaderProofs --------------------------
(***************************************************************************)
(* Theorems about FrameReader, for any packets, thresholds, block cipher,  *)
(* base and length of a VarInt: what is on the wire is what CFB8 makes of  *)
(* the stream of frames, and the reader gets every packet back.            *)
(***************************************************************************)
EXTENDS FrameReader, CommonLemmas

-----------------------------------------------------------------------------
(* VarInts *)

LEMMA DivMod ==
  ASSUME NEW x \in Nat, NEW b \in Nat, b > 1
  PROVE  /\ x \div b \in Nat /\ x % b \in 0 .. b - 1
         /\ x = b * (x \div b) + (x % b)
OBVIOUS

LEMMA DivMonotone ==
  ASSUME NEW x \in Nat, NEW y \in Nat, x <= y
  PROVE  x \div Base <= y \div Base
<1>1. PICK b \in Nat : b = Base /\ b > 1
  BY VarIntType
<1>2. PICK p \in Nat, q \in Nat : p = x \div b /\ q = y \div b
  BY <1>1
<1>3. x = b * p + (x % b) /\ y = b * q + (y % b) /\ x % b \in 0 .. b - 1 /\ y % b \in 0 .. b - 1
  BY <1>1, <1>2
<1>4. b * p <= x /\ y < b * q + b
  BY <1>3
<1>5. ASSUME q + 1 <= p PROVE FALSE
  <2>1. b * (q + 1) <= b * p
    BY <1>1, <1>5
  <2>2. b * (q + 1) = b * q + b
    OBVIOUS
  <2>. QED BY <1>1, <1>4, <2>1, <2>2
<1>. QED BY <1>1, <1>2, <1>5

\* What is left of a number, digit by digit.
LEMMA RemainingSteps ==
  ASSUME NEW n \in Nat
  PROVE  /\ Remaining(n) \in [0 .. MaxDigits -> Nat]
         /\ Remaining(n)[0] = n
         /\ \A k \in 1 .. MaxDigits : Remaining(n)[k] = Remaining(n)[k - 1] \div Base
<1>. DEFINE Goes(g) == g = [k \in 0 .. MaxDigits |-> IF k = 0 THEN n ELSE g[k - 1] \div Base]
            step == [k \in 1 .. MaxDigits |-> [x \in Nat |-> x \div Base]]
<1>0. MaxDigits \in Nat \ {0} /\ Base \in Nat /\ Base > 1
  BY VarIntType
<1>1. step \in [1 .. MaxDigits -> [Nat -> Nat]]
  BY <1>0
<1>2. PICK g : Stepping(g, Nat, n, MaxDigits, step)
  <2>. HIDE DEF step
  <2>. QED BY <1>0, <1>1, Recursion
<1>3. Goes(g)
  <2>1. ASSUME NEW k \in 1 .. MaxDigits PROVE g[k] = g[k - 1] \div Base
    <3>1. g[k - 1] \in Nat
      BY <1>0, <1>2 DEF Stepping
    <3>. QED BY <1>2, <3>1 DEF Stepping
  <2>2. \A k \in 0 .. MaxDigits : g[k] = IF k = 0 THEN n ELSE g[k - 1] \div Base
    BY <1>0, <1>2, <2>1 DEF Stepping
  <2>3. g = [k \in 0 .. MaxDigits |-> g[k]]
    BY <1>2 DEF Stepping
  <2>. QED BY <2>2, <2>3
<1>4. Remaining(n) = CHOOSE f : Goes(f)
  BY DEF Remaining
<1>5. Goes(Remaining(n))
  BY <1>3, <1>4
<1>6. PICK r : r = Remaining(n)
  OBVIOUS
<1>7. r = [k \in 0 .. MaxDigits |-> IF k = 0 THEN n ELSE r[k - 1] \div Base]
  BY <1>5, <1>6
<1>8. r[0] = n /\ \A k \in 1 .. MaxDigits : r[k] = r[k - 1] \div Base
  BY <1>0, <1>7
<1>. DEFINE A == {k \in 0 .. MaxDigits : r[k] \in Nat}
<1>9. 0 \in A
  BY <1>0, <1>8
<1>10. ASSUME NEW k \in 0 .. MaxDigits - 1, k \in A PROVE k + 1 \in A
  <2>1. PICK m \in 1 .. MaxDigits : m = k + 1 /\ m - 1 = k
    BY <1>0
  <2>2. r[m] = r[k] \div Base
    BY <1>8, <2>1
  <2>3. \A x \in Nat : x \div Base \in Nat
    BY <1>0
  <2>4. r[m] \in Nat
    BY <1>10, <2>2, <2>3
  <2>. QED BY <2>1, <2>4
<1>12. \A k \in 0 .. MaxDigits : r[k] \in Nat
  <2>1. \A k \in 0 .. MaxDigits : k \in A
    <3>. HIDE DEF A
    <3>. QED BY <1>0, <1>9, <1>10, InductionTo
  <2>. QED BY <2>1
<1>. QED BY <1>6, <1>7, <1>8, <1>12

LEMMA RemainingMonotone ==
  ASSUME NEW m \in Nat, NEW n \in Nat, m <= n, NEW k \in 0 .. MaxDigits
  PROVE  Remaining(m)[k] <= Remaining(n)[k]
<1>. DEFINE A == {i \in 0 .. MaxDigits : Remaining(m)[i] <= Remaining(n)[i]}
<1>0. MaxDigits \in Nat
  BY VarIntType
<1>1. 0 \in A
  <2>1. Remaining(m)[0] = m /\ Remaining(n)[0] = n
    BY RemainingSteps
  <2>. QED BY <1>0, <2>1
<1>2. ASSUME NEW i \in 0 .. MaxDigits - 1, i \in A PROVE i + 1 \in A
  <2>1. PICK j \in 1 .. MaxDigits : j = i + 1 /\ j - 1 = i
    BY <1>0
  <2>2. PICK f, g : f = Remaining(m) /\ g = Remaining(n)
    OBVIOUS
  <2>3. f[i] \in Nat /\ g[i] \in Nat /\ f[i] <= g[i]
    BY <1>0, <1>2, <2>2, RemainingSteps
  <2>4. f[i] \div Base <= g[i] \div Base
    BY <2>3, DivMonotone
  <2>5. f[j] = f[j - 1] \div Base /\ g[j] = g[j - 1] \div Base
    BY <2>2, RemainingSteps
  <2>6. f[j] <= g[j]
    BY <2>1, <2>4, <2>5
  <2>. QED BY <1>0, <2>1, <2>2, <2>6
<1>3. \A i \in 0 .. MaxDigits : i \in A
  <2>. HIDE DEF A
  <2>. QED BY <1>0, <1>1, <1>2, InductionTo
<1>. QED BY <1>3

\* A number of an i32 has digits, and nothing is left after the last.
LEMMA DigitsFit ==
  ASSUME NEW n \in 0 .. Word - 1
  PROVE  /\ Digits(n) \in 1 .. MaxDigits
         /\ Remaining(n)[Digits(n) - 1] < Base
         /\ \A j \in 1 .. Digits(n) - 1 : Remaining(n)[j - 1] >= Base
         /\ Remaining(n)[Digits(n)] = 0
<1>. DEFINE S == {k \in 1 .. MaxDigits : Remaining(n)[k - 1] < Base}
            Fits(k) == Remaining(n)[k - 1] < Base /\ \A j \in 1 .. k - 1 : Remaining(n)[j - 1] >= Base
<1>0. MaxDigits \in Nat \ {0} /\ Base \in Nat /\ Base > 1 /\ Word \in Nat /\ n \in Nat /\ Word - 1 \in Nat
  BY VarIntType
<1>1. MaxDigits \in S
  <2>1. MaxDigits - 1 \in 0 .. MaxDigits
    BY <1>0
  <2>2. Remaining(n)[MaxDigits - 1] <= Remaining(Word - 1)[MaxDigits - 1]
    BY <1>0, <2>1, RemainingMonotone
  <2>3. Remaining(n)[MaxDigits - 1] \in Nat /\ Remaining(Word - 1)[MaxDigits - 1] \in Nat
    BY <1>0, <2>1, RemainingSteps
  <2>4. Remaining(Word - 1)[MaxDigits - 1] < Base
    BY VarIntType
  <2>. QED BY <1>0, <2>2, <2>3, <2>4
<1>2. PICK d \in S : \A k \in S : d <= k
  <2>1. IsFiniteSet(1 .. MaxDigits)
    BY <1>0, FS_Interval
  <2>2. S \in SUBSET Int /\ IsFiniteSet(S)
    <3>1. S \in SUBSET (1 .. MaxDigits)
      OBVIOUS
    <3>2. IsFiniteSet(S)
      <4>. HIDE DEF S
      <4>. QED BY <2>1, <3>1, FS_Subset
    <3>. QED BY <3>2
  <2>. HIDE DEF S
  <2>. QED BY <1>1, <2>2, LeastExists
<1>3. d \in 1 .. MaxDigits /\ Fits(d)
  <2>1. ASSUME NEW j \in 1 .. d - 1 PROVE Remaining(n)[j - 1] >= Base
    <3>1. j \in 1 .. MaxDigits /\ j \notin S /\ j - 1 \in 0 .. MaxDigits
      BY <1>0, <1>2
    <3>2. Remaining(n)[j - 1] \in Nat
      BY <1>0, <3>1, RemainingSteps
    <3>. QED BY <1>0, <3>1, <3>2
  <2>. QED BY <1>2, <2>1
<1>4. Digits(n) \in 1 .. MaxDigits /\ Fits(Digits(n))
  BY <1>3 DEF Digits
<1>5. Remaining(n)[Digits(n)] = 0
  <2>1. PICK k \in 1 .. MaxDigits : k = Digits(n)
    BY <1>4
  <2>2. PICK x \in Nat : x = Remaining(n)[k - 1]
    <3>1. k - 1 \in 0 .. MaxDigits
      BY <1>0
    <3>. QED BY <1>0, <3>1, RemainingSteps
  <2>3. x < Base /\ Remaining(n)[k] = x \div Base
    BY <1>0, <1>4, <2>1, <2>2, RemainingSteps
  <2>. QED BY <1>0, <2>1, <2>3
<1>. QED BY <1>4, <1>5

LEMMA UnsignedType ==
  ASSUME NEW i \in Int
  PROVE  Unsigned(i) \in 0 .. Word - 1 /\ Unsigned(i) \in Nat
<1>1. PICK w \in Nat : w = Word /\ w > 0
  BY VarIntType
<1>2. i % w \in 0 .. w - 1
  BY <1>1
<1>. QED BY <1>1, <1>2 DEF Unsigned

\* A VarInt is a few bytes, and the last one is the only one to say so.
LEMMA VarIntShape ==
  ASSUME NEW i \in Int
  PROVE  /\ VarInt(i) \in Seq(Plain)
         /\ Len(VarInt(i)) \in 1 .. MaxDigits
         /\ Len(VarInt(i)) = Digits(Unsigned(i))
         /\ \A k \in 1 .. Len(VarInt(i)) :
              /\ IsLast(VarInt(i)[k]) <=> k = Len(VarInt(i))
              /\ Low(VarInt(i)[k]) = Remaining(Unsigned(i))[k - 1] % Base
<1>. DEFINE u == Unsigned(i)
            d == Digits(u)
            left == Remaining(u)
            digit(k) == (left[k - 1] % Base) + (IF k < d THEN Base ELSE 0)
<1>0. MaxDigits \in Nat \ {0} /\ Base \in Nat /\ Base > 1
  BY VarIntType
<1>1. u \in 0 .. Word - 1 /\ u \in Nat
  BY UnsignedType
<1>. HIDE DEF u
<1>2. d \in 1 .. MaxDigits
  BY <1>1, DigitsFit
<1>3. left \in [0 .. MaxDigits -> Nat]
  BY <1>1, RemainingSteps
<1>. HIDE DEF d, left
<1>4. ASSUME NEW k \in 1 .. d
      PROVE  /\ digit(k) \in 0 .. 2 * Base - 1
             /\ digit(k) < Base <=> k = d
             /\ digit(k) % Base = left[k - 1] % Base
  <2>1. PICK x \in Nat, b \in Nat : x = left[k - 1] /\ b = Base /\ b > 1
    <3>1. k - 1 \in 0 .. MaxDigits
      BY <1>0, <1>2
    <3>. QED BY <1>0, <1>3, <3>1
  <2>2. PICK r \in 0 .. b - 1 : r = x % b
    BY <2>1
  <2>3. r % b = r /\ (r + b) % b = r
    BY <2>1, <2>2
  <2>4. CASE k = d
    <3>1. digit(k) = r
      BY <2>1, <2>2, <2>4
    <3>. QED BY <2>1, <2>2, <2>3, <2>4, <3>1
  <2>5. CASE k # d
    <3>1. digit(k) = r + b
      BY <1>2, <2>1, <2>2, <2>5
    <3>. QED BY <2>1, <2>2, <2>3, <2>5, <3>1
  <2>. QED BY <2>4, <2>5
<1>5. PICK v : v = [k \in 1 .. d |-> Byte(digit(k))]
  OBVIOUS
<1>6. VarInt(i) = v
  BY <1>5 DEF VarInt, u, d, left
<1>. HIDE DEF digit
<1>7. \A k \in 1 .. d : v[k] = Byte(digit(k)) /\ v[k] \in Plain
  BY <1>4, <1>5 DEF Byte, Plain, Octets, Values
<1>8. v \in Seq(Plain) /\ Len(v) = d
  <2>1. d \in Nat /\ v = [k \in 1 .. d |-> v[k]]
    BY <1>2, <1>5
  <2>2. v \in [1 .. d -> Plain]
    BY <1>7, <2>1
  <2>. QED BY <2>1, <2>2
<1>9. \A k \in 1 .. d : (IsLast(v[k]) <=> k = d) /\ Low(v[k]) = left[k - 1] % Base
  <2>1. ASSUME NEW k \in 1 .. d
        PROVE  (IsLast(v[k]) <=> k = d) /\ Low(v[k]) = left[k - 1] % Base
    <3>1. v[k].byte = digit(k)
      <4>1. PICK x : x = digit(k)
        OBVIOUS
      <4>2. v[k] = Byte(x)
        BY <1>7, <4>1
      <4>3. Byte(x).byte = x
        BY DEF Byte
      <4>. QED BY <4>1, <4>2, <4>3
    <3>. QED BY <1>4, <3>1 DEF IsLast, Low
  <2>. QED BY <2>1
<1>. QED BY <1>2, <1>6, <1>8, <1>9 DEF u, d, left

\* Reading a VarInt gives back what was written.
LEMMA VarIntValue ==
  ASSUME NEW i \in Int
  PROVE  Value(VarInt(i)) = Signed(Unsigned(i))
<1>. DEFINE u == Unsigned(i)
            left == Remaining(u)
            s == VarInt(i)
            d == Len(s)
            Goes(g) == g = [k \in 0 .. d |-> IF k = 0 THEN 0
                                             ELSE g[k - 1] * Base + Low(s[d + 1 - k])]
<1>0. MaxDigits \in Nat \ {0} /\ Base \in Nat /\ Base > 1
  BY VarIntType
<1>1. u \in 0 .. Word - 1 /\ u \in Nat
  BY UnsignedType
<1>2. /\ d \in 1 .. MaxDigits /\ d = Digits(u)
      /\ \A k \in 1 .. d : Low(s[k]) = left[k - 1] % Base
  BY VarIntShape
<1>3. Value(s) = Signed((CHOOSE g : Goes(g))[d])
  BY DEF Value
<1>. HIDE DEF u, s
<1>4. left \in [0 .. MaxDigits -> Nat] /\ left[0] = u
      /\ \A k \in 1 .. MaxDigits : left[k] = left[k - 1] \div Base
  BY <1>1, RemainingSteps
<1>5. left[d] = 0
  BY <1>1, <1>2, DigitsFit
<1>. HIDE DEF left, d
<1>6. ASSUME NEW k \in 1 .. d
      PROVE  left[d - k] = left[d - (k - 1)] * Base + Low(s[d + 1 - k])
  <2>1. PICK j \in 1 .. d : j = d + 1 - k /\ d - (k - 1) = j /\ d - k = j - 1
    BY <1>2
  <2>2. PICK x \in Nat, b \in Nat : x = left[j - 1] /\ b = Base /\ b > 1
    <3>1. j - 1 \in 0 .. MaxDigits
      BY <1>0, <1>2
    <3>. QED BY <1>0, <1>4, <3>1
  <2>3. left[j] = x \div b /\ Low(s[j]) = x % b
    <3>1. j \in 1 .. MaxDigits
      BY <1>0, <1>2
    <3>. QED BY <1>2, <1>4, <2>2, <3>1
  <2>4. x = b * (x \div b) + (x % b)
    BY <2>2, DivMod
  <2>5. PICK q \in Nat, r \in Nat : q = x \div b /\ r = x % b
    BY <2>2
  <2>6. x = q * b + r
    BY <2>2, <2>4, <2>5
  <2>. QED BY <2>1, <2>2, <2>3, <2>5, <2>6
<1>7. PICK g : g = [k \in 0 .. d |-> left[d - k]]
  OBVIOUS
<1>8. Goes(g)
  <2>1. ASSUME NEW k \in 0 .. d
        PROVE  left[d - k] = IF k = 0 THEN 0 ELSE g[k - 1] * Base + Low(s[d + 1 - k])
    <3>1. CASE k = 0
      BY <1>2, <1>5, <3>1
    <3>2. CASE k # 0
      <4>1. PICK j \in 0 .. d : j = k - 1
        BY <1>2, <3>2
      <4>2. g[j] = left[d - j]
        BY <1>7
      <4>3. k \in 1 .. d
        BY <1>2, <3>2
      <4>. QED BY <1>6, <3>2, <4>1, <4>2, <4>3
    <3>. QED BY <3>1, <3>2
  <2>. QED BY <1>7, <2>1
<1>9. PICK f : f = (CHOOSE h : Goes(h)) /\ Goes(f)
  BY <1>8
<1>10. f[0] = 0 /\ \A k \in 1 .. d : f[k] = f[k - 1] * Base + Low(s[d + 1 - k])
  <2>1. PICK t : t = [k \in 0 .. d |-> IF k = 0 THEN 0 ELSE f[k - 1] * Base + Low(s[d + 1 - k])]
    OBVIOUS
  <2>2. f = t
    BY <1>9, <2>1
  <2>3. t[0] = 0 /\ \A k \in 1 .. d : t[k] = f[k - 1] * Base + Low(s[d + 1 - k])
    BY <1>2, <2>1
  <2>. QED BY <2>2, <2>3
<1>. HIDE DEF Goes
<1>. DEFINE A == {k \in 0 .. d : f[k] = left[d - k]}
<1>11. 0 \in A
  BY <1>2, <1>5, <1>10
<1>12. ASSUME NEW k \in 0 .. d - 1, k \in A PROVE k + 1 \in A
  <2>1. PICK j \in 1 .. d : j = k + 1 /\ j - 1 = k
    BY <1>2
  <2>2. f[j] = f[k] * Base + Low(s[d + 1 - j])
    BY <1>10, <2>1
  <2>3. left[d - j] = left[d - k] * Base + Low(s[d + 1 - j])
    BY <1>6, <2>1
  <2>. QED BY <1>12, <2>1, <2>2, <2>3
<1>13. d \in A
  <2>. HIDE DEF A
  <2>1. d \in Nat
    BY <1>2
  <2>2. \A k \in 0 .. d : k \in A
    BY <1>11, <1>12, <2>1, InductionTo
  <2>. QED BY <2>1, <2>2
<1>14. f[d] = u
  BY <1>2, <1>4, <1>13
<1>. QED BY <1>3, <1>9, <1>14 DEF s, u

\* In a buffer that starts with a VarInt, that is where it ends.
LEMMA VarIntEnds ==
  ASSUME NEW i \in Int, NEW t \in Seq(Symbol)
  PROVE  VarIntLen(VarInt(i) \o t) = Len(VarInt(i))
<1>1. PICK v \in Seq(Plain), d \in 1 .. MaxDigits :
        /\ v = VarInt(i) /\ d = Len(v)
        /\ \A k \in 1 .. d : IsLast(v[k]) <=> k = d
  BY VarIntShape
<1>2. PICK s : s = v \o t
  OBVIOUS
<1>3. DOMAIN s = 1 .. Len(s) /\ Len(s) \in Nat /\ d <= Len(s) /\ \A k \in 1 .. d : s[k] = v[k]
  BY <1>1, <1>2
<1>4. d \in Nat /\ d >= 1 /\ MaxDigits \in Nat /\ d <= MaxDigits
  BY <1>1, VarIntType
<1>. DEFINE I == {k \in 1 .. Len(s) : IsLast(s[k])}
<1>5. d \in I /\ \A k \in I : d <= k
  BY <1>1, <1>3, <1>4
<1>6. Min(I) = d
  BY <1>4, <1>5 DEF Min
<1>7. SelectInSeq(s, IsLast) = d
  BY <1>5, <1>6 DEF SelectInSeq
<1>8. \E k \in DOMAIN s : k <= MaxDigits /\ IsLast(s[k])
  BY <1>3, <1>4, <1>5
<1>. QED BY <1>1, <1>2, <1>7, <1>8 DEF VarIntLen

-----------------------------------------------------------------------------
(* The cipher *)

LEMMA OctetsFacts ==
  /\ Octets = 0 .. Values - 1 /\ Values \in Nat /\ Values > 1 /\ 0 \in Octets
  /\ \A a \in Octets : a \div 2 \in Octets /\ a \div 2 <= a
BY VarIntType DEF Octets, Values

\* The table of Xor: row after row, each made from an earlier one.
LEMMA XorSteps ==
  ASSUME NEW a \in Octets, NEW b \in Octets
  PROVE  Xor[a][b] = IF a = 0 THEN b ELSE ((a + b) % 2) + 2 * Xor[a \div 2][b \div 2]
<1>. DEFINE X    == [Octets -> [Octets -> Int]]
            N    == Values - 1
            row(t, i) == [c \in Octets |-> ((i + c) % 2) + 2 * t[i \div 2][c \div 2]]
            base == [i \in Octets |-> [c \in Octets |-> c]]
            step == [i \in 1 .. N |-> [t \in X |-> [j \in Octets |-> IF j = i THEN row(t, i) ELSE t[j]]]]
            Table(f) == f = [i \in Octets |-> [c \in Octets |->
                               IF i = 0 THEN c ELSE ((i + c) % 2) + 2 * f[i \div 2][c \div 2]]]
<1>0. N \in Nat /\ Octets = 0 .. N
  BY OctetsFacts
<1>1. base \in X
  BY OctetsFacts
<1>2. step \in [1 .. N -> [X -> X]]
  <2>1. ASSUME NEW i \in 1 .. N, NEW t \in X
        PROVE  [j \in Octets |-> IF j = i THEN row(t, i) ELSE t[j]] \in X
    <3>1. i \in Octets /\ i \in Int
      BY <1>0
    <3>2. \A c \in Octets : t[i \div 2][c \div 2] \in Int /\ (i + c) % 2 \in Int
      BY <3>1, OctetsFacts, SMTT(30)
    <3>3. row(t, i) \in [Octets -> Int]
      BY <3>2
    <3>. HIDE DEF row
    <3>. QED BY <3>3
  <2>. HIDE DEF X, row
  <2>. QED BY <2>1
<1>3. PICK g : Stepping(g, X, base, N, step)
  <2>. HIDE DEF X, base, N, step
  <2>. QED BY <1>0, <1>1, <1>2, Recursion
<1>4. /\ g \in [0 .. N -> X] /\ g[0] = base
      /\ \A i \in 1 .. N : \A j \in Octets : g[i][j] = IF j = i THEN row(g[i - 1], i) ELSE g[i - 1][j]
  <2>1. g \in [0 .. N -> X] /\ g[0] = base /\ \A i \in 1 .. N : g[i] = step[i][g[i - 1]]
    BY <1>3 DEF Stepping
  <2>2. ASSUME NEW i \in 1 .. N, NEW j \in Octets
        PROVE  g[i][j] = IF j = i THEN row(g[i - 1], i) ELSE g[i - 1][j]
    <3>1. g[i - 1] \in X
      <4>. HIDE DEF X, step
      <4>1. i - 1 \in 0 .. N
        BY <1>0
      <4>. QED BY <2>1, <4>1
    <3>2. g[i] = step[i][g[i - 1]]
      BY <2>1
    <3>. HIDE DEF X, row
    <3>. QED BY <3>1, <3>2
  <2>. QED BY <2>1, <2>2
<1>. HIDE DEF X, base, step, row
\* A row stays as it was made.
<1>5. ASSUME NEW j \in Octets
      PROVE  \A i \in 0 .. N : i >= j => g[i][j] = g[j][j]
  <2>. DEFINE A == {i \in 0 .. N : i >= j => g[i][j] = g[j][j]}
  <2>1. 0 \in A
    BY <1>0
  <2>2. ASSUME NEW i \in 0 .. N - 1, i \in A PROVE i + 1 \in A
    <3>1. PICK k \in 1 .. N : k = i + 1 /\ k - 1 = i
      BY <1>0
    <3>2. CASE k = j
      BY <1>0, <3>1, <3>2
    <3>3. CASE k # j
      <4>1. g[k][j] = g[i][j]
        BY <1>4, <3>1, <3>3
      <4>2. k >= j => i >= j
        BY <1>0, <3>1, <3>3
      <4>3. k >= j => g[i][j] = g[j][j]
        BY <2>2, <4>2
      <4>. QED BY <1>0, <3>1, <4>1, <4>3
    <3>. QED BY <3>2, <3>3
  <2>3. \A i \in 0 .. N : i \in A
    <3>. HIDE DEF A
    <3>. QED BY <1>0, <2>1, <2>2, InductionTo
  <2>. QED BY <2>3
<1>6. PICK f : f = g[N]
  OBVIOUS
<1>7. f \in X
  BY <1>0, <1>4, <1>6
<1>8. ASSUME NEW i \in Octets, NEW c \in Octets
      PROVE  f[i][c] = IF i = 0 THEN c ELSE ((i + c) % 2) + 2 * f[i \div 2][c \div 2]
  <2>1. f[i] = g[i][i]
    BY <1>0, <1>5, <1>6
  <2>2. CASE i = 0
    BY <1>4, <2>1, <2>2 DEF base
  <2>3. CASE i # 0
    <3>1. PICK k \in 0 .. N : k = i - 1 /\ i \in 1 .. N
      BY <1>0, <2>3
    <3>2. PICK h \in Octets : h = i \div 2 /\ h <= k
      BY <1>0, <2>3, <3>1, OctetsFacts
    <3>3. f[i][c] = ((i + c) % 2) + 2 * g[k][h][c \div 2]
      <4>1. g[i][i] = row(g[i - 1], i)
        BY <1>4, <3>1
      <4>2. f[i] = row(g[k], i)
        BY <2>1, <3>1, <4>1
      <4>3. row(g[k], i)[c] = ((i + c) % 2) + 2 * g[k][i \div 2][c \div 2]
        BY DEF row
      <4>. QED BY <3>2, <4>2, <4>3
    <3>4. g[k][h] = g[h][h] /\ f[h] = g[h][h]
      BY <1>0, <1>5, <1>6, <3>1, <3>2
    <3>. QED BY <2>3, <3>2, <3>3, <3>4
  <2>. QED BY <2>2, <2>3
<1>9. Table(f)
  <2>1. \A i \in Octets : f[i] = [c \in Octets |->
          IF i = 0 THEN c ELSE ((i + c) % 2) + 2 * f[i \div 2][c \div 2]]
    BY <1>7, <1>8 DEF X
  <2>2. f = [i \in Octets |-> f[i]]
    BY <1>7 DEF X
  <2>. QED BY <2>1, <2>2
<1>10. Xor = CHOOSE h : Table(h)
  BY DEF Xor
<1>11. Table(Xor)
  BY <1>9, <1>10
<1>12. PICK x : x = Xor
  OBVIOUS
<1>13. x = [i \in Octets |-> [c \in Octets |->
             IF i = 0 THEN c ELSE ((i + c) % 2) + 2 * x[i \div 2][c \div 2]]]
  BY <1>11, <1>12
<1>14. x[a] = [c \in Octets |-> IF a = 0 THEN c ELSE ((a + c) % 2) + 2 * x[a \div 2][c \div 2]]
  BY <1>13
<1>. QED BY <1>12, <1>14

LEMMA SameHalves ==
  ASSUME NEW m \in Nat, NEW c \in Nat, m \div 2 = c \div 2, (m + c) % 2 = 0
  PROVE  m = c
OBVIOUS

LEMMA SumOfBits ==
  ASSUME NEW m \in Nat, NEW c \in Nat, NEW x \in Nat, x % 2 = (m + c) % 2
  PROVE  (x + c) % 2 = m % 2
OBVIOUS

\* A byte combined twice with the same byte is what it was.
LEMMA XorTwice ==
  ASSUME NEW p \in Octets, NEW k \in Octets
  PROVE  Xor[Xor[p][k]][k] = p
<1>0. /\ Values - 1 \in Nat /\ Octets = 0 .. Values - 1 /\ 0 \in Octets
      /\ \A a, b \in Octets : Xor[a][b] \in Octets
  BY OctetsFacts, CipherType
\* A byte combined with itself is 0.
<1>1. ASSUME NEW a \in Octets PROVE Xor[a][a] = 0
  <2>. DEFINE A == {n \in 0 .. Values - 1 : \A b \in 0 .. n : Xor[b][b] = 0}
  <2>1. 0 \in A
    <3>1. Xor[0][0] = 0
      BY <1>0, XorSteps
    <3>. QED BY <1>0, <3>1
  <2>2. ASSUME NEW n \in 0 .. (Values - 1) - 1, n \in A PROVE n + 1 \in A
    <3>1. PICK m \in Octets : m = n + 1 /\ m # 0
      BY <1>0
    <3>2. PICK h \in Octets : h = m \div 2 /\ h \in 0 .. n
      BY <1>0, <3>1, OctetsFacts
    <3>3. Xor[h][h] = 0
      BY <2>2, <3>2
    <3>4. Xor[m][m] = ((m + m) % 2) + 2 * Xor[m \div 2][m \div 2]
      BY <3>1, XorSteps
    <3>5. (m + m) % 2 = 0
      BY <1>0
    <3>6. Xor[m][m] = 0
      BY <3>2, <3>3, <3>4, <3>5
    <3>7. \A b \in 0 .. n + 1 : b \in 0 .. n \/ b = m
      BY <1>0, <3>1
    <3>. QED BY <1>0, <2>2, <3>1, <3>6, <3>7
  <2>3. \A n \in 0 .. Values - 1 : n \in A
    <3>. HIDE DEF A
    <3>. QED BY <1>0, <2>1, <2>2, InductionTo
  <2>4. a \in 0 .. Values - 1 /\ a \in 0 .. a
    BY <1>0
  <2>. QED BY <2>3, <2>4
<1>. DEFINE Undone(a) == \A c \in Octets : Xor[Xor[a][c]][c] = a
            A == {n \in 0 .. Values - 1 : \A a \in 0 .. n : Undone(a)}
<1>2. Undone(0)
  <2>1. ASSUME NEW c \in Octets PROVE Xor[Xor[0][c]][c] = 0
    <3>1. Xor[0][c] = c
      BY <1>0, XorSteps
    <3>. QED BY <1>1, <3>1
  <2>. QED BY <2>1
<1>3. ASSUME NEW n \in 0 .. (Values - 1) - 1, n \in A PROVE n + 1 \in A
  <2>1. PICK m \in Octets : m = n + 1 /\ m # 0
    BY <1>0
  <2>2. PICK h \in Octets : h = m \div 2 /\ h \in 0 .. n
    BY <1>0, <2>1, OctetsFacts
  <2>3. Undone(h)
    BY <1>3, <2>2
  <2>4. ASSUME NEW c \in Octets PROVE Xor[Xor[m][c]][c] = m
    <3>1. PICK d \in Octets : d = c \div 2
      BY OctetsFacts
    <3>2. PICK y \in Octets : y = Xor[h][d] /\ Xor[y][d] = h
      BY <1>0, <2>3
    <3>3. PICK x \in Octets : x = Xor[m][c] /\ x = ((m + c) % 2) + 2 * y
      <4>1. Xor[m][c] = ((m + c) % 2) + 2 * Xor[m \div 2][c \div 2]
        BY <2>1, XorSteps
      <4>. QED BY <1>0, <2>2, <3>1, <3>2, <4>1
    <3>4. x \div 2 = y /\ x % 2 = (m + c) % 2
      BY <1>0, <3>3
    <3>5. CASE x = 0
      <4>1. y = 0 /\ (m + c) % 2 = 0
        BY <1>0, <3>3, <3>4, <3>5
      <4>2. Xor[0][d] = d /\ Xor[0][c] = c
        BY <1>0, XorSteps
      <4>3. d = h
        BY <3>2, <4>1, <4>2
      <4>4. c = m
          <5>1. m \in Nat /\ c \in Nat /\ m \div 2 = c \div 2
          BY <1>0, <2>2, <3>1, <4>3
        <5>. QED BY <4>1, <5>1, SameHalves
      <4>. QED BY <3>3, <3>5, <4>2, <4>4
    <3>6. CASE x # 0
      <4>1. Xor[x][c] = ((x + c) % 2) + 2 * Xor[x \div 2][c \div 2]
        BY <3>6, XorSteps
      <4>2. Xor[x][c] = ((x + c) % 2) + 2 * h
        BY <3>1, <3>2, <3>4, <4>1
      <4>3. (x + c) % 2 = m % 2
        <5>1. m \in Nat /\ c \in Nat /\ x \in Nat
          BY <1>0
        <5>. QED BY <3>4, <5>1, SumOfBits
      <4>4. m = (m % 2) + 2 * h
        BY <1>0, <2>2
      <4>. QED BY <3>3, <4>2, <4>3, <4>4
    <3>. QED BY <3>5, <3>6
  <2>5. Undone(m)
    BY <2>4
  <2>. HIDE DEF Undone
  <2>6. \A a \in 0 .. n + 1 : a \in 0 .. n \/ a = m
    BY <1>0, <2>1
  <2>. QED BY <1>0, <1>3, <2>1, <2>5, <2>6
<1>4. \A n \in 0 .. Values - 1 : n \in A
  <2>1. 0 \in A
    <3>. HIDE DEF Undone
    <3>. QED BY <1>0, <1>2
  <2>. HIDE DEF A
  <2>. QED BY <1>0, <1>3, <2>1, InductionTo
<1>5. p \in 0 .. Values - 1 /\ p \in 0 .. p
  BY <1>0
<1>6. Undone(p)
  BY <1>4, <1>5
<1>. QED BY <1>6

LEMMA CipherFacts ==
  /\ BlockLen \in Nat /\ BlockLen > 0
  /\ Secret \in Registers
  /\ EncryptBlock \in [Registers -> Octets]
  /\ \A r \in Registers, b \in Octets : Output(r, b) = Xor[b][EncryptBlock[r]] /\ Output(r, b) \in Octets
  /\ \A s \in Symbol : s.byte \in Octets
<1>1. BlockLen \in Nat /\ BlockLen > 0
  BY BoundsType
<1>2. Secret \in Registers
  <2>1. \A i \in 1 .. BlockLen : i % Values \in Octets
    BY <1>1, OctetsFacts
  <2>. QED BY <2>1 DEF Secret, Registers
<1>3. EncryptBlock \in [Registers -> Octets] /\ \A a, b \in Octets : Xor[a][b] \in Octets
  BY CipherType
<1>4. ASSUME NEW r \in Registers, NEW b \in Octets
      PROVE  Output(r, b) = Xor[b][EncryptBlock[r]] /\ Output(r, b) \in Octets
  BY <1>3 DEF Output, NextKeystreamByte
<1>5. ASSUME NEW s \in Symbol PROVE s.byte \in Octets
  BY DEF Symbol
<1>. QED BY <1>1, <1>2, <1>3, <1>4, <1>5

\* The register after k bytes of s.
Win(s, k) == SubSeq(s, k + 1, k + BlockLen)

IsWin(s, k) == s \in Seq(Octets) /\ k \in Nat /\ k + BlockLen <= Len(s)

SameWin(s, k, t, m) == \A j \in 1 .. BlockLen : s[k + j] = t[m + j]

\* BlockLen bytes on end are a register.
LEMMA Window ==
  ASSUME NEW s, NEW k, IsWin(s, k)
  PROVE  Win(s, k) \in Registers /\ \A j \in 1 .. BlockLen : Win(s, k)[j] = s[k + j]
<1>1. PICK n \in Nat : n = BlockLen /\ n > 0
  BY CipherFacts
<1>2. s \in Seq(Octets) /\ k \in Nat /\ k + n <= Len(s)
  BY <1>1 DEF IsWin
<1>3. PICK w : w = SubSeq(s, k + 1, k + n)
  OBVIOUS
<1>4. Len(w) = n /\ w \in Seq(Octets) /\ \A j \in 1 .. n : w[j] = s[k + j]
  BY <1>1, <1>2, <1>3, SMTT(30)
<1>5. w \in [1 .. n -> Octets]
  BY <1>4
<1>. QED BY <1>1, <1>3, <1>4, <1>5 DEF Registers, Win

LEMMA WindowsEqual ==
  ASSUME NEW s, NEW k, IsWin(s, k), NEW t, NEW m, IsWin(t, m), SameWin(s, k, t, m)
  PROVE  Win(s, k) = Win(t, m)
<1>1. PICK v, w : v = Win(s, k) /\ w = Win(t, m)
  OBVIOUS
<1>2. v \in [1 .. BlockLen -> Octets] /\ \A j \in 1 .. BlockLen : v[j] = s[k + j]
  BY <1>1, Window DEF Registers
<1>3. w \in [1 .. BlockLen -> Octets] /\ \A j \in 1 .. BlockLen : w[j] = t[m + j]
  BY <1>1, Window DEF Registers
<1>4. \A j \in 1 .. BlockLen : v[j] = w[j]
  BY <1>2, <1>3 DEF SameWin
<1>5. v = w
  <2>1. v = [j \in 1 .. BlockLen |-> v[j]] /\ w = [j \in 1 .. BlockLen |-> w[j]]
    BY <1>2, <1>3
  <2>2. [j \in 1 .. BlockLen |-> v[j]] = [j \in 1 .. BlockLen |-> w[j]]
    BY <1>4
  <2>. QED BY <2>1, <2>2
<1>. QED BY <1>1, <1>5

\* The register before the i-th byte passes.
LEMMA WinBefore ==
  ASSUME NEW s, NEW i \in Nat, i > 0
  PROVE  SubSeq(s, i, i + BlockLen - 1) = Win(s, i - 1)
<1>1. BlockLen \in Nat
  BY CipherFacts
<1>2. i - 1 + 1 = i /\ i - 1 + BlockLen = i + BlockLen - 1
  BY <1>1
<1>. QED BY <1>2 DEF Win

\* A register is a sequence of bytes.
LEMMA RegisterIsSeq ==
  ASSUME NEW r \in Registers
  PROVE  r \in Seq(Octets) /\ Len(r) = BlockLen /\ r \in Histories
<1>1. BlockLen \in Nat /\ r \in [1 .. BlockLen -> Octets]
  BY CipherFacts DEF Registers
<1>2. r \in Seq(Octets) /\ Len(r) = BlockLen
  BY <1>1
<1>. QED BY <1>1, <1>2 DEF Histories

LEMMA RegisterOf ==
  ASSUME NEW h \in Histories, NEW k \in Nat, Len(h) = BlockLen + k
  PROVE  Register(h) = Win(h, k) /\ IsWin(h, k)
<1>1. PICK l \in Nat, n \in Nat : l = Len(h) /\ n = BlockLen /\ l = n + k
  BY CipherFacts DEF Histories
<1>2. l - n + 1 = k + 1 /\ l = k + n
  BY <1>1
<1>3. Register(h) = Win(h, k)
  BY <1>1, <1>2 DEF Register, Win
<1>4. h \in Seq(Octets)
  BY DEF Histories
<1>. QED BY <1>1, <1>2, <1>3, <1>4 DEF IsWin

LEMMA FeedType ==
  ASSUME NEW e \in BOOLEAN, NEW b \in Octets, NEW h \in Histories
  PROVE  /\ Register(h) \in Registers
         /\ Feedback(e, b, Output(Register(h), b)) \in Octets
         /\ Feed(e, b)[h] = Append(h, Feedback(e, b, Output(Register(h), b)))
         /\ Feed(e, b)[h] \in Histories
<1>1. PICK l \in Nat, n \in Nat : l = Len(h) /\ n = BlockLen /\ l >= n /\ n > 0
  BY CipherFacts DEF Histories
<1>2. h \in Seq(Octets)
  BY DEF Histories
<1>3. PICK k \in Nat : Len(h) = BlockLen + k
  <2>1. l - n \in Nat /\ l = n + (l - n)
    BY <1>1
  <2>. QED BY <1>1, <2>1
<1>5. Register(h) \in Registers
  BY <1>3, RegisterOf, Window
<1>6. PICK o \in Octets : o = Feedback(e, b, Output(Register(h), b))
  BY <1>5, CipherFacts DEF Feedback
<1>7. Append(h, o) \in Seq(Octets) /\ Len(Append(h, o)) = l + 1
  BY <1>1, <1>2
<1>8. Append(h, o) \in Histories
  BY <1>1, <1>7 DEF Histories
<1>9. Feed(e, b)[h] = Append(h, o)
  BY <1>6 DEF Feed
<1>. QED BY <1>5, <1>6, <1>8, <1>9

\* All that was fed into the register, byte by byte.
LEMMA FedTrail ==
  ASSUME NEW e \in BOOLEAN, NEW r \in Registers, NEW data \in Seq(Symbol)
  PROVE  \E c : /\ c \in [0 .. Len(data) -> Histories]
                /\ c[0] = r
                /\ \A i \in 1 .. Len(data) : c[i] = Feed(e, data[i].byte)[c[i - 1]]
                /\ Fed(e, r, data) = c[Len(data)]
<1>. DEFINE step == [i \in 1 .. Len(data) |-> Feed(e, data[i].byte)]
            Goes(g) == g = [i \in 0 .. Len(data) |-> IF i = 0 THEN r ELSE Feed(e, data[i].byte)[g[i - 1]]]
<1>1. PICK n \in Nat : n = Len(data)
  OBVIOUS
<1>2. \A i \in 1 .. n : data[i] \in Symbol /\ data[i].byte \in Octets
  BY <1>1, CipherFacts
<1>3. \A b \in Octets : Feed(e, b) \in [Histories -> Histories]
  <2>1. ASSUME NEW b \in Octets, NEW h \in Histories PROVE Feed(e, b)[h] \in Histories
    BY FeedType
  <2>2. ASSUME NEW b \in Octets PROVE Feed(e, b) = [h \in Histories |-> Feed(e, b)[h]]
    BY DEF Feed
  <2>. QED BY <2>1, <2>2
<1>4. step \in [1 .. n -> [Histories -> Histories]]
  BY <1>1, <1>2, <1>3
<1>5. r \in Histories
  BY RegisterIsSeq
<1>6. PICK g : Stepping(g, Histories, r, n, step)
  <2>. HIDE DEF step
  <2>. QED BY <1>4, <1>5, Recursion
<1>7. Goes(g)
  <2>1. g = [i \in 0 .. n |-> g[i]]
    BY <1>6 DEF Stepping
  <2>2. g[0] = r /\ \A i \in 1 .. n : g[i] = Feed(e, data[i].byte)[g[i - 1]]
    BY <1>1, <1>6 DEF Stepping
  <2>3. \A i \in 0 .. n : g[i] = IF i = 0 THEN r ELSE Feed(e, data[i].byte)[g[i - 1]]
    BY <2>2
  <2>. QED BY <1>1, <2>1, <2>3
<1>8. Fed(e, r, data) = (CHOOSE g_1 : Goes(g_1))[Len(data)]
  BY DEF Fed
<1>9. PICK c : c = (CHOOSE g_1 : Goes(g_1)) /\ Goes(c)
  BY <1>7
<1>10. /\ c = [i \in 0 .. n |-> c[i]] /\ c[0] = r
       /\ \A i \in 1 .. n : c[i] = Feed(e, data[i].byte)[c[i - 1]]
  <2>1. PICK d : d = [i \in 0 .. n |-> IF i = 0 THEN r ELSE Feed(e, data[i].byte)[c[i - 1]]]
    OBVIOUS
  <2>2. c = d
    BY <1>1, <1>9, <2>1
  <2>3. d = [i \in 0 .. n |-> d[i]] /\ d[0] = r /\ \A i \in 1 .. n : d[i] = Feed(e, data[i].byte)[c[i - 1]]
    BY <2>1
  <2>. QED BY <2>2, <2>3
<1>. HIDE DEF Goes, step
<1>. DEFINE A == {i \in 0 .. n : c[i] \in Histories}
<1>11. 0 \in A
  BY <1>5, <1>10
<1>12. ASSUME NEW k \in 0 .. n - 1, k \in A PROVE k + 1 \in A
  <2>1. PICK m \in 1 .. n : m = k + 1 /\ m - 1 = k
    OBVIOUS
  <2>2. c[m] = Feed(e, data[m].byte)[c[k]] /\ c[k] \in Histories
    BY <1>10, <1>12, <2>1
  <2>3. c[m] \in Histories
    BY <1>2, <2>2, FeedType
  <2>. QED BY <2>1, <2>3
<1>13. \A i \in 0 .. n : c[i] \in Histories
  <2>1. \A i \in 0 .. n : i \in A
    <3>. HIDE DEF A
    <3>. QED BY <1>11, <1>12, InductionTo
  <2>. QED BY <2>1
<1>14. c \in [0 .. n -> Histories]
  BY <1>10, <1>13
<1>. QED BY <1>1, <1>8, <1>9, <1>10, <1>14

\* What a byte becomes depends on the BlockLen fed before it.
FedBy(f, e, r, data) ==
  /\ f \in Seq(Octets) /\ Len(f) = BlockLen + Len(data)
  /\ \A j \in 1 .. BlockLen : f[j] = r[j]
  /\ \A i \in 1 .. Len(data) :
       f[BlockLen + i] = Feedback(e, data[i].byte, Output(Win(f, i - 1), data[i].byte))

LEMMA FedSteps ==
  ASSUME NEW e \in BOOLEAN, NEW r \in Registers, NEW data \in Seq(Symbol)
  PROVE  FedBy(Fed(e, r, data), e, r, data)
<1>1. PICK c : /\ c \in [0 .. Len(data) -> Histories]
               /\ c[0] = r
               /\ \A i \in 1 .. Len(data) : c[i] = Feed(e, data[i].byte)[c[i - 1]]
               /\ Fed(e, r, data) = c[Len(data)]
  BY FedTrail
<1>2. PICK n \in Nat, l \in Nat : n = Len(data) /\ l = BlockLen /\ l > 0
  BY CipherFacts
<1>3. PICK x : x = [i \in 1 .. n |->
                      Feedback(e, data[i].byte, Output(Register(c[i - 1]), data[i].byte))]
  OBVIOUS
<1>4. ASSUME NEW i \in 1 .. n
      PROVE  /\ data[i].byte \in Octets /\ c[i - 1] \in Histories
             /\ x[i] = Feedback(e, data[i].byte, Output(Register(c[i - 1]), data[i].byte))
             /\ x[i] \in Octets /\ c[i] = Append(c[i - 1], x[i])
  <2>1. PICK b \in Octets : b = data[i].byte
    BY <1>2, CipherFacts
  <2>2. PICK h \in Histories : h = c[i - 1]
    <3>1. i - 1 \in 0 .. Len(data)
      BY <1>2
    <3>. QED BY <1>1, <3>1
  <2>3. x[i] = Feedback(e, b, Output(Register(h), b)) /\ c[i] = Feed(e, b)[h]
    BY <1>1, <1>2, <1>3, <2>1, <2>2
  <2>. QED BY <2>1, <2>2, <2>3, FeedType
<1>5. c[0] \in Seq(Octets) /\ Len(c[0]) = l
  BY <1>1, <1>2, RegisterIsSeq
<1>6. /\ \A i \in 0 .. n : c[i] \in Seq(Octets) /\ Len(c[i]) = l + i
      /\ \A i \in 0 .. n : \A j \in 1 .. l + i : c[n][j] = c[i][j]
      /\ \A i \in 1 .. n : c[n][l + i] = x[i]
  <2>1. Grown(Octets, c, x, n, l)
    BY <1>2, <1>4, <1>5, Grows
  <2>. QED BY <2>1 DEF Grown
<1>7. PICK f : f = c[n] /\ f = Fed(e, r, data) /\ f \in Seq(Octets) /\ Len(f) = l + n
  BY <1>1, <1>2, <1>6
<1>8. ASSUME NEW j \in 1 .. l PROVE f[j] = r[j]
  <2>1. 0 \in 0 .. n /\ j \in 1 .. l + 0
    BY <1>2
  <2>. QED BY <1>1, <1>6, <1>7, <2>1
<1>9. ASSUME NEW i \in 1 .. n
      PROVE  f[l + i] = Feedback(e, data[i].byte, Output(Win(f, i - 1), data[i].byte))
  <2>1. PICK k \in 0 .. n : k = i - 1 /\ k \in Nat /\ k + l <= l + n
    BY <1>2
  <2>2. PICK h \in Histories : h = c[k] /\ h \in Seq(Octets) /\ Len(h) = l + k
    BY <1>1, <1>2, <1>6
  <2>3. Register(h) = Win(h, k) /\ IsWin(h, k)
    BY <1>2, <2>1, <2>2, RegisterOf
  <2>4. Win(h, k) = Win(f, k)
    <3>1. IsWin(f, k)
      BY <1>2, <1>7, <2>1 DEF IsWin
    <3>2. SameWin(h, k, f, k)
      <4>1. \A j \in 1 .. BlockLen : k + j \in 1 .. l + k
        BY <1>2, <2>1
      <4>. QED BY <1>6, <1>7, <2>2, <4>1 DEF SameWin
    <3>. QED BY <2>3, <3>1, <3>2, WindowsEqual
  <2>5. x[i] = Feedback(e, data[i].byte, Output(Register(h), data[i].byte))
    BY <1>4, <2>1, <2>2
  <2>. QED BY <1>6, <1>7, <2>1, <2>3, <2>4, <2>5
<1>. QED BY <1>2, <1>7, <1>8, <1>9 DEF FedBy

\* Encrypting a stream at one go is what the definition of CFB8 says.
LEMMA CiphertextIsFed ==
  ASSUME NEW data \in Seq(Symbol)
  PROVE  Ciphertext(data) = Fed(TRUE, Secret, data)
<1>. DEFINE Next1(before, i) ==
              Append(before, Xor[data[i].byte][EncryptBlock[SubSeq(before, i, i + BlockLen - 1)]])
            Goes(g) == g = [i \in 0 .. Len(data) |-> IF i = 0 THEN Secret ELSE Next1(g[i - 1], i)]
<1>1. PICK c : /\ c \in [0 .. Len(data) -> Histories]
               /\ c[0] = Secret
               /\ \A i \in 1 .. Len(data) : c[i] = Feed(TRUE, data[i].byte)[c[i - 1]]
               /\ Fed(TRUE, Secret, data) = c[Len(data)]
  <2>1. Secret \in Registers /\ TRUE \in BOOLEAN
    BY CipherFacts
  <2>. QED BY <2>1, FedTrail
<1>2. PICK n \in Nat, l \in Nat : n = Len(data) /\ l = BlockLen /\ l > 0
  BY CipherFacts
<1>3. ASSUME NEW i \in 1 .. n
      PROVE  /\ c[i - 1] \in Histories /\ data[i].byte \in Octets
             /\ c[i] = Append(c[i - 1], Output(Register(c[i - 1]), data[i].byte))
             /\ Output(Register(c[i - 1]), data[i].byte)
                  = Xor[data[i].byte][EncryptBlock[Register(c[i - 1])]]
             /\ Output(Register(c[i - 1]), data[i].byte) \in Octets
  <2>1. PICK b \in Octets : b = data[i].byte
    BY <1>2, CipherFacts
  <2>2. PICK h \in Histories : h = c[i - 1]
    <3>1. i - 1 \in 0 .. Len(data)
      BY <1>2
    <3>. QED BY <1>1, <3>1
  <2>3. c[i] = Append(h, Feedback(TRUE, b, Output(Register(h), b))) /\ Register(h) \in Registers
    BY <1>1, <1>2, <2>1, <2>2, FeedType, SMTT(30)
  <2>4. Feedback(TRUE, b, Output(Register(h), b)) = Output(Register(h), b)
    BY DEF Feedback
  <2>. QED BY <2>1, <2>2, <2>3, <2>4, CipherFacts
<1>4. \A i \in 0 .. n : c[i] \in Seq(Octets) /\ Len(c[i]) = l + i
  <2>1. PICK x : x = [i \in 1 .. n |-> Output(Register(c[i - 1]), data[i].byte)]
    OBVIOUS
  <2>2. \A i \in 1 .. n : x[i] \in Octets /\ c[i] = Append(c[i - 1], x[i])
    BY <1>3, <2>1
  <2>3. c[0] \in Seq(Octets) /\ Len(c[0]) = l
    BY <1>1, <1>2, CipherFacts, RegisterIsSeq
  <2>4. Grown(Octets, c, x, n, l)
    BY <2>2, <2>3, Grows
  <2>. QED BY <2>4 DEF Grown
<1>5. ASSUME NEW i \in 1 .. n PROVE c[i] = Next1(c[i - 1], i)
  <2>1. PICK k \in 0 .. n : k = i - 1
    BY <1>2
  <2>2. PICK h : h = c[k] /\ Len(h) = l + k
    BY <1>4
  <2>3. Register(h) = SubSeq(h, i, i + BlockLen - 1)
    <3>1. h \in Histories /\ k \in Nat /\ Len(h) = BlockLen + k
      BY <1>1, <1>2, <2>1, <2>2
    <3>2. i \in Nat /\ i > 0
      BY <1>2
    <3>. QED BY <2>1, <3>1, <3>2, RegisterOf, WinBefore
  <2>. QED BY <1>3, <2>1, <2>2, <2>3
<1>. HIDE DEF Next1
<1>6. Goes(c)
  <2>1. c = [i \in 0 .. n |-> c[i]]
    BY <1>1, <1>2
  <2>2. \A i \in 0 .. n : c[i] = IF i = 0 THEN Secret ELSE Next1(c[i - 1], i)
    BY <1>1, <1>2, <1>5
  <2>. QED BY <1>2, <2>1, <2>2
<1>7. Ciphertext(data) = (CHOOSE g : Goes(g))[Len(data)]
  BY DEF Ciphertext, Next1
<1>8. PICK d : d = (CHOOSE g : Goes(g)) /\ Goes(d)
  BY <1>6
<1>9. d[0] = Secret /\ \A i \in 1 .. n : d[i] = Next1(d[i - 1], i)
  <2>1. PICK t : t = [i \in 0 .. n |-> IF i = 0 THEN Secret ELSE Next1(d[i - 1], i)]
    OBVIOUS
  <2>2. d = t
    BY <1>2, <1>8, <2>1
  <2>3. t[0] = Secret /\ \A i \in 1 .. n : t[i] = Next1(d[i - 1], i)
    BY <2>1
  <2>. QED BY <2>2, <2>3
<1>. HIDE DEF Goes
<1>. DEFINE A == {i \in 0 .. n : d[i] = c[i]}
<1>10. 0 \in A
  BY <1>1, <1>9
<1>11. ASSUME NEW k \in 0 .. n - 1, k \in A PROVE k + 1 \in A
  <2>1. PICK m \in 1 .. n : m = k + 1 /\ m - 1 = k
    OBVIOUS
  <2>2. d[k] = c[k] /\ d[m] = Next1(d[k], m) /\ c[m] = Next1(c[k], m)
    BY <1>5, <1>9, <1>11, <2>1
  <2>. QED BY <2>1, <2>2
<1>12. d[n] = c[n]
  <2>1. \A i \in 0 .. n : i \in A
    <3>. HIDE DEF A
    <3>. QED BY <1>10, <1>11, InductionTo
  <2>. QED BY <2>1
<1>. QED BY <1>1, <1>2, <1>7, <1>8, <1>12

\* C is the secret and the ciphertext of S.
Enciphers(C, S) ==
  /\ C \in Seq(Octets) /\ S \in Seq(Symbol) /\ Len(C) = BlockLen + Len(S)
  /\ Win(C, 0) = Secret
  /\ \A i \in 1 .. Len(S) : C[BlockLen + i] = Xor[S[i].byte][EncryptBlock[Win(C, i - 1)]]

LEMMA CiphertextEnciphers ==
  ASSUME NEW data \in Seq(Symbol)
  PROVE  Enciphers(Ciphertext(data), data)
<1>1. PICK f : f = Ciphertext(data) /\ FedBy(f, TRUE, Secret, data)
  BY CiphertextIsFed, FedSteps, CipherFacts
<1>2. \A i \in 1 .. Len(data) : f[BlockLen + i] = Xor[data[i].byte][EncryptBlock[Win(f, i - 1)]]
  BY <1>1 DEF FedBy, Feedback, Output, NextKeystreamByte
<1>3. Win(f, 0) = Secret
  <2>1. PICK n \in Nat : n = BlockLen /\ n > 0
    BY CipherFacts
  <2>2. IsWin(f, 0)
    BY <1>1, <2>1 DEF FedBy, IsWin
  <2>3. PICK w : w = Win(f, 0) /\ w \in Registers /\ \A j \in 1 .. n : w[j] = f[0 + j]
    BY <2>1, <2>2, Window
  <2>4. \A j \in 1 .. n : w[j] = Secret[j]
    <3>1. \A j \in 1 .. n : f[j] = Secret[j] /\ 0 + j = j
      BY <1>1, <2>1 DEF FedBy
    <3>. QED BY <2>3, <3>1
  <2>5. w = [j \in 1 .. n |-> w[j]] /\ Secret = [j \in 1 .. n |-> Secret[j]]
    BY <2>1, <2>3, CipherFacts DEF Registers
  <2>6. [j \in 1 .. n |-> w[j]] = [j \in 1 .. n |-> Secret[j]]
    BY <2>4
  <2>. QED BY <2>3, <2>5, <2>6
<1>. QED BY <1>1, <1>2, <1>3 DEF Enciphers, FedBy

\* t stands at position P of the stream S, as it is or enciphered.
Stands(C, S, P, t, e) ==
  /\ P \in Nat /\ t \in Seq(Symbol) /\ P + Len(t) <= Len(S)
  /\ \A i \in 1 .. Len(t) : t[i].byte = IF e THEN S[P + i].byte ELSE C[BlockLen + (P + i)]

\* f is what C holds around position P.
Follows(f, C, P, n) ==
  /\ f \in Seq(Octets) /\ Len(f) = BlockLen + n
  /\ \A j \in 1 .. BlockLen + n : f[j] = C[P + j]
  /\ \A i \in 1 .. n : Win(f, i - 1) = Win(C, P + i - 1)
  /\ Win(f, n) = Win(C, P + n)

\* A register that holds the ciphertext before some position is fed what the whole stream
\* feeds it there: encrypting, and decrypting.
LEMMA Resumed ==
  ASSUME NEW C, NEW S, Enciphers(C, S), NEW P, NEW t, NEW e \in BOOLEAN, Stands(C, S, P, t, e),
         NEW f, f = Fed(e, Win(C, P), t)
  PROVE  Follows(f, C, P, Len(t))
<1>1. PICK n \in Nat, l \in Nat : n = Len(t) /\ l = BlockLen /\ l > 0
  BY CipherFacts DEF Stands
<1>2. /\ C \in Seq(Octets) /\ S \in Seq(Symbol) /\ Len(C) = l + Len(S)
      /\ P + n <= Len(S) /\ P \in Nat /\ t \in Seq(Symbol)
  BY <1>1 DEF Enciphers, Stands
<1>3. PICK r : r = Win(C, P) /\ r \in Registers /\ \A j \in 1 .. l : r[j] = C[P + j]
  <2>1. IsWin(C, P)
    BY <1>1, <1>2 DEF IsWin
  <2>. QED BY <1>1, <2>1, Window
<1>4. /\ f \in Seq(Octets) /\ Len(f) = l + n
      /\ \A j \in 1 .. l : f[j] = r[j]
      /\ \A i \in 1 .. n : f[l + i] = Feedback(e, t[i].byte, Output(Win(f, i - 1), t[i].byte))
  <2>1. FedBy(f, e, r, t)
    BY <1>2, <1>3, FedSteps
  <2>. QED BY <1>1, <2>1 DEF FedBy
\* Windows agree as long as the bytes do.
<1>5. ASSUME NEW k \in 0 .. n, \A j \in 1 .. l + k : f[j] = C[P + j]
      PROVE  Win(f, k) = Win(C, P + k)
  <2>1. IsWin(f, k) /\ IsWin(C, P + k)
    BY <1>1, <1>2, <1>4 DEF IsWin
  <2>2. SameWin(f, k, C, P + k)
    <3>1. ASSUME NEW j \in 1 .. BlockLen PROVE f[k + j] = C[P + k + j]
      <4>1. k + j \in 1 .. l + k /\ P + (k + j) = P + k + j
        BY <1>1, <1>2
      <4>. QED BY <1>5, <4>1
    <3>. QED BY <3>1 DEF SameWin
  <2>. QED BY <2>1, <2>2, WindowsEqual
<1>. DEFINE A == {k \in 0 .. n : \A j \in 1 .. l + k : f[j] = C[P + j]}
<1>6. 0 \in A
  BY <1>1, <1>3, <1>4
<1>7. ASSUME NEW k \in 0 .. n - 1, k \in A PROVE k + 1 \in A
  <2>1. PICK i \in 1 .. n : i = k + 1 /\ k = i - 1
    BY <1>1
  <2>2. k \in 0 .. n /\ \A j \in 1 .. l + k : f[j] = C[P + j]
    BY <1>7
  <2>3. f[l + i] = C[P + (l + i)]
    <3>1. CASE ~e
      <4>1. f[l + i] = t[i].byte
        BY <1>4, <3>1 DEF Feedback
      <4>2. t[i].byte = C[l + (P + i)]
        BY <1>1, <3>1 DEF Stands
      <4>3. l + (P + i) = P + (l + i)
        BY <1>1, <1>2
      <4>. QED BY <4>1, <4>2, <4>3
    <3>2. CASE e
      <4>1. PICK q \in 1 .. Len(S) : q = P + i /\ q - 1 = P + k /\ l + q = P + (l + i)
        BY <1>1, <1>2, <2>1
      <4>2. t[i].byte = S[q].byte
        BY <1>1, <3>2, <4>1 DEF Stands
      <4>3. f[l + i] = Xor[S[q].byte][EncryptBlock[Win(f, k)]]
        BY <1>4, <2>1, <3>2, <4>2 DEF Feedback, Output, NextKeystreamByte
      <4>4. Win(f, k) = Win(C, q - 1)
        BY <1>5, <2>2, <4>1
      <4>5. C[l + q] = Xor[S[q].byte][EncryptBlock[Win(C, q - 1)]]
        BY <1>1 DEF Enciphers
      <4>. QED BY <4>1, <4>3, <4>4, <4>5
    <3>. QED BY <3>1, <3>2
  <2>4. \A j \in 1 .. l + (k + 1) : j \in 1 .. l + k \/ j = l + i
    BY <1>1, <2>1
  <2>5. k + 1 \in 0 .. n
    BY <1>1
  <2>. QED BY <2>2, <2>3, <2>4, <2>5
<1>8. \A k \in 0 .. n : \A j \in 1 .. l + k : f[j] = C[P + j]
  <2>1. \A k \in 0 .. n : k \in A
    <3>. HIDE DEF A
    <3>. QED BY <1>1, <1>6, <1>7, InductionTo
  <2>. QED BY <2>1
<1>9. \A k \in 0 .. n : Win(f, k) = Win(C, P + k)
  BY <1>5, <1>8
<1>10. n \in 0 .. n
  BY <1>1
<1>11. ASSUME NEW i \in 1 .. n PROVE Win(f, i - 1) = Win(C, P + i - 1)
  <2>1. PICK k \in 0 .. n : k = i - 1 /\ P + k = P + i - 1
    BY <1>1, <1>2
  <2>. QED BY <1>9, <2>1
<1>. QED BY <1>1, <1>4, <1>8, <1>9, <1>10, <1>11 DEF Follows

\* What Transform makes of t at position P of the stream S.
Transforms(x, C, S, P, t, e) ==
  /\ x.register = Win(C, P + Len(t))
  /\ x.out \in Seq(Symbol) /\ Len(x.out) = Len(t)
  /\ \A i \in 1 .. Len(t) :
       x.out[i] = [t[i] EXCEPT !.byte = IF e THEN C[BlockLen + (P + i)] ELSE S[P + i].byte]

LEMMA TransformResumed ==
  ASSUME NEW C, NEW S, Enciphers(C, S), NEW P, NEW t, NEW e \in BOOLEAN, Stands(C, S, P, t, e)
  PROVE  Transforms(Transform(e, Win(C, P), t), C, S, P, t, e)
<1>0. PICK x : x = Transform(e, Win(C, P), t)
  OBVIOUS
<1>1. PICK n \in Nat, l \in Nat : n = Len(t) /\ l = BlockLen /\ l > 0
  BY CipherFacts DEF Stands
<1>2. /\ C \in Seq(Octets) /\ S \in Seq(Symbol) /\ Len(C) = l + Len(S)
      /\ P + n <= Len(S) /\ P \in Nat /\ t \in Seq(Symbol)
  BY <1>1 DEF Enciphers, Stands
<1>3. PICK f : f = Fed(e, Win(C, P), t)
  OBVIOUS
<1>4. /\ f \in Seq(Octets) /\ Len(f) = l + n
      /\ \A i \in 1 .. n : Win(f, i - 1) = Win(C, P + i - 1)
      /\ Win(f, n) = Win(C, P + n)
  BY <1>1, <1>3, Resumed DEF Follows
<1>5. f \in Histories
  BY <1>1, <1>4 DEF Histories
<1>6. PICK o : o = [i \in 1 .. n |->
                      [t[i] EXCEPT !.byte = Output(SubSeq(f, i, i + BlockLen - 1), @)]]
  OBVIOUS
<1>7. x = [out |-> o, register |-> Register(f)]
  BY <1>0, <1>1, <1>3, <1>5, <1>6 DEF Transform, Passed
<1>8. x.out = o /\ x.register = Register(f)
  BY <1>7
<1>9. Register(f) = Win(C, P + n)
  BY <1>1, <1>4, <1>5, RegisterOf
<1>10. ASSUME NEW i \in 1 .. n
       PROVE  /\ o[i] = [t[i] EXCEPT !.byte = IF e THEN C[BlockLen + (P + i)] ELSE S[P + i].byte]
              /\ o[i] \in Symbol
  <2>1. PICK q \in 1 .. Len(S) : q = P + i /\ q - 1 = P + i - 1 /\ q - 1 \in Nat
    BY <1>1, <1>2
  <2>2. PICK r \in Registers : r = Win(C, q - 1)
    <3>1. IsWin(C, q - 1)
      BY <1>1, <1>2, <2>1 DEF IsWin
    <3>. QED BY <3>1, Window
  <2>3. SubSeq(f, i, i + BlockLen - 1) = r
    <3>1. i \in Nat /\ i > 0
      BY <1>1
    <3>2. SubSeq(f, i, i + BlockLen - 1) = Win(f, i - 1)
      BY <3>1, WinBefore
    <3>. QED BY <1>4, <2>1, <2>2, <3>2
  <2>4. PICK p \in Octets, k \in Octets : p = S[q].byte /\ k = EncryptBlock[r]
    BY <1>2, <2>1, CipherFacts
  <2>5. C[BlockLen + q] = Xor[p][k]
    BY <2>2, <2>4 DEF Enciphers
  <2>6. PICK s \in Symbol : s = t[i] /\ s.byte \in Octets
    BY <1>1, <1>2, CipherFacts
  <2>7. Output(r, s.byte) = Xor[s.byte][k] /\ Output(r, s.byte) \in Octets
    BY <2>4, <2>6, CipherFacts
  <2>8. Output(r, s.byte) = IF e THEN C[BlockLen + q] ELSE p
    <3>1. CASE e
      <4>1. s.byte = p
        BY <1>1, <2>1, <2>4, <2>6, <3>1 DEF Stands
      <4>. QED BY <2>5, <2>7, <3>1, <4>1
    <3>2. CASE ~e
      <4>1. s.byte = C[BlockLen + q]
        BY <1>1, <2>1, <2>6, <3>2 DEF Stands
      <4>2. Xor[Xor[p][k]][k] = p
        BY XorTwice
      <4>. QED BY <2>5, <2>7, <3>2, <4>1, <4>2
    <3>. QED BY <3>1, <3>2
  <2>9. o[i] = [s EXCEPT !.byte = Output(r, s.byte)]
    BY <1>6, <2>3, <2>6
  <2>10. o[i] \in Symbol
    BY <2>6, <2>7, <2>9 DEF Symbol
  <2>. QED BY <2>1, <2>4, <2>6, <2>8, <2>9, <2>10
<1>11. o \in Seq(Symbol) /\ Len(o) = n
  <2>1. o = [i \in 1 .. n |-> o[i]]
    BY <1>6
  <2>2. o \in [1 .. n -> Symbol]
    BY <1>10, <2>1
  <2>. QED BY <1>1, <2>1, <2>2
<1>. QED BY <1>0, <1>1, <1>8, <1>9, <1>10, <1>11 DEF Transforms

\* A longer stream has the ciphertext of its beginning at the beginning.
LEMMA CiphertextPrefix ==
  ASSUME NEW data \in Seq(Symbol), NEW more \in Seq(Symbol), Len(data) <= Len(more),
         \A i \in 1 .. Len(data) : data[i] = more[i]
  PROVE  \A j \in 1 .. BlockLen + Len(data) : Ciphertext(data)[j] = Ciphertext(more)[j]
<1>1. PICK C : C = Ciphertext(more) /\ Enciphers(C, more)
  BY CiphertextEnciphers
<1>2. BlockLen \in Nat /\ Len(data) \in Nat
  BY CipherFacts
<1>3. PICK z \in Nat : z = 0 /\ Win(C, z) = Secret
  BY <1>1 DEF Enciphers
<1>4. PICK f : f = Fed(TRUE, Win(C, z), data) /\ f = Ciphertext(data)
  BY <1>3, CiphertextIsFed
<1>5. Stands(C, more, z, data, TRUE)
  BY <1>2, <1>3 DEF Stands
<1>6. \A j \in 1 .. BlockLen + Len(data) : f[j] = C[z + j]
  <2>1. TRUE \in BOOLEAN
    OBVIOUS
  <2>2. Follows(f, C, z, Len(data))
    BY <1>1, <1>4, <1>5, <2>1, Resumed
  <2>. QED BY <2>2 DEF Follows
<1>7. \A j \in 1 .. BlockLen + Len(data) : z + j = j
  BY <1>2, <1>3
<1>. QED BY <1>1, <1>4, <1>6, <1>7

-----------------------------------------------------------------------------
(* Frames *)

\* The bodies and frames of a connection with threshold t.
BodyIn(t, data) ==
  IF t = Uncompressed THEN data
  ELSE IF Len(data) >= t THEN VarInt(Len(data)) \o Deflate(data)
  ELSE VarInt(0) \o data

FrameIn(t, p) == Framed(BodyIn(t, Data(p)))

InflateIn(t, body) ==
  LET n == VarIntLen(body)
      size == Value(SubSeq(body, 1, n))
      rest == SubSeq(body, n + 1, Len(body))
  IN  IF t = Uncompressed THEN body
      ELSE IF n = 0 THEN Invalid
      ELSE IF size = 0 THEN rest
      ELSE IF size \in 1 .. MaxPacket /\ Len(rest) = 1 /\ rest[1].byte = 0
              /\ Len(rest[1].deflated) = size
           THEN rest[1].deflated
      ELSE Invalid

LEMMA InThreshold ==
  /\ \A data : Body(data) = BodyIn(threshold, data)
  /\ \A body : Inflate(body) = InflateIn(threshold, body)
BY DEF Body, BodyIn, AnnouncedSize, Inflate, InflateIn

LEMMA SignedUnsigned ==
  /\ \A n \in 0 .. (Word \div 2) - 1 : Signed(Unsigned(n)) = n
  /\ \A u \in 0 .. Word - 1 : Signed(Unsigned(Signed(u))) = Signed(u) /\ Signed(u) \in Int
<1>1. PICK w \in Nat : w = Word /\ w > 0 /\ w % 2 = 0
  BY VarIntType
<1>2. ASSUME NEW u \in 0 .. w - 1
      PROVE  u % w = u /\ (u - w) % w = u /\ Signed(u) \in {u, u - w}
  <2>1. u % w = u
    BY <1>1
  <2>2. (u - w) % w = u
    BY <1>1
  <2>. QED BY <1>1, <2>1, <2>2 DEF Signed
<1>3. ASSUME NEW u \in 0 .. w - 1 PROVE Unsigned(u) = u /\ Unsigned(Signed(u)) = u
  BY <1>1, <1>2 DEF Unsigned
<1>4. ASSUME NEW n \in 0 .. (w \div 2) - 1 PROVE Signed(Unsigned(n)) = n
  <2>1. n \in 0 .. w - 1 /\ n < w \div 2
    BY <1>1
  <2>. QED BY <1>1, <1>2, <1>3, <2>1 DEF Signed
<1>. QED BY <1>1, <1>2, <1>3, <1>4

\* A plain byte is a symbol.
LEMMA PlainIsSymbol ==
  /\ Plain \subseteq Symbol
  /\ \A s \in Seq(Plain) : s \in Seq(Symbol)
<1>1. <<>> \in Seq([byte : Octets, deflated : {<<>>}])
  OBVIOUS
<1>2. Plain \subseteq Symbol
  BY <1>1 DEF Plain, Symbol
<1>3. ASSUME NEW s \in Seq(Plain) PROVE s \in Seq(Symbol)
  <2>1. s \in [1 .. Len(s) -> Plain] /\ Len(s) \in Nat
    OBVIOUS
  <2>2. s \in [1 .. Len(s) -> Symbol]
    BY <1>2, <2>1
  <2>. QED BY <2>1, <2>2
<1>. QED BY <1>2, <1>3

\* s starts with the n symbols of v, a VarInt, and goes on with t.
Leads(s, n, v, t) ==
  /\ s \in Seq(Symbol) /\ Len(s) = n + Len(t)
  /\ VarIntLen(s) = n
  /\ SubSeq(s, 1, n) = v
  /\ SubSeq(s, n + 1, Len(s)) = t

\* A VarInt before anything is read back, and what follows it remains.
LEMMA VarIntFirst ==
  ASSUME NEW i \in Int, NEW t \in Seq(Symbol)
  PROVE  \E n \in 1 .. MaxDigits : n = Len(VarInt(i)) /\ Leads(VarInt(i) \o t, n, VarInt(i), t)
<1>1. PICK v \in Seq(Symbol), d \in Nat : v = VarInt(i) /\ d = Len(v) /\ d \in 1 .. MaxDigits
  BY VarIntShape, PlainIsSymbol, SMTT(30)
<1>2. VarIntLen(v \o t) = d
  BY <1>1, VarIntEnds
<1>3. PICK s : s = v \o t /\ s \in Seq(Symbol) /\ Len(s) = d + Len(t)
  <2>1. v \o t \in Seq(Symbol) /\ Len(v \o t) = Len(v) + Len(t)
    OBVIOUS
  <2>. QED BY <1>1, <2>1
<1>4. SubSeq(s, 1, d) = v
  BY <1>1, <1>3
<1>5. SubSeq(s, d + 1, Len(s)) = t
  BY <1>1, <1>3
<1>6. Leads(s, d, v, t)
  BY <1>2, <1>3, <1>4, <1>5 DEF Leads
<1>. QED BY <1>1, <1>3, <1>6

\* A packet's data is never empty, and read back as the packet.
LEMMA DataFacts ==
  ASSUME NEW p \in Packets
  PROVE  /\ Data(p) \in Seq(Plain)
         /\ Len(Data(p)) \in 1 .. (Word \div 2) - 2
         /\ VarIntLen(Data(p)) > 0
         /\ Packet(Data(p)) = p
<1>1. PICK u \in 0 .. Word - 1 : p.id = Signed(u)
  BY DEF Packets
<1>2. p.payload \in Payloads /\ p = [id |-> p.id, payload |-> p.payload]
  BY DEF Packets
<1>3. PICK i \in Int : i = p.id /\ Signed(Unsigned(i)) = i
  BY <1>1, SignedUnsigned
<1>4. PICK t \in Seq(Plain) : t = p.payload /\ t \in Seq(Symbol) /\ Len(t) + MaxDigits + 1 < Word \div 2
  BY <1>2, PlainIsSymbol DEF Payloads
<1>5. PICK d \in 1 .. MaxDigits : d = Len(VarInt(i)) /\ Leads(VarInt(i) \o t, d, VarInt(i), t)
  BY <1>4, VarIntFirst
<1>6. PICK v \in Seq(Plain) : v = VarInt(i)
  BY VarIntShape
<1>7. PICK s : s = Data(p) /\ s = v \o t
  BY <1>3, <1>4, <1>6 DEF Data
<1>8. s \in Seq(Plain)
  BY <1>6, <1>7
<1>9. Len(s) = d + Len(t) /\ VarIntLen(s) = d /\ SubSeq(s, 1, d) = v /\ SubSeq(s, d + 1, Len(s)) = t
  BY <1>5, <1>6, <1>7 DEF Leads
<1>10. PICK h \in Nat, m \in Nat, n \in Nat : h = Word \div 2 /\ m = MaxDigits /\ n = Len(t)
  <2>1. PICK w \in Nat : w = Word
    BY VarIntType
  <2>2. w \div 2 \in Nat
    OBVIOUS
  <2>3. Len(t) \in Nat /\ MaxDigits \in Nat /\ Word \div 2 \in Nat
    BY <2>1, <2>2, VarIntType
  <2>. QED BY <2>3
<1>11. Len(s) \in 1 .. h - 2
  <2>1. n + m + 1 < h /\ d \in 1 .. m /\ Len(s) = d + n
    BY <1>4, <1>9, <1>10
  <2>. QED BY <2>1
<1>12. Packet(s) = [id |-> Value(v), payload |-> t]
  BY <1>9 DEF Packet
<1>13. Value(v) = i
  BY <1>3, <1>6, VarIntValue
<1>14. VarIntLen(s) > 0
  BY <1>9, <1>10
<1>15. Packet(s) = p
  BY <1>2, <1>3, <1>4, <1>12, <1>13
<1>. QED BY <1>7, <1>8, <1>10, <1>11, <1>14, <1>15

\* A body is never empty, and inflates to the data or, if that is too long, to nothing.
LEMMA BodyFacts ==
  ASSUME NEW t \in Thresholds, NEW p \in Packets
  PROVE  /\ BodyIn(t, Data(p)) \in Seq(Symbol)
         /\ Len(BodyIn(t, Data(p))) \in 1 .. (Word \div 2) - 1
         /\ \/ InflateIn(t, BodyIn(t, Data(p))) = Data(p)
            \/ Len(Data(p)) > MaxPacket /\ InflateIn(t, BodyIn(t, Data(p))) = <<>>
<1>1. PICK h \in Nat, m \in Nat : h = Word \div 2 /\ m = MaxDigits /\ m > 0 /\ m + 1 < h /\ MaxPacket \in Nat
  <2>1. PICK w \in Nat : w = Word
    BY VarIntType
  <2>2. p.payload \in Payloads
    BY DEF Packets
  <2>3. Len(p.payload) \in Nat /\ Len(p.payload) + MaxDigits + 1 < Word \div 2
    BY <2>2 DEF Payloads
  <2>. QED BY <2>1, <2>3, VarIntType, PacketType
<1>2. PICK d : d = Data(p) /\ d \in Seq(Plain) /\ d \in Seq(Symbol) /\ Len(d) \in 1 .. h - 2
  BY <1>1, DataFacts, PlainIsSymbol
<1>3. PICK n \in Nat : n = Len(d) /\ n > 0 /\ n < h - 1
  BY <1>1, <1>2
<1>4. PICK b : b = BodyIn(t, d)
  OBVIOUS
<1>5. CASE t = Uncompressed
  <2>1. b = d /\ InflateIn(t, b) = b
    BY <1>4, <1>5 DEF BodyIn, InflateIn
  <2>. QED BY <1>1, <1>2, <1>3, <1>4, <2>1
<1>6. CASE t # Uncompressed /\ Len(d) >= t
  <2>1. PICK s : s = [byte |-> 0, deflated |-> d]
    OBVIOUS
  <2>2. <<s>> \in Seq(Symbol)
    <3>1. s \in Symbol
      BY <1>2, <2>1, OctetsFacts DEF Symbol, Plain
    <3>. QED BY <3>1
  <2>3. b = VarInt(n) \o <<s>>
    BY <1>3, <1>4, <1>6, <2>1 DEF BodyIn, Deflate
  <2>4. PICK k \in 1 .. m : Leads(b, k, VarInt(n), <<s>>)
    <3>1. n \in Int
      OBVIOUS
    <3>2. PICK k \in 1 .. MaxDigits : Leads(VarInt(n) \o <<s>>, k, VarInt(n), <<s>>)
      BY <2>2, <3>1, VarIntFirst
    <3>. QED BY <1>1, <2>3, <3>2
  <2>5. /\ b \in Seq(Symbol) /\ Len(b) = k + 1 /\ k = VarIntLen(b)
        /\ SubSeq(b, 1, k) = VarInt(n) /\ SubSeq(b, k + 1, Len(b)) = <<s>>
    BY <2>4 DEF Leads
  <2>6. Value(VarInt(n)) = n
    <3>1. n \in 0 .. (Word \div 2) - 1 /\ n \in Int
      BY <1>1, <1>3
    <3>. QED BY <3>1, VarIntValue, SignedUnsigned
  <2>7. /\ InflateIn(t, b) = IF n \in 1 .. MaxPacket /\ Len(<<s>>) = 1 /\ <<s>>[1].byte = 0
                                 /\ Len(<<s>>[1].deflated) = n
                              THEN <<s>>[1].deflated ELSE Invalid
    <3>1. k # 0 /\ n # 0
      BY <1>1, <1>3, <2>4
    <3>. QED BY <1>6, <2>5, <2>6, <3>1 DEF InflateIn
  <2>8. <<s>>[1] = s /\ Len(<<s>>) = 1 /\ s.byte = 0 /\ s.deflated = d
    BY <2>1
  <2>9. InflateIn(t, b) = IF n \in 1 .. MaxPacket THEN d ELSE <<>>
    BY <1>3, <2>7, <2>8 DEF Invalid
  <2>10. n \in 1 .. MaxPacket \/ n > MaxPacket
    BY <1>1, <1>3
  <2>11. Len(b) \in 1 .. h - 1
    BY <1>1, <2>4, <2>5
  <2>. QED BY <1>1, <1>2, <1>3, <1>4, <2>5, <2>9, <2>10, <2>11
<1>7. CASE t # Uncompressed /\ ~(Len(d) >= t)
  <2>1. b = VarInt(0) \o d
    BY <1>4, <1>7 DEF BodyIn
  <2>2. Value(VarInt(0)) = 0
    <3>1. 0 \in 0 .. (Word \div 2) - 1 /\ 0 \in Int
      BY <1>1
    <3>. QED BY <3>1, VarIntValue, SignedUnsigned
  <2>3. Len(VarInt(0)) = 1
    <3>1. Unsigned(0) = 0
      <4>1. PICK w \in Nat : w = Word /\ w > 0
        BY VarIntType
      <4>. QED BY <4>1 DEF Unsigned
    <3>2. Digits(0) = 1
      <4>1. Word - 1 \in Nat /\ 0 \in 0 .. Word - 1
        BY VarIntType
      <4>2. /\ Digits(0) \in 1 .. MaxDigits
            /\ \A j \in 1 .. Digits(0) - 1 : Remaining(0)[j - 1] >= Base
        BY <4>1, DigitsFit
      <4>3. Remaining(0)[0] = 0
        BY RemainingSteps
      <4>4. PICK k \in Nat : k = Digits(0) /\ k > 0
        BY <1>1, <4>2
      <4>5. ASSUME k > 1 PROVE FALSE
        <5>1. 1 \in 1 .. Digits(0) - 1
          BY <4>4, <4>5
        <5>2. Remaining(0)[1 - 1] >= Base
          BY <4>2, <5>1
        <5>. QED BY <4>3, <5>2, VarIntType
      <4>. QED BY <4>4, <4>5
    <3>3. 0 \in Int
      OBVIOUS
    <3>4. Len(VarInt(0)) = Digits(Unsigned(0))
      BY <3>3, VarIntShape
    <3>. QED BY <3>1, <3>2, <3>4
  <2>4. /\ VarIntLen(b) = 1 /\ b \in Seq(Symbol) /\ Len(b) = 1 + n
        /\ SubSeq(b, 1, 1) = VarInt(0) /\ SubSeq(b, 1 + 1, Len(b)) = d
    <3>1. 0 \in Int
      OBVIOUS
    <3>2. PICK k \in 1 .. MaxDigits : k = Len(VarInt(0)) /\ Leads(VarInt(0) \o d, k, VarInt(0), d)
      BY <1>2, <3>1, VarIntFirst
    <3>. QED BY <1>3, <2>1, <2>3, <3>2 DEF Leads
  <2>5. InflateIn(t, b) = d
    <3>1. PICK k : k = VarIntLen(b) /\ k = 1
      BY <2>4
    <3>2. SubSeq(b, 1, k) = VarInt(0) /\ SubSeq(b, k + 1, Len(b)) = d
      BY <2>4, <3>1
    <3>3. k # 0
      BY <3>1
    <3>. QED BY <1>7, <2>2, <3>1, <3>2, <3>3 DEF InflateIn
  <2>. QED BY <1>1, <1>2, <1>3, <1>4, <2>4, <2>5
<1>. QED BY <1>5, <1>6, <1>7

\* A body is announced by its length.
LEMMA FrameFacts ==
  ASSUME NEW t \in Thresholds, NEW p \in Packets,
         NEW b, b = BodyIn(t, Data(p)), NEW v, v = VarInt(Len(b))
  PROVE  /\ b \in Seq(Symbol) /\ Len(b) \in Nat \ {0}
         /\ v \in Seq(Symbol) /\ Len(v) \in 1 .. MaxDigits
         /\ \A k \in 1 .. Len(v) : IsLast(v[k]) <=> k = Len(v)
         /\ Value(v) = Len(b)
         /\ FrameIn(t, p) = v \o b /\ FrameIn(t, p) \in Seq(Symbol)
<1>1. b \in Seq(Symbol) /\ Len(b) \in 1 .. (Word \div 2) - 1
  BY BodyFacts
<1>2. PICK h \in Nat, l \in Int : h = Word \div 2 /\ l = Len(b) /\ l > 0 /\ l < h
  <2>1. PICK w \in Nat : w = Word /\ w \div 2 \in Nat
    BY VarIntType
  <2>2. Len(b) \in Int
    BY <1>1
  <2>. QED BY <1>1, <2>1, <2>2
<1>3. v \in Seq(Symbol) /\ Len(v) \in 1 .. MaxDigits /\ \A k \in 1 .. Len(v) : IsLast(v[k]) <=> k = Len(v)
  BY <1>2, VarIntShape, PlainIsSymbol
<1>4. Value(v) = l
  <2>1. l \in 0 .. (Word \div 2) - 1
    BY <1>2
  <2>2. Signed(Unsigned(l)) = l
    BY <2>1, SignedUnsigned
  <2>. QED BY <1>2, <2>2, VarIntValue
<1>5. FrameIn(t, p) = v \o b
  BY DEF FrameIn, Framed
<1>6. v \o b \in Seq(Symbol)
  BY <1>1, <1>3
<1>. QED BY <1>1, <1>2, <1>3, <1>4, <1>5, <1>6

\* The first k frames of the packets s, and all of them.
UptoIn(t, s, k) == FlattenSeq([i \in 1 .. k |-> FrameIn(t, s[i])])

StreamIn(t, s) == UptoIn(t, s, Len(s))

LEMMA UptoSteps ==
  ASSUME NEW t \in Thresholds, NEW s \in Seq(Packets), NEW k \in 0 .. Len(s)
  PROVE  /\ UptoIn(t, s, k) \in Seq(Symbol)
         /\ k < Len(s) => UptoIn(t, s, k + 1) = UptoIn(t, s, k) \o FrameIn(t, s[k + 1])
<1>1. PICK n \in Nat : n = Len(s)
  OBVIOUS
<1>2. \A i \in 1 .. n : FrameIn(t, s[i]) \in Seq(Symbol)
  BY <1>1, FrameFacts
<1>3. PICK u : u = [i \in 1 .. k |-> FrameIn(t, s[i])]
  OBVIOUS
<1>4. u \in Seq(Seq(Symbol)) /\ Len(u) = k
  BY <1>1, <1>2, <1>3
<1>5. UptoIn(t, s, k) = FlattenSeq(u)
  BY <1>3 DEF UptoIn
<1>6. ASSUME k < n PROVE UptoIn(t, s, k + 1) = FlattenSeq(u) \o FrameIn(t, s[k + 1])
  <2>1. PICK f \in Seq(Symbol) : f = FrameIn(t, s[k + 1])
    BY <1>1, <1>2, <1>6
  <2>2. [i \in 1 .. k + 1 |-> FrameIn(t, s[i])] = Append(u, f)
    <3>1. PICK v : v = [i \in 1 .. k + 1 |-> FrameIn(t, s[i])]
      OBVIOUS
    <3>2. v \in Seq(Seq(Symbol)) /\ Len(v) = k + 1
      BY <1>1, <1>2, <1>6, <3>1
    <3>3. Append(u, f) \in Seq(Seq(Symbol)) /\ Len(Append(u, f)) = k + 1
      BY <1>4, <2>1
    <3>4. \A i \in 1 .. k + 1 : v[i] = Append(u, f)[i]
      BY <1>3, <1>4, <2>1, <3>1
    <3>. QED BY <3>1, <3>2, <3>3, <3>4, SeqEqual
  <2>3. FlattenSeq(Append(u, f)) = FlattenSeq(u) \o f
    BY <1>4, <2>1, FlattenAppend
  <2>. QED BY <2>1, <2>2, <2>3 DEF UptoIn
<1>7. FlattenSeq(u) \in Seq(Symbol)
  <2>1. <<>> \in Seq(Symbol)
    OBVIOUS
  <2>. QED BY <1>4, <2>1, FlattenAppend
<1>. QED BY <1>1, <1>5, <1>6, <1>7

\* u is the beginning of v.
Begins(u, v) ==
  /\ u \in Seq(Symbol) /\ v \in Seq(Symbol) /\ Len(u) <= Len(v)
  /\ \A j \in 1 .. Len(u) : u[j] = v[j]

LEMMA UptoBegins ==
  ASSUME NEW t \in Thresholds, NEW s \in Seq(Packets), NEW k \in 0 .. Len(s)
  PROVE  Begins(UptoIn(t, s, k), StreamIn(t, s))
<1>1. PICK n \in Nat : n = Len(s) /\ n - k \in Nat
  OBVIOUS
<1>2. PICK u : u = UptoIn(t, s, k) /\ u \in Seq(Symbol)
  BY UptoSteps
<1>. DEFINE A == {m \in 0 .. n - k : Begins(u, UptoIn(t, s, k + m))}
<1>3. 0 \in A
  <2>1. k + 0 = k /\ 0 \in 0 .. n - k
    BY <1>1
  <2>2. Begins(u, u)
    BY <1>2 DEF Begins
  <2>. QED BY <1>2, <2>1, <2>2
<1>4. ASSUME NEW m \in 0 .. n - k - 1, m \in A PROVE m + 1 \in A
  <2>1. PICK q \in 0 .. n : q = k + m /\ q < n /\ q + 1 = k + (m + 1)
    BY <1>1
  <2>2. PICK v : v = UptoIn(t, s, q) /\ v \in Seq(Symbol) /\ Begins(u, v)
    BY <1>1, <1>4, <2>1, UptoSteps
  <2>3. PICK f : f = FrameIn(t, s[q + 1]) /\ f \in Seq(Symbol)
    BY <1>1, <2>1, FrameFacts
  <2>4. UptoIn(t, s, q + 1) = v \o f
    BY <1>1, <2>1, <2>2, <2>3, UptoSteps
  <2>5. Begins(u, v \o f)
    <3>1. PICK a \in Nat, b \in Nat : a = Len(u) /\ b = Len(v) /\ a <= b
      BY <1>2, <2>2 DEF Begins
    <3>2. v \o f \in Seq(Symbol) /\ Len(v \o f) = b + Len(f) /\ \A j \in 1 .. b : (v \o f)[j] = v[j]
      BY <2>2, <2>3, <3>1
    <3>. QED BY <1>2, <2>2, <2>3, <3>1, <3>2 DEF Begins
  <2>6. m + 1 \in 0 .. n - k
    BY <1>1
  <2>. QED BY <2>1, <2>4, <2>5, <2>6
<1>5. n - k \in A
  <2>1. \A m \in 0 .. n - k : m \in A
    <3>1. PICK l \in Nat : l = n - k
      BY <1>1
    <3>. HIDE DEF A
    <3>. QED BY <1>3, <1>4, <3>1, InductionTo
  <2>2. n - k \in 0 .. n - k
    BY <1>1
  <2>. QED BY <2>1, <2>2
<1>6. k + (n - k) = n
  BY <1>1
<1>. QED BY <1>1, <1>2, <1>5, <1>6 DEF StreamIn

\* f stands in S after u.
StandsAfter(u, f, S) ==
  /\ u \in Seq(Symbol) /\ f \in Seq(Symbol) /\ S \in Seq(Symbol)
  /\ Len(u) + Len(f) <= Len(S)
  /\ \A j \in 1 .. Len(f) : S[Len(u) + j] = f[j]

\* Where the k-th frame is in the stream.
LEMMA FramePlace ==
  ASSUME NEW t \in Thresholds, NEW s \in Seq(Packets), NEW k \in 1 .. Len(s)
  PROVE  /\ StandsAfter(UptoIn(t, s, k - 1), FrameIn(t, s[k]), StreamIn(t, s))
         /\ Len(UptoIn(t, s, k)) = Len(UptoIn(t, s, k - 1)) + Len(FrameIn(t, s[k]))
<1>0. PICK f, u, S : f = FrameIn(t, s[k]) /\ u = UptoIn(t, s, k - 1) /\ S = StreamIn(t, s)
  OBVIOUS
<1>1. PICK q \in 0 .. Len(s) : q = k - 1 /\ q + 1 = k /\ q < Len(s)
  OBVIOUS
<1>2. u \in Seq(Symbol)
  BY <1>0, <1>1, UptoSteps
<1>3. UptoIn(t, s, k) = u \o FrameIn(t, s[k])
  BY <1>0, <1>1, UptoSteps
<1>4. f \in Seq(Symbol)
  <2>1. s[k] \in Packets
    BY ElementOfSeq
  <2>2. PICK p \in Packets : p = s[k]
    BY <2>1
  <2>3. PICK b : b = BodyIn(t, Data(p))
    OBVIOUS
  <2>4. PICK v : v = VarInt(Len(b))
    OBVIOUS
  <2>5. FrameIn(t, p) \in Seq(Symbol)
    BY <2>3, <2>4, FrameFacts
  <2>. QED BY <1>0, <2>2, <2>5
<1>5. PICK v : v = UptoIn(t, s, k) /\ v = u \o f
  BY <1>0, <1>3
<1>6. Begins(v, S)
  <2>1. k \in 0 .. Len(s)
    OBVIOUS
  <2>. QED BY <1>0, <1>5, <2>1, UptoBegins
<1>7. Len(v) = Len(u) + Len(f) /\ \A j \in 1 .. Len(f) : v[Len(u) + j] = f[j]
  BY <1>2, <1>4, <1>5
<1>8. PICK a \in Nat, b \in Nat : a = Len(u) /\ b = Len(f)
  BY <1>2, <1>4
<1>9. ASSUME NEW j \in 1 .. b PROVE S[a + j] = f[j]
  <2>1. a + j \in 1 .. Len(v)
    BY <1>7, <1>8
  <2>. QED BY <1>6, <1>7, <1>8, <2>1 DEF Begins
<1>. QED BY <1>0, <1>2, <1>4, <1>5, <1>6, <1>7, <1>8, <1>9 DEF Begins, StandsAfter

\* One more packet adds its frame, and leaves those before where they are.
LEMMA StreamAppend ==
  ASSUME NEW t \in Thresholds, NEW s \in Seq(Packets), NEW p \in Packets
  PROVE  /\ StreamIn(t, Append(s, p)) = StreamIn(t, s) \o FrameIn(t, p)
         /\ \A k \in 0 .. Len(s) : UptoIn(t, Append(s, p), k) = UptoIn(t, s, k)
<1>0. PICK n \in Nat : n = Len(s)
  OBVIOUS
<1>1. PICK m : m = Append(s, p)
  OBVIOUS
<1>2. m \in Seq(Packets) /\ Len(m) = n + 1 /\ m[n + 1] = p /\ \A i \in 1 .. n : m[i] = s[i]
  BY <1>0, <1>1
<1>3. ASSUME NEW k \in 0 .. n PROVE UptoIn(t, m, k) = UptoIn(t, s, k)
  <2>1. \A i \in 1 .. k : m[i] = s[i]
    BY <1>2
  <2>2. [i \in 1 .. k |-> FrameIn(t, m[i])] = [i \in 1 .. k |-> FrameIn(t, s[i])]
    BY <2>1
  <2>. QED BY <2>2 DEF UptoIn
<1>4. UptoIn(t, m, n + 1) = UptoIn(t, m, n) \o FrameIn(t, p)
  <2>1. n \in 0 .. Len(m) /\ n < Len(m)
    BY <1>2
  <2>. QED BY <1>2, <2>1, UptoSteps
<1>5. UptoIn(t, m, n) = UptoIn(t, s, n)
  BY <1>3
<1>. QED BY <1>0, <1>1, <1>2, <1>3, <1>4, <1>5 DEF StreamIn

-----------------------------------------------------------------------------
(* The stream in transit *)

LEMMA Regrouped ==
  ASSUME NEW a \in Seq(Symbol), NEW b \in Seq(Symbol), NEW c \in Seq(Symbol)
  PROVE  (a \o b) \o c = a \o (b \o c)
BY ConcatAssociative

\* What is left of a after n.
LEMMA Left ==
  ASSUME NEW X, NEW a \in Seq(X), NEW m, m = Len(a), NEW n \in 0 .. m, NEW u, u = SubSeq(a, n + 1, m)
  PROVE  /\ m \in Nat /\ m - n \in Nat /\ u \in Seq(X) /\ Len(u) = m - n
         /\ \A j \in 1 .. m - n : u[j] = a[n + j]
<1>1. m \in Nat /\ m - n \in Nat
  OBVIOUS
<1>2. u \in Seq(X)
  BY <1>1
<1>3. Len(u) = m - n
  BY <1>1
<1>4. \A j \in 1 .. m - n : u[j] = a[n + j]
  <2>1. \A j \in 1 .. m - n : n + 1 + j - 1 = n + j
    BY <1>1
  <2>. QED BY <1>1, <2>1
<1>. QED BY <1>1, <1>2, <1>3, <1>4

\* What the j-th symbol of the stream S, whose ciphertext is C, is on the wire.
Coded(S, C, e, j) == IF e THEN [S[j] EXCEPT !.byte = C[BlockLen + j]] ELSE S[j]

\* All of S but todo was taken, and all that was taken but q was read: W and R symbols.
Carries(S, C, e, W, R, t, q) ==
  /\ W \in Nat /\ R \in Nat
  /\ S \in Seq(Symbol) /\ t \in Seq(Symbol) /\ q \in Seq(Symbol)
  /\ Len(S) = W + Len(t) /\ W = R + Len(q)
  /\ \A j \in 1 .. Len(t) : t[j] = S[W + j]
  /\ \A j \in 1 .. Len(q) : q[j] = Coded(S, C, e, R + j)

\* Another frame joins the stream.
LEMMA CarriesMore ==
  ASSUME NEW S, NEW C, NEW e \in BOOLEAN, NEW W, NEW R, NEW q, Carries(S, C, e, W, R, <<>>, q),
         NEW f \in Seq(Symbol), NEW T, T = S \o f,
         NEW D, \A j \in 1 .. BlockLen + Len(S) : C[j] = D[j]
  PROVE  Carries(T, D, e, W, R, f, q)
<1>1. PICK l \in Nat, n \in Nat, m \in Nat : l = BlockLen /\ n = Len(S) /\ m = Len(f)
  <2>1. BlockLen \in Nat /\ Len(S) \in Nat /\ Len(f) \in Nat
    BY CipherFacts DEF Carries
  <2>. QED BY <2>1
<1>2. W \in Nat /\ R \in Nat /\ S \in Seq(Symbol) /\ q \in Seq(Symbol) /\ W = n /\ W = R + Len(q)
  BY <1>1 DEF Carries
<1>3. T \in Seq(Symbol) /\ Len(T) = n + m /\ \A j \in 1 .. n : T[j] = S[j]
  <2>1. Joins(Symbol, T, S, f)
    BY <1>2, Joined
  <2>. QED BY <1>1, <2>1 DEF Joins
<1>4. \A j \in 1 .. m : f[j] = T[W + j]
  <2>1. Joins(Symbol, T, S, f)
    BY <1>2, Joined
  <2>. QED BY <1>1, <1>2, <2>1 DEF Joins
<1>5. ASSUME NEW j \in 1 .. Len(q) PROVE q[j] = Coded(T, D, e, R + j)
  <2>1. R + j \in 1 .. n /\ l + (R + j) \in 1 .. l + n
    BY <1>1, <1>2
  <2>2. T[R + j] = S[R + j] /\ D[BlockLen + (R + j)] = C[BlockLen + (R + j)]
    BY <1>1, <1>3, <2>1
  <2>3. q[j] = Coded(S, C, e, R + j)
    BY DEF Carries
  <2>. QED BY <2>2, <2>3 DEF Coded
<1>. QED BY <1>1, <1>2, <1>3, <1>4, <1>5 DEF Carries

\* The first n symbols of what is to do are taken, coded as x.
LEMMA CarriesTaken ==
  ASSUME NEW S, NEW C, NEW e \in BOOLEAN, NEW W, NEW R, NEW t, NEW q, Carries(S, C, e, W, R, t, q),
         NEW n \in 0 .. Len(t), NEW x \in Seq(Symbol), Len(x) = n,
         \A j \in 1 .. n : x[j] = Coded(S, C, e, W + j)
  PROVE  Carries(S, C, e, W + n, R, SubSeq(t, n + 1, Len(t)), q \o x)
<1>1. /\ W \in Nat /\ R \in Nat
      /\ S \in Seq(Symbol) /\ t \in Seq(Symbol) /\ q \in Seq(Symbol)
      /\ Len(S) = W + Len(t) /\ W = R + Len(q)
  BY DEF Carries
<1>2. PICK l \in Nat, m \in Nat : l = Len(t) /\ m = Len(q) /\ n \in 0 .. l
  <2>1. Len(t) \in Nat /\ Len(q) \in Nat
    BY <1>1
  <2>. QED BY <2>1
<1>3. PICK u : u = SubSeq(t, n + 1, l)
  OBVIOUS
<1>31. u \in Seq(Symbol) /\ Len(u) = l - n /\ \A j \in 1 .. l - n : u[j] = t[n + j]
  BY <1>1, <1>2, <1>3, Left
<1>4. PICK y : y = q \o x
  OBVIOUS
<1>41. /\ y \in Seq(Symbol) /\ Len(y) = m + n
       /\ (\A j \in 1 .. m : y[j] = q[j]) /\ \A j \in 1 .. n : y[m + j] = x[j]
  <2>1. Joins(Symbol, y, q, x)
    BY <1>1, <1>4, Joined
  <2>. QED BY <1>2, <2>1 DEF Joins
<1>5. ASSUME NEW j \in 1 .. l - n PROVE u[j] = S[W + n + j]
  <2>1. n + j \in 1 .. l /\ W + (n + j) = W + n + j
    BY <1>1, <1>2
  <2>. QED BY <1>2, <1>31, <2>1 DEF Carries
<1>6. ASSUME NEW j \in 1 .. m + n PROVE y[j] = Coded(S, C, e, R + j)
  <2>1. CASE j <= m
    BY <1>2, <1>41, <2>1 DEF Carries
  <2>2. CASE j > m
    <3>1. PICK i \in Nat : i = j - m
      BY <1>2, <2>2
    <3>2. i \in 1 .. n /\ j = m + i /\ W + i = R + j
      BY <1>1, <1>2, <2>2, <3>1
    <3>. QED BY <1>41, <3>2
  <2>. QED BY <1>2, <2>1, <2>2
<1>7. W + n \in Nat /\ Len(S) = (W + n) + (l - n) /\ W + n = R + (m + n)
  BY <1>1, <1>2
<1>8. Carries(S, C, e, W + n, R, u, y)
  BY <1>1, <1>31, <1>41, <1>5, <1>6, <1>7 DEF Carries
<1>. QED BY <1>2, <1>3, <1>4, <1>8

\* The first n symbols of what was taken are read.
LEMMA CarriesRead ==
  ASSUME NEW S, NEW C, NEW e \in BOOLEAN, NEW W, NEW R, NEW t, NEW q, Carries(S, C, e, W, R, t, q),
         NEW n \in 0 .. Len(q)
  PROVE  Carries(S, C, e, W, R + n, t, SubSeq(q, n + 1, Len(q)))
<1>1. /\ W \in Nat /\ R \in Nat
      /\ S \in Seq(Symbol) /\ t \in Seq(Symbol) /\ q \in Seq(Symbol)
      /\ Len(S) = W + Len(t) /\ W = R + Len(q)
  BY DEF Carries
<1>2. PICK m \in Nat : m = Len(q) /\ n \in 0 .. m
  BY <1>1
<1>3. PICK u : u = SubSeq(q, n + 1, m)
  OBVIOUS
<1>31. u \in Seq(Symbol) /\ Len(u) = m - n /\ \A j \in 1 .. m - n : u[j] = q[n + j]
  BY <1>1, <1>2, <1>3, Left
<1>4. ASSUME NEW j \in 1 .. m - n PROVE u[j] = Coded(S, C, e, R + n + j)
  <2>1. n + j \in 1 .. m /\ R + (n + j) = R + n + j
    BY <1>1, <1>2
  <2>. QED BY <1>2, <1>31, <2>1 DEF Carries
<1>5. R + n \in Nat /\ W = (R + n) + (m - n)
  BY <1>1, <1>2
<1>6. Carries(S, C, e, W, R + n, t, u)
  BY <1>1, <1>31, <1>4, <1>5 DEF Carries
<1>. QED BY <1>2, <1>3, <1>6

-----------------------------------------------------------------------------
(* The invariant of the connection *)

Types ==
  /\ threshold \in Thresholds
  /\ encrypted \in Encrypted
  /\ todo \in Seq(Symbol) /\ pending \in Seq(Symbol) /\ wire \in Seq(Symbol)
  /\ encrypt \in Registers /\ decrypt \in Registers
  /\ sent \in Seq(Packets) /\ script \in Seq(Packets)
  /\ sent \o script \in Scripts
  /\ failed \in BOOLEAN
  /\ writes \in 0 .. MaxWrites

Stream == StreamIn(threshold, sent)

\* W symbols of the stream were handed over, and R of them were read; both registers hold
\* the ciphertext before those places.
Transit(W, R) ==
  /\ Carries(Stream, Ciphertext(Stream), encrypted, W, R, todo, wire \o pending)
  /\ encrypted => /\ encrypt = Win(Ciphertext(Stream), W)
                  /\ decrypt = Win(Ciphertext(Stream), R)
  /\ ~encrypted => pending = <<>>

LEMMA Passes ==
  ASSUME NEW a, NEW s \in Seq(Packets), a \in Seq(Packets), s # <<>>
  PROVE  /\ Head(s) \in Packets /\ Tail(s) \in Seq(Packets)
         /\ Append(a, Head(s)) \in Seq(Packets)
         /\ Append(a, Head(s)) \o Tail(s) = a \o s
<1>1. Head(s) \in Packets /\ Tail(s) \in Seq(Packets) /\ Len(Tail(s)) = Len(s) - 1 /\ Len(s) > 0
  BY HeadTailProperties
<1>2. Append(a, Head(s)) \in Seq(Packets) /\ Len(Append(a, Head(s))) = Len(a) + 1
  BY <1>1
<1>3. PICK b : b = Append(a, Head(s)) /\ b \in Seq(Packets) /\ Len(b) = Len(a) + 1
  BY <1>2
<1>4. PICK t : t = Tail(s) /\ t \in Seq(Packets) /\ Len(t) = Len(s) - 1
  BY <1>1
<1>5. Joins(Packets, b \o t, b, t) /\ Joins(Packets, a \o s, a, s)
  BY <1>3, <1>4, Joined
<1>6. PICK x, y : x = b \o t /\ y = a \o s /\ Joins(Packets, x, b, t) /\ Joins(Packets, y, a, s)
  BY <1>5
<1>7. PICK m \in Nat, n \in Nat : m = Len(a) /\ n = Len(s) /\ n > 0
  <2>1. Len(a) \in Nat /\ Len(s) \in Nat
    OBVIOUS
  <2>. QED BY <1>1, <2>1
<1>8. Len(x) = m + n /\ Len(y) = m + n /\ x \in Seq(Packets) /\ y \in Seq(Packets)
  BY <1>3, <1>4, <1>6, <1>7 DEF Joins
<1>9. ASSUME NEW j \in 1 .. m + n PROVE x[j] = y[j]
  <2>1. CASE j <= m
    <3>1. j \in 1 .. m /\ j \in 1 .. m + 1
      BY <1>7, <2>1
    <3>2. x[j] = b[j] /\ y[j] = a[j]
      BY <1>3, <1>6, <1>7, <3>1 DEF Joins
    <3>3. b[j] = a[j]
      BY <1>3, <1>7, <3>1
    <3>. QED BY <3>2, <3>3
  <2>2. CASE j = m + 1
    <3>1. x[m + 1] = b[m + 1]
      BY <1>3, <1>6, <1>7 DEF Joins
    <3>2. b[m + 1] = Head(s) /\ Head(s) = s[1]
      BY <1>1, <1>3, <1>7
    <3>3. y[m + 1] = s[1]
      BY <1>6, <1>7 DEF Joins
    <3>. QED BY <2>2, <3>1, <3>2, <3>3
  <2>3. CASE j > m + 1
    <3>1. PICK i \in Nat : i = j - (m + 1)
      <4>1. j - (m + 1) \in Nat
        BY <1>7, <2>3
      <4>. QED BY <4>1
    <3>2. i \in 1 .. n - 1 /\ j = (m + 1) + i /\ j = m + (i + 1) /\ i + 1 \in 1 .. n
      BY <1>7, <2>3, <3>1
    <3>3. x[j] = t[i]
      BY <1>3, <1>4, <1>6, <1>7, <3>2 DEF Joins
    <3>4. y[j] = s[i + 1]
      BY <1>6, <1>7, <3>2 DEF Joins
    <3>5. t[i] = s[i + 1]
      BY <1>4, <1>7, <3>2
    <3>. QED BY <3>3, <3>4, <3>5
  <2>. QED BY <1>7, <2>1, <2>2, <2>3
<1>10. x = y
  BY <1>8, <1>9, SeqEqual
<1>. QED BY <1>1, <1>2, <1>3, <1>4, <1>6, <1>10

\* Windows that end before a stream does stay as the stream goes on.
LEMMA WindowStays ==
  ASSUME NEW S, NEW T, NEW f \in Seq(Symbol), S \in Seq(Symbol), T = S \o f,
         NEW k \in 0 .. Len(S)
  PROVE  /\ \A j \in 1 .. BlockLen + Len(S) : Ciphertext(S)[j] = Ciphertext(T)[j]
         /\ Win(Ciphertext(S), k) = Win(Ciphertext(T), k)
<1>1. Joins(Symbol, T, S, f)
  BY Joined
<1>2. T \in Seq(Symbol) /\ Len(S) <= Len(T) /\ \A i \in 1 .. Len(S) : S[i] = T[i]
  BY <1>1 DEF Joins
<1>3. \A j \in 1 .. BlockLen + Len(S) : Ciphertext(S)[j] = Ciphertext(T)[j]
  BY <1>2, CiphertextPrefix
<1>4. PICK C, D : C = Ciphertext(S) /\ D = Ciphertext(T) /\ Enciphers(C, S) /\ Enciphers(D, T)
  BY <1>2, CiphertextEnciphers
<1>5. PICK l \in Nat, n \in Nat, m \in Nat : l = BlockLen /\ n = Len(S) /\ m = Len(T) /\ n <= m
  BY <1>2, CipherFacts, SMTT(30)
<1>6. IsWin(C, k) /\ IsWin(D, k)
  BY <1>4, <1>5, SMTT(30) DEF Enciphers, IsWin
<1>7. SameWin(C, k, D, k)
  BY <1>3, <1>4, <1>5 DEF SameWin
<1>. QED BY <1>3, <1>4, <1>6, <1>7, WindowsEqual

\* write_frame begins.
LEMMA StartFrameKeeps ==
  ASSUME Types, NEW W, NEW R, Transit(W, R), StartFrame
  PROVE  Types' /\ Transit(W, R)'
<1>1. PICK p \in Packets : p = Head(script)
  BY Passes DEF Types, StartFrame
<1>2. /\ sent' = Append(sent, p) /\ script' = Tail(script) /\ script # <<>>
      /\ todo = <<>> /\ pending = <<>>
      /\ UNCHANGED <<threshold, encrypted, pending, encrypt, wire, decrypt, failed, writes>>
  BY <1>1 DEF StartFrame, fixed
<1>3. PICK f : f = FrameIn(threshold, p) /\ f \in Seq(Symbol)
  BY FrameFacts DEF Types
<1>4. todo' = f
  <2>1. Framed(Body(Data(p))) = f
    BY <1>3, InThreshold DEF FrameIn
  <2>. QED BY <1>1, <2>1 DEF StartFrame
<1>5. sent' \in Seq(Packets) /\ script' \in Seq(Packets) /\ sent' \o script' = sent \o script
  BY <1>1, <1>2, Passes DEF Types
<1>6. Types'
  BY <1>2, <1>3, <1>4, <1>5 DEF Types
<1>7. PICK S, T : S = Stream /\ T = Stream'
  OBVIOUS
<1>8. T = S \o f
  BY <1>1, <1>2, <1>3, <1>7, StreamAppend DEF Stream, Types
<1>9. PICK C, D : C = Ciphertext(S) /\ D = Ciphertext(T)
  OBVIOUS
<1>10. PICK q : q = wire \o pending /\ q = (wire \o pending)'
  BY <1>2
<1>11. PICK e \in BOOLEAN : e = encrypted
  BY SwitchType DEF Types
<1>12. Carries(S, C, e, W, R, <<>>, q)
  BY <1>2, <1>7, <1>9, <1>10, <1>11 DEF Transit
<1>13. S \in Seq(Symbol) /\ W \in 0 .. Len(S) /\ R \in 0 .. Len(S)
  BY <1>12 DEF Carries
<1>14. (\A j \in 1 .. BlockLen + Len(S) : C[j] = D[j]) /\ Win(C, W) = Win(D, W) /\ Win(C, R) = Win(D, R)
  BY <1>3, <1>8, <1>9, <1>13, WindowStays
<1>15. Carries(T, D, e, W, R, f, q)
  BY <1>3, <1>8, <1>12, <1>14, CarriesMore
<1>16. Carries(Stream, Ciphertext(Stream), encrypted, W, R, todo, wire \o pending)'
  BY <1>2, <1>4, <1>7, <1>9, <1>10, <1>11, <1>15
<1>17. encrypted => encrypt' = Win(D, W) /\ decrypt' = Win(D, R)
  BY <1>2, <1>7, <1>9, <1>14 DEF Transit
<1>. QED BY <1>2, <1>6, <1>7, <1>9, <1>16, <1>17 DEF Transit

\* A plain socket takes some of the frame.
LEMMA WritePlainKeeps ==
  ASSUME Types, NEW W, NEW R, Transit(W, R), WritePlain
  PROVE  Types' /\ \E V : Transit(V, R)'
<1>1. PICK m \in Nat : m = Len(todo)
  <2>1. Len(todo) \in Nat
    BY DEF Types
  <2>. QED BY <2>1
<1>2. PICK n \in 1 .. m : wire' = wire \o SubSeq(todo, 1, n) /\ todo' = SubSeq(todo, n + 1, m)
  <2>1. Len(todo) \in 1 .. Len(todo)
    BY DEF WritePlain, Types
  <2>. QED BY <1>1, <2>1 DEF WritePlain, Taken
<1>3. /\ ~encrypted
      /\ UNCHANGED <<threshold, encrypted, script, pending, encrypt, sent, decrypt, failed, writes>>
  BY DEF WritePlain, fixed
<1>4. PICK t : t = todo /\ t \in Seq(Symbol) /\ Len(t) = m
  BY <1>1 DEF Types
<1>5. PICK x : x = SubSeq(t, 1, n)
  OBVIOUS
<1>6. x \in Seq(Symbol) /\ Len(x) = n /\ \A j \in 1 .. n : x[j] = t[j]
  BY <1>1, <1>2, <1>4, <1>5
<1>7. PICK q : q = wire /\ q \in Seq(Symbol)
  BY DEF Types
<1>8. PICK u : u = SubSeq(t, n + 1, m) /\ u \in Seq(Symbol)
  <2>1. n \in 0 .. m
    BY <1>1
  <2>2. SubSeq(t, n + 1, m) \in Seq(Symbol)
    BY <1>4, <2>1, Left
  <2>. QED BY <2>2
<1>9. q \o x \in Seq(Symbol)
  BY <1>6, <1>7
<1>10. wire' = q \o x /\ todo' = u
  BY <1>2, <1>4, <1>5, <1>7, <1>8
<1>11. Types'
  BY <1>3, <1>8, <1>9, <1>10 DEF Types
<1>12. pending = <<>> /\ wire \o pending = q /\ (wire \o pending)' = q \o x
  <2>1. pending = <<>>
    BY <1>3 DEF Transit
  <2>2. q \o <<>> = q /\ (q \o x) \o <<>> = q \o x
    BY <1>7, <1>9, ConcatEmptySeq
  <2>. QED BY <1>3, <1>7, <1>10, <2>1, <2>2
<1>13. PICK S, C : S = Stream /\ C = Ciphertext(S) /\ S = Stream'
  BY <1>3 DEF Stream
<1>14. Carries(S, C, FALSE, W, R, t, q)
  <2>1. encrypted = FALSE
    BY <1>3, SwitchType DEF Types
  <2>. QED BY <1>4, <1>12, <1>13, <2>1 DEF Transit
<1>15. \A j \in 1 .. n : x[j] = Coded(S, C, FALSE, W + j)
  <2>1. \A j \in 1 .. m : t[j] = S[W + j]
    BY <1>4, <1>14 DEF Carries
  <2>2. \A j \in 1 .. n : j \in 1 .. m
    BY <1>1
  <2>. QED BY <1>6, <2>1, <2>2 DEF Coded
<1>16. Carries(S, C, FALSE, W + n, R, u, q \o x)
  <2>1. n \in 0 .. Len(t) /\ FALSE \in BOOLEAN
    BY <1>1, <1>2, <1>4
  <2>. QED BY <1>4, <1>6, <1>8, <1>14, <1>15, <2>1, CarriesTaken
<1>17. encrypted' = FALSE /\ pending' = <<>>
  BY <1>3, <1>12, SwitchType DEF Types
<1>18. Carries(Stream, Ciphertext(Stream), encrypted, W + n, R, todo, wire \o pending)'
  BY <1>10, <1>12, <1>13, <1>16, <1>17
<1>19. Transit(W + n, R)'
  BY <1>17, <1>18 DEF Transit
<1>. QED BY <1>11, <1>19

\* Cutting what is ready in two moves nothing, whoever holds which part.
LEMMA Split ==
  ASSUME NEW a \in Seq(Symbol), NEW r \in Seq(Symbol), NEW n \in 0 .. Len(r)
  PROVE  /\ SubSeq(r, 1, n) \in Seq(Symbol) /\ SubSeq(r, n + 1, Len(r)) \in Seq(Symbol)
         /\ a \o SubSeq(r, 1, n) \in Seq(Symbol)
         /\ (a \o SubSeq(r, 1, n)) \o SubSeq(r, n + 1, Len(r)) = a \o r
<1>1. PICK m \in Nat, l \in Nat : m = Len(r) /\ l = Len(a)
  <2>1. Len(r) \in Nat /\ Len(a) \in Nat
    OBVIOUS
  <2>. QED BY <2>1
<1>2. PICK x, y : x = SubSeq(r, 1, n) /\ y = SubSeq(r, n + 1, m)
  OBVIOUS
<1>3. x \in Seq(Symbol) /\ Len(x) = n /\ \A j \in 1 .. n : x[j] = r[j]
  BY <1>1, <1>2
<1>4. y \in Seq(Symbol) /\ Len(y) = m - n /\ \A j \in 1 .. m - n : y[j] = r[n + j]
  BY <1>1, <1>2, Left
<1>5. PICK b : b = a \o x /\ Joins(Symbol, b, a, x)
  BY <1>3, Joined
<1>6. PICK c : c = b \o y /\ Joins(Symbol, c, b, y)
  <2>1. b \in Seq(Symbol)
    BY <1>5 DEF Joins
  <2>2. Joins(Symbol, b \o y, b, y)
    BY <1>4, <2>1, Joined
  <2>. QED BY <2>2
<1>7. PICK d : d = a \o r /\ Joins(Symbol, d, a, r)
  BY Joined
<1>8. Len(b) = l + n /\ Len(c) = l + m /\ Len(d) = l + m
  BY <1>1, <1>3, <1>4, <1>5, <1>6, <1>7 DEF Joins
<1>9. ASSUME NEW j \in 1 .. l + m PROVE c[j] = d[j]
  <2>1. CASE j <= l
    <3>1. j \in 1 .. l /\ j \in 1 .. l + n
      BY <1>1, <2>1
    <3>2. c[j] = b[j] /\ b[j] = a[j] /\ d[j] = a[j]
      BY <1>1, <1>5, <1>6, <1>7, <1>8, <3>1 DEF Joins
    <3>. QED BY <3>2
  <2>2. CASE j > l
    <3>1. PICK i \in Nat : i = j - l
      <4>1. j - l \in Nat
        BY <1>1, <2>2
      <4>. QED BY <4>1
    <3>2. i \in 1 .. m /\ j = l + i
      BY <1>1, <2>2, <3>1
    <3>3. d[j] = r[i]
      BY <1>1, <1>7, <3>2 DEF Joins
    <3>4. CASE i <= n
      <4>1. i \in 1 .. n /\ j \in 1 .. l + n
        BY <1>1, <3>2, <3>4
      <4>2. c[j] = b[j] /\ b[j] = x[i] /\ x[i] = r[i]
        BY <1>1, <1>3, <1>5, <1>6, <1>8, <3>2, <4>1 DEF Joins
      <4>. QED BY <3>3, <4>2
    <3>5. CASE i > n
      <4>1. PICK k \in Nat : k = i - n
        <5>1. i - n \in Nat
          BY <3>5
        <5>. QED BY <5>1
      <4>2. k \in 1 .. m - n /\ i = n + k /\ j = (l + n) + k
        BY <1>1, <3>2, <3>5, <4>1
      <4>3. c[j] = y[k]
        BY <1>4, <1>6, <1>8, <4>2 DEF Joins
      <4>4. y[k] = r[i]
        BY <1>4, <4>2
      <4>. QED BY <3>3, <4>3, <4>4
    <3>. QED BY <3>4, <3>5
  <2>. QED BY <1>1, <2>1, <2>2
<1>10. c = d
  BY <1>6, <1>7, <1>8, <1>9, SeqEqual DEF Joins
<1>11. b \in Seq(Symbol)
  BY <1>5 DEF Joins
<1>. QED BY <1>1, <1>2, <1>3, <1>4, <1>5, <1>6, <1>7, <1>10, <1>11

\* x is what a transformation of t at position W of the stream S yields: t coded, or decoded.
Codes(x, S, C, W, t) ==
  /\ x.register = Win(C, W + Len(t))
  /\ x.out \in Seq(Symbol) /\ Len(x.out) = Len(t)
  /\ \A j \in 1 .. Len(t) : x.out[j] = Coded(S, C, TRUE, W + j)

Decodes(x, S, C, R, t) ==
  /\ x.register = Win(C, R + Len(t))
  /\ x.out \in Seq(Symbol) /\ Len(x.out) = Len(t)
  /\ \A j \in 1 .. Len(t) : x.out[j] = S[R + j]

\* A register that holds the ciphertext before W codes what follows.
LEMMA Coding ==
  ASSUME NEW S, NEW C, Enciphers(C, S), NEW W, NEW R, NEW t, NEW q, Carries(S, C, TRUE, W, R, t, q)
  PROVE  Codes(Transform(TRUE, Win(C, W), t), S, C, W, t)
<1>0. PICK x : x = Transform(TRUE, Win(C, W), t)
  OBVIOUS
<1>1. W \in Nat /\ t \in Seq(Symbol) /\ Len(S) = W + Len(t) /\ \A j \in 1 .. Len(t) : t[j] = S[W + j]
  BY DEF Carries
<1>2. Stands(C, S, W, t, TRUE)
  BY <1>1 DEF Stands
<1>3. /\ x.register = Win(C, W + Len(t))
      /\ x.out \in Seq(Symbol) /\ Len(x.out) = Len(t)
      /\ \A i \in 1 .. Len(t) :
           x.out[i] = [t[i] EXCEPT !.byte = IF TRUE THEN C[BlockLen + (W + i)] ELSE S[W + i].byte]
  <2>1. TRUE \in BOOLEAN
    OBVIOUS
  <2>2. Transforms(x, C, S, W, t, TRUE)
    BY <1>0, <1>2, <2>1, TransformResumed
  <2>. QED BY <2>2 DEF Transforms
<1>. QED BY <1>0, <1>1, <1>3 DEF Coded, Codes

\* A register that holds the ciphertext before R decodes what stands there.
LEMMA Decoding ==
  ASSUME NEW S, NEW C, Enciphers(C, S), NEW R \in Nat, NEW t \in Seq(Symbol), R + Len(t) <= Len(S),
         \A j \in 1 .. Len(t) : t[j] = Coded(S, C, TRUE, R + j)
  PROVE  Decodes(Transform(FALSE, Win(C, R), t), S, C, R, t)
<1>0. PICK x : x = Transform(FALSE, Win(C, R), t)
  OBVIOUS
<1>1. S \in Seq(Symbol) /\ Len(t) \in Nat
  BY DEF Enciphers
<1>2. ASSUME NEW j \in 1 .. Len(t)
      PROVE  /\ S[R + j] \in Symbol
             /\ t[j] = [S[R + j] EXCEPT !.byte = C[BlockLen + (R + j)]]
  BY <1>1 DEF Coded
<1>3. ASSUME NEW j \in 1 .. Len(t) PROVE t[j].byte = C[BlockLen + (R + j)]
  <2>1. PICK s \in Symbol : s = S[R + j]
    BY <1>2
  <2>. QED BY <1>2, <2>1 DEF Symbol
<1>4. Stands(C, S, R, t, FALSE)
  BY <1>3 DEF Stands
<1>5. /\ x.register = Win(C, R + Len(t))
      /\ x.out \in Seq(Symbol) /\ Len(x.out) = Len(t)
      /\ \A i \in 1 .. Len(t) :
           x.out[i] = [t[i] EXCEPT !.byte = IF FALSE THEN C[BlockLen + (R + i)] ELSE S[R + i].byte]
  <2>1. FALSE \in BOOLEAN
    OBVIOUS
  <2>2. Transforms(x, C, S, R, t, FALSE)
    BY <1>0, <1>4, <2>1, TransformResumed
  <2>. QED BY <2>2 DEF Transforms
<1>6. ASSUME NEW j \in 1 .. Len(t) PROVE x.out[j] = S[R + j]
  <2>1. PICK s \in Symbol : s = S[R + j]
    BY <1>2
  <2>2. x.out[j] = [t[j] EXCEPT !.byte = s.byte]
    BY <1>5, <2>1
  <2>3. t[j] = [s EXCEPT !.byte = C[BlockLen + (R + j)]]
    BY <1>2, <2>1
  <2>. QED BY <2>1, <2>2, <2>3 DEF Symbol
<1>. QED BY <1>0, <1>5, <1>6 DEF Decodes

\* The whole slice is encrypted; the socket takes some of it and of what waited.
LEMMA WriteEncryptedKeeps ==
  ASSUME Types, NEW W, NEW R, Transit(W, R), WriteEncrypted
  PROVE  Types' /\ \E V : Transit(V, R)'
<1>1. PICK m \in Nat : m = Len(todo)
  <2>1. Len(todo) \in Nat
    BY DEF Types
  <2>. QED BY <2>1
<1>2. PICK x : x = Transform(TRUE, encrypt, todo)
  OBVIOUS
<1>3. PICK r : r = pending \o x.out
  OBVIOUS
<1>4. encrypted = TRUE
  BY SwitchType DEF Types, WriteEncrypted
<1>5. PICK t : t = todo /\ t \in Seq(Symbol)
  BY DEF Types
<1>6. PICK w, p : w = wire /\ p = pending /\ w \in Seq(Symbol) /\ p \in Seq(Symbol)
  BY DEF Types
<1>7. PICK q : q = w \o p /\ q \in Seq(Symbol)
  <2>1. w \o p \in Seq(Symbol)
    BY <1>6
  <2>. QED BY <2>1
<1>8. /\ UNCHANGED <<threshold, encrypted, script, sent, decrypt, failed, writes>>
      /\ encrypt' = x.register
  BY <1>2 DEF WriteEncrypted, fixed
<1>9. PICK S, C : S = Stream /\ C = Ciphertext(S) /\ S = Stream'
  BY <1>8 DEF Stream
<1>10. Carries(S, C, TRUE, W, R, t, q)
  BY <1>4, <1>5, <1>6, <1>7, <1>9 DEF Transit
<1>11. Enciphers(C, S)
  BY <1>9, <1>10, CiphertextEnciphers DEF Carries
<1>12. /\ x.register = Win(C, W + m)
       /\ x.out \in Seq(Symbol) /\ Len(x.out) = m
       /\ \A j \in 1 .. m : x.out[j] = Coded(S, C, TRUE, W + j)
  <2>1. x = Transform(TRUE, Win(C, W), t)
    BY <1>2, <1>4, <1>5, <1>9 DEF Transit
  <2>2. Codes(x, S, C, W, t)
    BY <1>10, <1>11, <2>1, Coding
  <2>3. Len(t) = m
    BY <1>1, <1>5
  <2>. QED BY <2>2, <2>3 DEF Codes
<1>13. PICK o \in Seq(Symbol) : o = x.out /\ Len(o) = m
  BY <1>12
<1>14. r = p \o o /\ r \in Seq(Symbol)
  BY <1>3, <1>6, <1>13
<1>15. PICK n \in 0 .. Len(r) :
         /\ wire' = w \o SubSeq(r, 1, n)
         /\ pending' = SubSeq(r, n + 1, Len(r))
         /\ todo' = SubSeq(t, m + 1, m)
  <2>1. PICK n \in Taken(0, Len(r)) :
          /\ wire' = w \o SubSeq(r, 1, n)
          /\ pending' = SubSeq(r, n + 1, Len(r))
          /\ todo' = SubSeq(t, m + 1, m)
    BY <1>1, <1>2, <1>3, <1>5, <1>6 DEF WriteEncrypted, Accepted
  <2>2. n \in 0 .. Len(r)
    <3>1. Len(r) \in 0 .. Len(r)
      BY <1>14
    <3>. QED BY <2>1, <3>1 DEF Taken
  <2>. QED BY <2>1, <2>2
<1>16. wire' \in Seq(Symbol) /\ pending' \in Seq(Symbol) /\ wire' \o pending' = w \o r
  <2>1. /\ SubSeq(r, n + 1, Len(r)) \in Seq(Symbol) /\ w \o SubSeq(r, 1, n) \in Seq(Symbol)
        /\ (w \o SubSeq(r, 1, n)) \o SubSeq(r, n + 1, Len(r)) = w \o r
    <3>1. w \in Seq(Symbol) /\ r \in Seq(Symbol) /\ n \in 0 .. Len(r)
      BY <1>6, <1>14, <1>15
    <3>. QED BY <3>1, Split, Zenon
  <2>. QED BY <1>15, <2>1
<1>17. w \o r = q \o o
  <2>1. (w \o p) \o o = w \o (p \o o)
    <3>1. w \in Seq(Symbol) /\ p \in Seq(Symbol) /\ o \in Seq(Symbol)
      BY <1>6, <1>13
    <3>. QED BY <3>1, Regrouped
  <2>. QED BY <1>7, <1>14, <2>1
<1>18. Carries(S, C, TRUE, W + m, R, SubSeq(t, m + 1, m), q \o o)
  <2>1. m \in 0 .. Len(t) /\ TRUE \in BOOLEAN
    BY <1>1, <1>5
  <2>3. \A j \in 1 .. m : o[j] = Coded(S, C, TRUE, W + j)
    BY <1>12, <1>13
  <2>2. Carries(S, C, TRUE, W + m, R, SubSeq(t, m + 1, Len(t)), q \o o)
    BY <1>10, <1>13, <2>1, <2>3, CarriesTaken
  <2>. QED BY <1>1, <1>5, <2>2
<1>19. todo' \in Seq(Symbol)
  BY <1>15, <1>18 DEF Carries
<1>20. encrypt' \in Registers
  <2>1. IsWin(C, W + m)
    <3>1. PICK l \in Nat, k \in Nat : l = BlockLen /\ k = Len(S)
      <4>1. BlockLen \in Nat /\ Len(S) \in Nat
        BY <1>10, CipherFacts DEF Carries
      <4>. QED BY <4>1
    <3>2. Len(S) = W + m /\ W \in Nat
      BY <1>1, <1>5, <1>10 DEF Carries
    <3>. QED BY <1>1, <1>11, <3>1, <3>2 DEF Enciphers, IsWin
  <2>. QED BY <1>8, <1>12, <2>1, Window
<1>21. Types'
  BY <1>8, <1>16, <1>19, <1>20 DEF Types
<1>22. Carries(Stream, Ciphertext(Stream), encrypted, W + m, R, todo, wire \o pending)'
  BY <1>4, <1>8, <1>9, <1>15, <1>16, <1>17, <1>18
<1>23. encrypt' = Win(C, W + m) /\ decrypt' = Win(C, R)
  BY <1>4, <1>8, <1>9, <1>12 DEF Transit
<1>24. Transit(W + m, R)'
  BY <1>4, <1>8, <1>9, <1>22, <1>23 DEF Transit
<1>. QED BY <1>21, <1>24

\* The socket takes more of what waited.
LEMMA FlushKeeps ==
  ASSUME Types, NEW W, NEW R, Transit(W, R), Flush
  PROVE  Types' /\ Transit(W, R)'
<1>1. PICK w, r : w = wire /\ r = pending /\ w \in Seq(Symbol) /\ r \in Seq(Symbol)
  BY DEF Types
<1>2. PICK n \in 0 .. Len(r) : wire' = w \o SubSeq(r, 1, n) /\ pending' = SubSeq(r, n + 1, Len(r))
  <2>1. PICK n \in Taken(1, Len(r)) : wire' = w \o SubSeq(r, 1, n) /\ pending' = SubSeq(r, n + 1, Len(r))
    BY <1>1 DEF Flush
  <2>2. n \in 0 .. Len(r)
    <3>1. PICK m \in Nat : m = Len(r)
      BY <1>1
    <3>2. n \in 1 .. m \/ n = m
      BY <2>1, <3>1 DEF Taken
    <3>. QED BY <3>1, <3>2
  <2>. QED BY <2>1, <2>2
<1>3. UNCHANGED <<threshold, encrypted, script, todo, encrypt, sent, decrypt, failed, writes>>
  BY DEF Flush, fixed
<1>4. wire' \in Seq(Symbol) /\ pending' \in Seq(Symbol) /\ wire' \o pending' = wire \o pending
  BY <1>1, <1>2, Split
<1>5. Types'
  BY <1>3, <1>4 DEF Types
<1>6. Stream' = Stream
  BY <1>3 DEF Stream
<1>7. encrypted
  BY DEF Flush, Transit
<1>. QED BY <1>3, <1>4, <1>5, <1>6, <1>7 DEF Transit

\* What the reader gets is the next of the stream.
LEMMA ReadKeeps ==
  ASSUME Types, NEW W, NEW R, Transit(W, R), NEW n \in 0 .. Len(wire),
         NEW x, x = Arriving(n),
         wire' = SubSeq(wire, n + 1, Len(wire)), decrypt' = x.register,
         UNCHANGED <<threshold, encrypted, script, todo, pending, encrypt, sent>>
  PROVE  /\ wire' \in Seq(Symbol) /\ decrypt' \in Registers
         /\ Transit(W, R + n)'
         /\ x.out \in Seq(Symbol) /\ Len(x.out) = n
         /\ R \in Nat /\ R + n <= Len(Stream)
         /\ \A j \in 1 .. n : x.out[j] = Stream[R + j]
<1>1. PICK w, p : w = wire /\ p = pending /\ w \in Seq(Symbol) /\ p \in Seq(Symbol)
  BY DEF Types
<1>2. PICK e \in BOOLEAN : e = encrypted
  BY SwitchType DEF Types
<1>3. PICK t : t = todo
  OBVIOUS
<1>4. PICK S, C : S = Stream /\ C = Ciphertext(S) /\ S = Stream'
  BY DEF Stream
<1>5. PICK q : q = w \o p /\ Joins(Symbol, q, w, p)
  BY <1>1, Joined
<1>6. Carries(S, C, e, W, R, t, q)
  BY <1>1, <1>2, <1>3, <1>4, <1>5 DEF Transit
<1>7. PICK l \in Nat, m \in Nat : l = Len(w) /\ m = Len(p)
  <2>1. Len(w) \in Nat /\ Len(p) \in Nat
    BY <1>1
  <2>. QED BY <2>1
<1>8. n \in 0 .. l /\ Len(q) = l + m /\ q \in Seq(Symbol) /\ R \in Nat /\ R + n <= Len(S) /\ S \in Seq(Symbol)
  <2>1. n \in 0 .. l /\ Len(q) = l + m /\ q \in Seq(Symbol)
    BY <1>1, <1>5, <1>7 DEF Joins
  <2>2. R \in Nat /\ Len(S) = W + Len(t) /\ W = R + Len(q) /\ Len(t) \in Nat /\ S \in Seq(Symbol)
    BY <1>6 DEF Carries
  <2>. QED BY <1>7, <2>1, <2>2
<1>9. PICK d, b : d = SubSeq(w, n + 1, l) /\ b = SubSeq(w, 1, n)
  OBVIOUS
<1>10. d \in Seq(Symbol) /\ Len(d) = l - n /\ \A j \in 1 .. l - n : d[j] = w[n + j]
  BY <1>1, <1>7, <1>8, <1>9, Left
<1>11. b \in Seq(Symbol) /\ Len(b) = n /\ \A j \in 1 .. n : b[j] = w[j]
  BY <1>1, <1>7, <1>8, <1>9
<1>12. d \o p = SubSeq(q, n + 1, Len(q))
  <2>1. PICK y : y = d \o p /\ Joins(Symbol, y, d, p)
    BY <1>1, <1>10, Joined
  <2>2. PICK u : u = SubSeq(q, n + 1, l + m)
    OBVIOUS
  <2>3. u \in Seq(Symbol) /\ Len(u) = l + m - n /\ \A j \in 1 .. l + m - n : u[j] = q[n + j]
    <3>1. n \in 0 .. l + m
      BY <1>7, <1>8
    <3>. QED BY <1>8, <2>2, <3>1, Left
  <2>4. y \in Seq(Symbol) /\ Len(y) = l + m - n
    BY <1>7, <1>8, <1>10, <2>1 DEF Joins
  <2>5. ASSUME NEW j \in 1 .. l + m - n PROVE y[j] = u[j]
    <3>1. CASE j <= l - n
      <4>1. j \in 1 .. l - n /\ n + j \in 1 .. l
        BY <1>7, <1>8, <3>1
      <4>2. y[j] = d[j] /\ d[j] = w[n + j]
        BY <1>10, <2>1, <4>1 DEF Joins
      <4>3. q[n + j] = w[n + j]
        BY <1>5, <1>7, <4>1 DEF Joins
      <4>. QED BY <2>3, <4>2, <4>3
    <3>2. CASE j > l - n
      <4>1. PICK i \in Nat : i = j - (l - n)
        <5>1. j - (l - n) \in Nat
          BY <1>7, <1>8, <3>2
        <5>. QED BY <5>1
      <4>2. i \in 1 .. m /\ j = (l - n) + i /\ n + j = l + i
        BY <1>7, <1>8, <3>2, <4>1
      <4>3. y[j] = p[i]
        BY <1>7, <1>10, <2>1, <4>2 DEF Joins
      <4>4. q[n + j] = p[i]
        BY <1>5, <1>7, <4>2 DEF Joins
      <4>. QED BY <2>3, <4>3, <4>4
    <3>. QED BY <1>7, <1>8, <3>1, <3>2
  <2>6. y = u
    BY <2>3, <2>4, <2>5, SeqEqual
  <2>. QED BY <1>8, <2>1, <2>2, <2>6
<1>13. Carries(S, C, e, W, R + n, t, d \o p)
  <2>1. n \in 0 .. Len(q)
    BY <1>7, <1>8
  <2>2. Carries(S, C, e, W, R + n, t, SubSeq(q, n + 1, Len(q)))
    BY <1>6, <2>1, CarriesRead
  <2>. QED BY <1>12, <2>2
<1>14. Carries(Stream, Ciphertext(Stream), encrypted, W, R + n, todo, wire \o pending)'
  BY <1>1, <1>2, <1>3, <1>4, <1>7, <1>9, <1>13
<1>15. ASSUME NEW j \in 1 .. n PROVE b[j] = Coded(S, C, e, R + j)
  <2>1. j \in 1 .. l /\ j \in 1 .. Len(q)
    BY <1>7, <1>8
  <2>2. b[j] = q[j]
    BY <1>5, <1>7, <1>11, <2>1 DEF Joins
  <2>. QED BY <1>6, <2>1, <2>2 DEF Carries
<1>16. CASE ~e
  <2>1. x = [out |-> b, register |-> decrypt]
    BY <1>1, <1>2, <1>9, <1>16 DEF Arriving
  <2>2. x.out = b /\ decrypt' = decrypt
    BY <2>1
  <2>3. Transit(W, R + n)'
    BY <1>2, <1>14, <1>16 DEF Transit
  <2>. QED BY <1>1, <1>4, <1>7, <1>8, <1>9, <1>10, <1>11, <1>15, <1>16, <2>2, <2>3 DEF Types, Coded
<1>17. CASE e
  <2>1. Enciphers(C, S)
    BY <1>4, <1>8, CiphertextEnciphers
  <2>2. x = Transform(FALSE, Win(C, R), b)
    BY <1>1, <1>2, <1>4, <1>9, <1>17 DEF Arriving, Transit
  <2>3. /\ x.register = Win(C, R + n)
        /\ x.out \in Seq(Symbol) /\ Len(x.out) = n
        /\ \A j \in 1 .. n : x.out[j] = S[R + j]
    <3>1. R + Len(b) <= Len(S) /\ \A j \in 1 .. Len(b) : b[j] = Coded(S, C, TRUE, R + j)
      BY <1>8, <1>11, <1>15, <1>17
    <3>2. Decodes(x, S, C, R, b)
      <4>1. R \in Nat /\ b \in Seq(Symbol)
        BY <1>8, <1>11
      <4>. QED BY <2>1, <2>2, <3>1, <4>1, Decoding
    <3>. QED BY <1>11, <3>2 DEF Decodes
  <2>4. decrypt' \in Registers
    <3>1. IsWin(C, R + n)
      <4>1. PICK k \in Nat, z \in Nat : k = BlockLen /\ z = Len(S)
        <5>1. BlockLen \in Nat /\ Len(S) \in Nat
          BY <1>8, CipherFacts
        <5>. QED BY <5>1
      <4>. QED BY <1>8, <2>1, <4>1, SMTT(30) DEF Enciphers, IsWin
    <3>. QED BY <2>3, <3>1, Window
  <2>5. encrypt = Win(C, W)
    BY <1>2, <1>4, <1>17 DEF Transit
  <2>6. Transit(W, R + n)'
    BY <1>2, <1>4, <1>14, <1>17, <2>3, <2>5 DEF Transit
  <2>. QED BY <1>1, <1>4, <1>7, <1>8, <1>9, <1>10, <2>3, <2>4, <2>6
<1>. QED BY <1>16, <1>17

\* The reader: a length is never complete while it is read, nor a body.
ReaderType ==
  /\ reader \in [stage : {"length", "body"}, size : 0 .. MaxPacket, got : Seq(Symbol)]
  /\ reader.stage = "length" => Len(reader.got) < MaxDigits
  /\ reader.stage = "body" => Len(reader.got) < reader.size

\* g is what was got, and the n symbols of the stream after R.
Extends(g, R, n) ==
  /\ g \in Seq(Symbol) /\ Len(g) = Len(reader.got) + n
  /\ R \in Nat /\ R + n <= Len(Stream)
  /\ \A j \in 1 .. Len(reader.got) : g[j] = reader.got[j]
  /\ \A j \in 1 .. n : g[Len(reader.got) + j] = Stream[R + j]

\* What one more byte of the length leads to.
LengthOutcome(g) ==
  \/ /\ Refused(g)
     /\ failed' = TRUE
     /\ UNCHANGED <<handled, reader>>
  \/ /\ ~Refused(g) /\ ~IsLast(g[Len(g)])
     /\ reader' = [reader EXCEPT !.got = g]
     /\ UNCHANGED <<handled, failed>>
  \/ /\ ~Refused(g) /\ IsLast(g[Len(g)])
     /\ IF Value(g) = 0 THEN Finish(<<>>)
        ELSE /\ reader' = [stage |-> "body", size |-> Value(g), got |-> <<>>]
             /\ UNCHANGED <<handled, failed>>

\* What some more of the body leads to.
BodyOutcome(g) ==
  IF Len(g) = reader.size THEN Finish(g)
  ELSE reader' = [reader EXCEPT !.got = g] /\ UNCHANGED <<handled, failed>>

LEMMA GotIsSeq ==
  ASSUME ReaderType
  PROVE  reader.got \in Seq(Symbol) /\ Len(reader.got) \in Nat /\ reader.size \in 0 .. MaxPacket
<1>1. reader.got \in Seq(Symbol) /\ reader.size \in 0 .. MaxPacket
  BY DEF ReaderType
<1>. QED BY <1>1

\* What an answer of the transport adds.
LEMMA Got ==
  ASSUME ReaderType, NEW x \in Seq(Symbol), NEW n \in Nat, Len(x) = n, NEW R \in Nat, R + n <= Len(Stream),
         \A j \in 1 .. n : x[j] = Stream[R + j]
  PROVE  Extends(reader.got \o x, R, n)
<1>1. PICK a : a = reader.got /\ a \in Seq(Symbol)
  BY GotIsSeq
<1>2. Joins(Symbol, a \o x, a, x)
  BY <1>1, Joined
<1>. QED BY <1>1, <1>2 DEF Extends, Joins

LEMMA FinishTypes ==
  ASSUME NEW g, Finish(g), failed \in BOOLEAN, ReaderType
  PROVE  failed' \in BOOLEAN /\ ReaderType'
<1>1. MaxPacket \in Nat /\ MaxDigits \in Nat /\ MaxDigits > 0
  BY PacketType, VarIntType
<1>2. ASSUME reader' = Fresh PROVE ReaderType'
  <2>1. Fresh \in [stage : {"length", "body"}, size : 0 .. MaxPacket, got : Seq(Symbol)]
    <3>1. <<>> \in Seq(Symbol) /\ 0 \in 0 .. MaxPacket
      BY <1>1
    <3>. QED BY <3>1 DEF Fresh
  <2>2. Fresh.stage = "length" /\ Fresh.got = <<>> /\ Len(<<>>) = 0
    BY DEF Fresh
  <2>. QED BY <1>1, <1>2, <2>1, <2>2 DEF ReaderType
<1>3. PICK data : IF VarIntLen(data) > 0
                  THEN /\ handled' = Append(handled, Packet(data))
                       /\ reader' = Fresh
                       /\ UNCHANGED failed
                  ELSE /\ failed' = TRUE
                       /\ UNCHANGED <<handled, reader>>
  BY DEF Finish
<1>4. CASE VarIntLen(data) > 0
  BY <1>2, <1>3, <1>4
<1>5. CASE ~(VarIntLen(data) > 0)
  BY <1>3, <1>5 DEF ReaderType
<1>. QED BY <1>4, <1>5

\* One byte of the length is read.
LEMMA ReadLengthReads ==
  ASSUME Types, ReaderType, NEW W, NEW R, Transit(W, R), ReadLength
  PROVE  /\ Types' /\ ReaderType' /\ Transit(W, R + 1)'
         /\ UNCHANGED <<threshold, sent>>
         /\ \E g : Extends(g, R, 1) /\ LengthOutcome(g)
<1>1. /\ reader.stage = "length" /\ wire # <<>> /\ wire' = Tail(wire)
      /\ UNCHANGED <<threshold, encrypted, script, todo, pending, encrypt, sent, writes>>
  BY DEF ReadLength, fixed, sender
<1>2. wire \in Seq(Symbol) /\ failed \in BOOLEAN
  BY DEF Types
<1>3. wire' = SubSeq(wire, 1 + 1, Len(wire)) /\ 1 \in 0 .. Len(wire)
  BY <1>1, <1>2
<1>4. PICK x : x = Arriving(1)
  OBVIOUS
<1>5. decrypt' = x.register /\ LengthOutcome(reader.got \o x.out)
  BY <1>4 DEF ReadLength, LengthOutcome
<1>6. /\ wire' \in Seq(Symbol) /\ decrypt' \in Registers
      /\ Transit(W, R + 1)'
      /\ x.out \in Seq(Symbol) /\ Len(x.out) = 1
      /\ R \in Nat /\ R + 1 <= Len(Stream)
      /\ \A j \in 1 .. 1 : x.out[j] = Stream[R + j]
  <2>1. x = Arriving(1) /\ 1 \in 0 .. Len(wire)
    BY <1>3, <1>4
  <2>2. wire' = SubSeq(wire, 1 + 1, Len(wire)) /\ decrypt' = x.register
    BY <1>3, <1>5
  <2>3. UNCHANGED <<threshold, encrypted, script, todo, pending, encrypt, sent>>
    BY <1>1
  <2>. QED BY <2>1, <2>2, <2>3, ReadKeeps
<1>7. PICK g : g = reader.got \o x.out /\ Extends(g, R, 1)
  <2>1. 1 \in Nat
    OBVIOUS
  <2>. QED BY <1>6, <2>1, Got
<1>8. LengthOutcome(g)
  BY <1>5, <1>7
<1>9. failed' \in BOOLEAN /\ ReaderType'
  <2>1. CASE Refused(g) /\ failed' = TRUE /\ UNCHANGED <<handled, reader>>
    BY <2>1 DEF ReaderType
  <2>2. CASE ~Refused(g) /\ ~IsLast(g[Len(g)]) /\ reader' = [reader EXCEPT !.got = g] /\ UNCHANGED failed
    <3>1. g \in Seq(Symbol) /\ Len(g) < MaxDigits
      <4>1. Len(g) \in Nat /\ MaxDigits \in Nat
        BY <1>7, VarIntType DEF Extends
      <4>. QED BY <1>7, <2>2, <4>1 DEF Extends, Refused
    <3>. QED BY <1>1, <1>2, <2>2, <3>1 DEF ReaderType
  <2>3. CASE Finish(<<>>)
    BY <1>2, <2>3, FinishTypes
  <2>4. CASE /\ ~Refused(g) /\ IsLast(g[Len(g)]) /\ ~(Value(g) = 0)
             /\ reader' = [stage |-> "body", size |-> Value(g), got |-> <<>>] /\ UNCHANGED failed
    <3>1. PICK v \in 0 .. MaxPacket : v = Value(g) /\ v > 0
      <4>1. Value(g) \in 0 .. MaxPacket
        BY <2>4 DEF Refused
      <4>2. MaxPacket \in Nat
        BY PacketType
      <4>. QED BY <2>4, <4>1, <4>2
    <3>2. <<>> \in Seq(Symbol) /\ Len(<<>>) = 0
      OBVIOUS
    <3>3. reader' = [stage |-> "body", size |-> v, got |-> <<>>]
      BY <2>4, <3>1
    <3>4. reader' \in [stage : {"length", "body"}, size : 0 .. MaxPacket, got : Seq(Symbol)]
      BY <3>2, <3>3
    <3>5. reader'.stage = "body" /\ reader'.size = v /\ reader'.got = <<>>
      BY <3>3
    <3>. QED BY <1>2, <2>4, <3>1, <3>2, <3>4, <3>5 DEF ReaderType
  <2>. QED BY <1>8, <2>1, <2>2, <2>3, <2>4 DEF LengthOutcome
<1>10. Types'
  BY <1>1, <1>6, <1>9 DEF Types
<1>. QED BY <1>1, <1>6, <1>7, <1>8, <1>9, <1>10

\* Some of the body is read, no more than is missing.
LEMMA ReadBodyReads ==
  ASSUME Types, ReaderType, NEW W, NEW R, Transit(W, R), ReadBody
  PROVE  /\ Types' /\ ReaderType'
         /\ UNCHANGED <<threshold, sent>>
         /\ \E n \in Nat \ {0} : \E g : /\ Transit(W, R + n)' /\ Extends(g, R, n)
                                         /\ Len(g) <= reader.size /\ BodyOutcome(g)
<1>1. /\ reader.stage = "body" /\ wire # <<>>
      /\ UNCHANGED <<threshold, encrypted, script, todo, pending, encrypt, sent, writes>>
  BY DEF ReadBody, fixed, sender
<1>2. wire \in Seq(Symbol) /\ failed \in BOOLEAN
  BY DEF Types
<1>3. PICK k \in Nat, z \in Nat, l \in Nat : k = Len(reader.got) /\ z = reader.size /\ l = Len(wire)
  <2>1. Len(reader.got) \in Nat /\ reader.size \in Nat /\ Len(wire) \in Nat
    BY <1>2, GotIsSeq, PacketType
  <2>. QED BY <2>1
<1>4. k < z /\ l > 0 /\ Missing(reader.size, reader.got) = z - k
  BY <1>1, <1>2, <1>3 DEF ReaderType, Missing
<1>5. PICK n : n = IF Len(wire) < Missing(reader.size, reader.got) THEN Len(wire)
                   ELSE Missing(reader.size, reader.got)
  OBVIOUS
<1>6. n \in Nat /\ n > 0 /\ n <= l /\ k + n <= z /\ (n = z - k <=> k + n = z)
  BY <1>3, <1>4, <1>5
<1>7. PICK x : x = Arriving(n)
  OBVIOUS
<1>8. /\ wire' = SubSeq(wire, n + 1, Len(wire)) /\ decrypt' = x.register
      /\ IF n = Missing(reader.size, reader.got) THEN Finish(reader.got \o x.out)
         ELSE reader' = [reader EXCEPT !.got = reader.got \o x.out] /\ UNCHANGED <<handled, failed>>
  BY <1>5, <1>7 DEF ReadBody
<1>9. /\ wire' \in Seq(Symbol) /\ decrypt' \in Registers
      /\ Transit(W, R + n)'
      /\ x.out \in Seq(Symbol) /\ Len(x.out) = n
      /\ R \in Nat /\ R + n <= Len(Stream)
      /\ \A j \in 1 .. n : x.out[j] = Stream[R + j]
  <2>1. n \in 0 .. Len(wire)
    BY <1>3, <1>6
  <2>2. wire' = SubSeq(wire, n + 1, Len(wire)) /\ decrypt' = x.register
    BY <1>8
  <2>3. UNCHANGED <<threshold, encrypted, script, todo, pending, encrypt, sent>>
    BY <1>1
  <2>. QED BY <1>7, <2>1, <2>2, <2>3, ReadKeeps
<1>10. PICK g : g = reader.got \o x.out /\ Extends(g, R, n)
  BY <1>6, <1>9, Got
<1>11. Len(g) = k + n /\ g \in Seq(Symbol)
  BY <1>3, <1>10 DEF Extends
<1>12. BodyOutcome(g)
  <2>1. n = Missing(reader.size, reader.got) <=> Len(g) = reader.size
    BY <1>3, <1>4, <1>6, <1>11
  <2>. QED BY <1>8, <1>10, <2>1 DEF BodyOutcome
<1>13. failed' \in BOOLEAN /\ ReaderType'
  <2>1. CASE Finish(g)
    BY <1>2, <2>1, FinishTypes
  <2>2. CASE Len(g) # reader.size /\ reader' = [reader EXCEPT !.got = g] /\ UNCHANGED failed
    <3>1. Len(g) < reader.size
      BY <1>3, <1>6, <1>11, <2>2
    <3>. QED BY <1>1, <1>2, <1>11, <2>2, <3>1 DEF ReaderType
  <2>. QED BY <1>12, <2>1, <2>2 DEF BodyOutcome
<1>14. Types'
  BY <1>1, <1>9, <1>13 DEF Types
<1>15. n \in Nat \ {0} /\ Len(g) <= reader.size
  BY <1>3, <1>6, <1>11
<1>. QED BY <1>1, <1>9, <1>10, <1>12, <1>13, <1>14, <1>15

-----------------------------------------------------------------------------
Inv == Types /\ ReaderType /\ \E W, R : Transit(W, R)

LEMMA NoFrames ==
  ASSUME NEW t, NEW s
  PROVE  UptoIn(t, s, 0) = <<>>
<1>1. PICK u : u = [i \in 1 .. 0 |-> FrameIn(t, s[i])]
  OBVIOUS
<1>2. u = <<>>
  BY <1>1
<1>3. u \in Seq(Seq({})) /\ Len(u) = 0
  BY <1>2
<1>4. PICK n \in Nat : n = 0 /\ n = Len(u)
  BY <1>3
<1>5. PICK c : Flattens(c, {}, u, n)
  BY <1>3, <1>4, FlattenSteps
<1>6. FlattenSeq(u) = <<>>
  BY <1>4, <1>5 DEF Flattens
<1>. QED BY <1>1, <1>6 DEF UptoIn

LEMMA InvInit ==
  ASSUME Init
  PROVE  Inv
<1>1. /\ threshold \in Thresholds /\ encrypted \in Encrypted /\ script \in Scripts
      /\ todo = <<>> /\ pending = <<>> /\ encrypt = Secret /\ wire = <<>> /\ decrypt = Secret
      /\ reader = Fresh /\ failed = FALSE /\ sent = <<>> /\ writes = 0
  BY DEF Init
<1>2. <<>> \in Seq(Symbol) /\ <<>> \in Seq(Packets) /\ Len(<<>>) = 0
  OBVIOUS
<1>3. script \in Seq(Packets) /\ sent \o script = script
  <2>1. script \in Seq(Packets)
    BY <1>1, ScriptsType
  <2>. QED BY <1>1, <2>1, ConcatEmptySeq
<1>4. 0 \in 0 .. MaxWrites
  BY BoundsType
<1>5. Types
  BY <1>1, <1>2, <1>3, <1>4, CipherFacts DEF Types
<1>6. ReaderType
  <2>1. MaxPacket \in Nat /\ MaxDigits \in Nat /\ MaxDigits > 0
    BY PacketType, VarIntType
  <2>2. Fresh \in [stage : {"length", "body"}, size : 0 .. MaxPacket, got : Seq(Symbol)]
    <3>1. 0 \in 0 .. MaxPacket
      BY <2>1
    <3>. QED BY <1>2, <3>1 DEF Fresh
  <2>3. Fresh.stage = "length" /\ Fresh.got = <<>>
    BY DEF Fresh
  <2>. QED BY <1>1, <1>2, <2>1, <2>2, <2>3 DEF ReaderType
<1>7. Transit(0, 0)
  <2>1. Stream = <<>>
    BY <1>1, <1>2, NoFrames DEF Stream, StreamIn
  <2>2. PICK C : C = Ciphertext(Stream) /\ Win(C, 0) = Secret
    BY <1>2, <2>1, CiphertextEnciphers DEF Enciphers
  <2>3. PICK q : q = wire \o pending /\ q = <<>>
    BY <1>1
  <2>4. Carries(Stream, C, encrypted, 0, 0, todo, q)
    BY <1>1, <1>2, <2>1, <2>3 DEF Carries
  <2>. QED BY <1>1, <2>2, <2>3, <2>4 DEF Transit
<1>. QED BY <1>5, <1>6, <1>7 DEF Inv

LEMMA WriteNext ==
  ASSUME Types, NEW W, NEW R, Transit(W, R), Write
  PROVE  Types' /\ \E V : Transit(V, R)'
<1>1. CASE StartFrame
  BY <1>1, StartFrameKeeps
<1>2. CASE WritePlain
  BY <1>2, WritePlainKeeps
<1>3. CASE WriteEncrypted
  BY <1>3, WriteEncryptedKeeps
<1>4. CASE Flush
  BY <1>4, FlushKeeps
<1>. QED BY <1>1, <1>2, <1>3, <1>4 DEF Write

LEMMA InvNext ==
  ASSUME Inv, [Next]_vars
  PROVE  Inv'
<1>1. PICK W, R : Transit(W, R)
  BY DEF Inv
<1>2. Types /\ ReaderType
  BY DEF Inv
<1>3. CASE Write
  <2>1. Types' /\ \E V : Transit(V, R)'
    BY <1>1, <1>2, <1>3, WriteNext
  <2>2. UNCHANGED reader
    BY <1>3 DEF Write, StartFrame, WritePlain, WriteEncrypted, Flush
  <2>3. ReaderType'
    BY <1>2, <2>2 DEF ReaderType
  <2>. QED BY <2>1, <2>3 DEF Inv
<1>4. CASE ReadLength
  BY <1>1, <1>2, <1>4, ReadLengthReads DEF Inv
<1>5. CASE ReadBody
  BY <1>1, <1>2, <1>5, ReadBodyReads DEF Inv
<1>6. CASE WritePacket
  <2>1. /\ reader' = Fresh /\ writes < MaxWrites /\ writes' = writes + 1
        /\ UNCHANGED <<threshold, encrypted, script, todo, pending, encrypt, sent, wire, decrypt, failed>>
    BY <1>6 DEF WritePacket, fixed, sender
  <2>2. Types'
    <3>1. writes' \in 0 .. MaxWrites
      BY <1>2, <2>1, BoundsType DEF Types
    <3>. QED BY <1>2, <2>1, <3>1 DEF Types
  <2>3. ReaderType'
    <3>1. MaxPacket \in Nat /\ MaxDigits \in Nat /\ MaxDigits > 0
      BY PacketType, VarIntType
    <3>2. Fresh \in [stage : {"length", "body"}, size : 0 .. MaxPacket, got : Seq(Symbol)]
      <4>1. <<>> \in Seq(Symbol) /\ 0 \in 0 .. MaxPacket
        BY <3>1
      <4>. QED BY <4>1 DEF Fresh
    <3>3. Fresh.stage = "length" /\ Fresh.got = <<>> /\ Len(<<>>) = 0
      BY DEF Fresh
    <3>. QED BY <2>1, <3>1, <3>2, <3>3 DEF ReaderType
  <2>4. Transit(W, R)'
    BY <1>1, <2>1 DEF Transit, Stream
  <2>. QED BY <2>2, <2>3, <2>4 DEF Inv
<1>7. CASE UNCHANGED vars
  BY <1>1, <1>2, <1>7 DEF Inv, Types, ReaderType, Transit, Stream, vars, fixed, sender
<1>. QED BY <1>3, <1>4, <1>5, <1>6, <1>7 DEF Next, Read

\* Every buffer holds symbols, every register a block of bytes, and the reader never waits
\* for a byte past the end of a length or of a body, whatever interrupts it (codec.rs:
\* read_frame, read_varint_async; crypto.rs: EncryptedStream).
THEOREM TypeCorrect == Spec => []TypeOK
<1>1. Init => Inv
  BY InvInit
<1>2. Inv /\ [Next]_vars => Inv'
  BY InvNext
<1>3. Inv => TypeOK
  <2>1. SUFFICES ASSUME Inv PROVE TypeOK
    OBVIOUS
  <2>2. Types /\ ReaderType
    BY <2>1 DEF Inv
  <2>3. Registers = [1 .. BlockLen -> 0 .. 2 * Base - 1]
    BY DEF Registers, Octets, Values
  <2>. QED BY <2>2, <2>3 DEF TypeOK, Types, ReaderType
<1>. QED BY <1>1, <1>2, <1>3, PTL DEF Spec

LEMMA CodedStream ==
  ASSUME Inv, encrypted
  PROVE  WireIsCfb8
<1>1. PICK W, R : Transit(W, R)
  BY DEF Inv
<1>2. PICK S, C : S = Stream /\ C = Ciphertext(S)
  OBVIOUS
<1>3. PICK q, t : q = wire \o pending /\ t = todo
  OBVIOUS
<1>4. Types /\ encrypted = TRUE
  BY SwitchType DEF Inv, Types
<1>5. Carries(S, C, TRUE, W, R, t, q)
  BY <1>1, <1>2, <1>3, <1>4 DEF Transit
<1>6. PICK n \in Nat, m \in Nat : n = Len(t) /\ m = Len(q)
  <2>1. Len(t) \in Nat /\ Len(q) \in Nat
    BY <1>5 DEF Carries
  <2>. QED BY <2>1
<1>7. S \in Seq(Symbol) /\ Len(S) = W + n /\ W = R + m /\ W \in Nat /\ R \in Nat /\ q \in Seq(Symbol)
  BY <1>5, <1>6 DEF Carries
<1>8. FlattenSeq([i \in DOMAIN sent |-> Framed(Body(Data(sent[i])))]) = S
  <2>1. DOMAIN sent = 1 .. Len(sent)
    BY <1>4 DEF Types
  <2>2. \A i \in 1 .. Len(sent) : Framed(Body(Data(sent[i]))) = FrameIn(threshold, sent[i])
    BY InThreshold DEF FrameIn
  <2>3. [i \in DOMAIN sent |-> Framed(Body(Data(sent[i])))] = [i \in 1 .. Len(sent) |-> FrameIn(threshold, sent[i])]
    BY <2>1, <2>2
  <2>. QED BY <1>2, <2>3 DEF Stream, StreamIn, UptoIn
<1>9. PICK d : d = SubSeq(S, 1, W)
  OBVIOUS
<1>10. d \in Seq(Symbol) /\ Len(d) = W /\ \A i \in 1 .. W : d[i] = S[i]
  BY <1>6, <1>7, <1>9
<1>11. \A j \in 1 .. BlockLen + W : Ciphertext(d)[j] = C[j]
  <2>1. Len(d) <= Len(S)
    BY <1>6, <1>7, <1>10
  <2>2. \A i \in 1 .. Len(d) : d[i] = S[i]
    BY <1>10
  <2>3. \A j \in 1 .. BlockLen + Len(d) : Ciphertext(d)[j] = Ciphertext(S)[j]
    BY <1>7, <1>10, <2>1, <2>2, CiphertextPrefix
  <2>. QED BY <1>2, <1>10, <2>3
<1>12. PICK z : z = Cfb8(d)
  OBVIOUS
<1>13. PICK b \in Nat : b = BlockLen
  BY CipherFacts
<1>14. z = [i \in 1 .. W |-> Coded(S, C, TRUE, i)]
  <2>1. \A i \in 1 .. W : b + i \in 1 .. b + W
    BY <1>7, <1>13
  <2>2. \A i \in 1 .. W : Ciphertext(d)[BlockLen + i] = C[BlockLen + i]
    BY <1>11, <1>13, <2>1
  <2>3. z = [i \in 1 .. W |-> [d[i] EXCEPT !.byte = Ciphertext(d)[BlockLen + i]]]
    BY <1>10, <1>12 DEF Cfb8
  <2>4. \A i \in 1 .. W : [d[i] EXCEPT !.byte = Ciphertext(d)[BlockLen + i]] = Coded(S, C, TRUE, i)
    BY <1>10, <2>2 DEF Coded
  <2>. QED BY <2>3, <2>4
<1>15. ASSUME NEW j \in 1 .. m PROVE q[j] = Coded(S, C, TRUE, R + j) /\ R + j \in 1 .. W
  <2>1. j \in 1 .. Len(q)
    BY <1>6
  <2>2. R + j \in 1 .. W
    BY <1>6, <1>7
  <2>. QED BY <1>5, <2>1, <2>2 DEF Carries
<1>16. q = SubSeq(z, W - m + 1, W)
  <2>1. PICK u : u = SubSeq(z, R + 1, W)
    OBVIOUS
  <2>2. u = [j \in 1 .. m |-> z[R + j]]
    <3>1. \A j \in 1 .. m : R + 1 + j - 1 = R + j
      BY <1>6, <1>7
    <3>2. W - (R + 1) + 1 = m
      BY <1>6, <1>7
    <3>. QED BY <1>6, <1>7, <2>1, <3>1, <3>2
  <2>3. q = [j \in 1 .. m |-> q[j]]
    BY <1>6, <1>7
  <2>4. \A j \in 1 .. m : z[R + j] = q[j]
    BY <1>14, <1>15
  <2>5. W - m = R
    BY <1>6, <1>7
  <2>6. u = q
    BY <2>2, <2>3, <2>4
  <2>. QED BY <2>1, <2>5, <2>6
<1>17. Len(z) = W
  BY <1>7, <1>14
<1>18. Len(S) - Len(todo) = W
  BY <1>3, <1>6, <1>7
<1>. QED BY <1>3, <1>6, <1>8, <1>9, <1>12, <1>16, <1>17, <1>18 DEF WireIsCfb8

\* Whatever is read, written and flushed in whatever pieces, the bytes of an encrypted
\* connection that were not read yet are those CFB8 makes of the stream of frames since
\* encryption began (crypto.rs: Cfb8::transform, EncryptedStream).
THEOREM CipherIsOneStream == Spec => []WireIsCfb8
<1>1. Init => Inv
  BY InvInit
<1>2. Inv /\ [Next]_vars => Inv'
  BY InvNext
<1>3. Inv => WireIsCfb8
  <2>1. ~encrypted => WireIsCfb8
    BY DEF WireIsCfb8
  <2>. QED BY <2>1, CodedStream
<1>. QED BY <1>1, <1>2, <1>3, PTL DEF Spec

-----------------------------------------------------------------------------
(* Before Play: the reader's place in the stream *)

BodyOf(k)   == BodyIn(threshold, Data(sent[k]))
LengthOf(k) == VarInt(Len(BodyOf(k)))
Upto(k)     == UptoIn(threshold, sent, k)

\* The length v and the body b of the frame after h others, where they are in the stream.
Placed(h, v, b) ==
  /\ b \in Seq(Symbol) /\ Len(b) \in Nat \ {0}
  /\ v \in Seq(Symbol) /\ Len(v) \in 1 .. MaxDigits
  /\ \A j \in 1 .. Len(v) : IsLast(v[j]) <=> j = Len(v)
  /\ Value(v) = Len(b)
  /\ Len(Upto(h)) \in Nat
  /\ Len(Upto(h + 1)) = Len(Upto(h)) + Len(v) + Len(b)
  /\ \A j \in 1 .. Len(v) : Stream[Len(Upto(h)) + j] = v[j]
  /\ \A j \in 1 .. Len(b) : Stream[Len(Upto(h)) + Len(v) + j] = b[j]

LEMMA Placing ==
  ASSUME Types, NEW h \in Nat, h < Len(sent)
  PROVE  Placed(h, LengthOf(h + 1), BodyOf(h + 1))
<1>0. PICK k \in 1 .. Len(sent) : k = h + 1 /\ k - 1 = h
  <2>1. Len(sent) \in Nat
    BY DEF Types
  <2>2. h + 1 \in 1 .. Len(sent) /\ (h + 1) - 1 = h
    BY <2>1
  <2>. QED BY <2>2
<1>1. PICK t \in Thresholds, s \in Seq(Packets) : t = threshold /\ s = sent
  BY DEF Types
<1>2. PICK p \in Packets : p = s[k]
  BY <1>1
<1>3. PICK b, v : b = BodyIn(t, Data(p)) /\ v = VarInt(Len(b))
  OBVIOUS
<1>4. PICK f : f = FrameIn(t, p)
  OBVIOUS
<1>5. /\ b \in Seq(Symbol) /\ Len(b) \in Nat \ {0}
      /\ v \in Seq(Symbol) /\ Len(v) \in 1 .. MaxDigits
      /\ \A j \in 1 .. Len(v) : IsLast(v[j]) <=> j = Len(v)
      /\ Value(v) = Len(b)
      /\ f = v \o b /\ f \in Seq(Symbol)
  <2>1. /\ b \in Seq(Symbol) /\ Len(b) \in Nat \ {0}
        /\ v \in Seq(Symbol) /\ Len(v) \in 1 .. MaxDigits
        /\ \A j \in 1 .. Len(v) : IsLast(v[j]) <=> j = Len(v)
    BY <1>3, FrameFacts
  <2>2. Value(v) = Len(b)
    BY <1>3, FrameFacts
  <2>3. FrameIn(t, p) = v \o b
    BY <1>3 DEF FrameIn, Framed
  <2>4. FrameIn(t, p) \in Seq(Symbol)
    BY <2>1, <2>3
  <2>. QED BY <1>4, <2>1, <2>2, <2>3, <2>4
<1>6. PICK u, S : u = UptoIn(t, s, k - 1) /\ S = StreamIn(t, s)
  OBVIOUS
<1>7. /\ u \in Seq(Symbol)
      /\ Len(UptoIn(t, s, k)) = Len(u) + Len(f)
      /\ \A j \in 1 .. Len(f) : S[Len(u) + j] = f[j]
  <2>1. k \in 1 .. Len(s)
    BY <1>1
  <2>2. f = FrameIn(t, s[k])
    BY <1>2, <1>4
  <2>3. StandsAfter(u, f, S) /\ Len(UptoIn(t, s, k)) = Len(u) + Len(f)
    BY <1>6, <2>1, <2>2, FramePlace
  <2>. QED BY <2>3 DEF StandsAfter
<1>8. Joins(Symbol, f, v, b)
  BY <1>5, Joined
<1>9. PICK a \in Nat, m \in Nat, n \in Nat : a = Len(u) /\ m = Len(v) /\ n = Len(b)
  <2>1. Len(u) \in Nat /\ Len(v) \in Nat /\ Len(b) \in Nat
    BY <1>5, <1>7
  <2>. QED BY <2>1
<1>10. Len(f) = m + n
  BY <1>8, <1>9 DEF Joins
<1>11. ASSUME NEW j \in 1 .. m PROVE S[a + j] = v[j]
  <2>1. j \in 1 .. Len(f)
    BY <1>9, <1>10
  <2>. QED BY <1>7, <1>8, <1>9, <2>1 DEF Joins
<1>12. ASSUME NEW j \in 1 .. n PROVE S[a + m + j] = b[j]
  <2>1. m + j \in 1 .. Len(f) /\ a + (m + j) = a + m + j
    BY <1>9, <1>10
  <2>2. f[m + j] = b[j]
    BY <1>8, <1>9 DEF Joins
  <2>. QED BY <1>7, <1>9, <2>1, <2>2
<1>13. Len(UptoIn(t, s, k)) = a + m + n
  BY <1>7, <1>9, <1>10
<1>14. Placed(h, v, b)
  <2>1. Upto(h) = u /\ Len(Upto(h + 1)) = a + m + n /\ Stream = S
    BY <1>0, <1>1, <1>6, <1>13 DEF Upto, Stream
  <2>. QED BY <1>5, <1>9, <1>11, <1>12, <2>1 DEF Placed
<1>15. b = BodyOf(h + 1) /\ v = LengthOf(h + 1)
  BY <1>0, <1>1, <1>2, <1>3 DEF BodyOf, LengthOf
<1>. QED BY <1>14, <1>15

\* After the last frame the stream ends.
LEMMA StreamEnds ==
  ASSUME Types
  PROVE  Upto(Len(sent)) = Stream
BY DEF Upto, Stream, StreamIn

InOrder ==
  /\ handled \in Seq(Packets) /\ Len(handled) <= Len(sent)
  /\ \A i \in 1 .. Len(handled) : handled[i] = sent[i]

TooLarge(k) == Len(BodyOf(k)) > MaxPacket \/ Len(Data(sent[k])) > MaxPacket

\* The reader has got these symbols of a length, R in all.
AtLength(R) ==
  /\ R = Len(Upto(Len(handled))) + Len(reader.got)
  /\ reader.got # <<>> =>
       /\ Len(handled) < Len(sent)
       /\ Len(reader.got) < Len(LengthOf(Len(handled) + 1))
       /\ \A j \in 1 .. Len(reader.got) : reader.got[j] = LengthOf(Len(handled) + 1)[j]

\* The reader has got these symbols of a body, R in all.
AtBody(R) ==
  /\ Len(handled) < Len(sent)
  /\ reader.size = Len(BodyOf(Len(handled) + 1))
  /\ R = Len(Upto(Len(handled))) + Len(LengthOf(Len(handled) + 1)) + Len(reader.got)
  /\ \A j \in 1 .. Len(reader.got) : reader.got[j] = BodyOf(Len(handled) + 1)[j]

\* Every packet handled was read in its place, and none but one too large is refused.
ReadInv(R) ==
  /\ InOrder
  /\ failed => Len(handled) < Len(sent) /\ TooLarge(Len(handled) + 1)
  /\ ~failed => /\ reader.stage = "length" => AtLength(R)
                /\ reader.stage = "body" => AtBody(R)

Placement == \E W, R : Transit(W, R) /\ ReadInv(R)

LEMMA PlacementInit ==
  ASSUME Init
  PROVE  Placement
<1>1. handled = <<>> /\ sent = <<>> /\ reader = Fresh /\ failed = FALSE
  BY DEF Init
<1>2. Fresh.stage = "length" /\ Fresh.got = <<>> /\ Len(<<>>) = 0 /\ <<>> \in Seq(Packets)
  BY DEF Fresh
<1>3. InOrder
  BY <1>1, <1>2 DEF InOrder
<1>4. Upto(0) = <<>>
  BY NoFrames DEF Upto
<1>5. AtLength(0)
  BY <1>1, <1>2, <1>4 DEF AtLength
<1>6. PICK W, R : Transit(W, R)
  BY InvInit DEF Inv
<1>7. R = 0
  <2>1. Stream = <<>>
    BY <1>1, <1>2, NoFrames DEF Stream, StreamIn
  <2>2. Len(Stream) = W + Len(todo) /\ W = R + Len(wire \o pending) /\ W \in Nat /\ R \in Nat
    BY <1>6 DEF Transit, Carries
  <2>3. Len(todo) \in Nat /\ Len(wire \o pending) \in Nat
    BY <1>6 DEF Transit, Carries
  <2>. QED BY <1>2, <2>1, <2>2, <2>3
<1>8. ReadInv(R)
  BY <1>1, <1>2, <1>3, <1>5, <1>7 DEF ReadInv
<1>. QED BY <1>6, <1>8 DEF Placement

\* More frames do not change what the reader has.
LEMMA MoreToRead ==
  ASSUME Types, ReaderType, NEW R, ReadInv(R), Write
  PROVE  ReadInv(R)'
<1>1. UNCHANGED <<threshold, reader, handled, failed>>
  BY DEF Write, StartFrame, WritePlain, WriteEncrypted, Flush, fixed
<1>2. CASE UNCHANGED sent
  BY <1>1, <1>2 DEF ReadInv, InOrder, TooLarge, AtLength, AtBody, BodyOf, LengthOf, Upto
<1>3. CASE StartFrame
  <2>1. PICK p \in Packets : p = Head(script)
    BY <1>3, Passes DEF Types, StartFrame
  <2>2. PICK s, r : s \in Seq(Packets) /\ s = sent /\ r = Append(s, p) /\ sent' = r
    BY <1>3, <2>1 DEF Types, StartFrame
  <2>3. PICK n \in Nat, h \in Nat : n = Len(s) /\ h = Len(handled) /\ h <= n
    <3>1. Len(s) \in Nat /\ Len(handled) \in Nat /\ Len(handled) <= Len(s)
      BY <2>2 DEF ReadInv, InOrder
    <3>. QED BY <3>1
  <2>4. Len(r) = n + 1 /\ \A i \in 1 .. n : r[i] = s[i]
    BY <2>2, <2>3
  <2>5. PICK t \in Thresholds : t = threshold /\ t = threshold'
    BY <1>1 DEF Types
  <2>6. Upto(h)' = Upto(h)
    <3>1. \A k \in 0 .. Len(s) : UptoIn(t, Append(s, p), k) = UptoIn(t, s, k)
      BY <2>2, StreamAppend
    <3>2. h \in 0 .. Len(s)
      BY <2>3
    <3>. QED BY <2>2, <2>5, <3>1, <3>2 DEF Upto
  <2>7. ASSUME h < n
        PROVE  BodyOf(h + 1)' = BodyOf(h + 1) /\ LengthOf(h + 1)' = LengthOf(h + 1) /\ TooLarge(h + 1)' = TooLarge(h + 1)
    <3>1. r[h + 1] = s[h + 1]
      BY <2>3, <2>4, <2>7
    <3>. QED BY <2>2, <2>5, <3>1 DEF BodyOf, LengthOf, TooLarge
  <2>8. InOrder'
    <3>1. h <= Len(r) /\ \A i \in 1 .. h : handled[i] = r[i]
      <4>1. \A i \in 1 .. h : handled[i] = s[i] /\ i \in 1 .. n
        BY <2>2, <2>3 DEF ReadInv, InOrder
      <4>. QED BY <2>3, <2>4, <4>1
    <3>. QED BY <1>1, <2>2, <2>3, <3>1 DEF ReadInv, InOrder
  <2>9. failed => h < n /\ h < Len(r) /\ TooLarge(h + 1)
    BY <2>2, <2>3, <2>4 DEF ReadInv
  <2>10. ASSUME AtLength(R) PROVE AtLength(R)'
    <3>1. PICK u : u = Upto(h) /\ u = Upto(h)'
      BY <2>6
    <3>2. R = Len(u) + Len(reader.got)
      BY <2>3, <2>10, <3>1 DEF AtLength
    <3>3. ASSUME reader.got # <<>>
          PROVE  /\ h < Len(r) /\ Len(reader.got) < Len(LengthOf(h + 1)')
                 /\ \A j \in 1 .. Len(reader.got) : reader.got[j] = LengthOf(h + 1)'[j]
      <4>1. h < n
        BY <2>2, <2>3, <2>10, <3>3 DEF AtLength
      <4>2. PICK v : v = LengthOf(h + 1) /\ v = LengthOf(h + 1)'
        BY <2>7, <4>1
      <4>3. Len(reader.got) < Len(v) /\ \A j \in 1 .. Len(reader.got) : reader.got[j] = v[j]
        BY <2>3, <2>10, <3>3, <4>2 DEF AtLength
      <4>. QED BY <2>3, <2>4, <4>1, <4>2, <4>3
    <3>. QED BY <1>1, <2>2, <2>3, <3>1, <3>2, <3>3 DEF AtLength
  <2>11. ASSUME AtBody(R) PROVE AtBody(R)'
    <3>1. h < n
      BY <2>2, <2>3, <2>11 DEF AtBody
    <3>2. BodyOf(h + 1)' = BodyOf(h + 1) /\ LengthOf(h + 1)' = LengthOf(h + 1)
      BY <2>7, <3>1
    <3>3. Len(r) = n + 1 /\ h < Len(r)
      BY <2>3, <2>4, <3>1
    <3>4. PICK b, v : b = BodyOf(h + 1) /\ v = LengthOf(h + 1) /\ b = BodyOf(h + 1)' /\ v = LengthOf(h + 1)'
      BY <3>2
    <3>5. PICK u : u = Upto(h) /\ u = Upto(h)'
      BY <2>6
    <3>6. /\ reader.size = Len(b) /\ R = Len(u) + Len(v) + Len(reader.got)
          /\ \A j \in 1 .. Len(reader.got) : reader.got[j] = b[j]
      BY <2>3, <2>11, <3>4, <3>5 DEF AtBody
    <3>. QED BY <1>1, <2>2, <2>3, <3>3, <3>4, <3>5, <3>6 DEF AtBody
  <2>. QED BY <1>1, <2>2, <2>3, <2>7, <2>8, <2>9, <2>10, <2>11 DEF ReadInv
<1>. QED BY <1>2, <1>3 DEF Write, WritePlain, WriteEncrypted, Flush

\* While something of the stream was not read, there is a packet to handle.
LEMMA MoreThanHandled ==
  ASSUME Types, InOrder, NEW R \in Nat, NEW n \in Nat \ {0}, R + n <= Len(Stream),
         NEW a \in Nat, R = Len(Upto(Len(handled))) + a
  PROVE  Len(handled) < Len(sent)
<1>1. PICK h \in Nat, m \in Nat : h = Len(handled) /\ m = Len(sent) /\ h <= m
  <2>1. Len(handled) \in Nat /\ Len(sent) \in Nat /\ Len(handled) <= Len(sent)
    BY DEF InOrder, Types
  <2>. QED BY <2>1
<1>2. ASSUME h = m PROVE FALSE
  <2>1. Upto(h) = Stream
    BY <1>1, <1>2, StreamEnds
  <2>2. Len(Stream) \in Nat
    <3>1. m \in 0 .. Len(sent) /\ threshold \in Thresholds /\ sent \in Seq(Packets)
      BY <1>1 DEF Types
    <3>2. UptoIn(threshold, sent, m) \in Seq(Symbol)
      BY <3>1, UptoSteps
    <3>. QED BY <1>2, <2>1, <3>2 DEF Upto
  <2>3. R = Len(Stream) + a
    BY <1>1, <2>1
  <2>. QED BY <2>2, <2>3
<1>. QED BY <1>1, <1>2

\* Finish with the body of the next frame.
LEMMA FinishBody ==
  ASSUME Types, InOrder, Len(handled) < Len(sent), UNCHANGED <<threshold, sent>>,
         failed = FALSE, Finish(BodyOf(Len(handled) + 1)),
         NEW R, R = Len(Upto(Len(handled) + 1))
  PROVE  ReadInv(R)'
<1>1. PICK h \in Nat, m \in Nat : h = Len(handled) /\ m = Len(sent) /\ h < m
  <2>1. Len(handled) \in Nat /\ Len(sent) \in Nat
    BY DEF InOrder, Types
  <2>. QED BY <2>1
<1>2. PICK p \in Packets, t \in Thresholds : p = sent[h + 1] /\ t = threshold
  <2>1. sent \in Seq(Packets) /\ threshold \in Thresholds
    BY DEF Types
  <2>2. sent[h + 1] \in Packets
    BY <1>1, <2>1
  <2>. QED BY <2>1, <2>2
<1>3. PICK b : b = BodyIn(t, Data(p)) /\ b = BodyOf(h + 1)
  BY <1>2 DEF BodyOf
<1>4. PICK d : d = Inflate(b)
  OBVIOUS
<1>5. IF VarIntLen(d) > 0
      THEN /\ handled' = Append(handled, Packet(d))
           /\ reader' = Fresh
           /\ UNCHANGED failed
      ELSE /\ failed' = TRUE
           /\ UNCHANGED <<handled, reader>>
  <2>1. Finish(b)
    BY <1>1, <1>3
  <2>. QED BY <1>4, <2>1 DEF Finish
<1>6. d = InflateIn(t, b)
  BY <1>2, <1>4, InThreshold
<1>7. d = Data(p) \/ (Len(Data(p)) > MaxPacket /\ d = <<>>)
  BY <1>3, <1>6, BodyFacts
<1>8. CASE VarIntLen(d) > 0
  <2>1. d = Data(p)
    <3>1. VarIntLen(<<>>) = 0
      BY DEF VarIntLen
    <3>. QED BY <1>7, <1>8, <3>1
  <2>2. Packet(d) = p
    BY <2>1, DataFacts
  <2>3. PICK g, a : /\ g = handled /\ a = Append(g, p) /\ Len(a) = h + 1
                    /\ g \in Seq(Packets) /\ a \in Seq(Packets)
    <3>1. handled \in Seq(Packets) /\ Len(handled) = h
      BY <1>1 DEF InOrder
    <3>2. Append(handled, p) \in Seq(Packets) /\ Len(Append(handled, p)) = h + 1
      BY <3>1
    <3>. QED BY <3>1, <3>2
  <2>4. handled' = a /\ reader' = Fresh /\ failed' = FALSE
    BY <1>5, <1>8, <2>2, <2>3
  <2>5. ASSUME NEW i \in 1 .. h + 1 PROVE a[i] = sent[i]
    <3>1. CASE i = h + 1
      BY <1>1, <1>2, <2>3, <3>1
    <3>2. CASE i \in 1 .. h
      <4>1. a[i] = g[i]
        BY <1>1, <2>3, <3>2
      <4>2. g[i] = sent[i]
        BY <1>1, <2>3, <3>2 DEF InOrder
      <4>. QED BY <4>1, <4>2
    <3>. QED BY <1>1, <3>1, <3>2
  <2>6. InOrder'
    BY <1>1, <2>3, <2>4, <2>5 DEF InOrder
  <2>7. Fresh.stage = "length" /\ Fresh.got = <<>> /\ Len(<<>>) = 0
    BY DEF Fresh
  <2>8. AtLength(R)'
    <3>1. PICK u : u = Upto(h + 1) /\ u = Upto(h + 1)'
      BY DEF Upto
    <3>2. Len(Upto(h + 1)) \in Nat
      <4>1. h + 1 \in 0 .. Len(sent) /\ threshold \in Thresholds /\ sent \in Seq(Packets)
        BY <1>1 DEF Types
      <4>2. UptoIn(threshold, sent, h + 1) \in Seq(Symbol)
        BY <4>1, UptoSteps
      <4>. QED BY <4>2 DEF Upto
    <3>3. R = Len(u) + 0 /\ Len(handled') = h + 1
      BY <1>1, <2>3, <2>4, <3>1, <3>2
    <3>. QED BY <2>4, <2>7, <3>1, <3>3 DEF AtLength
  <2>. QED BY <2>4, <2>6, <2>7, <2>8 DEF ReadInv
<1>9. CASE ~(VarIntLen(d) > 0)
  <2>1. failed' = TRUE /\ UNCHANGED <<handled, reader>>
    BY <1>5, <1>9
  <2>2. Len(Data(p)) > MaxPacket
    BY <1>7, <1>9, DataFacts
  <2>3. TooLarge(h + 1)'
    BY <1>2, <2>2 DEF TooLarge
  <2>4. InOrder'
    BY <2>1 DEF InOrder
  <2>. QED BY <1>1, <2>1, <2>3, <2>4 DEF ReadInv
<1>. QED BY <1>8, <1>9

\* One byte of the length is read in its place.
LEMMA LengthPlaced ==
  ASSUME Types, ReaderType, NEW R \in Nat, ReadInv(R), ~failed, reader.stage = "length",
         UNCHANGED <<threshold, sent>>, NEW g, Extends(g, R, 1), LengthOutcome(g)
  PROVE  ReadInv(R + 1)'
<1>1. InOrder /\ AtLength(R) /\ failed = FALSE
  BY DEF ReadInv, Types
<1>2. PICK k \in Nat : k = Len(reader.got)
  BY GotIsSeq
<1>3. Len(handled) < Len(sent)
  <2>1. R = Len(Upto(Len(handled))) + k
    BY <1>1, <1>2 DEF AtLength
  <2>2. 1 \in Nat \ {0} /\ R + 1 <= Len(Stream)
    BY DEF Extends
  <2>. QED BY <1>1, <2>1, <2>2, MoreThanHandled
<1>4. PICK h \in Nat, m \in Nat : h = Len(handled) /\ m = Len(sent) /\ h < m
  <2>1. Len(handled) \in Nat /\ Len(sent) \in Nat
    BY <1>1 DEF InOrder, Types
  <2>. QED BY <1>3, <2>1
<1>5. PICK v, b : v = LengthOf(h + 1) /\ b = BodyOf(h + 1) /\ Placed(h, v, b)
  BY <1>4, Placing
<1>6. PICK u \in Nat, l \in Nat, z \in Nat :
        /\ u = Len(Upto(h)) /\ l = Len(v) /\ z = Len(b)
        /\ l > 0 /\ l <= MaxDigits /\ z > 0
  <2>2. Len(Upto(h)) \in Nat /\ Len(v) \in 1 .. MaxDigits /\ Len(b) \in Nat \ {0} /\ MaxDigits \in Nat
    BY <1>5, VarIntType DEF Placed
  <2>3. Len(v) \in Nat /\ Len(b) \in Nat /\ Len(v) > 0 /\ Len(v) <= MaxDigits /\ Len(b) > 0
    BY <2>2
  <2>. QED BY <2>2, <2>3
<1>7. /\ b \in Seq(Symbol) /\ v \in Seq(Symbol)
      /\ \A j \in 1 .. l : IsLast(v[j]) <=> j = l
      /\ Value(v) = z
      /\ \A j \in 1 .. l : Stream[u + j] = v[j]
  BY <1>5, <1>6 DEF Placed
<1>8. R = u + k /\ k < l /\ \A j \in 1 .. k : reader.got[j] = v[j]
  <2>1. R = u + k
    BY <1>1, <1>2, <1>4, <1>6 DEF AtLength
  <2>2. CASE reader.got = <<>>
    <3>1. k = 0
      BY <1>2, <2>2
    <3>. QED BY <1>6, <2>1, <3>1
  <2>3. CASE reader.got # <<>>
    BY <1>1, <1>2, <1>4, <1>5, <1>6, <2>1, <2>3 DEF AtLength
  <2>. QED BY <2>2, <2>3
<1>9. g \in Seq(Symbol) /\ Len(g) = k + 1 /\ \A j \in 1 .. k + 1 : g[j] = v[j]
  <2>1. /\ g \in Seq(Symbol) /\ Len(g) = k + 1
        /\ \A j \in 1 .. k : g[j] = reader.got[j]
        /\ \A j \in 1 .. 1 : g[k + j] = Stream[R + j]
    BY <1>2 DEF Extends
  <2>2. g[k + 1] = Stream[R + 1]
    BY <2>1
  <2>3. Stream[R + 1] = v[k + 1]
    <3>1. k + 1 \in 1 .. l /\ R + 1 = u + (k + 1)
      BY <1>2, <1>6, <1>8
    <3>. QED BY <1>7, <3>1
  <2>4. \A j \in 1 .. k + 1 : j \in 1 .. k \/ j = k + 1
    BY <1>2
  <2>. QED BY <1>8, <2>1, <2>2, <2>3, <2>4
<1>10. IsLast(g[Len(g)]) <=> k + 1 = l
  <2>1. k + 1 \in 1 .. l /\ k + 1 \in 1 .. k + 1
    BY <1>2, <1>6, <1>8
  <2>. QED BY <1>7, <1>9, <2>1
<1>11. ASSUME k + 1 = l PROVE Value(g) = z
  <2>1. g = v
    <3>1. Len(g) = Len(v) /\ \A j \in 1 .. Len(g) : g[j] = v[j]
      BY <1>6, <1>9, <1>11
    <3>. QED BY <1>7, <1>9, <3>1, SeqEqual
  <2>. QED BY <1>7, <2>1
<1>12. CASE Refused(g) /\ failed' = TRUE /\ UNCHANGED <<handled, reader>>
  <2>1. k + 1 = l
    <3>1. ASSUME k + 1 # l PROVE FALSE
      <4>1. Len(g) >= MaxDigits
        BY <1>10, <1>12, <3>1 DEF Refused
      <4>2. k + 1 < l /\ MaxDigits \in Nat
        BY <1>2, <1>6, <1>8, <3>1, VarIntType
      <4>. QED BY <1>6, <1>9, <4>1, <4>2
    <3>. QED BY <3>1
  <2>2. z \notin 0 .. MaxPacket
    BY <1>10, <1>11, <1>12, <2>1 DEF Refused
  <2>3. z > MaxPacket
    BY <1>6, <2>2, PacketType
  <2>4. TooLarge(h + 1)'
    BY <1>5, <1>6, <2>3 DEF TooLarge, BodyOf
  <2>5. InOrder'
    BY <1>1, <1>12 DEF InOrder
  <2>. QED BY <1>4, <1>12, <2>4, <2>5 DEF ReadInv
<1>13. CASE ~Refused(g) /\ ~IsLast(g[Len(g)]) /\ reader' = [reader EXCEPT !.got = g] /\ UNCHANGED <<handled, failed>>
  <2>1. reader'.got = g /\ reader'.stage = "length"
    BY <1>13 DEF ReaderType
  <2>2. k + 1 < l
    BY <1>2, <1>6, <1>8, <1>10, <1>13
  <2>3. AtLength(R + 1)'
    <3>1. Upto(h)' = Upto(h) /\ LengthOf(h + 1)' = v
      BY <1>5 DEF Upto, LengthOf, BodyOf
    <3>2. R + 1 = u + (k + 1)
      BY <1>2, <1>6, <1>8
    <3>3. AtLength(R + 1)' <=>
            /\ R + 1 = u + Len(g)
            /\ g # <<>> => h < m /\ Len(g) < l /\ \A j \in 1 .. Len(g) : g[j] = v[j]
      BY <1>4, <1>6, <1>13, <2>1, <3>1 DEF AtLength
    <3>. QED BY <1>4, <1>9, <2>2, <3>2, <3>3
  <2>4. InOrder'
    BY <1>1, <1>13 DEF InOrder
  <2>. QED BY <1>1, <1>13, <2>1, <2>3, <2>4 DEF ReadInv
<1>14. CASE /\ ~Refused(g) /\ IsLast(g[Len(g)])
            /\ IF Value(g) = 0 THEN Finish(<<>>)
               ELSE /\ reader' = [stage |-> "body", size |-> Value(g), got |-> <<>>]
                    /\ UNCHANGED <<handled, failed>>
  <2>1. k + 1 = l /\ Value(g) = z
    BY <1>10, <1>11, <1>14
  <2>2. reader' = [stage |-> "body", size |-> z, got |-> <<>>] /\ UNCHANGED <<handled, failed>>
    BY <1>6, <1>14, <2>1
  <2>3. reader'.stage = "body" /\ reader'.size = z /\ reader'.got = <<>> /\ Len(<<>>) = 0
    BY <2>2
  <2>4. AtBody(R + 1)'
    <3>1. Upto(h)' = Upto(h) /\ LengthOf(h + 1)' = v /\ BodyOf(h + 1)' = b
      BY <1>5 DEF Upto, LengthOf, BodyOf
    <3>2. R + 1 = u + l + 0
      <4>1. k + 1 = l /\ R = u + k
        BY <1>8, <2>1
      <4>. QED BY <4>1
    <3>. QED BY <1>4, <1>6, <2>2, <2>3, <3>1, <3>2 DEF AtBody
  <2>5. InOrder'
    BY <1>1, <2>2 DEF InOrder
  <2>. QED BY <1>1, <2>2, <2>3, <2>4, <2>5 DEF ReadInv
<1>. QED BY <1>12, <1>13, <1>14 DEF LengthOutcome

\* Some of the body is read in its place.
LEMMA BodyPlaced ==
  ASSUME Types, ReaderType, NEW R \in Nat, ReadInv(R), ~failed, reader.stage = "body",
         UNCHANGED <<threshold, sent>>,
         NEW n \in Nat \ {0}, NEW g, Extends(g, R, n), Len(g) <= reader.size, BodyOutcome(g)
  PROVE  ReadInv(R + n)'
<1>1. InOrder /\ AtBody(R) /\ failed = FALSE
  BY DEF ReadInv, Types
<1>2. PICK k \in Nat : k = Len(reader.got)
  BY GotIsSeq
<1>3. PICK h \in Nat, m \in Nat : h = Len(handled) /\ m = Len(sent) /\ h < m
  <2>1. Len(handled) \in Nat /\ Len(sent) \in Nat /\ Len(handled) < Len(sent)
    BY <1>1 DEF InOrder, Types, AtBody
  <2>. QED BY <2>1
<1>4. PICK v, b : v = LengthOf(h + 1) /\ b = BodyOf(h + 1) /\ Placed(h, v, b)
  BY <1>3, Placing
<1>5. PICK u \in Nat, l \in Nat, z \in Nat :
        /\ u = Len(Upto(h)) /\ l = Len(v) /\ z = Len(b)
  <2>2. Len(Upto(h)) \in Nat /\ Len(v) \in 1 .. MaxDigits /\ Len(b) \in Nat /\ MaxDigits \in Nat
    BY <1>4, VarIntType DEF Placed
  <2>3. Len(v) \in Nat
    BY <2>2
  <2>. QED BY <2>2, <2>3
<1>6. /\ b \in Seq(Symbol)
      /\ Len(Upto(h + 1)) = u + l + z
      /\ \A j \in 1 .. z : Stream[u + l + j] = b[j]
  BY <1>4, <1>5 DEF Placed
<1>7. reader.size = z /\ R = u + l + k /\ \A j \in 1 .. k : reader.got[j] = b[j]
  BY <1>1, <1>2, <1>3, <1>4, <1>5 DEF AtBody
<1>71. \A i \in Nat : R + i = u + l + (k + i)
  <2>1. R = u + l + k
    BY <1>7
  <2>. QED BY <2>1
<1>8. /\ g \in Seq(Symbol) /\ Len(g) = k + n /\ k + n <= z
      /\ \A j \in 1 .. k : g[j] = reader.got[j]
      /\ \A j \in 1 .. n : g[k + j] = Stream[R + j]
  BY <1>2, <1>7 DEF Extends
<1>9. ASSUME NEW j \in 1 .. k + n PROVE g[j] = b[j]
  <2>1. CASE j <= k
    BY <1>2, <1>7, <1>8, <2>1
  <2>2. CASE j > k
    <3>1. PICK i \in Nat : i = j - k
      <4>1. j - k \in Nat
        BY <1>2, <2>2
      <4>. QED BY <4>1
    <3>2. i \in 1 .. n /\ j = k + i /\ j \in 1 .. z
      BY <1>2, <1>5, <1>8, <2>2, <3>1, SMTT(30)
    <3>5. R + i = u + l + j
      <4>1. R + i = u + l + (k + i)
        BY <1>71
      <4>. QED BY <3>2, <4>1
    <3>3. g[j] = Stream[R + i]
      BY <1>8, <3>2
    <3>4. Stream[u + l + j] = b[j]
      BY <1>6, <3>2
    <3>. QED BY <3>3, <3>4, <3>5
  <2>. QED BY <1>2, <2>1, <2>2
<1>10. CASE Len(g) = reader.size /\ Finish(g)
  <2>1. g = b
    <3>1. Len(g) = Len(b) /\ \A j \in 1 .. Len(g) : g[j] = b[j]
      BY <1>5, <1>7, <1>8, <1>9, <1>10
    <3>. QED BY <1>6, <1>8, <3>1, SeqEqual
  <2>2. R + n = Len(Upto(h + 1))
    <3>1. n \in Nat
      OBVIOUS
    <3>2. k + n = z
      BY <1>7, <1>8, <1>10
    <3>3. R + n = u + l + (k + n)
      BY <1>71, <3>1
    <3>. QED BY <1>6, <3>2, <3>3
  <2>3. Finish(BodyOf(Len(handled) + 1)) /\ R + n = Len(Upto(Len(handled) + 1)) /\ Len(handled) < Len(sent)
    BY <1>3, <1>4, <1>10, <2>1, <2>2
  <2>. QED BY <1>1, <2>3, FinishBody
<1>11. CASE Len(g) # reader.size /\ reader' = [reader EXCEPT !.got = g] /\ UNCHANGED <<handled, failed>>
  <2>1. reader'.got = g /\ reader'.stage = "body" /\ reader'.size = z
    BY <1>7, <1>11 DEF ReaderType
  <2>2. AtBody(R + n)'
    <3>1. Upto(h)' = Upto(h) /\ LengthOf(h + 1)' = v /\ BodyOf(h + 1)' = b
      BY <1>4 DEF Upto, LengthOf, BodyOf
    <3>2. R + n = u + l + (k + n)
      <4>1. n \in Nat
        OBVIOUS
      <4>. QED BY <1>71, <4>1
    <3>3. AtBody(R + n)' <=>
            /\ h < m /\ z = Len(b) /\ R + n = u + l + Len(g)
            /\ \A j \in 1 .. Len(g) : g[j] = b[j]
      BY <1>3, <1>5, <1>11, <2>1, <3>1 DEF AtBody
    <3>. QED BY <1>3, <1>5, <1>8, <1>9, <3>2, <3>3
  <2>3. InOrder'
    BY <1>1, <1>11 DEF InOrder
  <2>. QED BY <1>1, <1>11, <2>1, <2>2, <2>3 DEF ReadInv
<1>. QED BY <1>10, <1>11 DEF BodyOutcome

LEMMA PlacementNext ==
  ASSUME Interruptible = FALSE, Inv, Placement, [Next]_vars
  PROVE  Placement'
<1>1. PICK W, R : Transit(W, R) /\ ReadInv(R)
  BY DEF Placement
<1>2. Types /\ ReaderType
  BY DEF Inv
<1>3. R \in Nat
  BY <1>1 DEF Transit, Carries
<1>4. CASE Write
  <2>1. \E V : Transit(V, R)'
    BY <1>1, <1>2, <1>4, WriteNext
  <2>2. ReadInv(R)'
    BY <1>1, <1>2, <1>4, MoreToRead
  <2>. QED BY <2>1, <2>2 DEF Placement
<1>5. CASE ReadLength
  <2>1. PICK g : Extends(g, R, 1) /\ LengthOutcome(g)
    BY <1>1, <1>2, <1>5, ReadLengthReads
  <2>2. Transit(W, R + 1)' /\ UNCHANGED <<threshold, sent>>
    BY <1>1, <1>2, <1>5, ReadLengthReads
  <2>3. ~failed /\ reader.stage = "length"
    BY <1>5 DEF ReadLength
  <2>4. ReadInv(R + 1)'
    BY <1>1, <1>2, <1>3, <2>1, <2>2, <2>3, LengthPlaced
  <2>. QED BY <2>2, <2>4 DEF Placement
<1>6. CASE ReadBody
  <2>1. PICK n \in Nat \ {0} : \E g : /\ Transit(W, R + n)' /\ Extends(g, R, n)
                                      /\ Len(g) <= reader.size /\ BodyOutcome(g)
    BY <1>1, <1>2, <1>6, ReadBodyReads
  <2>2. PICK g : Extends(g, R, n) /\ Len(g) <= reader.size /\ BodyOutcome(g)
    BY <2>1
  <2>3. UNCHANGED <<threshold, sent>>
    BY <1>1, <1>2, <1>6, ReadBodyReads
  <2>4. ~failed /\ reader.stage = "body"
    BY <1>6 DEF ReadBody
  <2>5. ReadInv(R + n)'
    BY <1>1, <1>2, <1>3, <2>2, <2>3, <2>4, BodyPlaced
  <2>. QED BY <2>1, <2>5 DEF Placement
\* Nothing else runs while a frame is being read.
<1>7. CASE WritePacket
  <2>1. UNCHANGED <<threshold, encrypted, todo, pending, encrypt, sent, wire, decrypt, reader, handled, failed>>
    BY <1>7 DEF WritePacket, fixed, sender
  <2>2. Transit(W, R)'
    BY <1>1, <2>1 DEF Transit, Stream
  <2>3. ReadInv(R)'
    BY <1>1, <2>1 DEF ReadInv, InOrder, TooLarge, AtLength, AtBody, BodyOf, LengthOf, Upto
  <2>. QED BY <2>2, <2>3 DEF Placement
<1>8. CASE UNCHANGED vars
  <2>1. UNCHANGED <<threshold, encrypted, todo, pending, encrypt, sent, wire, decrypt, reader, handled, failed>>
    BY <1>8 DEF vars, fixed, sender
  <2>2. Transit(W, R)'
    BY <1>1, <2>1 DEF Transit, Stream
  <2>3. ReadInv(R)'
    BY <1>1, <2>1 DEF ReadInv, InOrder, TooLarge, AtLength, AtBody, BodyOf, LengthOf, Upto
  <2>. QED BY <2>2, <2>3 DEF Placement
<1>. QED BY <1>4, <1>5, <1>6, <1>7, <1>8 DEF Next, Read

\* Before Play, where nothing interrupts a read, the packets handled are those sent,
\* unchanged and in order, encrypted and compressed or not, whatever the pieces the socket
\* takes, and the only packet refused is one too large for a frame (codec.rs: read_frame,
\* write_frame; crypto.rs: EncryptedStream; connection.rs: read_packet).
THEOREM FramesArrive == ASSUME Interruptible = FALSE PROVE Spec => []FramesIntact
<1>1. Init => Inv /\ Placement
  BY InvInit, PlacementInit
<1>2. (Inv /\ Placement) /\ [Next]_vars => (Inv /\ Placement)'
  BY InvNext, PlacementNext
<1>3. Inv /\ Placement => FramesIntact
  <2>1. SUFFICES ASSUME Inv, Placement PROVE FramesIntact
    OBVIOUS
  <2>2. PICK R : ReadInv(R)
    BY <2>1 DEF Placement
  <2>3. PICK n \in Nat, m \in Nat : n = Len(handled) /\ m = Len(sent) /\ n <= m
    <3>1. Len(handled) \in Nat /\ Len(sent) \in Nat /\ Len(handled) <= Len(sent)
      BY <2>1, <2>2 DEF ReadInv, InOrder, Inv, Types
    <3>. QED BY <3>1
  <2>4. IsPrefix(handled, sent)
    <3>1. PICK h, s : /\ h = handled /\ s = sent /\ h \in Seq(Packets) /\ s \in Seq(Packets)
                      /\ \A i \in 1 .. n : h[i] = s[i]
      BY <2>1, <2>2, <2>3 DEF ReadInv, InOrder, Inv, Types
    <3>2. PICK x, y : x = SubSeq(h, 1, n) /\ y = SubSeq(s, 1, n)
      OBVIOUS
    <3>3. x \in Seq(Packets) /\ Len(x) = n /\ \A i \in 1 .. n : x[i] = h[i]
      BY <2>3, <3>1, <3>2
    <3>4. y \in Seq(Packets) /\ Len(y) = n /\ \A i \in 1 .. n : y[i] = s[i]
      BY <2>3, <3>1, <3>2
    <3>5. x = y
      BY <3>1, <3>3, <3>4, SeqEqual
    <3>. QED BY <2>3, <3>1, <3>2, <3>5 DEF IsPrefix
  <2>5. failed => n < m /\ TooLarge(n + 1)
    BY <2>2, <2>3 DEF ReadInv
  <2>6. \A k : BodyOf(k) = Body(Data(sent[k]))
    BY InThreshold DEF BodyOf
  <2>. QED BY <2>3, <2>4, <2>5, <2>6 DEF FramesIntact, TooLarge
<1>. QED BY <1>1, <1>2, <1>3, PTL DEF Spec
=============================================================================
