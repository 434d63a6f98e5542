---------------------------- MODULE StreamsProofs ----------------------------
(***************************************************************************)
(* Theorems about Streams and StreamExchange: whatever BinaryStream writes *)
(* and Session batches, the readers get back, for every number of every    *)
(* width, every text, bit set, header and batch.  What recursion computes  *)
(* is reached by induction on numbers: StepsExist says that a function is  *)
(* what its recursion says, NumberInduction what all of its values have.   *)
(***************************************************************************)
EXTENDS StreamExchange, SequenceTheorems, WellFoundedInduction, TLAPS

-----------------------------------------------------------------------------
(* Induction over numbers, and functions defined by recursion on them.       *)

LEMMA LeastNumber ==
    ASSUME NEW T \in SUBSET Nat, T # {}
    PROVE  \E m \in T : \A n \in T : m <= n
<1>1. PICK R : R = {x \in Nat \X Nat : x[1] < x[2]}
    OBVIOUS
<1>2. IsWellFoundedOn(R, Nat)
    BY <1>1, NatLessThanWellFounded DEF OpToRel
<1>3. \E m \in T : \A n \in T : ~(<<n, m>> \in R)
    BY <1>2, WFMin
<1>4. \A m, n \in Nat : ~(<<n, m>> \in R) => m <= n
    BY <1>1
<1> QED BY <1>3, <1>4

LEMMA NumberInduction ==
    ASSUME NEW T \in SUBSET Nat, 0 \in T, \A n \in T : n + 1 \in T
    PROVE  \A n \in Nat : n \in T
<1> SUFFICES ASSUME Nat \ T # {} PROVE FALSE
    OBVIOUS
<1>1. PICK m \in Nat \ T : \A n \in Nat \ T : m <= n
    BY LeastNumber
<1>2. m # 0 /\ m - 1 \in Nat /\ ~(m <= m - 1)
    BY <1>1
<1>3. m - 1 \in T
    BY <1>1, <1>2
<1> QED BY <1>1, <1>2, <1>3

(* f is a value and a step from each value to the next, N times.             *)
Steps(f, base, step, N) ==
    f = [k \in 0 .. N |-> IF k = 0 THEN base ELSE step[<<k, f[k - 1]>>]]

(* There is such a function.                                                 *)
LEMMA StepsExist ==
    ASSUME NEW S, NEW base \in S, NEW step \in [Nat \X S -> S], NEW N \in Nat
    PROVE  \E f \in [0 .. N -> S] : Steps(f, base, step, N)
<1> DEFINE Has(n) == \E f \in [0 .. n -> S] :
              f = [k \in 0 .. n |-> IF k = 0 THEN base ELSE step[<<k, f[k - 1]>>]]
           T == {n \in Nat : Has(n)}
<1>1. Has(0)
  <2>1. PICK f : f = [k \in 0 .. 0 |-> base]
    OBVIOUS
  <2>2. f \in [0 .. 0 -> S]
    BY <2>1
  <2>3. f = [k \in 0 .. 0 |-> IF k = 0 THEN base ELSE step[<<k, f[k - 1]>>]]
    BY <2>1
  <2> QED BY <2>2, <2>3
<1>2. ASSUME NEW n \in Nat, Has(n)
      PROVE  Has(n + 1)
  <2>1. PICK f \in [0 .. n -> S] :
              f = [k \in 0 .. n |-> IF k = 0 THEN base ELSE step[<<k, f[k - 1]>>]]
    BY <1>2
  <2>2. f[n] \in S /\ <<n + 1, f[n]>> \in Nat \X S
    OBVIOUS
  <2>3. PICK last \in S : last = step[<<n + 1, f[n]>>]
    BY <2>2
  <2>4. PICK g : g = [k \in 0 .. n + 1 |-> IF k = n + 1 THEN last ELSE f[k]]
    OBVIOUS
  <2>5. \A k \in 0 .. n + 1 : k # n + 1 => k \in 0 .. n
    OBVIOUS
  <2>6. g \in [0 .. n + 1 -> S]
    BY <2>4, <2>5
  <2>7. ASSUME NEW k \in 0 .. n + 1
        PROVE  g[k] = IF k = 0 THEN base ELSE step[<<k, g[k - 1]>>]
    <3>1. CASE k = 0
      BY <3>1, <2>1, <2>4
    <3>2. CASE k = n + 1
      <4>1. g[k] = last /\ g[n] = f[n] /\ k - 1 = n /\ k # 0
        BY <3>2, <2>4
      <4> QED BY <4>1, <2>3, <3>2
    <3>3. CASE k # 0 /\ k # n + 1
      <4>1. k \in 0 .. n /\ k - 1 \in 0 .. n /\ k - 1 # n + 1 /\ k - 1 \in 0 .. n + 1
        BY <3>3
      <4>2. g[k] = f[k] /\ g[k - 1] = f[k - 1]
        BY <4>1, <3>3, <2>4
      <4>3. f[k] = step[<<k, f[k - 1]>>]
        BY <4>1, <3>3, <2>1
      <4> QED BY <4>2, <4>3, <3>3
    <3> QED BY <3>1, <3>2, <3>3
  <2>8. g = [k \in 0 .. n + 1 |-> IF k = 0 THEN base ELSE step[<<k, g[k - 1]>>]]
    BY <2>6, <2>7
  <2> QED BY <2>6, <2>8
<1> HIDE DEF Has
<1>3. 0 \in T /\ \A n \in T : n + 1 \in T
    BY <1>1, <1>2
<1>4. N \in T
    BY <1>3, NumberInduction
<1>5. Has(N)
    BY <1>4
<1> QED BY <1>5 DEF Has, Steps

-----------------------------------------------------------------------------
(* The lowest bits of a number and the number of some bits.                  *)

(* The halves BitsOf is built from.                                          *)
LEMMA HalvesExist ==
    ASSUME NEW n \in Nat, NEW width \in Nat
    PROVE  \E half \in [0 .. width -> Nat] :
              /\ half[0] = n
              /\ \A i \in 1 .. width : half[i] = half[i - 1] \div 2
              /\ BitsOf(n, width) = [i \in 1 .. width |-> half[i - 1] % 2]
<1> DEFINE Half == CHOOSE half :
              half = [i \in 0 .. width |-> IF i = 0 THEN n ELSE half[i - 1] \div 2]
<1>1. BitsOf(n, width) = [i \in 1 .. width |-> Half[i - 1] % 2]
    BY DEF BitsOf
<1>2. \E half : half = [i \in 0 .. width |-> IF i = 0 THEN n ELSE half[i - 1] \div 2]
  <2>1. PICK step : step = [x \in Nat \X Nat |-> x[2] \div 2]
    OBVIOUS
  <2>2. step \in [Nat \X Nat -> Nat]
    BY <2>1
  <2>3. PICK f \in [0 .. width -> Nat] : Steps(f, n, step, width)
    BY <2>2, StepsExist
  <2>4. ASSUME NEW k \in 0 .. width, k # 0
        PROVE  step[<<k, f[k - 1]>>] = f[k - 1] \div 2
    <3>1. k \in Nat /\ k - 1 \in 0 .. width
      BY <2>4
    <3>2. <<k, f[k - 1]>> \in Nat \X Nat
      BY <3>1
    <3> QED BY <2>1, <3>2
  <2>5. f = [k \in 0 .. width |-> IF k = 0 THEN n ELSE f[k - 1] \div 2]
    BY <2>3, <2>4 DEF Steps
  <2> QED BY <2>5
<1>3. Half = [i \in 0 .. width |-> IF i = 0 THEN n ELSE Half[i - 1] \div 2]
    BY <1>2
<1> HIDE DEF Half
<1>4. DOMAIN Half = 0 .. width /\ Half[0] = n
    BY <1>3
<1>5. \A i \in 1 .. width : Half[i] = Half[i - 1] \div 2
    BY <1>3
<1> DEFINE T == {i \in Nat : i <= width => Half[i] \in Nat}
<1>6. 0 \in T
    BY <1>4
<1>7. ASSUME NEW i \in T
      PROVE  i + 1 \in T
  <2>1. SUFFICES ASSUME i + 1 <= width PROVE Half[i + 1] \in Nat
    OBVIOUS
  <2>2. Half[i] \in Nat /\ i + 1 \in 1 .. width /\ i + 1 - 1 = i
    BY <2>1
  <2>3. Half[i + 1] = Half[i] \div 2
    BY <2>2, <1>5
  <2> QED BY <2>2, <2>3
<1>8. \A i \in Nat : i \in T
    BY <1>6, <1>7, NumberInduction
<1>9. Half \in [0 .. width -> Nat]
  <2>1. \A i \in 0 .. width : Half[i] \in Nat
    BY <1>8
  <2>2. Half = [i \in 0 .. width |-> Half[i]]
    BY <1>3
  <2> QED BY <2>1, <2>2
<1> QED BY <1>1, <1>4, <1>5, <1>9

(* The sums NumberOf is built from.                                          *)
LEMMA SumsExist ==
    ASSUME NEW bits \in Seq(Nat)
    PROVE  \E top \in [0 .. Len(bits) -> Nat] :
              /\ top[0] = 0
              /\ \A i \in 1 .. Len(bits) : top[i] = 2 * top[i - 1] + bits[Len(bits) + 1 - i]
              /\ NumberOf(bits) = top[Len(bits)]
<1> DEFINE Top == CHOOSE top : top =
              [i \in 0 .. Len(bits) |->
                 IF i = 0 THEN 0 ELSE 2 * top[i - 1] + bits[Len(bits) + 1 - i]]
<1>0. Len(bits) \in Nat
    OBVIOUS
<1>1. NumberOf(bits) = Top[Len(bits)]
    BY DEF NumberOf
<1>b. \A i \in 1 .. Len(bits) : bits[Len(bits) + 1 - i] \in Nat
  <2>1. \A i \in 1 .. Len(bits) : Len(bits) + 1 - i \in 1 .. Len(bits)
    BY <1>0
  <2> QED BY <2>1
<1>2. \E top : top = [i \in 0 .. Len(bits) |->
                 IF i = 0 THEN 0 ELSE 2 * top[i - 1] + bits[Len(bits) + 1 - i]]
  <2>1. PICK step : step = [x \in Nat \X Nat |->
            IF x[1] \in 1 .. Len(bits) THEN 2 * x[2] + bits[Len(bits) + 1 - x[1]] ELSE 0]
    OBVIOUS
  <2>2. step \in [Nat \X Nat -> Nat]
    <3>1. ASSUME NEW x \in Nat \X Nat
          PROVE  (IF x[1] \in 1 .. Len(bits) THEN 2 * x[2] + bits[Len(bits) + 1 - x[1]] ELSE 0)
                   \in Nat
      BY <1>b
    <3> QED BY <2>1, <3>1
  <2>3. PICK f \in [0 .. Len(bits) -> Nat] : Steps(f, 0, step, Len(bits))
    BY <2>2, StepsExist, <1>0
  <2>4. ASSUME NEW k \in 0 .. Len(bits), k # 0
        PROVE  step[<<k, f[k - 1]>>] = 2 * f[k - 1] + bits[Len(bits) + 1 - k]
    <3>1. k \in Nat /\ k - 1 \in 0 .. Len(bits) /\ k \in 1 .. Len(bits)
      BY <2>4
    <3>2. <<k, f[k - 1]>> \in Nat \X Nat
      BY <3>1
    <3> QED BY <2>1, <3>1, <3>2
  <2>5. f = [k \in 0 .. Len(bits) |->
               IF k = 0 THEN 0 ELSE 2 * f[k - 1] + bits[Len(bits) + 1 - k]]
    BY <2>3, <2>4 DEF Steps
  <2> QED BY <2>5
<1>3. Top = [i \in 0 .. Len(bits) |->
               IF i = 0 THEN 0 ELSE 2 * Top[i - 1] + bits[Len(bits) + 1 - i]]
    BY <1>2
<1> HIDE DEF Top
<1>4. DOMAIN Top = 0 .. Len(bits) /\ Top[0] = 0
    BY <1>3, <1>0
<1>5. ASSUME NEW i \in 1 .. Len(bits)
      PROVE  Top[i] = 2 * Top[i - 1] + bits[Len(bits) + 1 - i]
  <2>1. i \in 0 .. Len(bits) /\ i # 0
    BY <1>0
  <2> QED BY <2>1, <1>3
<1> DEFINE T == {i \in Nat : i <= Len(bits) => Top[i] \in Nat}
<1>6. 0 \in T
    BY <1>4
<1>7. ASSUME NEW i \in T
      PROVE  i + 1 \in T
  <2>1. SUFFICES ASSUME i + 1 <= Len(bits) PROVE Top[i + 1] \in Nat
    OBVIOUS
  <2>2. Top[i] \in Nat /\ i + 1 \in 1 .. Len(bits) /\ i + 1 - 1 = i
    BY <2>1, <1>0
  <2>3. Top[i + 1] = 2 * Top[i] + bits[Len(bits) + 1 - (i + 1)]
    BY <2>2, <1>5
  <2>4. bits[Len(bits) + 1 - (i + 1)] \in Nat
    BY <2>2, <1>b
  <2> QED BY <2>2, <2>3, <2>4
<1>8. \A i \in Nat : i \in T
    BY <1>6, <1>7, NumberInduction
<1>9. Top \in [0 .. Len(bits) -> Nat]
  <2>1. \A i \in 0 .. Len(bits) : Top[i] \in Nat
    BY <1>8, <1>0
  <2>2. Top = [i \in 0 .. Len(bits) |-> Top[i]]
    BY <1>3
  <2> QED BY <2>1, <2>2
<1> QED BY <1>1, <1>4, <1>5, <1>9

LEMMA NumberOfIsNatural ==
    ASSUME NEW bits \in Seq(Nat)
    PROVE  NumberOf(bits) \in Nat
<1>1. Len(bits) \in 0 .. Len(bits)
    OBVIOUS
<1> QED BY <1>1, SumsExist

(* Bits of a number that is nothing once it is halved as often as there are  *)
(* bits give that number.                                                    *)
LEMMA BitsCount ==
    ASSUME NEW n \in Nat, NEW width \in Nat,
           NEW half \in [0 .. width -> Nat], half[0] = n, half[width] = 0,
           \A i \in 1 .. width : half[i] = half[i - 1] \div 2
    PROVE  NumberOf([i \in 1 .. width |-> half[i - 1] % 2]) = n
<1>1. PICK bits : bits = [i \in 1 .. width |-> half[i - 1] % 2]
    OBVIOUS
<1>2. bits \in Seq(Nat) /\ Len(bits) = width
  <2>1. \A i \in 1 .. width : half[i - 1] % 2 \in Nat
    OBVIOUS
  <2>2. bits \in [1 .. width -> Nat]
    BY <1>1, <2>1
  <2> QED BY <2>2
<1>3. PICK top \in [0 .. width -> Nat] :
            /\ top[0] = 0
            /\ \A i \in 1 .. width : top[i] = 2 * top[i - 1] + bits[width + 1 - i]
            /\ NumberOf(bits) = top[width]
    BY <1>2, SumsExist
<1> DEFINE T == {i \in Nat : i <= width => top[i] = half[width - i]}
<1>4. 0 \in T
    BY <1>3
<1>5. ASSUME NEW i \in T
      PROVE  i + 1 \in T
  <2>1. SUFFICES ASSUME i + 1 <= width PROVE top[i + 1] = half[width - (i + 1)]
    OBVIOUS
  <2>2. PICK k : k = width - i
    OBVIOUS
  <2>3. k \in 1 .. width /\ k - 1 \in 0 .. width /\ width - (i + 1) = k - 1
        /\ i \in 0 .. width /\ i + 1 \in 1 .. width /\ width + 1 - (i + 1) = k
    BY <2>1, <2>2
  <2>4. top[i] = half[k] /\ half[k] = half[k - 1] \div 2 /\ bits[k] = half[k - 1] % 2
    BY <2>1, <2>2, <2>3, <1>1
  <2>5. top[i + 1] = 2 * top[i] + bits[k]
    BY <1>3, <2>3
  <2>6. half[k - 1] \in Nat
    BY <2>3
  <2> QED BY <2>3, <2>4, <2>5, <2>6
<1>6. width \in T
    BY <1>4, <1>5, NumberInduction
<1> QED BY <1>1, <1>3, <1>6

(* The largest number of so many bits and whatever is smaller are halved     *)
(* away by as many halvings.                                                 *)
LEMMA HalvedAway ==
    ASSUME NEW n \in Nat, NEW width \in Nat,
           NEW half \in [0 .. width -> Nat], half[0] = n,
           \A i \in 1 .. width : half[i] = half[i - 1] \div 2,
           NEW room \in 0 .. width, n <= Largest(room)
    PROVE  half[room] = 0
<1>1. PICK ones : ones = [i \in 1 .. room |-> 1]
    OBVIOUS
<1>2. ones \in Seq(Nat) /\ Len(ones) = room /\ \A i \in 1 .. room : ones[i] = 1
  <2>1. room \in Nat /\ 1 \in Nat
    OBVIOUS
  <2>2. ones \in [1 .. room -> Nat]
    BY <1>1, <2>1
  <2> QED BY <1>1, <2>1, <2>2
<1>3. PICK top \in [0 .. room -> Nat] :
            /\ top[0] = 0
            /\ \A i \in 1 .. room : top[i] = 2 * top[i - 1] + ones[room + 1 - i]
            /\ NumberOf(ones) = top[room]
    BY <1>2, SumsExist
<1> DEFINE T == {i \in Nat : i <= room => half[i] <= top[room - i]}
<1>0. room \in Nat
    OBVIOUS
<1>4. 0 \in T
  <2>1. Largest(room) = top[room]
    BY <1>1, <1>3 DEF Largest
  <2>2. half[0] <= top[room - 0]
    BY <2>1, <1>0
  <2> QED BY <2>2
<1>5. ASSUME NEW i \in T
      PROVE  i + 1 \in T
  <2>1. SUFFICES ASSUME i + 1 <= room PROVE half[i + 1] <= top[room - (i + 1)]
    OBVIOUS
  <2>2. PICK k : k = room - i
    OBVIOUS
  <2>3. k \in 1 .. room /\ k - 1 \in 0 .. room /\ room - (i + 1) = k - 1
        /\ i \in 0 .. width /\ i + 1 \in 1 .. width /\ i + 1 - 1 = i
        /\ room + 1 - k \in 1 .. room
    BY <2>1, <2>2
  <2>4. top[k] = 2 * top[k - 1] + 1
    BY <1>2, <1>3, <2>3
  <2>5. half[i] <= top[k] /\ half[i + 1] = half[i] \div 2
    BY <2>1, <2>2, <2>3
  <2>6. half[i] \in Nat /\ top[k - 1] \in Nat
    BY <2>3
  <2>7. \A a, b \in Nat : a <= 2 * b + 1 => a \div 2 <= b
    OBVIOUS
  <2>8. half[i + 1] <= top[k - 1]
    BY <2>4, <2>5, <2>6, <2>7
  <2> QED BY <2>3, <2>8
<1>6. room \in T
    BY <1>0, <1>4, <1>5, NumberInduction
<1>7. half[room] <= 0 /\ half[room] \in Nat
    BY <1>3, <1>6
<1> QED BY <1>7

LEMMA BitsType ==
    ASSUME NEW n \in Nat, NEW width \in Nat
    PROVE  BitsOf(n, width) \in [1 .. width -> {0, 1}]
<1>1. PICK half \in [0 .. width -> Nat] :
            BitsOf(n, width) = [i \in 1 .. width |-> half[i - 1] % 2]
    BY HalvesExist
<1>2. \A i \in 1 .. width : half[i - 1] \in Nat
    OBVIOUS
<1>3. \A k \in Nat : k % 2 \in {0, 1}
    OBVIOUS
<1> QED BY <1>1, <1>2, <1>3

(* A number is counted by its bits when there are enough of them, and the     *)
(* highest is the sign of one that needs it.                                 *)
LEMMA NumberReturns ==
    ASSUME NEW width \in Nat, NEW n \in Nat, n <= Largest(width)
    PROVE  NumberOf(BitsOf(n, width)) = n
<1>1. PICK half \in [0 .. width -> Nat] :
            /\ half[0] = n
            /\ \A i \in 1 .. width : half[i] = half[i - 1] \div 2
            /\ BitsOf(n, width) = [i \in 1 .. width |-> half[i - 1] % 2]
    BY HalvesExist
<1>2. width \in 0 .. width
    OBVIOUS
<1>3. half[width] = 0
    BY <1>1, <1>2, HalvedAway
<1>4. NumberOf([i \in 1 .. width |-> half[i - 1] % 2]) = n
    BY <1>1, <1>3, BitsCount
<1> QED BY <1>1, <1>4

LEMMA NoSign ==
    ASSUME NEW width \in Nat \ {0}, NEW n \in Nat, n <= Largest(width - 1)
    PROVE  BitsOf(n, width)[width] = 0
<1>1. PICK half \in [0 .. width -> Nat] :
            /\ half[0] = n
            /\ \A i \in 1 .. width : half[i] = half[i - 1] \div 2
            /\ BitsOf(n, width) = [i \in 1 .. width |-> half[i - 1] % 2]
    BY HalvesExist
<1>2. width - 1 \in 0 .. width
    OBVIOUS
<1>3. half[width - 1] = 0
    BY <1>1, <1>2, HalvedAway
<1> QED BY <1>1, <1>3

-----------------------------------------------------------------------------
(* Bytes one after the other.                                                *)
Bits(width) == [1 .. width -> {0, 1}]
Byte == Bits(8)

LEMMA AfterConcat ==
    ASSUME NEW S, NEW s \in Seq(S), NEW t \in Seq(S)
    PROVE  After(s \o t, Len(s)) = t
<1>1. Len(s) \in Nat /\ Len(t) \in Nat /\ Len(s \o t) = Len(s) + Len(t)
    OBVIOUS
<1>2. PICK u : u = SubSeq(s \o t, Len(s) + 1, Len(s) + Len(t))
    OBVIOUS
<1>3. u = [i \in 1 .. Len(t) |-> (s \o t)[i + Len(s)]]
    BY <1>1, <1>2
<1>4. \A i \in 1 .. Len(t) : (s \o t)[i + Len(s)] = t[i]
    BY <1>1
<1>5. t = [i \in 1 .. Len(t) |-> t[i]]
    OBVIOUS
<1> QED BY <1>1, <1>2, <1>3, <1>4, <1>5 DEF After

LEMMA CutFirst ==
    ASSUME NEW S, NEW s \in Seq(S), NEW t \in Seq(S), NEW n \in 0 .. Len(s)
    PROVE  SubSeq(s \o t, 1, n) = SubSeq(s, 1, n)
<1>1. Len(s) \in Nat /\ Len(t) \in Nat /\ Len(s \o t) = Len(s) + Len(t)
    OBVIOUS
<1>2. SubSeq(s \o t, 1, n) = [i \in 1 .. n |-> (s \o t)[i]]
    BY <1>1
<1>3. SubSeq(s, 1, n) = [i \in 1 .. n |-> s[i]]
    BY <1>1
<1>4. \A i \in 1 .. n : (s \o t)[i] = s[i]
    BY <1>1
<1> QED BY <1>2, <1>3, <1>4

LEMMA CutSecond ==
    ASSUME NEW S, NEW s \in Seq(S), NEW t \in Seq(S), NEW n \in 0 .. Len(t)
    PROVE  SubSeq(s \o t, 1, Len(s) + n) = s \o SubSeq(t, 1, n)
<1>1. Len(s) \in Nat /\ Len(t) \in Nat /\ Len(s \o t) = Len(s) + Len(t)
    OBVIOUS
<1>2. PICK u, v, w : /\ u = SubSeq(s \o t, 1, Len(s) + n)
                     /\ v = SubSeq(t, 1, n)
                     /\ w = s \o v
    OBVIOUS
<1>3. u = [i \in 1 .. Len(s) + n |-> (s \o t)[i]]
    BY <1>1, <1>2
<1>4. v \in Seq(S) /\ Len(v) = n /\ \A i \in 1 .. n : v[i] = t[i]
    BY <1>1, <1>2
<1>5. w = [i \in 1 .. Len(s) + n |-> w[i]]
    BY <1>1, <1>2, <1>4
<1>6. ASSUME NEW i \in 1 .. Len(s) + n
      PROVE  (s \o t)[i] = w[i]
  <2>1. CASE i <= Len(s)
    BY <1>1, <1>2, <1>4, <2>1
  <2>2. CASE ~(i <= Len(s))
    <3>1. i - Len(s) \in 1 .. n
      BY <1>1, <2>2
    <3>2. w[i] = v[i - Len(s)] /\ (s \o t)[i] = t[i - Len(s)]
      BY <1>1, <1>2, <1>4, <2>2
    <3> QED BY <3>1, <3>2, <1>4
  <2> QED BY <2>1, <2>2
<1> QED BY <1>2, <1>3, <1>5, <1>6

LEMMA FirstTaken ==
    ASSUME NEW S, NEW x \in S, NEW s \in Seq(S)
    PROVE  <<x>> \o s # <<>> /\ (<<x>> \o s)[1] = x /\ Tail(<<x>> \o s) = s
<1>1. PICK n \in Nat : n = Len(s)
    OBVIOUS
<1>2. PICK all : all = <<x>> \o s
    OBVIOUS
<1>3. all \in Seq(S) /\ Len(all) = 1 + n /\ all[1] = x /\ \A i \in 1 .. n : all[i + 1] = s[i]
    BY <1>1, <1>2
<1>4. all # <<>>
    BY <1>3
<1>5. PICK tail \in Seq(S) : tail = Tail(all)
  <2>1. Tail(all) \in Seq(S)
    BY <1>3, <1>4, HeadTailProperties
  <2> QED BY <2>1
<1>6. Len(tail) = n /\ \A i \in 1 .. n : tail[i] = s[i]
    BY <1>3, <1>4, <1>5
<1>7. tail = [i \in 1 .. n |-> tail[i]] /\ s = [i \in 1 .. n |-> s[i]]
    BY <1>1, <1>6
<1> QED BY <1>2, <1>3, <1>4, <1>5, <1>6, <1>7

LEMMA FirstAndOthers ==
    ASSUME NEW S, NEW s \in Seq(S), NEW k \in 1 .. Len(s)
    PROVE  <<s[k]>> \o SubSeq(s, k + 1, Len(s)) = SubSeq(s, k, Len(s))
<1>1. PICK n \in Nat : n = Len(s)
    OBVIOUS
<1>2. PICK others : others = SubSeq(s, k + 1, n)
    OBVIOUS
<1>3. others \in Seq(S) /\ Len(others) = n - k /\ \A i \in 1 .. n - k : others[i] = s[i + k]
    BY <1>1, <1>2
<1>4. PICK first \in S : first = s[k]
    OBVIOUS
<1>5. PICK all : all = <<first>> \o others
    OBVIOUS
<1>6. all \in Seq(S) /\ Len(all) = n - k + 1 /\ all[1] = first
      /\ \A i \in 2 .. n - k + 1 : all[i] = others[i - 1]
    BY <1>3, <1>5
<1>7. ASSUME NEW i \in 1 .. n - k + 1
      PROVE  all[i] = s[i + k - 1]
  <2>1. CASE i = 1
    <3>1. i + k - 1 = k
      BY <2>1
    <3> QED BY <2>1, <3>1, <1>4, <1>6
  <2>2. CASE i # 1
    <3>1. i \in 2 .. n - k + 1 /\ i - 1 \in 1 .. n - k /\ i - 1 + k = i + k - 1
      BY <2>2, <1>1
    <3> QED BY <3>1, <1>3, <1>6
  <2> QED BY <2>1, <2>2
<1>8. all = [i \in 1 .. n - k + 1 |-> all[i]]
    BY <1>6
<1>9. SubSeq(s, k, n) = [i \in 1 .. n - k + 1 |-> s[i + k - 1]]
  <2>1. k \in Nat /\ k <= n /\ n - k + 1 \in Nat
    BY <1>1
  <2>2. PICK sub : sub = SubSeq(s, k, n)
    OBVIOUS
  <2>3. sub \in Seq(S) /\ Len(sub) = n - k + 1
        /\ \A i \in 1 .. n - k + 1 : sub[i] = s[i + k - 1]
    BY <1>1, <2>1, <2>2
  <2>4. sub = [i \in 1 .. n - k + 1 |-> sub[i]]
    BY <2>3
  <2> QED BY <2>2, <2>3, <2>4
<1> QED BY <1>1, <1>2, <1>4, <1>5, <1>7, <1>8, <1>9

(* Bits that are spread over bytes, eight or seven to a byte, are joined.    *)
Spread(bits, bytes, n, used, width) ==
    /\ \A g \in 1 .. n, b \in 1 .. used :
          used * (g - 1) + b <= width => bytes[g][b] = bits[used * (g - 1) + b]
    /\ \A i \in 1 .. width : i > used * n => bits[i] = 0

LEMMA JoinedReturns ==
    ASSUME NEW used \in {7, 8}, NEW n \in Nat, NEW width \in Nat, NEW bits \in Bits(width),
           NEW bytes, Spread(bits, bytes, n, used, width)
    PROVE  Joined(bytes, n, used, width) = bits
<1>1. ASSUME NEW i \in 1 .. width, i <= used * n
      PROVE  bytes[((i - 1) \div used) + 1][((i - 1) % used) + 1] = bits[i]
  <2>1. PICK g, b : g = ((i - 1) \div used) + 1 /\ b = ((i - 1) % used) + 1
    OBVIOUS
  <2>2. g \in 1 .. n /\ b \in 1 .. used /\ i = used * (g - 1) + b
    <3>1. CASE used = 7
      <4>1. \A k \in 1 .. 7 * n : /\ ((k - 1) \div 7) + 1 \in 1 .. n
                                  /\ ((k - 1) % 7) + 1 \in 1 .. 7
                                  /\ k = 7 * (((k - 1) \div 7) + 1 - 1) + (((k - 1) % 7) + 1)
        OBVIOUS
      <4> QED BY <4>1, <3>1, <2>1, <1>1
    <3>2. CASE used = 8
      <4>1. \A k \in 1 .. 8 * n : /\ ((k - 1) \div 8) + 1 \in 1 .. n
                                  /\ ((k - 1) % 8) + 1 \in 1 .. 8
                                  /\ k = 8 * (((k - 1) \div 8) + 1 - 1) + (((k - 1) % 8) + 1)
        OBVIOUS
      <4> QED BY <4>1, <3>2, <2>1, <1>1
    <3> QED BY <3>1, <3>2
  <2>3. bytes[g][b] = bits[used * (g - 1) + b]
    BY <2>2 DEF Spread
  <2> QED BY <2>1, <2>2, <2>3
<1>2. \A i \in 1 .. width : ~(i <= used * n) => bits[i] = 0
  <2>1. \A i \in 1 .. width : ~(i <= used * n) => i > used * n
    OBVIOUS
  <2> QED BY <2>1 DEF Spread
<1>3. bits = [i \in 1 .. width |-> bits[i]]
    BY DEF Bits
<1> QED BY <1>1, <1>2, <1>3 DEF Joined

LEMMA FixedReturns ==
    ASSUME NEW width \in {8, 16, 32, 64}, NEW bits \in Bits(width),
           NEW S, Byte \subseteq S, NEW rest \in Seq(S)
    PROVE  /\ WriteFixed(bits) \in Seq(Byte)
           /\ ReadFixed(WriteFixed(bits) \o rest, width) = Got(bits, rest)
           /\ \A m \in 0 .. Len(WriteFixed(bits)) - 1 :
                 ReadFixed(SubSeq(WriteFixed(bits), 1, m), width) = Failed
<1> PICK n \in Nat : width = 8 * n
  <2>1. \E n \in {1, 2, 4, 8} : width = 8 * n
    OBVIOUS
  <2> QED BY <2>1
<1>0. width \in Nat
    OBVIOUS
<1>1. PICK bytes : bytes = WriteFixed(bits)
    OBVIOUS
<1>2. Len(bits) = width /\ width \div 8 = n
    BY <1>0 DEF Bits
<1>3. bytes = [i \in 1 .. n |-> [b \in 1 .. 8 |-> bits[8 * (i - 1) + b]]]
    BY <1>1, <1>2 DEF WriteFixed
<1>4. \A g \in 1 .. n, b \in 1 .. 8 : bytes[g][b] = bits[8 * (g - 1) + b]
    BY <1>3
<1>5. bytes \in Seq(Byte) /\ Len(bytes) = n
  <2>1. ASSUME NEW g \in 1 .. n
        PROVE  [b \in 1 .. 8 |-> bits[8 * (g - 1) + b]] \in Byte
    <3>1. \A b \in 1 .. 8 : 8 * (g - 1) + b \in 1 .. width
      OBVIOUS
    <3>2. \A b \in 1 .. 8 : bits[8 * (g - 1) + b] \in {0, 1}
      BY <3>1 DEF Bits
    <3> QED BY <3>2 DEF Byte, Bits
  <2>2. bytes \in [1 .. n -> Byte]
    BY <1>3, <2>1
  <2> QED BY <2>2
<1>6. bytes \in Seq(S)
    BY <1>5
<1>7. ReadFixed(bytes \o rest, width) = Got(bits, rest)
  <2>1. PICK all : all = bytes \o rest
    OBVIOUS
  <2>2. /\ Len(all) = n + Len(rest) /\ Len(rest) \in Nat
        /\ \A g \in 1 .. n : all[g] = bytes[g]
    <3>1. Len(bytes) = n /\ Len(rest) \in Nat
      BY <1>5
    <3>2. Len(all) = Len(bytes) + Len(rest)
      BY <1>6, <2>1
    <3>3. \A g \in 1 .. Len(bytes) : all[g] = bytes[g]
      BY <1>6, <2>1
    <3> QED BY <3>1, <3>2, <3>3
  <2>3. After(all, n) = rest
    BY <1>5, <1>6, <2>1, AfterConcat
  <2>4. Joined(all, n, 8, width) = bits
    <3>1. PICK used \in {7, 8} : used = 8
      OBVIOUS
    <3>2. Spread(bits, all, n, used, width)
      <4>1. ASSUME NEW g \in 1 .. n, NEW b \in 1 .. used
            PROVE  all[g][b] = bits[used * (g - 1) + b]
        <5>1. b \in 1 .. 8 /\ all[g] = bytes[g] /\ used * (g - 1) = 8 * (g - 1)
          BY <2>2, <3>1
        <5> QED BY <5>1, <1>4
      <4>2. \A i \in 1 .. width : ~(i > used * n)
        BY <3>1
      <4> QED BY <4>1, <4>2 DEF Spread
    <3>4. Joined(all, n, used, width) = bits
      BY <3>2, JoinedReturns
    <3> QED BY <3>1, <3>4
  <2>5. ~(Len(all) < n)
    BY <2>2
  <2> QED BY <1>2, <2>1, <2>3, <2>4, <2>5 DEF ReadFixed
<1>8. ASSUME NEW m \in 0 .. n - 1
      PROVE  ReadFixed(SubSeq(bytes, 1, m), width) = Failed
  <2>1. Len(SubSeq(bytes, 1, m)) = m /\ m < n
    BY <1>5
  <2> QED BY <1>2, <2>1 DEF ReadFixed
<1> QED BY <1>1, <1>5, <1>7, <1>8

(* std::byteswap: byte g becomes the g-th from the end.                      *)
LEMMA SwappedBits ==
    ASSUME NEW n \in Nat, NEW width \in Nat, width = 8 * n, NEW bits \in Bits(width)
    PROVE  /\ ByteSwap(bits) \in Bits(width)
           /\ \A g \in 1 .. n, b \in 1 .. 8 :
                 ByteSwap(bits)[8 * (g - 1) + b] = bits[8 * (n - g) + b]
<1>1. PICK bytes : bytes = WriteFixed(bits)
    OBVIOUS
<1>2. Len(bits) = width /\ width \div 8 = n
    BY DEF Bits
<1>3. Len(bytes) = n /\ \A g \in 1 .. n, b \in 1 .. 8 : bytes[g][b] = bits[8 * (g - 1) + b]
  <2>1. bytes = [i \in 1 .. n |-> [b \in 1 .. 8 |-> bits[8 * (i - 1) + b]]]
    BY <1>1, <1>2 DEF WriteFixed
  <2> QED BY <2>1
<1>4. PICK back : back = Reverse(bytes)
    OBVIOUS
<1>5. \A g \in 1 .. n : back[g] = bytes[n + 1 - g]
    BY <1>3, <1>4 DEF Reverse
<1>6. ASSUME NEW g \in 1 .. n, NEW b \in 1 .. 8
      PROVE  back[g][b] = bits[8 * (n - g) + b]
  <2>1. PICK h : h = n + 1 - g
    OBVIOUS
  <2>2. h \in 1 .. n /\ 8 * (h - 1) = 8 * (n - g)
    BY <2>1
  <2>3. back[g] = bytes[h] /\ bytes[h][b] = bits[8 * (h - 1) + b]
    BY <1>3, <1>5, <2>1, <2>2
  <2> QED BY <2>2, <2>3
<1>7. ByteSwap(bits) = [i \in 1 .. width |-> back[((i - 1) \div 8) + 1][((i - 1) % 8) + 1]]
  <2>1. \A i \in 1 .. width : i <= 8 * n
    OBVIOUS
  <2> QED BY <1>1, <1>2, <1>4, <2>1 DEF ByteSwap, Joined
<1>8. ASSUME NEW g \in 1 .. n, NEW b \in 1 .. 8
      PROVE  ByteSwap(bits)[8 * (g - 1) + b] = bits[8 * (n - g) + b]
  <2>1. PICK i : i = 8 * (g - 1) + b
    OBVIOUS
  <2>2. i \in 1 .. width /\ ((i - 1) \div 8) + 1 = g /\ ((i - 1) % 8) + 1 = b
    BY <2>1
  <2>3. ByteSwap(bits)[i] = back[g][b]
    BY <1>7, <2>2
  <2> QED BY <2>1, <2>3, <1>6
<1>9. ASSUME NEW i \in 1 .. width
      PROVE  ByteSwap(bits)[i] \in {0, 1}
  <2>1. PICK g, b : g = ((i - 1) \div 8) + 1 /\ b = ((i - 1) % 8) + 1
    OBVIOUS
  <2>2. g \in 1 .. n /\ b \in 1 .. 8
    BY <2>1
  <2>3. ByteSwap(bits)[i] = bits[8 * (n - g) + b]
    BY <1>6, <1>7, <2>1, <2>2
  <2>4. 8 * (n - g) + b \in 1 .. width
    BY <2>2
  <2> QED BY <2>3, <2>4 DEF Bits
<1> QED BY <1>7, <1>8, <1>9 DEF Bits

LEMMA SwappedTwice ==
    ASSUME NEW n \in Nat, NEW width \in Nat, width = 8 * n, NEW bits \in Bits(width)
    PROVE  ByteSwap(ByteSwap(bits)) = bits
<1>1. PICK swapped \in Bits(width) : swapped = ByteSwap(bits)
    BY SwappedBits
<1>2. \A g \in 1 .. n, b \in 1 .. 8 : swapped[8 * (g - 1) + b] = bits[8 * (n - g) + b]
    BY <1>1, SwappedBits
<1>3. PICK back \in Bits(width) : back = ByteSwap(swapped)
    BY SwappedBits
<1>4. \A g \in 1 .. n, b \in 1 .. 8 : back[8 * (g - 1) + b] = swapped[8 * (n - g) + b]
    BY <1>3, SwappedBits
<1>5. ASSUME NEW i \in 1 .. width
      PROVE  back[i] = bits[i]
  <2>1. PICK g, b : g = ((i - 1) \div 8) + 1 /\ b = ((i - 1) % 8) + 1
    OBVIOUS
  <2>2. g \in 1 .. n /\ b \in 1 .. 8 /\ i = 8 * (g - 1) + b
    BY <2>1
  <2>3. PICK h : h = n + 1 - g
    OBVIOUS
  <2>4. h \in 1 .. n /\ 8 * (n - g) + b = 8 * (h - 1) + b /\ 8 * (n - h) + b = i
    BY <2>2, <2>3
  <2>5. back[i] = swapped[8 * (n - g) + b]
    BY <1>4, <2>2
  <2>6. swapped[8 * (h - 1) + b] = bits[8 * (n - h) + b]
    BY <1>2, <2>2, <2>4
  <2> QED BY <2>4, <2>5, <2>6
<1>6. back = [i \in 1 .. width |-> back[i]] /\ bits = [i \in 1 .. width |-> bits[i]]
    BY DEF Bits
<1> QED BY <1>1, <1>3, <1>5, <1>6

(* What WriteGrouped and WriteBitset write: groups of seven bits up to the   *)
(* highest bit that is set, every group but the last announcing another.     *)
Grouped(bits, width, bytes, groups, top) ==
    /\ bytes \in Seq(Byte) /\ Len(bytes) = groups /\ groups \in Nat \ {0}
    /\ top \in 1 .. width /\ 7 * (groups - 1) < top /\ top <= 7 * groups
    /\ bits[top] = 1 \/ top = 1
    /\ \A i \in 1 .. width : i > top => bits[i] = 0
    /\ \A g \in 1 .. groups : bytes[g][8] = IF g < groups THEN 1 ELSE 0
    /\ \A g \in 1 .. groups, b \in 1 .. 7 :
          bytes[g][b] = IF 7 * (g - 1) + b <= width THEN bits[7 * (g - 1) + b] ELSE 0

LEMMA HighestExists ==
    ASSUME NEW width \in Nat, NEW used \in SUBSET (1 .. width), used # {}
    PROVE  \E i \in used : \A j \in used : j <= i
<1>1. PICK T : T = {n \in Nat : width - n \in used}
    OBVIOUS
<1>2. T \in SUBSET Nat /\ T # {}
  <2>1. PICK i \in used : TRUE
    OBVIOUS
  <2>2. width - i \in Nat /\ width - (width - i) = i
    OBVIOUS
  <2> QED BY <1>1, <2>2
<1>3. PICK m \in T : \A n \in T : m <= n
    BY <1>2, LeastNumber
<1>4. width - m \in used
    BY <1>1
<1>5. ASSUME NEW j \in used
      PROVE  j <= width - m
  <2>1. width - j \in Nat /\ width - (width - j) = j
    OBVIOUS
  <2>2. width - j \in T
    BY <1>1, <2>1
  <2>3. m <= width - j /\ m \in Nat
    BY <1>1, <1>3, <2>2
  <2> QED BY <2>3
<1> QED BY <1>4, <1>5

LEMMA GroupsWritten ==
    ASSUME NEW width \in Nat \ {0}, NEW bits \in Bits(width)
    PROVE  \E groups, top : Grouped(bits, width, WriteGrouped(bits), groups, top)
<1>1. PICK used : used = {i \in DOMAIN bits : bits[i] = 1}
    OBVIOUS
<1>2. PICK top : top = IF used = {} THEN 1 ELSE CHOOSE i \in used : \A j \in used : j <= i
    OBVIOUS
<1>3. DOMAIN bits = 1 .. width /\ Len(bits) = width /\ \A i \in 1 .. width : bits[i] \in {0, 1}
    BY DEF Bits
<1>4. /\ top \in 1 .. width
      /\ bits[top] = 1 \/ top = 1
      /\ \A i \in 1 .. width : i > top => bits[i] = 0
  <2>1. CASE used = {}
    <3>1. top = 1
      BY <1>2, <2>1
    <3>2. \A i \in 1 .. width : bits[i] = 0
      BY <1>1, <1>3, <2>1
    <3> QED BY <3>1, <3>2
  <2>2. CASE used # {}
    <3>1. used \in SUBSET (1 .. width)
      BY <1>1, <1>3
    <3>2. \E i \in used : \A j \in used : j <= i
      BY <3>1, <2>2, HighestExists
    <3>3. top \in used /\ \A j \in used : j <= top
      BY <1>2, <2>2, <3>2
    <3>4. top \in 1 .. width /\ bits[top] = 1
      BY <1>1, <1>3, <3>3
    <3>5. ASSUME NEW i \in 1 .. width, i > top
          PROVE  bits[i] = 0
      <4>1. i \notin used
        BY <3>3, <3>4, <3>5
      <4> QED BY <4>1, <1>1, <1>3
    <3> QED BY <3>4, <3>5
  <2> QED BY <2>1, <2>2
<1>5. PICK groups : groups = CeilDiv(top, 7)
    OBVIOUS
<1>6. groups \in Nat \ {0} /\ 7 * (groups - 1) < top /\ top <= 7 * groups
    BY <1>4, <1>5 DEF CeilDiv
<1>7. PICK bytes : bytes = [g \in 1 .. groups |->
          [b \in 1 .. 8 |->
             IF b = 8 THEN (IF g < groups THEN 1 ELSE 0)
             ELSE IF 7 * (g - 1) + b <= width THEN bits[7 * (g - 1) + b] ELSE 0]]
    OBVIOUS
<1>8. bytes = WriteGrouped(bits)
    BY <1>1, <1>2, <1>3, <1>5, <1>7 DEF WriteGrouped
<1>9. \A g \in 1 .. groups : bytes[g][8] = IF g < groups THEN 1 ELSE 0
    BY <1>7
<1>10. \A g \in 1 .. groups, b \in 1 .. 7 :
          bytes[g][b] = IF 7 * (g - 1) + b <= width THEN bits[7 * (g - 1) + b] ELSE 0
  <2>1. \A b \in 1 .. 7 : b \in 1 .. 8 /\ b # 8
    OBVIOUS
  <2> QED BY <1>7, <2>1
<1>11. bytes \in Seq(Byte) /\ Len(bytes) = groups
  <2>1. ASSUME NEW g \in 1 .. groups
        PROVE  bytes[g] \in Byte
    <3>1. \A b \in 1 .. 7 : 7 * (g - 1) + b <= width => 7 * (g - 1) + b \in 1 .. width
      BY <1>6
    <3>2. \A b \in 1 .. 7 : bytes[g][b] \in {0, 1}
      BY <3>1, <1>3, <1>10
    <3>3. bytes[g][8] \in {0, 1}
      BY <1>9
    <3>4. bytes[g] = [b \in 1 .. 8 |-> bytes[g][b]]
      BY <1>7
    <3>5. \A b \in 1 .. 8 : b = 8 \/ b \in 1 .. 7
      OBVIOUS
    <3>6. \A b \in 1 .. 8 : bytes[g][b] \in {0, 1}
      BY <3>2, <3>3, <3>5
    <3> QED BY <3>4, <3>6 DEF Byte, Bits
  <2>2. bytes = [g \in 1 .. groups |-> bytes[g]]
    BY <1>7
  <2>3. bytes \in [1 .. groups -> Byte] /\ groups \in Nat
    BY <2>1, <2>2, <1>6
  <2> QED BY <2>3
<1>12. Grouped(bits, width, bytes, groups, top)
    BY <1>4, <1>6, <1>9, <1>10, <1>11 DEF Grouped
<1> QED BY <1>8, <1>12

(* The bytes a reader of groups may stop at.                                 *)
FinalGroups(bytes, width) ==
    {g \in 1 .. CeilDiv(width, 7) : g <= Len(bytes) /\ bytes[g][8] = 0}

(* It stops at the last group that was written, and has every bit.           *)
LEMMA LastGroup ==
    ASSUME NEW width \in Nat \ {0}, NEW bits \in Bits(width), NEW bytes, NEW groups, NEW top,
           Grouped(bits, width, bytes, groups, top),
           NEW all, Len(all) \in Nat, groups <= Len(all),
           \A g \in 1 .. groups : all[g] = bytes[g]
    PROVE  /\ FinalGroups(all, width) # {}
           /\ (CHOOSE g \in FinalGroups(all, width) :
                 \A h \in FinalGroups(all, width) : g <= h) = groups
           /\ groups <= CeilDiv(width, 7)
           /\ Joined(all, groups, 7, width) = bits
<1>1. groups \in Nat \ {0} /\ top \in 1 .. width /\ 7 * (groups - 1) < top /\ top <= 7 * groups
    BY DEF Grouped
<1>2. groups \in 1 .. CeilDiv(width, 7)
    BY <1>1 DEF CeilDiv
<1>3. groups \in FinalGroups(all, width)
  <2>1. all[groups][8] = 0
    BY <1>1 DEF Grouped
  <2> QED BY <2>1, <1>2 DEF FinalGroups
<1>4. ASSUME NEW h \in FinalGroups(all, width)
      PROVE  groups <= h
  <2>1. h \in Nat /\ h >= 1 /\ all[h][8] = 0
    BY DEF FinalGroups
  <2>2. SUFFICES ASSUME h < groups PROVE FALSE
    BY <1>1, <2>1
  <2>3. h \in 1 .. groups
    BY <1>1, <2>1, <2>2
  <2>4. all[h][8] = 1
    BY <2>2, <2>3 DEF Grouped
  <2> QED BY <2>1, <2>4
<1>5. \A g \in FinalGroups(all, width) : groups <= g /\ g <= groups => g = groups
    BY <1>1 DEF FinalGroups
<1>6. (CHOOSE g \in FinalGroups(all, width) :
                 \A h \in FinalGroups(all, width) : g <= h) = groups
    BY <1>3, <1>4, <1>5
<1>7. Joined(all, groups, 7, width) = bits
  <2>1. PICK used \in {7, 8} : used = 7
    OBVIOUS
  <2>2. Spread(bits, all, groups, used, width)
    <3>1. ASSUME NEW g \in 1 .. groups, NEW b \in 1 .. used, used * (g - 1) + b <= width
          PROVE  all[g][b] = bits[used * (g - 1) + b]
      <4>1. b \in 1 .. 7 /\ all[g] = bytes[g] /\ used * (g - 1) = 7 * (g - 1)
            /\ 7 * (g - 1) + b <= width
        BY <2>1, <3>1
      <4> QED BY <4>1 DEF Grouped
    <3>2. ASSUME NEW i \in 1 .. width, i > used * groups
          PROVE  bits[i] = 0
      <4>1. i > top
        BY <1>1, <2>1, <3>2
      <4> QED BY <4>1 DEF Grouped
    <3> QED BY <3>1, <3>2 DEF Spread
  <2>3. Joined(all, groups, used, width) = bits
    BY <1>1, <2>2, JoinedReturns
  <2> QED BY <2>1, <2>3
<1> QED BY <1>2, <1>3, <1>6, <1>7

(* Nothing ends where only announced groups have come.                       *)
LEMMA NoLastGroup ==
    ASSUME NEW width \in Nat \ {0}, NEW bits \in Bits(width), NEW bytes, NEW groups, NEW top,
           Grouped(bits, width, bytes, groups, top),
           NEW all, Len(all) \in Nat, Len(all) < groups,
           \A g \in 1 .. Len(all) : all[g] = bytes[g]
    PROVE  FinalGroups(all, width) = {}
<1> SUFFICES ASSUME NEW h \in FinalGroups(all, width) PROVE FALSE
    OBVIOUS
<1>1. h \in Nat /\ h >= 1 /\ h <= Len(all) /\ all[h][8] = 0
    BY DEF FinalGroups
<1>2. groups \in Nat
    BY DEF Grouped
<1>3. h \in 1 .. Len(all) /\ h \in 1 .. groups /\ h < groups
    BY <1>1, <1>2
<1>4. bytes[h][8] = 1
    BY <1>3 DEF Grouped
<1> QED BY <1>1, <1>3, <1>4

LEMMA GroupedReturns ==
    ASSUME NEW width \in Nat \ {0}, NEW bits \in Bits(width),
           NEW S, Byte \subseteq S, NEW rest \in Seq(S)
    PROVE  /\ WriteGrouped(bits) \in Seq(Byte)
           /\ ReadGrouped(WriteGrouped(bits) \o rest, width) = Got(bits, rest)
           /\ \A m \in 0 .. Len(WriteGrouped(bits)) - 1 :
                 ReadGrouped(SubSeq(WriteGrouped(bits), 1, m), width) = Failed
<1>1. PICK bytes : bytes = WriteGrouped(bits)
    OBVIOUS
<1>2. PICK groups, top : Grouped(bits, width, bytes, groups, top)
    BY <1>1, GroupsWritten
<1>3. bytes \in Seq(Byte) /\ Len(bytes) = groups /\ groups \in Nat \ {0}
    BY <1>2 DEF Grouped
<1>4. bytes \in Seq(S)
    BY <1>3
<1>5. ReadGrouped(bytes \o rest, width) = Got(bits, rest)
  <2>1. PICK all : all = bytes \o rest
    OBVIOUS
  <2>2. /\ Len(all) \in Nat /\ groups <= Len(all)
        /\ \A g \in 1 .. groups : all[g] = bytes[g]
    <3>1. Len(all) = Len(bytes) + Len(rest) /\ Len(rest) \in Nat
      BY <1>4, <2>1
    <3>2. \A g \in 1 .. Len(bytes) : all[g] = bytes[g]
      BY <1>4, <2>1
    <3> QED BY <3>1, <3>2, <1>3
  <2>3. After(all, groups) = rest
    BY <1>3, <1>4, <2>1, AfterConcat
  <2>4. /\ FinalGroups(all, width) # {}
        /\ (CHOOSE g \in FinalGroups(all, width) :
              \A h \in FinalGroups(all, width) : g <= h) = groups
        /\ groups <= CeilDiv(width, 7)
        /\ Joined(all, groups, 7, width) = bits
    BY <1>2, <2>2, LastGroup
  <2>5. ASSUME groups = CeilDiv(width, 7),
               NEW b \in (width - 7 * (CeilDiv(width, 7) - 1)) + 1 .. 7
        PROVE  all[groups][b] # 1
    <3>1. b \in 1 .. 7 /\ ~(7 * (groups - 1) + b <= width) /\ groups \in 1 .. groups
      BY <1>3, <2>5 DEF CeilDiv
    <3>2. bytes[groups][b] = 0
      BY <1>2, <3>1 DEF Grouped
    <3> QED BY <3>1, <3>2, <2>2
  <2>6. ~(groups = CeilDiv(width, 7)
          /\ \E b \in (width - 7 * (CeilDiv(width, 7) - 1)) + 1 .. 7 : all[groups][b] = 1)
    BY <2>5
  <2>7. PICK final : final = {g \in 1 .. CeilDiv(width, 7) : g <= Len(all) /\ all[g][8] = 0}
    OBVIOUS
  <2>8. final # {} /\ (CHOOSE g \in final : \A h \in final : g <= h) = groups
    BY <2>4, <2>7 DEF FinalGroups
  <2> QED BY <2>1, <2>3, <2>4, <2>6, <2>7, <2>8 DEF ReadGrouped
<1>6. ASSUME NEW m \in 0 .. groups - 1
      PROVE  ReadGrouped(SubSeq(bytes, 1, m), width) = Failed
  <2>1. PICK cut : cut = SubSeq(bytes, 1, m)
    OBVIOUS
  <2>2. Len(cut) = m /\ m \in Nat /\ m < groups /\ \A g \in 1 .. m : cut[g] = bytes[g]
    BY <1>3, <2>1
  <2>3. FinalGroups(cut, width) = {}
    BY <1>2, <2>2, NoLastGroup
  <2> QED BY <2>1, <2>3 DEF ReadGrouped, FinalGroups
<1> QED BY <1>1, <1>3, <1>5, <1>6

(* The sign moves to the lowest bit and back.                                *)
LEMMA ZigZagBits ==
    ASSUME NEW width \in Nat \ {0}, NEW bits \in Bits(width)
    PROVE  /\ ZigZag(bits) \in Bits(width)
           /\ ZigZag(bits)[1] = bits[width]
           /\ \A i \in 2 .. width :
                 ZigZag(bits)[i] = IF bits[width] = 1 THEN 1 - bits[i - 1] ELSE bits[i - 1]
<1>1. Len(bits) = width /\ bits \in Seq({0, 1}) /\ \A i \in 1 .. width : bits[i] \in {0, 1}
    BY DEF Bits
<1>2. PICK size : size = SubSeq(bits, 1, width - 1)
    OBVIOUS
<1>3. size = [i \in 1 .. width - 1 |-> bits[i]]
    BY <1>1, <1>2
<1>4. PICK tail : tail = IF bits[width] = 1 THEN Flip(size) ELSE size
    OBVIOUS
<1>5. tail = [i \in 1 .. width - 1 |-> IF bits[width] = 1 THEN 1 - bits[i] ELSE bits[i]]
    BY <1>3, <1>4 DEF Flip
<1>6. tail \in Seq({0, 1}) /\ Len(tail) = width - 1
  <2>1. \A i \in 1 .. width - 1 :
           (IF bits[width] = 1 THEN 1 - bits[i] ELSE bits[i]) \in {0, 1}
    <3>1. \A i \in 1 .. width - 1 : bits[i] = 0 \/ bits[i] = 1
      BY <1>1
    <3> QED BY <3>1
  <2>2. tail \in [1 .. width - 1 -> {0, 1}]
    BY <1>5, <2>1
  <2> QED BY <2>2
<1>7. PICK sign \in {0, 1} : sign = bits[width]
    BY <1>1
<1>8. PICK temp : temp = <<sign>> \o tail
    OBVIOUS
<1>9. temp = ZigZag(bits)
    BY <1>1, <1>2, <1>4, <1>7, <1>8 DEF ZigZag
<1>10. temp \in Seq({0, 1}) /\ Len(temp) = width
    BY <1>6, <1>8
<1>11. temp[1] = sign /\ \A i \in 2 .. width : temp[i] = tail[i - 1]
    BY <1>6, <1>8
<1>12. temp \in Bits(width)
    BY <1>10 DEF Bits
<1>13. \A i \in 2 .. width :
          tail[i - 1] = IF bits[width] = 1 THEN 1 - bits[i - 1] ELSE bits[i - 1]
    BY <1>5
<1> QED BY <1>7, <1>9, <1>11, <1>12, <1>13

LEMMA ZigZagReturns ==
    ASSUME NEW width \in Nat \ {0}, NEW bits \in Bits(width)
    PROVE  UnZigZag(ZigZag(bits)) = bits
<1>1. PICK temp \in Bits(width) : temp = ZigZag(bits)
    BY ZigZagBits
<1>2. /\ temp[1] = bits[width]
      /\ \A i \in 2 .. width :
            temp[i] = IF bits[width] = 1 THEN 1 - bits[i - 1] ELSE bits[i - 1]
    BY <1>1, ZigZagBits
<1>3. Len(temp) = width /\ temp \in Seq({0, 1}) /\ temp # <<>>
    BY DEF Bits
<1>4. PICK tail : tail = Tail(temp)
    OBVIOUS
<1>5. tail \in Seq({0, 1}) /\ Len(tail) = width - 1
      /\ \A i \in 1 .. width - 1 : tail[i] = temp[i + 1]
    BY <1>3, <1>4
<1>6. PICK shifted : shifted = tail \o <<0>>
    OBVIOUS
<1>7. shifted \in Seq({0, 1}) /\ Len(shifted) = width /\ shifted[width] = 0
      /\ \A i \in 1 .. width - 1 : shifted[i] = temp[i + 1]
    BY <1>5, <1>6
<1>8. \A i \in 1 .. width : bits[i] = 0 \/ bits[i] = 1
    BY DEF Bits
<1>9. ASSUME NEW i \in 1 .. width
      PROVE  bits[i] = IF temp[1] = 1 THEN 1 - shifted[i] ELSE shifted[i]
  <2>1. CASE i = width
    BY <2>1, <1>2, <1>7, <1>8
  <2>2. CASE i # width
    <3>1. i \in 1 .. width - 1 /\ i + 1 \in 2 .. width /\ i + 1 - 1 = i
      BY <2>2
    <3>2. shifted[i] = IF bits[width] = 1 THEN 1 - bits[i] ELSE bits[i]
      BY <3>1, <1>2, <1>7
    <3> QED BY <3>2, <1>2, <1>8
  <2> QED BY <2>1, <2>2
<1>10. DOMAIN shifted = 1 .. width /\ shifted = [i \in 1 .. width |-> shifted[i]]
    BY <1>7
<1>11. bits = [i \in 1 .. width |-> bits[i]]
    BY DEF Bits
<1>12. UnZigZag(temp) = IF temp[1] = 1 THEN Flip(shifted) ELSE shifted
    BY <1>4, <1>6 DEF UnZigZag
<1>13. CASE temp[1] = 1
  <2>1. Flip(shifted) = [i \in 1 .. width |-> 1 - shifted[i]]
    BY <1>10 DEF Flip
  <2> QED BY <1>1, <1>9, <1>11, <1>12, <1>13, <2>1
<1>14. CASE temp[1] # 1
    BY <1>1, <1>9, <1>10, <1>11, <1>12, <1>14
<1> QED BY <1>13, <1>14

-----------------------------------------------------------------------------
(* The three layouts of a number.                                            *)
LEMMA Layouts ==
    /\ DOMAIN FixedWidth =
          {"Bool", "Byte", "SignedChar", "UnsignedShort", "SignedShort", "UnsignedInt",
           "SignedInt", "SignedBigEndianInt", "Float", "UnsignedInt64", "SignedInt64", "Double"}
    /\ DOMAIN GroupedWidth = {"UnsignedVarInt", "UnsignedVarInt64"}
    /\ DOMAIN ZigZagWidth = {"VarInt", "VarInt64"}
    /\ \A wire \in DOMAIN FixedWidth : FixedWidth[wire] \in {8, 16, 32, 64}
    /\ \A wire \in DOMAIN GroupedWidth : GroupedWidth[wire] \in {32, 64}
    /\ \A wire \in DOMAIN ZigZagWidth : ZigZagWidth[wire] \in {32, 64}
<1>1. /\ DOMAIN FixedWidth =
            {"Bool", "Byte", "SignedChar", "UnsignedShort", "SignedShort", "UnsignedInt",
             "SignedInt", "SignedBigEndianInt", "Float", "UnsignedInt64", "SignedInt64", "Double"}
      /\ \A wire \in DOMAIN FixedWidth : FixedWidth[wire] \in {8, 16, 32, 64}
    BY DEF FixedWidth
<1>2. /\ DOMAIN GroupedWidth = {"UnsignedVarInt", "UnsignedVarInt64"}
      /\ \A wire \in DOMAIN GroupedWidth : GroupedWidth[wire] \in {32, 64}
    BY DEF GroupedWidth
<1>3. /\ DOMAIN ZigZagWidth = {"VarInt", "VarInt64"}
      /\ \A wire \in DOMAIN ZigZagWidth : ZigZagWidth[wire] \in {32, 64}
    BY DEF ZigZagWidth
<1> QED BY <1>1, <1>2, <1>3

LEMMA Widths ==
    ASSUME NEW wire \in NumberWires
    PROVE  WidthOf(wire) \in {8, 16, 32, 64} /\ WidthOf(wire) \in Nat \ {0}
<1>1. wire \in DOMAIN FixedWidth \/ wire \in DOMAIN GroupedWidth \/ wire \in DOMAIN ZigZagWidth
    BY DEF NumberWires
<1>2. ~(wire \in DOMAIN FixedWidth /\ wire \in DOMAIN GroupedWidth)
      /\ ~(wire \in DOMAIN FixedWidth /\ wire \in DOMAIN ZigZagWidth)
      /\ ~(wire \in DOMAIN GroupedWidth /\ wire \in DOMAIN ZigZagWidth)
    BY Layouts
<1>3. \/ wire \in DOMAIN FixedWidth /\ WidthOf(wire) = FixedWidth[wire]
      \/ wire \in DOMAIN GroupedWidth /\ WidthOf(wire) = GroupedWidth[wire]
      \/ wire \in DOMAIN ZigZagWidth /\ WidthOf(wire) = ZigZagWidth[wire]
    BY <1>1, <1>2 DEF WidthOf
<1> QED BY <1>3, Layouts

(* Whatever number is written by whatever primitive of BinaryStream, the     *)
(* primitive of ReadOnlyBinaryStream of that name gets the same bits,        *)
(* whatever follows, and nothing of what follows (BinaryStream.hpp:72-135,   *)
(* ReadOnlyBinaryStream.hpp:129-255); a stream that ends before the number   *)
(* does is refused.                                                          *)
THEOREM NumbersReturn ==
    ASSUME NEW wire \in NumberWires, NEW bits \in Bits(WidthOf(wire)),
           NEW S, Byte \subseteq S, NEW rest \in Seq(S)
    PROVE  /\ WriteNumber(wire, bits) \in Seq(Byte)
           /\ ReadNumber(wire, WriteNumber(wire, bits) \o rest) = Got(bits, rest)
           /\ \A m \in 0 .. Len(WriteNumber(wire, bits)) - 1 :
                 ReadNumber(wire, SubSeq(WriteNumber(wire, bits), 1, m)) = Failed
<1>1. PICK width : width = WidthOf(wire)
    OBVIOUS
<1>2. CASE wire \in DOMAIN GroupedWidth
  <2>1. width \in Nat \ {0}
    BY <1>1, Widths
  <2>2. wire # "SignedBigEndianInt" /\ wire \notin DOMAIN ZigZagWidth
    BY <1>2, Layouts
  <2>3. WriteNumber(wire, bits) = WriteGrouped(bits)
    BY <1>2, <2>2 DEF WriteNumber
  <2>4. \A bytes : ReadNumber(wire, bytes) = ReadGrouped(bytes, width)
    BY <1>1, <1>2, <2>2 DEF ReadNumber
  <2> QED BY <1>1, <2>1, <2>3, <2>4, GroupedReturns
<1>3. CASE wire \in DOMAIN ZigZagWidth
  <2>1. width \in Nat \ {0}
    BY <1>1, Widths
  <2>2. wire # "SignedBigEndianInt" /\ wire \notin DOMAIN GroupedWidth
    BY <1>3, Layouts
  <2>3. PICK temp \in Bits(width) : temp = ZigZag(bits)
    BY <1>1, <2>1, ZigZagBits
  <2>4. UnZigZag(temp) = bits
    BY <1>1, <2>1, <2>3, ZigZagReturns
  <2>5. WriteNumber(wire, bits) = WriteGrouped(temp)
    BY <1>3, <2>2, <2>3 DEF WriteNumber
  <2>6. \A bytes : ReadNumber(wire, bytes) =
                     IF ReadGrouped(bytes, width).ok
                     THEN Got(UnZigZag(ReadGrouped(bytes, width).value),
                              ReadGrouped(bytes, width).rest)
                     ELSE Failed
    BY <1>1, <1>3, <2>2 DEF ReadNumber
  <2>7. /\ WriteGrouped(temp) \in Seq(Byte)
        /\ ReadGrouped(WriteGrouped(temp) \o rest, width) = Got(temp, rest)
        /\ \A m \in 0 .. Len(WriteGrouped(temp)) - 1 :
              ReadGrouped(SubSeq(WriteGrouped(temp), 1, m), width) = Failed
    BY <2>1, GroupedReturns
  <2>8. /\ Got(temp, rest).ok /\ Got(temp, rest).value = temp /\ Got(temp, rest).rest = rest
        /\ ~Failed.ok
    BY DEF Got, Failed
  <2> QED BY <2>4, <2>5, <2>6, <2>7, <2>8
<1>4. CASE wire \in DOMAIN FixedWidth
  <2>1. width \in {8, 16, 32, 64}
    BY <1>1, Widths
  <2>2. PICK n \in Nat : width = 8 * n
    <3>1. \E n \in {1, 2, 4, 8} : width = 8 * n
      BY <2>1
    <3> QED BY <3>1
  <2>3. width \in Nat
    BY <2>1
  <2>4. wire \notin DOMAIN GroupedWidth /\ wire \notin DOMAIN ZigZagWidth
    BY <1>4, Layouts
  <2>5. CASE wire # "SignedBigEndianInt"
    <3>1. WriteNumber(wire, bits) = WriteFixed(bits)
      BY <2>4, <2>5 DEF WriteNumber
    <3>2. \A bytes : ReadNumber(wire, bytes) = ReadFixed(bytes, width)
      BY <1>1, <2>4, <2>5 DEF ReadNumber
    <3> QED BY <1>1, <2>1, <3>1, <3>2, FixedReturns
  <2>6. CASE wire = "SignedBigEndianInt"
    <3>1. PICK temp \in Bits(width) : temp = ByteSwap(bits)
      BY <1>1, <2>2, <2>3, SwappedBits
    <3>2. ByteSwap(temp) = bits
      BY <1>1, <2>2, <2>3, <3>1, SwappedTwice
    <3>3. WriteNumber(wire, bits) = WriteFixed(temp)
      BY <2>4, <2>6, <3>1 DEF WriteNumber
    <3>4. \A bytes : ReadNumber(wire, bytes) =
                       IF ReadFixed(bytes, width).ok
                       THEN Got(ByteSwap(ReadFixed(bytes, width).value),
                                ReadFixed(bytes, width).rest)
                       ELSE Failed
      BY <1>1, <2>4, <2>6 DEF ReadNumber
    <3>5. /\ WriteFixed(temp) \in Seq(Byte)
          /\ ReadFixed(WriteFixed(temp) \o rest, width) = Got(temp, rest)
          /\ \A m \in 0 .. Len(WriteFixed(temp)) - 1 :
                ReadFixed(SubSeq(WriteFixed(temp), 1, m), width) = Failed
      BY <2>1, FixedReturns
    <3>6. /\ Got(temp, rest).ok /\ Got(temp, rest).value = temp /\ Got(temp, rest).rest = rest
          /\ ~Failed.ok
      BY DEF Got, Failed
    <3> QED BY <3>2, <3>3, <3>4, <3>5, <3>6
  <2> QED BY <2>5, <2>6
<1> QED BY <1>2, <1>3, <1>4 DEF NumberWires

-----------------------------------------------------------------------------
(* Bit sets.                                                                 *)
LEMMA BitLength ==
    ASSUME NEW byte \in Byte
    PROVE  /\ BitLength8(byte) \in 0 .. 8
           /\ BitLength8(byte) # 0 => byte[BitLength8(byte)] = 1
           /\ \A b \in 1 .. 8 : byte[b] = 1 => b <= BitLength8(byte)
<1>1. PICK used : used = {i \in 1 .. 8 : byte[i] = 1}
    OBVIOUS
<1>2. PICK width \in Nat : width = 8
    OBVIOUS
<1>3. used \in SUBSET (1 .. width)
    BY <1>1, <1>2
<1>4. BitLength8(byte) = IF used = {} THEN 0 ELSE CHOOSE i \in used : \A j \in used : j <= i
    BY <1>1 DEF BitLength8
<1>5. CASE used = {}
    BY <1>1, <1>4, <1>5
<1>6. CASE used # {}
  <2>1. \E i \in used : \A j \in used : j <= i
    BY <1>3, <1>6, HighestExists
  <2>2. BitLength8(byte) \in used /\ \A j \in used : j <= BitLength8(byte)
    BY <1>4, <1>6, <2>1
  <2> QED BY <1>1, <2>2
<1> QED BY <1>5, <1>6

(* No group reaches past the set, and the last one holds a bit unless it is  *)
(* the only one.                                                             *)
LEMMA GroupsFit ==
    ASSUME NEW width \in Nat \ {0}, NEW bits \in Bits(width), NEW bytes, NEW groups, NEW top,
           Grouped(bits, width, bytes, groups, top)
    PROVE  /\ \A g \in 1 .. groups : 7 * (g - 1) + BitLength8(bytes[g]) <= width
           /\ groups = 1 \/ BitLength8(bytes[groups]) > 0
<1>1. /\ bytes \in Seq(Byte) /\ Len(bytes) = groups /\ groups \in Nat \ {0}
      /\ top \in 1 .. width /\ 7 * (groups - 1) < top /\ top <= 7 * groups
      /\ bits[top] = 1 \/ top = 1
    BY DEF Grouped
<1>2. ASSUME NEW g \in 1 .. groups
      PROVE  7 * (g - 1) + BitLength8(bytes[g]) <= width
  <2>1. PICK byte \in Byte : byte = bytes[g]
    BY <1>1
  <2>2. PICK l \in 0 .. 8 : l = BitLength8(byte) /\ (l # 0 => byte[l] = 1)
    BY BitLength
  <2>3. CASE l = 0
    BY <1>1, <2>1, <2>2, <2>3
  <2>4. CASE l = 8
    <3>1. g < groups
      BY <2>1, <2>2, <2>4 DEF Grouped
    <3>2. 7 * (g - 1) + 8 <= top
      BY <1>1, <3>1
    <3> QED BY <1>1, <2>1, <2>2, <2>4, <3>2
  <2>5. CASE l \in 1 .. 7
    <3>1. byte[l] = 1
      BY <2>2, <2>5
    <3>2. byte[l] = IF 7 * (g - 1) + l <= width THEN bits[7 * (g - 1) + l] ELSE 0
      BY <2>1, <2>5 DEF Grouped
    <3>3. 7 * (g - 1) + l <= width
      BY <3>1, <3>2
    <3> QED BY <2>1, <2>2, <3>3
  <2> QED BY <2>3, <2>4, <2>5
<1>3. ASSUME groups # 1
      PROVE  BitLength8(bytes[groups]) > 0
  <2>1. PICK b : b = top - 7 * (groups - 1)
    OBVIOUS
  <2>2. b \in 1 .. 7 /\ b \in 1 .. 8 /\ 7 * (groups - 1) + b = top /\ top # 1 /\ top <= width
        /\ groups \in 1 .. groups
    BY <1>1, <1>3, <2>1
  <2>3. bytes[groups][b] = 1
    BY <1>1, <2>2 DEF Grouped
  <2>4. bytes[groups] \in Byte
    BY <1>1
  <2>5. b <= BitLength8(bytes[groups]) /\ BitLength8(bytes[groups]) \in 0 .. 8
    BY <2>2, <2>3, <2>4, BitLength
  <2> QED BY <2>2, <2>5
<1> QED BY <1>2, <1>3

(* A bit set of whatever size comes back from readBitset of that size, no    *)
(* group of it refused, with nothing of what follows (BinaryStream.hpp:      *)
(* 214-249, ReadOnlyBinaryStream.hpp:403-457); a stream that ends before the *)
(* set does is refused.                                                      *)
THEOREM BitsetsReturn ==
    ASSUME NEW size \in Nat \ {0}, NEW bits \in Bits(size),
           NEW S, Byte \subseteq S, NEW rest \in Seq(S)
    PROVE  /\ WriteBitset(bits) \in Seq(Byte)
           /\ ReadBitset(WriteBitset(bits) \o rest, size) = Got(bits, rest)
           /\ \A m \in 0 .. Len(WriteBitset(bits)) - 1 :
                 ReadBitset(SubSeq(WriteBitset(bits), 1, m), size) = Failed
<1>1. PICK bytes : bytes = WriteBitset(bits)
    OBVIOUS
<1>2. PICK groups, top : Grouped(bits, size, bytes, groups, top)
    BY <1>1, GroupsWritten DEF WriteBitset
<1>3. bytes \in Seq(Byte) /\ Len(bytes) = groups /\ groups \in Nat \ {0}
    BY <1>2 DEF Grouped
<1>4. bytes \in Seq(S)
    BY <1>3
<1>5. ReadBitset(bytes \o rest, size) = Got(bits, rest)
  <2>1. PICK all : all = bytes \o rest
    OBVIOUS
  <2>2. /\ Len(all) \in Nat /\ groups <= Len(all)
        /\ \A g \in 1 .. groups : all[g] = bytes[g]
    <3>1. Len(all) = Len(bytes) + Len(rest) /\ Len(rest) \in Nat
      BY <1>4, <2>1
    <3>2. \A g \in 1 .. Len(bytes) : all[g] = bytes[g]
      BY <1>4, <2>1
    <3> QED BY <3>1, <3>2, <1>3
  <2>3. After(all, groups) = rest
    BY <1>3, <1>4, <2>1, AfterConcat
  <2>4. /\ FinalGroups(all, size) # {}
        /\ (CHOOSE g \in FinalGroups(all, size) :
              \A h \in FinalGroups(all, size) : g <= h) = groups
        /\ Joined(all, groups, 7, size) = bits
    BY <1>2, <2>2, LastGroup
  <2>5. /\ \A g \in 1 .. groups : 7 * (g - 1) + BitLength8(bytes[g]) <= size
        /\ groups = 1 \/ BitLength8(bytes[groups]) > 0
    BY <1>2, GroupsFit
  <2>6. groups \in 1 .. groups
    BY <1>3
  <2>7. /\ \A g \in 1 .. groups : 7 * (g - 1) + BitLength8(all[g]) <= size
        /\ groups = 1 \/ BitLength8(all[groups]) > 0
    BY <2>2, <2>5, <2>6
  <2>8. PICK final : final = {g \in 1 .. CeilDiv(size, 7) : g <= Len(all) /\ all[g][8] = 0}
    OBVIOUS
  <2>9. final # {} /\ (CHOOSE g \in final : \A h \in final : g <= h) = groups
    BY <2>4, <2>8 DEF FinalGroups
  <2> QED BY <2>1, <2>3, <2>4, <2>7, <2>8, <2>9 DEF ReadBitset
<1>6. ASSUME NEW m \in 0 .. groups - 1
      PROVE  ReadBitset(SubSeq(bytes, 1, m), size) = Failed
  <2>1. PICK cut : cut = SubSeq(bytes, 1, m)
    OBVIOUS
  <2>2. Len(cut) = m /\ m \in Nat /\ m < groups /\ \A g \in 1 .. m : cut[g] = bytes[g]
    BY <1>3, <2>1
  <2>3. FinalGroups(cut, size) = {}
    BY <1>2, <2>2, NoLastGroup
  <2> QED BY <2>1, <2>3 DEF ReadBitset, FinalGroups
<1> QED BY <1>1, <1>3, <1>5, <1>6

-----------------------------------------------------------------------------
(* Strings.                                                                  *)
LEMMA LargestDoubles ==
    ASSUME NEW width \in Nat
    PROVE  /\ Largest(width) \in Nat
           /\ Largest(width + 1) = 2 * Largest(width) + 1
<1>1. PICK few, many : few = [i \in 1 .. width |-> 1] /\ many = [i \in 1 .. width + 1 |-> 1]
    OBVIOUS
<1>2. /\ few \in Seq(Nat) /\ Len(few) = width /\ \A i \in 1 .. width : few[i] = 1
      /\ many \in Seq(Nat) /\ Len(many) = width + 1 /\ \A i \in 1 .. width + 1 : many[i] = 1
  <2>1. 1 \in Nat /\ width + 1 \in Nat
    OBVIOUS
  <2>2. few \in [1 .. width -> Nat] /\ many \in [1 .. width + 1 -> Nat]
    BY <1>1, <2>1
  <2> QED BY <1>1, <2>1, <2>2
<1>3. PICK low \in [0 .. width -> Nat] :
            /\ low[0] = 0
            /\ \A i \in 1 .. width : low[i] = 2 * low[i - 1] + few[width + 1 - i]
            /\ NumberOf(few) = low[width]
    BY <1>2, SumsExist
<1>4. PICK high \in [0 .. width + 1 -> Nat] :
            /\ high[0] = 0
            /\ \A i \in 1 .. width + 1 : high[i] = 2 * high[i - 1] + many[width + 1 + 1 - i]
            /\ NumberOf(many) = high[width + 1]
    BY <1>2, SumsExist
<1> DEFINE T == {i \in Nat : i <= width => low[i] = high[i]}
<1>5. 0 \in T
    BY <1>3, <1>4
<1>6. ASSUME NEW i \in T
      PROVE  i + 1 \in T
  <2>1. SUFFICES ASSUME i + 1 <= width PROVE low[i + 1] = high[i + 1]
    OBVIOUS
  <2>2. /\ i + 1 \in 1 .. width /\ i + 1 \in 1 .. width + 1 /\ i + 1 - 1 = i
        /\ width + 1 - (i + 1) \in 1 .. width /\ width + 1 + 1 - (i + 1) \in 1 .. width + 1
    BY <2>1
  <2>3. low[i + 1] = 2 * low[i] + 1
    BY <1>2, <1>3, <2>2
  <2>4. high[i + 1] = 2 * high[i] + 1
    BY <1>2, <1>4, <2>2
  <2>5. low[i] = high[i]
    BY <2>1
  <2> QED BY <2>3, <2>4, <2>5
<1>7. width \in T
    BY <1>5, <1>6, NumberInduction
<1>8. low[width] = high[width] /\ low[width] \in Nat
    BY <1>7
<1>9. width + 1 \in 1 .. width + 1 /\ width + 1 - 1 = width /\ width + 1 + 1 - (width + 1) = 1
      /\ 1 \in 1 .. width + 1
    OBVIOUS
<1>10. high[width + 1] = 2 * high[width] + 1
    BY <1>2, <1>4, <1>9
<1>11. Largest(width) = low[width] /\ Largest(width + 1) = high[width + 1]
    BY <1>1, <1>3, <1>4 DEF Largest
<1> QED BY <1>8, <1>10, <1>11

LEMMA LargestGrows ==
    ASSUME NEW width \in Nat, NEW more \in Nat
    PROVE  Largest(width) <= Largest(width + more)
<1> DEFINE T == {k \in Nat : Largest(width) <= Largest(width + k)}
<1>1. 0 \in T
  <2>1. width + 0 = width /\ Largest(width) \in Nat
    BY LargestDoubles
  <2> QED BY <2>1
<1>2. ASSUME NEW k \in T
      PROVE  k + 1 \in T
  <2>1. PICK w \in Nat : w = width + k
    OBVIOUS
  <2>2. /\ Largest(w) \in Nat /\ Largest(width) \in Nat
        /\ Largest(w + 1) = 2 * Largest(w) + 1
    BY LargestDoubles
  <2>3. Largest(width) <= Largest(w + 1)
    BY <2>1, <2>2
  <2>4. width + (k + 1) = w + 1
    BY <2>1
  <2> QED BY <2>3, <2>4
<1>3. more \in T
    BY <1>1, <1>2, NumberInduction
<1> QED BY <1>3

(* A string of bytes, as long as its length can say, comes back from the     *)
(* read of its kind with nothing of what follows (BinaryStream.hpp:137-153,  *)
(* ReadOnlyBinaryStream.hpp:257-298), and a stream that ends in its length   *)
(* or in its bytes is refused.                                               *)
THEOREM TextsReturn ==
    ASSUME NEW wire \in DOMAIN LengthWire, NEW text \in Seq(Byte),
           Len(text) <= Largest(IF wire = "LongString" THEN 31 ELSE 32),
           NEW S, Byte \subseteq S, NEW rest \in Seq(S)
    PROVE  /\ WriteText(wire, text) \in Seq(Byte)
           /\ ReadText(wire, WriteText(wire, text) \o rest) = Got(text, rest)
           /\ \A m \in 0 .. Len(WriteText(wire, text)) - 1 :
                 ReadText(wire, SubSeq(WriteText(wire, text), 1, m)) = Failed
<1>1. PICK width \in Nat : width = 32
    OBVIOUS
<1>2. PICK number : number = LengthWire[wire]
    OBVIOUS
<1>3. number \in NumberWires /\ WidthOf(number) = width
  <2>1. number = "UnsignedVarInt" \/ number = "SignedInt"
    BY <1>2 DEF LengthWire
  <2>2. CASE number = "UnsignedVarInt"
    <3>1. number \notin DOMAIN FixedWidth /\ number \in DOMAIN GroupedWidth
      BY <2>2, Layouts
    <3>2. GroupedWidth[number] = width
      BY <1>1, <2>2 DEF GroupedWidth
    <3>3. number \notin DOMAIN ZigZagWidth
      BY <2>2, Layouts
    <3> QED BY <3>1, <3>2, <3>3 DEF NumberWires, WidthOf
  <2>3. CASE number = "SignedInt"
    <3>1. number \in DOMAIN FixedWidth /\ number \notin DOMAIN GroupedWidth
          /\ number \notin DOMAIN ZigZagWidth
      BY <2>3, Layouts
    <3>2. FixedWidth[number] = width
      BY <1>1, <2>3 DEF FixedWidth
    <3> QED BY <3>1, <3>2 DEF NumberWires, WidthOf
  <2> QED BY <2>1, <2>2, <2>3
<1>4. Len(text) \in Nat
    OBVIOUS
<1>5. PICK length \in Bits(width) : length = BitsOf(Len(text), width)
    BY <1>4, BitsType DEF Bits
<1>6. NumberOf(length) = Len(text) /\ ~(wire = "LongString" /\ length[width] = 1)
  <2>1. PICK less \in Nat : less = 31
    OBVIOUS
  <2>2. width = less + 1 /\ width - 1 = less /\ width \in Nat \ {0}
    BY <1>1, <2>1
  <2>3. Largest(less) <= Largest(width) /\ Largest(less) \in Nat /\ Largest(width) \in Nat
    BY <2>2, LargestGrows, LargestDoubles
  <2>4. wire = "LongString" => Len(text) <= Largest(less)
    BY <2>1
  <2>5. wire # "LongString" => Len(text) <= Largest(width)
    BY <1>1
  <2>6. Len(text) <= Largest(width)
    BY <1>4, <2>3, <2>4, <2>5
  <2>7. NumberOf(length) = Len(text)
    BY <1>4, <1>5, <2>6, NumberReturns
  <2>8. wire = "LongString" => length[width] = 0
    BY <1>4, <1>5, <2>2, <2>4, NoSign
  <2> QED BY <2>7, <2>8
<1>7. PICK head : head = WriteNumber(number, length)
    OBVIOUS
<1>8. head \in Seq(Byte) /\ Len(head) \in Nat
    BY <1>3, <1>7, NumbersReturn
<1>9. \A next \in Seq(S) : ReadNumber(number, head \o next) = Got(length, next)
    BY <1>3, <1>7, NumbersReturn
<1>10. \A m \in 0 .. Len(head) - 1 : ReadNumber(number, SubSeq(head, 1, m)) = Failed
    BY <1>3, <1>7, NumbersReturn
<1>11. PICK bytes \in Seq(Byte) : bytes = head \o text
  <2>1. head \o text \in Seq(Byte)
    BY <1>8
  <2> QED BY <2>1
<1>12. bytes = WriteText(wire, text)
    BY <1>1, <1>2, <1>5, <1>7, <1>11 DEF WriteText
<1>13. head \in Seq(S) /\ text \in Seq(S)
    BY <1>8
<1>14. ASSUME NEW next
       PROVE  /\ Got(length, next).ok /\ Got(length, next).value = length
              /\ Got(length, next).rest = next
    BY DEF Got
<1>15. ReadText(wire, bytes \o rest) = Got(text, rest)
  <2>1. PICK next \in Seq(S) : next = text \o rest
    <3>1. text \o rest \in Seq(S)
      BY <1>13
    <3> QED BY <3>1
  <2>2. bytes \o rest = head \o next
    BY <1>11, <1>13, <2>1
  <2>3. ReadNumber(number, bytes \o rest) = Got(length, next)
    BY <1>9, <2>2
  <2>4. ~(Len(text) > Len(next))
    <3>1. Len(next) = Len(text) + Len(rest) /\ Len(rest) \in Nat
      BY <1>13, <2>1
    <3> QED BY <1>4, <3>1
  <2>5. SubSeq(next, 1, Len(text)) = text
    <3>1. Len(text) \in 0 .. Len(text)
      BY <1>4
    <3>2. SubSeq(next, 1, Len(text)) = SubSeq(text, 1, Len(text))
      BY <1>13, <2>1, <3>1, CutFirst
    <3>3. SubSeq(text, 1, Len(text)) = text
      OBVIOUS
    <3> QED BY <3>2, <3>3
  <2>6. After(next, Len(text)) = rest
    BY <1>13, <2>1, AfterConcat
  <2>7. PICK read : read = Got(length, next)
    OBVIOUS
  <2>8. read.ok /\ read.value = length /\ read.rest = next
    BY <1>14, <2>7
  <2>9. ReadText(wire, bytes \o rest) =
           LET n == NumberOf(read.value)
           IN  IF ~read.ok \/ (wire = "LongString" /\ read.value[width] = 1)
                  \/ n > Len(read.rest) THEN Failed
               ELSE Got(SubSeq(read.rest, 1, n), After(read.rest, n))
    BY <1>1, <1>2, <2>3, <2>7 DEF ReadText
  <2> QED BY <1>6, <2>4, <2>5, <2>6, <2>8, <2>9
<1>16. ASSUME NEW m \in 0 .. Len(bytes) - 1
       PROVE  ReadText(wire, SubSeq(bytes, 1, m)) = Failed
  <2>1. Len(bytes) = Len(head) + Len(text)
    BY <1>8, <1>11
  <2>2. CASE m < Len(head)
    <3>1. m \in 0 .. Len(head) /\ m \in 0 .. Len(head) - 1
      BY <1>8, <2>2
    <3>2. SubSeq(bytes, 1, m) = SubSeq(head, 1, m)
      BY <1>8, <1>11, <3>1, CutFirst
    <3>3. ReadNumber(number, SubSeq(bytes, 1, m)) = Failed
      BY <1>10, <3>1, <3>2
    <3>4. ~Failed.ok
      BY DEF Failed
    <3> QED BY <1>2, <3>3, <3>4 DEF ReadText
  <2>3. CASE ~(m < Len(head))
    <3>1. PICK k : k = m - Len(head)
      OBVIOUS
    <3>2. k \in 0 .. Len(text) /\ k < Len(text) /\ m = Len(head) + k /\ k \in Nat
      BY <1>4, <1>8, <2>1, <2>3, <3>1
    <3>3. PICK next : next = SubSeq(text, 1, k)
      OBVIOUS
    <3>4. next \in Seq(Byte) /\ Len(next) = k
      BY <1>4, <3>2, <3>3
    <3>5. next \in Seq(S)
      BY <3>4
    <3>6. SubSeq(bytes, 1, m) = head \o next
      BY <1>8, <1>11, <3>2, <3>3, CutSecond
    <3>7. ReadNumber(number, SubSeq(bytes, 1, m)) = Got(length, next)
      BY <1>9, <3>5, <3>6
    <3>8. NumberOf(Got(length, next).value) > Len(Got(length, next).rest)
      BY <1>4, <1>6, <1>14, <3>2, <3>4
    <3> QED BY <1>2, <3>7, <3>8 DEF ReadText
  <2> QED BY <2>2, <2>3
<1> QED BY <1>11, <1>12, <1>15, <1>16

-----------------------------------------------------------------------------
(* Headers of packets.                                                       *)
LEMMA TwoMoreBits ==
    ASSUME NEW w \in Nat, NEW k \in Nat, Largest(w) >= k
    PROVE  Largest(w + 2) >= 4 * k + 3
<1>1. w + 1 \in Nat /\ w + 1 + 1 = w + 2
    OBVIOUS
<1>2. Largest(w + 2) = 2 * Largest(w + 1) + 1
    BY <1>1, LargestDoubles
<1>3. Largest(w + 1) = 2 * Largest(w) + 1 /\ Largest(w) \in Nat
    BY LargestDoubles
<1> QED BY <1>2, <1>3

LEMMA EightBits == Largest(8) >= 255
<1>1. Largest(0) >= 0
  <2>1. Largest(0) \in Nat
    BY LargestDoubles
  <2> QED BY <2>1
<1>2. Largest(0 + 2) >= 4 * 0 + 3
    BY <1>1, TwoMoreBits
<1>3. Largest(2) >= 3
    BY <1>2
<1>4. Largest(2 + 2) >= 4 * 3 + 3
    BY <1>3, TwoMoreBits
<1>5. Largest(4) >= 15
    BY <1>4
<1>6. Largest(4 + 2) >= 4 * 15 + 3
    BY <1>5, TwoMoreBits
<1>7. Largest(6) >= 63
    BY <1>6
<1>8. Largest(6 + 2) >= 4 * 63 + 3
    BY <1>7, TwoMoreBits
<1> QED BY <1>8

LEMMA FourteenBits ==
    ASSUME NEW n \in Nat, n < 16384
    PROVE  n <= Largest(32)
<1>1. Largest(8 + 2) >= 4 * 255 + 3
    BY EightBits, TwoMoreBits
<1>2. Largest(10) >= 1023
    BY <1>1
<1>3. Largest(10 + 2) >= 4 * 1023 + 3
    BY <1>2, TwoMoreBits
<1>4. Largest(12) >= 4095
    BY <1>3
<1>5. Largest(12 + 2) >= 4 * 4095 + 3
    BY <1>4, TwoMoreBits
<1>6. Largest(14) >= 16383
    BY <1>5
<1>7. Largest(14) <= Largest(14 + 18)
    BY LargestGrows
<1>8. Largest(14) \in Nat /\ Largest(32) \in Nat
    BY LargestDoubles
<1>9. Largest(14) <= Largest(32)
    BY <1>7
<1> QED BY <1>6, <1>8, <1>9

(* A header that writeHeader writes (IPacket.cpp:17-24) is taken apart by    *)
(* readPacketHeader (MinecraftPackets.cpp:266-276) into the same id and      *)
(* sub-clients, with nothing of the packet behind it.                        *)
THEOREM HeadersReturn ==
    ASSUME NEW id \in Nat, id < 1024, NEW sender \in Nat, sender < 4,
           NEW target \in Nat, target < 4,
           NEW S, Byte \subseteq S, NEW rest \in Seq(S)
    PROVE  ReadHeader(WriteHeader(id, sender, target) \o rest) =
              Got([mPacketId |-> id, mSenderSubClientId |-> sender,
                   mTargetSubClientId |-> target], rest)
<1>1. PICK header : header = (id % 1024) + 1024 * (sender % 4) + 4096 * (target % 4)
    OBVIOUS
<1>2. id % 1024 = id /\ sender % 4 = sender /\ target % 4 = target
    OBVIOUS
<1>3. header = id + 1024 * sender + 4096 * target
    BY <1>1, <1>2
<1>4. header \in Nat /\ header < 16384
    BY <1>3
<1>5. header % 1024 = id /\ (header \div 1024) % 4 = sender /\ (header \div 4096) % 4 = target
  <2>1. header % 1024 = id
    BY <1>3
  <2>2. header \div 1024 = sender + 4 * target
    BY <1>3
  <2>3. (header \div 1024) % 4 = sender
    BY <2>2
  <2>4. header \div 4096 = target
    BY <1>3
  <2>5. (header \div 4096) % 4 = target
    BY <2>4
  <2> QED BY <2>1, <2>3, <2>5
<1>6. PICK width \in Nat : width = 32
    OBVIOUS
<1>7. PICK wire : wire = "UnsignedVarInt"
    OBVIOUS
<1>8. wire \in NumberWires /\ WidthOf(wire) = width
  <2>1. wire \notin DOMAIN FixedWidth /\ wire \in DOMAIN GroupedWidth
    BY <1>7, Layouts
  <2>2. GroupedWidth[wire] = width
    BY <1>6, <1>7 DEF GroupedWidth
  <2>3. wire \notin DOMAIN ZigZagWidth
    BY <1>7, Layouts
  <2> QED BY <2>1, <2>2, <2>3 DEF NumberWires, WidthOf
<1>9. PICK bits \in Bits(width) : bits = BitsOf(header, width)
    BY <1>4, BitsType DEF Bits
<1>10. NumberOf(bits) = header
  <2>1. header <= Largest(width)
    BY <1>4, <1>6, FourteenBits
  <2> QED BY <1>4, <1>9, <2>1, NumberReturns
<1>11. WriteHeader(id, sender, target) = WriteNumber(wire, bits)
    BY <1>1, <1>6, <1>7, <1>9 DEF WriteHeader
<1>12. ReadNumber(wire, WriteHeader(id, sender, target) \o rest) = Got(bits, rest)
    BY <1>8, <1>11, NumbersReturn
<1>13. PICK read : read = Got(bits, rest)
    OBVIOUS
<1>14. read.ok /\ read.value = bits /\ read.rest = rest
    BY <1>13 DEF Got
<1>15. PICK bytes : bytes = WriteHeader(id, sender, target) \o rest
    OBVIOUS
<1>16. ReadHeader(bytes) =
          Got([mPacketId |-> header % 1024, mSenderSubClientId |-> (header \div 1024) % 4,
               mTargetSubClientId |-> (header \div 4096) % 4], read.rest)
    BY <1>7, <1>10, <1>12, <1>13, <1>14, <1>15 DEF ReadHeader
<1> QED BY <1>5, <1>14, <1>15, <1>16

-----------------------------------------------------------------------------
(* Batches of packets.                                                       *)

(* A string that is read takes at least a byte away.                         *)
LEMMA TextShortens ==
    ASSUME NEW bytes \in Seq(Byte), ReadText("String", bytes).ok
    PROVE  /\ ReadText("String", bytes).rest \in Seq(Byte)
           /\ Len(ReadText("String", bytes).rest) < Len(bytes)
<1>1. PICK width \in Nat : width = 32
    OBVIOUS
<1>2. PICK length : length = ReadGrouped(bytes, width)
    OBVIOUS
<1>3. \A wire : wire = "UnsignedVarInt" =>
         /\ wire \in DOMAIN GroupedWidth /\ wire # "SignedBigEndianInt"
         /\ wire \notin DOMAIN ZigZagWidth /\ wire \notin DOMAIN FixedWidth
    BY Layouts
<1>4. ReadNumber("UnsignedVarInt", bytes) = length
  <2>1. PICK wire : wire = "UnsignedVarInt"
    OBVIOUS
  <2>2. WidthOf(wire) = width
    <3>1. GroupedWidth[wire] = width
      BY <1>1, <2>1 DEF GroupedWidth
    <3> QED BY <1>3, <2>1, <3>1 DEF WidthOf
  <2>3. ReadNumber(wire, bytes) = ReadGrouped(bytes, WidthOf(wire))
    BY <1>3, <2>1 DEF ReadNumber
  <2> QED BY <1>2, <2>1, <2>2, <2>3
<1>5. /\ length.ok /\ ~(NumberOf(length.value) > Len(length.rest))
      /\ ReadText("String", bytes).rest = After(length.rest, NumberOf(length.value))
  <2>1. LengthWire["String"] = "UnsignedVarInt"
    BY DEF LengthWire
  <2>2. PICK text : text = ReadText("String", bytes)
    OBVIOUS
  <2>3. text = IF \/ ~length.ok \/ ("String" = "LongString" /\ length.value[32] = 1)
                  \/ NumberOf(length.value) > Len(length.rest) THEN Failed
               ELSE Got(SubSeq(length.rest, 1, NumberOf(length.value)),
                        After(length.rest, NumberOf(length.value)))
    BY <1>4, <2>1, <2>2 DEF ReadText
  <2>4. ~Failed.ok /\ text.ok
    BY <2>2 DEF Failed
  <2>5. /\ length.ok /\ ~(NumberOf(length.value) > Len(length.rest))
        /\ text = Got(SubSeq(length.rest, 1, NumberOf(length.value)),
                      After(length.rest, NumberOf(length.value)))
    BY <2>3, <2>4
  <2> QED BY <2>2, <2>5 DEF Got
<1>6. PICK final : final = {g \in 1 .. CeilDiv(width, 7) : g <= Len(bytes) /\ bytes[g][8] = 0}
    OBVIOUS
<1>7. PICK groups : groups = CHOOSE g \in final : \A h \in final : g <= h
    OBVIOUS
<1>8. /\ final # {}
      /\ length.value = Joined(bytes, groups, 7, width)
      /\ length.rest = After(bytes, groups)
  <2>1. ~Failed.ok
    BY DEF Failed
  <2>2. final # {} /\ length = Got(Joined(bytes, groups, 7, width), After(bytes, groups))
    BY <1>2, <1>5, <1>6, <1>7, <2>1 DEF ReadGrouped
  <2> QED BY <2>2 DEF Got
<1>9. groups \in Nat \ {0} /\ groups <= Len(bytes)
  <2>1. final \in SUBSET Nat
    BY <1>6
  <2>2. \E g \in final : \A h \in final : g <= h
    BY <1>8, <2>1, LeastNumber
  <2>3. groups \in final
    BY <1>7, <2>2
  <2> QED BY <1>6, <2>3
<1>10. length.value \in Seq(Nat)
  <2>1. ASSUME NEW i \in 1 .. width, i <= 7 * groups
        PROVE  bytes[((i - 1) \div 7) + 1][((i - 1) % 7) + 1] \in Nat
    <3>1. PICK g, b : g = ((i - 1) \div 7) + 1 /\ b = ((i - 1) % 7) + 1
      OBVIOUS
    <3>2. g \in 1 .. groups /\ b \in 1 .. 8
      BY <1>9, <2>1, <3>1
    <3>3. g \in 1 .. Len(bytes)
      BY <1>9, <3>2
    <3>4. bytes[g] \in Byte
      BY <3>3
    <3>5. bytes[g][b] \in {0, 1}
      BY <3>2, <3>4 DEF Byte, Bits
    <3> QED BY <3>1, <3>5
  <2>2. length.value = [i \in 1 .. width |->
           IF i <= 7 * groups THEN bytes[((i - 1) \div 7) + 1][((i - 1) % 7) + 1] ELSE 0]
    BY <1>8 DEF Joined
  <2>3. length.value \in [1 .. width -> Nat]
    BY <2>1, <2>2
  <2> QED BY <2>3
<1>11. length.rest \in Seq(Byte) /\ Len(length.rest) = Len(bytes) - groups
  <2>1. After(bytes, groups) = SubSeq(bytes, groups + 1, Len(bytes))
    BY DEF After
  <2> QED BY <1>8, <1>9, <2>1
<1>12. PICK n \in Nat : n = NumberOf(length.value)
    BY <1>10, NumberOfIsNatural
<1>13. n <= Len(length.rest) /\ Len(length.rest) \in Nat
    BY <1>5, <1>11, <1>12
<1>14. PICK rest : rest = After(length.rest, n)
    OBVIOUS
<1>15. rest \in Seq(Byte) /\ Len(rest) = Len(length.rest) - n
  <2>1. rest = SubSeq(length.rest, n + 1, Len(length.rest))
    BY <1>14 DEF After
  <2> QED BY <1>11, <1>13, <2>1
<1> QED BY <1>5, <1>9, <1>11, <1>12, <1>13, <1>14, <1>15

(* What deserializeBatchPackets has read from every place the read pointer   *)
(* can be at, where first is the packet that starts there and next where it  *)
(* ends.                                                                     *)
ReadFrom(from, N, first, next) ==
    from = [m \in 0 .. N |->
              IF m = N THEN Got(<<>>, <<>>)
              ELSE IF ~first[m].ok \/ ~from[next[m]].ok THEN Failed
              ELSE Got(<<first[m].value>> \o from[next[m]].value, <<>>)]
Advances(N, first, next) == \A m \in 0 .. N - 1 : first[m].ok => next[m] \in m + 1 .. N

LEMMA ReadFromExists ==
    ASSUME NEW N \in Nat, NEW first, NEW next, Advances(N, first, next)
    PROVE  \E from : ReadFrom(from, N, first, next)
<1> DEFINE At(f, m) == IF m = N THEN Got(<<>>, <<>>)
                       ELSE IF ~first[m].ok \/ ~f[next[m]].ok THEN Failed
                       ELSE Got(<<first[m].value>> \o f[next[m]].value, <<>>)
           Has(k) == \E f : \A m \in N - k .. N : f[m] = At(f, m)
           T == {k \in Nat : k <= N => Has(k)}
<1>1. \A f, g, m : (m = N \/ ~first[m].ok \/ f[next[m]] = g[next[m]]) => At(f, m) = At(g, m)
    OBVIOUS
<1> HIDE DEF At
<1>2. 0 \in T
  <2>1. PICK f : f = [m \in 0 .. N |-> At(<<>>, m)]
    OBVIOUS
  <2>2. \A m \in N - 0 .. N : m = N /\ m \in 0 .. N
    OBVIOUS
  <2>3. \A m \in N - 0 .. N : f[m] = At(f, m)
    BY <2>1, <2>2, <1>1
  <2> QED BY <2>3
<1>3. ASSUME NEW k \in T
      PROVE  k + 1 \in T
  <2>1. SUFFICES ASSUME k + 1 <= N PROVE Has(k + 1)
    OBVIOUS
  <2>2. PICK f : \A m \in N - k .. N : f[m] = At(f, m)
    BY <2>1
  <2>3. PICK low : low = N - (k + 1)
    OBVIOUS
  <2>4. low \in 0 .. N - 1 /\ N - k = low + 1 /\ low \in Nat /\ low < N
    BY <2>1, <2>3
  <2>5. PICK g : g = [m \in 0 .. N |-> IF m = low THEN At(f, low) ELSE f[m]]
    OBVIOUS
  <2>6. \A m \in low + 1 .. N : m \in 0 .. N /\ m # low
    BY <2>4
  <2>7. \A m \in low + 1 .. N : g[m] = f[m]
    BY <2>5, <2>6
  <2>8. ASSUME NEW m \in low .. N
        PROVE  g[m] = At(g, m)
    <3>1. m = N \/ ~first[m].ok \/ next[m] \in low + 1 .. N
      <4>1. SUFFICES ASSUME m # N, first[m].ok PROVE next[m] \in low + 1 .. N
        OBVIOUS
      <4>2. m \in 0 .. N - 1
        BY <2>4, <4>1
      <4>3. next[m] \in m + 1 .. N
        BY <4>1, <4>2 DEF Advances
      <4> QED BY <4>3, <2>4
    <3>2. At(f, m) = At(g, m)
      BY <3>1, <2>7, <1>1
    <3>3. CASE m = low
      <4>1. low \in 0 .. N
        BY <2>4
      <4>2. g[low] = At(f, low)
        BY <4>1, <2>5
      <4> QED BY <4>2, <3>2, <3>3
    <3>4. CASE m # low
      <4>1. m \in low + 1 .. N
        BY <3>4, <2>4
      <4> QED BY <4>1, <3>2, <2>2, <2>4, <2>7
    <3> QED BY <3>3, <3>4
  <2> QED BY <2>3, <2>8
<1>4. N \in T
    BY <1>2, <1>3, NumberInduction
<1>5. PICK f : \A m \in N - N .. N : f[m] = At(f, m)
    BY <1>4
<1>6. PICK from : from = [m \in 0 .. N |-> f[m]]
    OBVIOUS
<1>7. ASSUME NEW m \in 0 .. N
      PROVE  from[m] = At(from, m)
  <2>1. m = N \/ ~first[m].ok \/ next[m] \in 0 .. N
    <3>1. SUFFICES ASSUME m # N, first[m].ok PROVE next[m] \in 0 .. N
      OBVIOUS
    <3>2. m \in 0 .. N - 1
      BY <3>1
    <3>3. next[m] \in m + 1 .. N
      BY <3>1, <3>2 DEF Advances
    <3> QED BY <3>3
  <2>2. At(f, m) = At(from, m)
    BY <2>1, <1>1, <1>6
  <2>3. m \in N - N .. N
    OBVIOUS
  <2> QED BY <2>2, <2>3, <1>5, <1>6
<1>8. from = [m \in 0 .. N |-> At(from, m)]
    BY <1>6, <1>7
<1> QED BY <1>8 DEF At, ReadFrom

LEMMA PacketsReadFrom ==
    ASSUME NEW bytes \in Seq(Byte), NEW N \in Nat, N = Len(bytes)
    PROVE  \E from, first, next :
              /\ ReadFrom(from, N, first, next)
              /\ first = [m \in 0 .. N |-> ReadText("String", After(bytes, m))]
              /\ next = [m \in 0 .. N |-> N - Len(first[m].rest)]
              /\ ReadPackets(bytes) = from[0]
<1>1. PICK first : first = [m \in 0 .. N |-> ReadText("String", After(bytes, m))]
    OBVIOUS
<1>2. PICK next : next = [m \in 0 .. N |-> N - Len(first[m].rest)]
    OBVIOUS
<1>3. Advances(N, first, next)
  <2>1. ASSUME NEW m \in 0 .. N - 1, first[m].ok
        PROVE  next[m] \in m + 1 .. N
    <3>1. PICK rest : rest = After(bytes, m)
      OBVIOUS
    <3>2. m \in 0 .. N /\ m \in Nat /\ m < N
      OBVIOUS
    <3>3. rest \in Seq(Byte) /\ Len(rest) = N - m
      <4>1. rest = SubSeq(bytes, m + 1, Len(bytes))
        BY <3>1 DEF After
      <4> QED BY <4>1, <3>2
    <3>4. first[m] = ReadText("String", rest)
      BY <1>1, <3>1, <3>2
    <3>5. first[m].rest \in Seq(Byte) /\ Len(first[m].rest) < Len(rest)
      BY <2>1, <3>3, <3>4, TextShortens
    <3>6. Len(first[m].rest) \in Nat
      BY <3>5
    <3>7. next[m] = N - Len(first[m].rest)
      BY <1>2, <3>2
    <3> QED BY <3>2, <3>3, <3>5, <3>6, <3>7
  <2> QED BY <2>1 DEF Advances
<1> DEFINE From == CHOOSE from : from =
              [m \in 0 .. Len(bytes) |->
                 LET text == ReadText("String", After(bytes, m))
                     more == from[Len(bytes) - Len(text.rest)]
                 IN  IF m = Len(bytes) THEN Got(<<>>, <<>>)
                     ELSE IF ~text.ok \/ ~more.ok THEN Failed
                     ELSE Got(<<text.value>> \o more.value, <<>>)]
<1>4. ReadPackets(bytes) = From[0]
    BY DEF ReadPackets
<1>5. ASSUME NEW from
      PROVE  ReadFrom(from, N, first, next) <=>
                from = [m \in 0 .. Len(bytes) |->
                 LET text == ReadText("String", After(bytes, m))
                     more == from[Len(bytes) - Len(text.rest)]
                 IN  IF m = Len(bytes) THEN Got(<<>>, <<>>)
                     ELSE IF ~text.ok \/ ~more.ok THEN Failed
                     ELSE Got(<<text.value>> \o more.value, <<>>)]
  <2>1. \A m \in 0 .. N : first[m] = ReadText("String", After(bytes, m))
    BY <1>1
  <2>2. \A m \in 0 .. N : next[m] = Len(bytes) - Len(ReadText("String", After(bytes, m)).rest)
    BY <1>2, <2>1
  <2> QED BY <2>1, <2>2 DEF ReadFrom
<1>6. \E from : ReadFrom(from, N, first, next)
    BY <1>3, ReadFromExists
<1>7. ReadFrom(From, N, first, next)
    BY <1>5, <1>6
<1> HIDE DEF From
<1> QED BY <1>1, <1>2, <1>4, <1>7

(* The packets behind each other: what is written before each of them.       *)
FirstBytes(pre, texts, n) ==
    /\ pre \in [0 .. n -> Seq(Byte)] /\ pre[0] = <<>>
    /\ \A k \in 1 .. n : pre[k] = pre[k - 1] \o texts[k]

LEMMA FlattenedTexts ==
    ASSUME NEW n \in Nat, NEW texts \in [1 .. n -> Seq(Byte)]
    PROVE  \E pre : FirstBytes(pre, texts, n) /\ FlattenSeq(texts) = pre[n]
<1>1. PICK step : step = [x \in Nat \X Seq(Byte) |->
                            IF x[1] \in 1 .. n THEN x[2] \o texts[x[1]] ELSE x[2]]
    OBVIOUS
<1>2. step \in [Nat \X Seq(Byte) -> Seq(Byte)]
  <2>1. ASSUME NEW x \in Nat \X Seq(Byte)
        PROVE  (IF x[1] \in 1 .. n THEN x[2] \o texts[x[1]] ELSE x[2]) \in Seq(Byte)
    <3>1. x[2] \in Seq(Byte) /\ (x[1] \in 1 .. n => texts[x[1]] \in Seq(Byte))
      OBVIOUS
    <3> QED BY <3>1
  <2> QED BY <1>1, <2>1
<1>3. PICK base \in Seq(Byte) : base = <<>>
  <2>1. <<>> \in Seq(Byte)
    OBVIOUS
  <2> QED BY <2>1
<1>4. PICK pre \in [0 .. n -> Seq(Byte)] : Steps(pre, base, step, n)
    BY <1>2, StepsExist
<1>5. \A k \in 0 .. n : pre[k] = IF k = 0 THEN base ELSE step[<<k, pre[k - 1]>>]
    BY <1>4 DEF Steps
<1>6. ASSUME NEW k \in 1 .. n
      PROVE  pre[k] = pre[k - 1] \o texts[k]
  <2>1. k \in 0 .. n /\ k # 0 /\ k \in Nat /\ k - 1 \in 0 .. n
    OBVIOUS
  <2>2. <<k, pre[k - 1]>> \in Nat \X Seq(Byte)
    BY <2>1
  <2>3. step[<<k, pre[k - 1]>>] = pre[k - 1] \o texts[k]
    BY <1>1, <2>2
  <2> QED BY <1>5, <2>1, <2>3
<1>7. pre[0] = <<>>
  <2>1. 0 \in 0 .. n
    OBVIOUS
  <2> QED BY <2>1, <1>3, <1>5
<1>8. FirstBytes(pre, texts, n)
    BY <1>6, <1>7 DEF FirstBytes
<1>9. FlattenSeq(texts) = pre[n]
  <2>1. Len(texts) = n /\ texts \in Seq(Seq(Byte))
    OBVIOUS
  <2>2. CASE n = 0
    <3>1. texts = <<>>
      BY <2>1, <2>2, EmptySeq
    <3>2. FlattenSeq(texts) = texts
      BY <2>1, <2>2 DEF FlattenSeq
    <3> QED BY <1>7, <2>2, <3>1, <3>2
  <2>3. CASE n # 0
    <3> DEFINE Flat == CHOOSE flatten : flatten =
                  [i \in 1 .. Len(texts) |->
                     IF i = 1 THEN texts[i] ELSE flatten[i - 1] \o texts[i]]
    <3>1. FlattenSeq(texts) = Flat[n]
      BY <2>1, <2>3 DEF FlattenSeq
    <3>2. PICK f : f = [i \in 1 .. n |-> pre[i]]
      OBVIOUS
    <3>3. ASSUME NEW i \in 1 .. n
          PROVE  pre[i] = IF i = 1 THEN texts[i] ELSE f[i - 1] \o texts[i]
      <4>1. CASE i = 1
        <5>1. pre[i] = pre[i - 1] \o texts[i] /\ i - 1 = 0
          BY <1>6, <4>1
        <5>2. pre[i] = <<>> \o texts[i]
          BY <1>7, <5>1
        <5>3. texts[i] \in Seq(Byte)
          OBVIOUS
        <5>4. <<>> \o texts[i] = texts[i]
          BY <5>3
        <5> QED BY <4>1, <5>2, <5>4
      <4>2. CASE i # 1
        <5>1. i - 1 \in 1 .. n
          BY <4>2
        <5> QED BY <4>2, <5>1, <1>6, <3>2
      <4> QED BY <4>1, <4>2
    <3>4. f = [i \in 1 .. n |-> IF i = 1 THEN texts[i] ELSE f[i - 1] \o texts[i]]
      BY <3>2, <3>3
    <3>5. Flat = [i \in 1 .. n |-> IF i = 1 THEN texts[i] ELSE Flat[i - 1] \o texts[i]]
      BY <2>1, <3>4
    <3> HIDE DEF Flat
    <3> DEFINE T == {k \in Nat : k + 1 <= n => Flat[k + 1] = pre[k + 1]}
    <3>6. 0 \in T
      <4>1. 1 \in 1 .. n
        BY <2>3
      <4>2. Flat[1] = texts[1]
        BY <3>5, <4>1
      <4>3. pre[1] = texts[1]
        BY <3>3, <4>1
      <4>4. 0 + 1 = 1
        OBVIOUS
      <4> QED BY <4>2, <4>3, <4>4
    <3>7. ASSUME NEW k \in T
          PROVE  k + 1 \in T
      <4>1. SUFFICES ASSUME k + 1 + 1 <= n PROVE Flat[k + 1 + 1] = pre[k + 1 + 1]
        OBVIOUS
      <4>2. PICK i : i = k + 1 + 1
        OBVIOUS
      <4>3. i \in 1 .. n /\ i # 1 /\ i - 1 = k + 1 /\ k + 1 <= n
        BY <4>1, <4>2
      <4>4. Flat[i] = Flat[i - 1] \o texts[i]
        BY <3>5, <4>3
      <4>5. pre[i] = pre[i - 1] \o texts[i]
        BY <1>6, <4>3
      <4>6. Flat[i - 1] = pre[i - 1]
        BY <4>3
      <4> QED BY <4>2, <4>4, <4>5, <4>6
    <3>8. n - 1 \in T
      <4>1. n - 1 \in Nat
        BY <2>3
      <4> QED BY <4>1, <3>6, <3>7, NumberInduction
    <3>9. n - 1 + 1 = n
      BY <2>3
    <3>10. Flat[n] = pre[n]
      BY <3>8, <3>9
    <3> QED BY <3>1, <3>10
  <2> QED BY <2>2, <2>3
<1> QED BY <1>8, <1>9

(* Packets behind each other are read one by one until nothing is left.      *)
LEMMA PacketsReturn ==
    ASSUME NEW packets \in Seq(Seq(Byte)),
           \A i \in DOMAIN packets : Len(packets[i]) <= Largest(32)
    PROVE  LET bytes == FlattenSeq([i \in DOMAIN packets |-> WriteText("String", packets[i])])
           IN  bytes \in Seq(Byte) /\ ReadPackets(bytes) = Got(packets, <<>>)
<1>1. PICK n \in Nat : n = Len(packets) /\ DOMAIN packets = 1 .. n
    OBVIOUS
<1>2. PICK texts : texts = [i \in 1 .. n |-> WriteText("String", packets[i])]
    OBVIOUS
<1>3. ASSUME NEW i \in 1 .. n, NEW rest \in Seq(Byte)
      PROVE  /\ texts[i] \in Seq(Byte)
             /\ ReadText("String", texts[i] \o rest) = Got(packets[i], rest)
  <2>1. PICK wire \in DOMAIN LengthWire : wire = "String"
    BY DEF LengthWire
  <2>2. packets[i] \in Seq(Byte) /\ Len(packets[i]) <= Largest(32)
    <3>1. i \in DOMAIN packets /\ i \in 1 .. Len(packets)
      BY <1>1
    <3>2. packets[i] \in Seq(Byte)
      BY <3>1
    <3> QED BY <3>1, <3>2
  <2>3. Len(packets[i]) <= Largest(IF wire = "LongString" THEN 31 ELSE 32)
    BY <2>1, <2>2
  <2>4. /\ WriteText(wire, packets[i]) \in Seq(Byte)
        /\ ReadText(wire, WriteText(wire, packets[i]) \o rest) = Got(packets[i], rest)
    BY <2>2, <2>3, TextsReturn
  <2> QED BY <1>2, <2>1, <2>4
<1>4. <<>> \in Seq(Byte)
    OBVIOUS
<1>5. texts \in [1 .. n -> Seq(Byte)]
  <2>1. \A i \in 1 .. n : texts[i] \in Seq(Byte)
    BY <1>3, <1>4
  <2> QED BY <1>2, <2>1
<1>6. PICK pre : FirstBytes(pre, texts, n) /\ FlattenSeq(texts) = pre[n]
    BY <1>5, FlattenedTexts
<1>7. n \in 0 .. n /\ 0 \in 0 .. n
    OBVIOUS
<1>8. PICK bytes \in Seq(Byte) : bytes = pre[n]
    BY <1>6, <1>7 DEF FirstBytes
<1>9. PICK N \in Nat : N = Len(bytes)
    OBVIOUS
<1>10. PICK from, first, next :
              /\ ReadFrom(from, N, first, next)
              /\ first = [m \in 0 .. N |-> ReadText("String", After(bytes, m))]
              /\ next = [m \in 0 .. N |-> N - Len(first[m].rest)]
              /\ ReadPackets(bytes) = from[0]
    BY <1>9, PacketsReadFrom
<1> DEFINE Reads(k) == /\ \E rest \in Seq(Byte) : bytes = pre[k] \o rest
                       /\ from[Len(pre[k])] = Got(SubSeq(packets, k + 1, n), <<>>)
           T == {j \in Nat : j <= n => Reads(n - j)}
<1>11. 0 \in T
  <2>1. bytes = pre[n] \o <<>>
    BY <1>8
  <2>2. SubSeq(packets, n + 1, n) = <<>>
    BY <1>1
  <2>3. N \in 0 .. N
    OBVIOUS
  <2>4. from[N] = Got(<<>>, <<>>)
    BY <1>10, <2>3 DEF ReadFrom
  <2>5. Reads(n)
    BY <1>4, <1>8, <1>9, <2>1, <2>2, <2>4
  <2>6. n - 0 = n
    OBVIOUS
  <2> HIDE DEF Reads
  <2> QED BY <2>5, <2>6
<1>12. ASSUME NEW j \in T
       PROVE  j + 1 \in T
  <2> HIDE DEF Reads
  <2>1. SUFFICES ASSUME j + 1 <= n PROVE Reads(n - (j + 1))
    OBVIOUS
  <2>2. PICK k : k = n - (j + 1)
    OBVIOUS
  <2>3. /\ k \in 0 .. n /\ k \in Nat /\ k + 1 \in 1 .. n /\ k + 1 \in 0 .. n
        /\ k + 1 - 1 = k /\ n - j = k + 1
    BY <2>1, <2>2
  <2>4. Reads(k + 1)
    <3>1. Reads(n - j)
      BY <2>1
    <3> QED BY <3>1, <2>3
  <2>5. PICK rest \in Seq(Byte) : bytes = pre[k + 1] \o rest
    BY <2>4 DEF Reads
  <2>6. from[Len(pre[k + 1])] = Got(SubSeq(packets, k + 1 + 1, n), <<>>)
    BY <2>4 DEF Reads
  <2>7. PICK text \in Seq(Byte) : text = texts[k + 1]
    BY <1>5, <2>3
  <2>8. PICK before \in Seq(Byte) : before = pre[k]
    BY <1>6, <2>3 DEF FirstBytes
  <2>9. pre[k + 1] = before \o text
    <3>1. \A i \in 1 .. n : pre[i] = pre[i - 1] \o texts[i]
      BY <1>6 DEF FirstBytes
    <3>2. PICK i \in 1 .. n : i = k + 1 /\ i - 1 = k
      BY <2>3
    <3>3. pre[i] = pre[i - 1] \o texts[i]
      BY <3>1
    <3> QED BY <3>2, <3>3, <2>7, <2>8
  <2>10. PICK tail \in Seq(Byte) : tail = text \o rest
    <3>1. text \o rest \in Seq(Byte)
      OBVIOUS
    <3> QED BY <3>1
  <2>11. bytes = before \o tail
    BY <2>5, <2>9, <2>10
  <2>12. ReadText("String", tail) = Got(packets[k + 1], rest)
    BY <1>3, <2>3, <2>7, <2>10
  <2>13. PICK m : m = Len(before)
    OBVIOUS
  <2>14. PICK read : read = Got(packets[k + 1], rest)
    OBVIOUS
  <2>15. read.ok /\ read.value = packets[k + 1] /\ read.rest = rest
    BY <2>14 DEF Got
  <2>16. Len(rest) < Len(tail)
    BY <2>12, <2>14, <2>15, TextShortens
  <2>17. m \in 0 .. N /\ m # N /\ Len(pre[k + 1]) = N - Len(rest)
    <3>1. N = m + Len(tail) /\ Len(tail) = Len(text) + Len(rest)
      BY <1>9, <2>10, <2>11, <2>13
    <3>2. Len(pre[k + 1]) = m + Len(text)
      BY <2>9, <2>13
    <3>3. m \in Nat /\ Len(tail) \in Nat /\ Len(rest) \in Nat /\ Len(text) \in Nat
      BY <2>13
    <3> QED BY <3>1, <3>2, <3>3, <2>16
  <2>18. After(bytes, m) = tail
    BY <2>11, <2>13, AfterConcat
  <2>19. first[m] = read
    BY <1>10, <2>12, <2>14, <2>17, <2>18
  <2>20. next[m] = Len(pre[k + 1])
    BY <1>10, <2>15, <2>17, <2>19
  <2>21. PICK more : more = Got(SubSeq(packets, k + 1 + 1, n), <<>>)
    OBVIOUS
  <2>22. more.ok /\ more.value = SubSeq(packets, k + 1 + 1, n) /\ from[next[m]] = more
    BY <2>6, <2>20, <2>21 DEF Got
  <2>23. from[m] = Got(<<read.value>> \o more.value, <<>>)
    <3>1. from[m] = IF m = N THEN Got(<<>>, <<>>)
                    ELSE IF ~first[m].ok \/ ~from[next[m]].ok THEN Failed
                    ELSE Got(<<first[m].value>> \o from[next[m]].value, <<>>)
      BY <1>10, <2>17 DEF ReadFrom
    <3> QED BY <3>1, <2>15, <2>17, <2>19, <2>22
  <2>24. <<packets[k + 1]>> \o SubSeq(packets, k + 1 + 1, n) = SubSeq(packets, k + 1, n)
    BY <1>1, <2>3, FirstAndOthers
  <2>25. Reads(k)
    BY <2>8, <2>11, <2>13, <2>15, <2>22, <2>23, <2>24 DEF Reads
  <2> QED BY <2>2, <2>25
<1>13. Reads(0)
  <2> HIDE DEF Reads
  <2>1. n \in T
    BY <1>11, <1>12, NumberInduction
  <2>2. n - n = 0
    OBVIOUS
  <2> QED BY <2>1, <2>2
<1>14. from[0] = Got(packets, <<>>)
  <2>1. pre[0] = <<>> /\ Len(<<>>) = 0
    BY <1>6 DEF FirstBytes
  <2>2. SubSeq(packets, 0 + 1, n) = packets
    BY <1>1
  <2> QED BY <1>13, <2>1, <2>2
<1>15. ReadPackets(bytes) = Got(packets, <<>>)
    BY <1>10, <1>14
<1>16. FlattenSeq([i \in DOMAIN packets |-> WriteText("String", packets[i])]) = bytes
    BY <1>1, <1>2, <1>6, <1>8
<1> QED BY <1>15, <1>16

(* Whatever packets are batched, with whatever algorithm and threshold the   *)
(* session has, deserializeBatchPackets (Session.cpp:481-541) gets the same  *)
(* packets from serializeBatchedPackets (:423-455), in the same order and    *)
(* nothing else, compressed or not.                                          *)
THEOREM BatchesReturn ==
    ASSUME NEW packets \in Seq(Seq(Byte)),
           \A i \in DOMAIN packets : Len(packets[i]) <= Largest(32),
           NEW algorithm \in DOMAIN AlgorithmByte \cup {"unset"}, NEW threshold
    PROVE  ReadBatch(WriteBatch(packets, algorithm, threshold), algorithm) = Got(packets, <<>>)
<1>1. PICK bytes : bytes =
              FlattenSeq([i \in DOMAIN packets |-> WriteText("String", packets[i])])
    OBVIOUS
<1>2. bytes \in Seq(Byte) /\ ReadPackets(bytes) = Got(packets, <<>>)
    BY <1>1, PacketsReturn
<1>3. CASE algorithm = "unset"
  <2>1. WriteBatch(packets, algorithm, threshold) = bytes
    BY <1>1, <1>3 DEF WriteBatch
  <2> QED BY <1>2, <1>3, <2>1 DEF ReadBatch
<1>4. CASE algorithm # "unset"
  <2>1. DOMAIN AlgorithmByte = {"None", "Zlib", "Snappy"}
    BY DEF AlgorithmByte
  <2>2. PICK applied \in DOMAIN AlgorithmByte :
              applied = IF Len(bytes) >= threshold THEN algorithm ELSE "None"
    BY <1>4, <2>1
  <2>3. PICK width \in Nat : width = 8
    OBVIOUS
  <2>4. AlgorithmByte = [None |-> BitsOf(255, width), Zlib |-> BitsOf(0, width),
                         Snappy |-> BitsOf(1, width)]
    BY <2>3 DEF AlgorithmByte
  <2>5. /\ NumberOf(BitsOf(255, width)) = 255 /\ NumberOf(BitsOf(0, width)) = 0
        /\ NumberOf(BitsOf(1, width)) = 1
    <3>1. 255 <= Largest(width) /\ 0 <= Largest(width) /\ 1 <= Largest(width)
      <4>1. Largest(width) >= 255 /\ Largest(width) \in Nat
        BY <2>3, EightBits, LargestDoubles
      <4> QED BY <4>1
    <3> QED BY <3>1, NumberReturns
  <2>6. {a \in DOMAIN AlgorithmByte : AlgorithmByte[applied] = AlgorithmByte[a]} = {applied}
    <3>1. /\ AlgorithmByte["None"] # AlgorithmByte["Zlib"]
          /\ AlgorithmByte["None"] # AlgorithmByte["Snappy"]
          /\ AlgorithmByte["Zlib"] # AlgorithmByte["Snappy"]
      <4>1. /\ AlgorithmByte["None"] = BitsOf(255, width)
            /\ AlgorithmByte["Zlib"] = BitsOf(0, width)
            /\ AlgorithmByte["Snappy"] = BitsOf(1, width)
        BY <2>4
      <4>2. /\ NumberOf(AlgorithmByte["None"]) = 255 /\ NumberOf(AlgorithmByte["Zlib"]) = 0
            /\ NumberOf(AlgorithmByte["Snappy"]) = 1
        BY <2>5, <4>1
      <4> QED BY <4>2
    <3> QED BY <2>1, <3>1
  <2>7. PICK byte : byte = AlgorithmByte[applied]
    OBVIOUS
  <2>8. PICK body : body = Compress(applied, bytes)
    OBVIOUS
  <2>9. PICK wire : wire = <<byte>> \o body
    OBVIOUS
  <2>10. WriteBatch(packets, algorithm, threshold) = wire
    BY <1>1, <1>4, <2>2, <2>7, <2>8, <2>9 DEF WriteBatch
  <2>11. PICK S : S = {byte} \cup Byte \cup {[by |-> applied, of |-> bytes]}
    OBVIOUS
  <2>12. byte \in S /\ body \in Seq(S)
    <3>1. bytes \in Seq(S)
      BY <1>2, <2>11
    <3>2. [by |-> applied, of |-> bytes] \in S
      BY <2>11
    <3>3. body = bytes \/ body = <<[by |-> applied, of |-> bytes]>>
      BY <2>8 DEF Compress
    <3>4. CASE body = bytes
      BY <2>11, <3>1, <3>4
    <3>5. CASE body = <<[by |-> applied, of |-> bytes]>>
      <4>1. PICK one \in S : one = [by |-> applied, of |-> bytes]
        BY <3>2
      <4>2. <<one>> \in Seq(S)
        OBVIOUS
      <4> QED BY <2>11, <3>5, <4>1, <4>2
    <3> QED BY <3>3, <3>4, <3>5
  <2>13. wire # <<>> /\ wire[1] = byte /\ Tail(wire) = body
    BY <2>9, <2>12, FirstTaken
  <2>14. {a \in DOMAIN AlgorithmByte : wire # <<>> /\ wire[1] = AlgorithmByte[a]} = {applied}
    BY <2>6, <2>7, <2>13
  <2>15. ReadBatch(wire, algorithm) =
            ReadPackets(IF {applied} = {"None"} THEN Tail(wire) ELSE wire[2].of)
    BY <1>4, <2>14 DEF ReadBatch
  <2>16. CASE applied = "None"
    <3>1. body = bytes
      BY <2>8, <2>16 DEF Compress
    <3> QED BY <1>2, <2>10, <2>13, <2>15, <2>16, <3>1
  <2>17. CASE applied # "None"
    <3>1. body = <<[by |-> applied, of |-> bytes]>>
      BY <2>1, <2>8, <2>17 DEF Compress
    <3>2. wire[2] = [by |-> applied, of |-> bytes]
      BY <2>9, <3>1
    <3>3. {applied} # {"None"}
      BY <2>17
    <3> QED BY <1>2, <2>10, <2>15, <3>2, <3>3
  <2> QED BY <2>16, <2>17
<1> QED BY <1>3, <1>4

-----------------------------------------------------------------------------
(* Every sample of StreamExchange.                                           *)
LEMMA PatternsType ==
    ASSUME NEW width \in Nat
    PROVE  Patterns(width) \subseteq Bits(width)
<1>1. ASSUME NEW T
      PROVE  [i \in 1 .. width |-> IF i \in T THEN 1 ELSE 0] \in Bits(width)
    BY DEF Bits
<1>2. SUFFICES ASSUME NEW bits \in Patterns(width) PROVE bits \in Bits(width)
    OBVIOUS
<1> DEFINE Ones(T) == [i \in 1 .. width |-> IF i \in T THEN 1 ELSE 0]
<1>3. Patterns(width) =
         {Ones({})} \cup
           UNION {{Ones({k}), Ones(1 .. k), Ones(1 .. width \ {k})} : k \in 1 .. width}
    BY DEF Patterns
<1>4. \A T : Ones(T) \in Bits(width)
    BY <1>1
<1> HIDE DEF Ones
<1>5. bits = Ones({}) \/ \E k \in 1 .. width :
                            bits \in {Ones({k}), Ones(1 .. k), Ones(1 .. width \ {k})}
    BY <1>2, <1>3
<1> QED BY <1>4, <1>5

(* What is asked of a sample, for whatever its reader and its bytes are.     *)
LEMMA ReturnsOf ==
    ASSUME NEW s, NEW bits, s.bits = bits,
           StreamBytes(s) \in Seq(Byte),
           \A rest \in Seq(Byte) : StreamRead(s, StreamBytes(s) \o rest) = Got(bits, rest),
           \A m \in 0 .. Len(StreamBytes(s)) - 1 :
              StreamRead(s, SubSeq(StreamBytes(s), 1, m)) = Failed
    PROVE  Returns(s)
<1>1. PICK next \in Seq(Byte) : next = <<[i \in 1 .. 8 |-> 1]>>
  <2>1. PICK byte \in Byte : byte = [i \in 1 .. 8 |-> 1]
    <3>1. [i \in 1 .. 8 |-> 1] \in Byte
      BY DEF Byte, Bits
    <3> QED BY <3>1
  <2>2. <<byte>> \in Seq(Byte)
    OBVIOUS
  <2> QED BY <2>1, <2>2
<1>2. PICK read : read = Got(bits, next)
    OBVIOUS
<1>3. read.ok /\ read.value = bits /\ read.rest = next
    BY <1>2 DEF Got
<1>4. StreamRead(s, StreamBytes(s) \o next) = read
    BY <1>2
<1>5. ~Failed.ok
    BY DEF Failed
<1> QED BY <1>1, <1>3, <1>4, <1>5 DEF Returns

LEMMA NumberSampleReturns ==
    ASSUME NEW s, s.kind = "number", s.wire \in NumberWires, s.bits \in Bits(WidthOf(s.wire))
    PROVE  Returns(s)
<1>1. PICK bytes : bytes = WriteNumber(s.wire, s.bits)
    OBVIOUS
<1>2. /\ bytes \in Seq(Byte)
      /\ \A rest \in Seq(Byte) : ReadNumber(s.wire, bytes \o rest) = Got(s.bits, rest)
      /\ \A m \in 0 .. Len(bytes) - 1 : ReadNumber(s.wire, SubSeq(bytes, 1, m)) = Failed
    BY <1>1, <<>> \in Seq(Byte), NumbersReturn
<1>3. StreamBytes(s) = bytes
    BY <1>1 DEF StreamBytes
<1>4. \A all : StreamRead(s, all) = ReadNumber(s.wire, all)
    BY DEF StreamRead
<1> QED BY <1>2, <1>3, <1>4, ReturnsOf

LEMMA TextSampleReturns ==
    ASSUME NEW s, s.kind = "text", s.wire \in DOMAIN LengthWire, s.bits \in Seq(Byte),
           Len(s.bits) <= Largest(31)
    PROVE  Returns(s)
<1>1. Len(s.bits) <= Largest(IF s.wire = "LongString" THEN 31 ELSE 32)
  <2>1. Largest(31) <= Largest(31 + 1)
    BY LargestGrows
  <2>2. Largest(31) \in Nat /\ Largest(32) \in Nat /\ Len(s.bits) \in Nat
    BY LargestDoubles
  <2>3. Len(s.bits) <= Largest(32)
    BY <2>1, <2>2
  <2> QED BY <2>3
<1>2. PICK bytes : bytes = WriteText(s.wire, s.bits)
    OBVIOUS
<1>3. /\ bytes \in Seq(Byte)
      /\ \A rest \in Seq(Byte) : ReadText(s.wire, bytes \o rest) = Got(s.bits, rest)
      /\ \A m \in 0 .. Len(bytes) - 1 : ReadText(s.wire, SubSeq(bytes, 1, m)) = Failed
    BY <1>1, <1>2, <<>> \in Seq(Byte), TextsReturn
<1>4. StreamBytes(s) = bytes
    BY <1>2 DEF StreamBytes
<1>5. \A all : StreamRead(s, all) = ReadText(s.wire, all)
    BY DEF StreamRead
<1> QED BY <1>3, <1>4, <1>5, ReturnsOf

LEMMA BitsetSampleReturns ==
    ASSUME NEW s, s.kind = "bitset", NEW size \in Nat \ {0}, s.bits \in Bits(size)
    PROVE  Returns(s)
<1>1. Len(s.bits) = size
    BY DEF Bits
<1>2. PICK bytes : bytes = WriteBitset(s.bits)
    OBVIOUS
<1>3. /\ bytes \in Seq(Byte)
      /\ \A rest \in Seq(Byte) : ReadBitset(bytes \o rest, size) = Got(s.bits, rest)
      /\ \A m \in 0 .. Len(bytes) - 1 : ReadBitset(SubSeq(bytes, 1, m), size) = Failed
    BY <1>2, <<>> \in Seq(Byte), BitsetsReturn
<1>4. StreamBytes(s) = bytes
    BY <1>2 DEF StreamBytes
<1>5. \A all : StreamRead(s, all) = ReadBitset(all, size)
    BY <1>1 DEF StreamRead
<1> QED BY <1>3, <1>4, <1>5, ReturnsOf

LEMMA TextType ==
    ASSUME NEW n \in TextLengths
    PROVE  Text(n) \in Seq(Byte) /\ Len(Text(n)) = n /\ n <= Largest(31) /\ n \in Nat
<1>1. n \in Nat /\ n <= Largest(31)
    BY StreamsAssumption
<1>2. \A i \in 1 .. n : i % 256 \in Nat
    OBVIOUS
<1>3. \A i \in 1 .. n : BitsOf(i % 256, 8) \in Byte
    BY <1>2, BitsType DEF Byte, Bits
<1>4. Text(n) \in [1 .. n -> Byte]
    BY <1>3 DEF Text
<1> QED BY <1>1, <1>4

LEMMA EightBitWires ==
    ASSUME NEW wire \in {"Bool", "Byte", "SignedChar"}
    PROVE  wire \in NumberWires /\ WidthOf(wire) = 8
<1>1. wire \in DOMAIN FixedWidth /\ wire \notin DOMAIN GroupedWidth
      /\ wire \notin DOMAIN ZigZagWidth
    BY Layouts
<1>2. FixedWidth[wire] = 8
    BY DEF FixedWidth
<1> QED BY <1>1, <1>2 DEF NumberWires, WidthOf

LEMMA StreamSamplesReturn ==
    ASSUME NEW s \in StreamSamples
    PROVE  s.kind \in {"number", "text", "bitset"} /\ Returns(s)
<1>1. CASE s \in [kind : {"number"}, wire : {"Bool"}, bits : {BitsOf(0, 8), BitsOf(1, 8)}]
  <2>1. s.kind = "number" /\ s.wire = "Bool" /\ s.bits \in Bits(8)
    <3>1. BitsOf(0, 8) \in Bits(8) /\ BitsOf(1, 8) \in Bits(8)
      BY BitsType DEF Bits
    <3> QED BY <1>1, <3>1
  <2> QED BY <2>1, EightBitWires, NumberSampleReturns
<1>2. CASE s \in [kind : {"number"}, wire : {"Byte", "SignedChar"}, bits : Patterns(8)]
  <2>1. s.kind = "number" /\ s.wire \in {"Byte", "SignedChar"} /\ s.bits \in Bits(8)
    BY <1>2, PatternsType
  <2> QED BY <2>1, EightBitWires, NumberSampleReturns
<1>3. ASSUME NEW width \in Nat,
             s \in [kind : {"number"}, wire : {w \in NumberWires : WidthOf(w) = width},
                    bits : Patterns(width)]
      PROVE  s.kind = "number" /\ Returns(s)
  <2>1. s.kind = "number" /\ s.wire \in NumberWires /\ WidthOf(s.wire) = width
        /\ s.bits \in Patterns(width)
    BY <1>3
  <2>2. s.bits \in Bits(width)
    BY <2>1, PatternsType
  <2> QED BY <2>1, <2>2, NumberSampleReturns
<1>4. CASE s \in [kind : {"text"}, wire : DOMAIN LengthWire, bits : {Text(n) : n \in TextLengths}]
  <2>1. s.kind = "text" /\ s.wire \in DOMAIN LengthWire /\ s.bits \in {Text(n) : n \in TextLengths}
    BY <1>4
  <2>2. s.bits \in Seq(Byte) /\ Len(s.bits) <= Largest(31)
    BY <2>1, TextType
  <2> QED BY <2>1, <2>2, TextSampleReturns
<1>5. CASE s \in [kind : {"bitset"}, wire : {"Bitset"},
                  bits : UNION {Patterns(n) : n \in BitsetSizes}]
  <2>1. s.kind = "bitset" /\ s.bits \in UNION {Patterns(n) : n \in BitsetSizes}
    BY <1>5
  <2>2. PICK size \in BitsetSizes : s.bits \in Patterns(size)
    BY <2>1
  <2>3. size \in Nat \ {0}
    BY StreamsAssumption
  <2>4. s.bits \in Bits(size)
    BY <2>2, <2>3, PatternsType
  <2> QED BY <2>1, <2>3, <2>4, BitsetSampleReturns
<1>6. CASE \E width \in {16, 32, 64} :
              s \in [kind : {"number"}, wire : {w \in NumberWires : WidthOf(w) = width},
                     bits : Patterns(width)]
  <2>1. PICK width \in {16, 32, 64} :
              s \in [kind : {"number"}, wire : {w \in NumberWires : WidthOf(w) = width},
                     bits : Patterns(width)]
    BY <1>6
  <2>2. width \in Nat
    OBVIOUS
  <2> QED BY <1>3, <2>1, <2>2
<1> QED BY <1>1, <1>2, <1>4, <1>5, <1>6 DEF StreamSamples

LEMMA BatchSamplesReturn ==
    ASSUME NEW s \in BatchSamples
    PROVE  s.kind = "batch" /\ BatchReturns(s)
<1>1. PICK Texts : Texts = {Text(n) : n \in TextLengths}
    OBVIOUS
<1>2. s \in [kind : {"batch"}, algorithm : DOMAIN AlgorithmByte \cup {"unset"},
             threshold : {0, 2, 200}, packets : UNION {[1 .. n -> Texts] : n \in 0 .. 2}]
    BY <1>1 DEF BatchSamples
<1>3. /\ s.kind = "batch" /\ s.algorithm \in DOMAIN AlgorithmByte \cup {"unset"}
      /\ s.packets \in UNION {[1 .. n -> Texts] : n \in 0 .. 2}
    BY <1>2
<1>4. PICK n \in 0 .. 2 : s.packets \in [1 .. n -> Texts]
    BY <1>3
<1>5. \A text \in Texts : text \in Seq(Byte) /\ Len(text) <= Largest(32)
  <2>1. SUFFICES ASSUME NEW m \in TextLengths
                 PROVE  Text(m) \in Seq(Byte) /\ Len(Text(m)) <= Largest(32)
    BY <1>1
  <2>2. Text(m) \in Seq(Byte) /\ Len(Text(m)) = m /\ m <= Largest(31) /\ m \in Nat
    BY TextType
  <2>3. Largest(31) <= Largest(31 + 1) /\ Largest(31) \in Nat /\ Largest(32) \in Nat
    BY LargestGrows, LargestDoubles
  <2>4. 31 + 1 = 32
    OBVIOUS
  <2>5. m <= Largest(32)
    BY <2>2, <2>3, <2>4
  <2> QED BY <2>2, <2>5
<1>6. s.packets \in Seq(Seq(Byte)) /\ DOMAIN s.packets = 1 .. n
  <2>1. Texts \subseteq Seq(Byte)
    BY <1>5
  <2>2. s.packets \in [1 .. n -> Seq(Byte)] /\ n \in Nat
    BY <1>4, <2>1
  <2> QED BY <2>2
<1>7. \A i \in DOMAIN s.packets : Len(s.packets[i]) <= Largest(32)
    BY <1>4, <1>5, <1>6
<1>8. ReadBatch(WriteBatch(s.packets, s.algorithm, s.threshold), s.algorithm)
         = Got(s.packets, <<>>)
    BY <1>3, <1>6, <1>7, BatchesReturn
<1> QED BY <1>3, <1>8 DEF BatchReturns

(* Samples of numbers, texts, bit sets and batches are the ones above; in    *)
(* between anything else may be exchanged.                                   *)
StreamKinds == {"number", "text", "bitset", "batch"}
OtherExchange == sample'.kind \notin StreamKinds
StreamSpec == ExchangeInit /\ [][ExchangeNumber \/ OtherExchange]_sample
StreamSampled == sample.kind \in StreamKinds => sample \in StreamSamples \cup BatchSamples

LEMMA SampledReturns == StreamSampled => StreamsReturn
<1> SUFFICES ASSUME StreamSampled PROVE StreamsReturn
    OBVIOUS
<1>1. CASE sample \in StreamSamples
  <2>1. sample.kind \in {"number", "text", "bitset"} /\ Returns(sample)
    BY <1>1, StreamSamplesReturn
  <2> QED BY <2>1 DEF StreamsReturn
<1>2. CASE sample \in BatchSamples
  <2>1. sample.kind = "batch" /\ BatchReturns(sample)
    BY <1>2, BatchSamplesReturn
  <2> QED BY <2>1 DEF StreamsReturn
<1>3. CASE sample.kind \notin StreamKinds
    BY <1>3 DEF StreamsReturn, StreamKinds
<1> QED BY <1>1, <1>2, <1>3 DEF StreamSampled

(* Whatever is exchanged through BinaryStream, ReadOnlyBinaryStream and the  *)
(* batches of Session comes back, and what is cut is refused, for samples of *)
(* every size the constants name.                                            *)
THEOREM SamplesReturn == StreamSpec => []StreamsReturn
<1>1. ExchangeInit => StreamSampled
    BY DEF ExchangeInit, NoSample, StreamSampled, StreamKinds
<1>2. StreamSampled /\ [ExchangeNumber \/ OtherExchange]_sample => StreamSampled'
    BY DEF StreamSampled, ExchangeNumber, OtherExchange
<1> QED BY <1>1, <1>2, SampledReturns, PTL DEF StreamSpec
=============================================================================
