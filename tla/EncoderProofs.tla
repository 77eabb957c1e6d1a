--------------------------- MODULE EncoderProofs ---------------------------
(***************************************************************************)
(* Proofs about the files of PNG and BMP.                                  *)
(*                                                                         *)
(*   - The checksum of RFC 1950, for every length of the input.            *)
(*   - The encoder of png.cpp: a reader gets back the picture, and every   *)
(*     match is read as it was meant.                                      *)
(*   - The writer of the laboratory: a reader gets back the canvas, and    *)
(*     the chains it follows lead to the longest and nearest match.        *)
(*   - The encoder of bmp.cpp: a reader gets back the flattened picture.   *)
(*                                                                         *)
(* The two writers of PNG share the bit writer, the reader's steps, the    *)
(* rows and the container; each has an inductive invariant of its own,     *)
(* PngIInv and LabIInv, that says what the bits written so far are read    *)
(* as, and so has the encoder of BMP, BmpIInv.                             *)
(***************************************************************************)
EXTENDS Adler32, LabPng, Bmp, SequenceTheorems, FiniteSetTheorems,
        WellFoundedInduction, TLAPS

-----------------------------------------------------------------------------
(* The checksum *)

\* The largest values the sums have after k bytes of a block; b doubled.
LargestA(k) == (Modulus - 1) + MaxByte * k

\* The sums are at most the largest ones for the bytes of the block that are
\* behind.
Bounded ==
  n # 0 => \E k \in Nat :
             /\ k + n <= Block
             /\ a <= LargestA(k)
             /\ 2 * b <= LargestSum(k)

AdlerIInv == AdlerTypeOK /\ Bounded

\* One byte more makes the sums larger by at most what the bound grows.
LEMMA LargestSumGrows ==
  ASSUME NEW k \in Nat
  PROVE  /\ LargestA(k) \in Nat /\ LargestA(k + 1) = LargestA(k) + MaxByte
         /\ LargestSum(k) \in Nat
         /\ LargestSum(k + 1) = LargestSum(k) + 2 * LargestA(k + 1)
<1> DEFINE c == MaxByte
           m == Modulus - 1
<1>1. c \in Nat /\ m \in Nat
  BY NumbersAssumption
<1> HIDE DEF c, m
<1>2. LargestA(k) = m + c * k /\ LargestA(k + 1) = m + c * (k + 1)
  BY DEF LargestA, c, m
<1>3. /\ LargestSum(k) = c * (k * (k + 1)) + 2 * ((k + 1) * m)
      /\ LargestSum(k + 1) = c * ((k + 1) * (k + 2)) + 2 * ((k + 2) * m)
  BY k + 1 + 1 = k + 2 DEF LargestSum, c, m
<1>4. c * (k + 1) = c * k + c /\ c * k \in Nat
  BY <1>1
<1>5. (k + 1) * (k + 2) = k * (k + 1) + 2 * (k + 1) /\ k * (k + 1) \in Nat
  OBVIOUS
<1>6. c * ((k + 1) * (k + 2)) = c * (k * (k + 1)) + 2 * (c * (k + 1))
  <2> DEFINE p == k * (k + 1)
             q == k + 1
  <2>1. p \in Nat /\ q \in Nat
    BY <1>5
  <2>2. (k + 1) * (k + 2) = p + 2 * q
    BY <1>5
  <2> HIDE DEF p, q
  <2>3. c * (p + 2 * q) = c * p + 2 * (c * q)
    BY <1>1, <2>1
  <2> QED
    BY <2>2, <2>3 DEF p, q
<1>7. (k + 2) * m = (k + 1) * m + m /\ (k + 1) * m \in Nat
  BY <1>1
<1>8. c * (k * (k + 1)) \in Nat
  BY <1>1, <1>5
<1>9. LargestA(k) \in Nat /\ LargestA(k + 1) = LargestA(k) + MaxByte
  BY <1>1, <1>2, <1>4 DEF c
<1>10. LargestSum(k) \in Nat
  BY <1>3, <1>7, <1>8
<1>11. LargestSum(k + 1) = LargestSum(k) + 2 * LargestA(k + 1)
  <2> DEFINE p == c * (k * (k + 1))
             q == c * (k + 1)
             r == (k + 1) * m
  <2>1. q \in Nat
    BY <1>1, <1>4
  <2>2. LargestSum(k + 1) = p + 2 * q + 2 * (r + m)
    BY <1>3, <1>6, <1>7
  <2>3. LargestSum(k) = p + 2 * r /\ LargestA(k + 1) = m + q
    BY <1>2, <1>3
  <2>4. p \in Nat /\ r \in Nat
    BY <1>7, <1>8
  <2> HIDE DEF p, q, r
  <2> QED
    BY <1>1, <2>1, <2>2, <2>3, <2>4
<1> QED
  BY <1>9, <1>10, <1>11

\* The bound for some bytes of a block is less than the one for the block.
LEMMA LargestSumOrdered ==
  ASSUME NEW k \in Nat, k <= Block
  PROVE  LargestSum(k) <= LargestSum(Block)
<1> DEFINE c == MaxByte
           m == Modulus - 1
           n_ == Block
<1>1. c \in Nat /\ m \in Nat /\ n_ \in Nat
  BY NumbersAssumption
<1> HIDE DEF c, m, n_
<1>2. k <= n_
  BY DEF n_
<1>3. k * (k + 1) <= n_ * (n_ + 1)
  <2>1. k * (k + 1) <= k * (n_ + 1)
    BY <1>1, <1>2
  <2>2. k * (n_ + 1) <= n_ * (n_ + 1)
    BY <1>1, <1>2
  <2>3. k * (k + 1) \in Nat /\ k * (n_ + 1) \in Nat /\ n_ * (n_ + 1) \in Nat
    BY <1>1
  <2> QED
    BY <2>1, <2>2, <2>3
<1>4. c * (k * (k + 1)) <= c * (n_ * (n_ + 1))
  <2> DEFINE p == k * (k + 1)
             q == n_ * (n_ + 1)
  <2>1. p \in Nat /\ q \in Nat
    BY <1>1
  <2>2. p <= q
    BY <1>3
  <2> HIDE DEF p, q
  <2>3. c * p <= c * q
    BY <1>1, <2>1, <2>2
  <2> QED
    BY <2>3 DEF p, q
<1>5. (k + 1) * m <= (n_ + 1) * m
  BY <1>1, <1>2
<1>6. /\ c * (k * (k + 1)) \in Nat /\ c * (n_ * (n_ + 1)) \in Nat
      /\ (k + 1) * m \in Nat /\ (n_ + 1) * m \in Nat
  <2>1. k * (k + 1) \in Nat /\ n_ * (n_ + 1) \in Nat
    BY <1>1
  <2> QED
    BY <1>1, <2>1
<1>7. /\ LargestSum(k) = c * (k * (k + 1)) + 2 * ((k + 1) * m)
      /\ LargestSum(Block) = c * (n_ * (n_ + 1)) + 2 * ((n_ + 1) * m)
  BY DEF LargestSum, c, m, n_
<1> QED
  BY <1>4, <1>5, <1>6, <1>7

\* A byte can be added to both sums when the block is not over.
LEMMA RoomForByte ==
  ASSUME AdlerTypeOK, NEW k \in Nat, k + 1 <= Block,
         a <= LargestA(k), 2 * b <= LargestSum(k)
  PROVE  a + MaxByte < Word /\ b + a + MaxByte < Word
<1>1. LargestSum(k + 1) <= LargestSum(Block) /\ LargestSum(Block) < 2 * Word
  BY LargestSumOrdered, BlockFits, k + 1 \in Nat
<1>2. /\ LargestA(k) \in Nat /\ LargestA(k + 1) = LargestA(k) + MaxByte
      /\ LargestSum(k) \in Nat
      /\ LargestSum(k + 1) = LargestSum(k) + 2 * LargestA(k + 1)
  BY LargestSumGrows
<1>3. LargestSum(Block) \in Nat
  BY LargestSumGrows, NumbersAssumption
<1>4. a \in Nat /\ b \in Nat /\ MaxByte \in Nat /\ Word \in Nat
  BY NumbersAssumption DEF AdlerTypeOK
<1> QED
  BY <1>1, <1>2, <1>3, <1>4

\* Between two blocks the sums are remainders, and the next block begins there.
LEMMA InitAdlerIInv == AdlerInit => AdlerIInv
<1> SUFFICES ASSUME AdlerInit PROVE AdlerIInv
  OBVIOUS
<1>1. AdlerTypeOK
  BY NumbersAssumption DEF AdlerInit, AdlerTypeOK
<1>2. Bounded
  BY DEF AdlerInit, Bounded
<1> QED
  BY <1>1, <1>2 DEF AdlerIInv

\* A byte of a block is added to both sums without any loss.
LEMMA AddsByte ==
  ASSUME AdlerIInv, AddByte
  PROVE  \E x \in Bytes :
           /\ n # 0 /\ n' = n - 1 /\ size' = size
           /\ a' = Reduced(n = 1, a + x)
           /\ b' = Reduced(n = 1, b + a + x)
           /\ sums' = <<(sums[1] + x) % Modulus,
                        (sums[2] + sums[1] + x) % Modulus>>
<1>1. PICK x \in Bytes :
        /\ n # 0 /\ n' = n - 1 /\ size' = size
        /\ a' = Reduced(n = 1, (a + x) % Word)
        /\ b' = Reduced(n = 1, (b + ((a + x) % Word)) % Word)
        /\ sums' = <<(sums[1] + x) % Modulus,
                     (sums[2] + sums[1] + x) % Modulus>>
  BY DEF AddByte
<1>2. PICK k \in Nat : k + n <= Block /\ a <= LargestA(k)
                       /\ 2 * b <= LargestSum(k)
  BY <1>1 DEF AdlerIInv, Bounded
<1>3. /\ AdlerTypeOK
      /\ a \in Nat /\ b \in Nat /\ n \in Nat /\ n >= 1
      /\ x \in Nat /\ x <= MaxByte /\ Block \in Nat
      /\ MaxByte \in Nat /\ Word \in Nat \ {0}
  BY <1>1, NumbersAssumption DEF AdlerIInv, AdlerTypeOK
<1>4. k + 1 <= Block
  BY <1>2, <1>3
<1>5. a + MaxByte < Word /\ b + a + MaxByte < Word
  BY <1>2, <1>3, <1>4, RoomForByte
<1>6. (a + x) % Word = a + x
  BY <1>3, <1>5
<1>7. (b + (a + x)) % Word = b + a + x
  BY <1>3, <1>5
<1> QED
  BY <1>1, <1>6, <1>7

\* Every step keeps the strengthened invariant.
LEMMA StepAdlerIInv == AdlerIInv /\ [AdlerNext]_adler_vars => AdlerIInv'
<1> SUFFICES ASSUME AdlerIInv, [AdlerNext]_adler_vars
             PROVE  AdlerIInv'
  OBVIOUS
<1>1. AdlerTypeOK /\ Bounded
  BY DEF AdlerIInv
<1>2. CASE StartBlock
  <2>1. n' \in Nat /\ n' <= Block /\ n' <= size /\ size' = size - n'
        /\ a' = a /\ b' = b
    BY <1>1, <1>2, NumbersAssumption DEF StartBlock, Least, AdlerTypeOK
  <2>2. AdlerTypeOK'
    BY <1>1, <1>2, <2>1, NumbersAssumption DEF StartBlock, AdlerTypeOK
  <2>3. a <= LargestA(0) /\ 2 * b <= LargestSum(0)
    <3>1. a \in Nat /\ b \in Nat /\ a < Modulus /\ b < Modulus
      BY <1>1, <1>2 DEF StartBlock, AdlerTypeOK
    <3>2. LargestA(0) = Modulus - 1 /\ LargestSum(0) = 2 * (Modulus - 1)
      BY NumbersAssumption DEF LargestA, LargestSum
    <3> QED
      BY <3>1, <3>2, NumbersAssumption
  <2>4. 0 + n' <= Block
    BY <2>1
  <2>5. Bounded'
    BY <2>1, <2>3, <2>4 DEF Bounded, LargestA, LargestSum
  <2> QED
    BY <2>2, <2>5 DEF AdlerIInv
<1>3. CASE AddByte
  <2>1. PICK x \in Bytes :
          /\ n # 0 /\ n' = n - 1 /\ size' = size
          /\ a' = Reduced(n = 1, a + x)
          /\ b' = Reduced(n = 1, b + a + x)
    BY <1>3, AddsByte
  <2>2. PICK k \in Nat : k + n <= Block /\ a <= LargestA(k)
                         /\ 2 * b <= LargestSum(k)
    BY <1>1, <2>1 DEF Bounded
  <2>3. /\ a \in Nat /\ b \in Nat /\ n \in Nat /\ n >= 1
        /\ x \in Nat /\ x <= MaxByte /\ Block \in Nat
        /\ MaxByte \in Nat /\ Modulus \in Nat \ {0}
    BY <1>1, <2>1, NumbersAssumption DEF AdlerTypeOK
  <2>9. CASE n = 1
    <3>1. a' = (a + x) % Modulus /\ b' = (b + a + x) % Modulus
      BY <2>1, <2>9 DEF Reduced
    <3>2. a' \in Nat /\ a' < Modulus /\ b' \in Nat /\ b' < Modulus
      BY <2>3, <3>1
    <3>3. n' = 0
      BY <2>1, <2>9
    <3> QED
      BY <1>1, <2>1, <2>3, <3>2, <3>3 DEF AdlerIInv, AdlerTypeOK, Bounded
  <2>10. CASE n # 1
    <3>1. a' = a + x /\ b' = b + a + x
      BY <2>1, <2>10 DEF Reduced
    <3>2. /\ LargestA(k) \in Nat /\ LargestA(k + 1) = LargestA(k) + MaxByte
          /\ LargestSum(k) \in Nat
          /\ LargestSum(k + 1) = LargestSum(k) + 2 * LargestA(k + 1)
      BY LargestSumGrows
    <3>3. a' <= LargestA(k + 1) /\ 2 * b' <= LargestSum(k + 1)
      BY <2>2, <2>3, <3>1, <3>2
    <3>4. k + 1 \in Nat /\ (k + 1) + n' <= Block
      BY <2>1, <2>2, <2>3
    <3>5. Bounded'
      BY <3>3, <3>4 DEF Bounded, LargestA, LargestSum
    <3>6. AdlerTypeOK'
      BY <1>1, <2>1, <2>3, <2>10, <3>1 DEF AdlerTypeOK
    <3> QED
      BY <3>5, <3>6 DEF AdlerIInv
  <2> QED
    BY <2>9, <2>10
<1>4. CASE UNCHANGED adler_vars
  BY <1>1, <1>4 DEF adler_vars, AdlerIInv, AdlerTypeOK, Bounded
<1> QED
  BY <1>2, <1>3, <1>4 DEF AdlerNext

\* The sums are natural numbers, and remainders between two blocks.
THEOREM AdlerTypeCorrect == AdlerSpec => []AdlerTypeOK
<1>1. AdlerIInv => AdlerTypeOK
  BY DEF AdlerIInv
<1> QED
  BY <1>1, InitAdlerIInv, StepAdlerIInv, PTL DEF AdlerSpec

\* The sums never exceed a word (checksum.cpp:38), for inputs of any length.
THEOREM NeverOverflows == AdlerSpec => []NoOverflow
<1>1. AdlerIInv => NoOverflow
  <2> SUFFICES ASSUME AdlerIInv, n # 0
               PROVE  a + MaxByte < Word /\ b + a + MaxByte < Word
    BY DEF NoOverflow
  <2>1. AdlerTypeOK /\ n \in Nat /\ n >= 1 /\ Block \in Nat
    BY NumbersAssumption DEF AdlerIInv, AdlerTypeOK
  <2>2. PICK k \in Nat : k + n <= Block /\ a <= LargestA(k)
                         /\ 2 * b <= LargestSum(k)
    BY DEF AdlerIInv, Bounded
  <2>3. k + 1 <= Block
    BY <2>1, <2>2
  <2> QED
    BY <2>1, <2>2, <2>3, RoomForByte
<1> QED
  BY <1>1, InitAdlerIInv, StepAdlerIInv, PTL DEF AdlerSpec

\* The reductions that are put off do not matter: the sums differ from those of
\* RFC 1950 by multiples of the modulus, and between two blocks not at all.
IsModulo(u, s) == \E k \in Nat : u = s + k * Modulus

Congruent ==
  /\ sums = <<sums[1], sums[2]>>
  /\ sums[1] \in 0..(Modulus - 1) /\ sums[2] \in 0..(Modulus - 1)
  /\ IsModulo(a, sums[1]) /\ IsModulo(b, sums[2])

\* A remainder differs from its number by a multiple of the modulus.
LEMMA RemainderIsModulo ==
  ASSUME NEW t \in Nat
  PROVE  t % Modulus \in 0..(Modulus - 1) /\ IsModulo(t, t % Modulus)
<1> DEFINE m == Modulus
           d == t \div m
           s == t % m
<1>1. m \in Nat \ {0}
  BY NumbersAssumption
<1> HIDE DEF m
<1>2. /\ d \in Nat /\ s \in 0..(m - 1)
      /\ t = m * d + s
  BY <1>1
<1>3. m * d = d * m
  BY <1>1, <1>2
<1>4. t = s + d * m
  <2> DEFINE p == m * d
  <2>1. p \in Nat
    BY <1>1, <1>2
  <2>2. t = s + p
    <3>1. t = p + s
      BY <1>2
    <3> HIDE DEF p
    <3> QED
      BY <1>2, <2>1, <3>1
  <2> QED
    BY <1>3, <2>2
<1> QED
  BY <1>2, <1>4 DEF m, IsModulo

\* Among the remainders, only one differs from a number by a multiple.
LEMMA RemainderIsOnly ==
  ASSUME NEW t \in Nat, NEW r \in 0..(Modulus - 1), IsModulo(t, r)
  PROVE  t % Modulus = r
<1> DEFINE m == Modulus
           d == t \div m
           s == t % m
<1>1. m \in Nat \ {0}
  BY NumbersAssumption
<1>2. PICK k \in Nat : t = r + k * m
  BY DEF IsModulo
<1>3. PICK j \in Nat : t = s + j * m
  BY RemainderIsModulo DEF IsModulo
<1>4. s \in 0..(m - 1) /\ r \in 0..(m - 1)
  BY RemainderIsModulo
<1> HIDE DEF m, s
<1>5. k * m \in Nat /\ j * m \in Nat
  BY <1>1
<1>6. j = k
  <2>1. CASE j < k
    <3>1. (j + 1) * m <= k * m
      BY <1>1, <2>1
    <3>2. (j + 1) * m = j * m + m
      BY <1>1
    <3> QED
      BY <1>1, <1>2, <1>3, <1>4, <1>5, <3>1, <3>2
  <2>2. CASE k < j
    <3>1. (k + 1) * m <= j * m
      BY <1>1, <2>2
    <3>2. (k + 1) * m = k * m + m
      BY <1>1
    <3> QED
      BY <1>1, <1>2, <1>3, <1>4, <1>5, <3>1, <3>2
  <2> QED
    BY <2>1, <2>2
<1> QED
  BY <1>2, <1>3, <1>4, <1>5, <1>6 DEF m, s

\* Sums of numbers differ by multiples when the numbers do.
LEMMA ModuloOfSum ==
  ASSUME NEW u \in Nat, NEW s \in Nat, NEW v \in Nat, NEW t \in Nat,
         IsModulo(u, s), IsModulo(v, t)
  PROVE  IsModulo(u + v, s + t)
<1>1. PICK k \in Nat : u = s + k * Modulus
  BY DEF IsModulo
<1>2. PICK j \in Nat : v = t + j * Modulus
  BY DEF IsModulo
<1>3. (k + j) * Modulus = k * Modulus + j * Modulus
      /\ k * Modulus \in Nat /\ j * Modulus \in Nat
  BY NumbersAssumption
<1>4. u + v = (s + t) + (k + j) * Modulus
  BY <1>1, <1>2, <1>3
<1> QED
  BY <1>4, k + j \in Nat DEF IsModulo

\* Two such differences make one.
LEMMA ModuloOfModulo ==
  ASSUME NEW u \in Nat, NEW s \in Nat, NEW r \in Nat,
         IsModulo(u, s), IsModulo(s, r)
  PROVE  IsModulo(u, r)
<1>1. PICK k \in Nat : u = s + k * Modulus
  BY DEF IsModulo
<1>2. PICK j \in Nat : s = r + j * Modulus
  BY DEF IsModulo
<1>3. (k + j) * Modulus = k * Modulus + j * Modulus
      /\ k * Modulus \in Nat /\ j * Modulus \in Nat
  BY NumbersAssumption
<1>4. u = r + (k + j) * Modulus
  BY <1>1, <1>2, <1>3
<1> QED
  BY <1>4, k + j \in Nat DEF IsModulo

\* A number differs from itself by no multiple.
LEMMA ModuloOfItself == ASSUME NEW u \in Nat PROVE IsModulo(u, u)
<1>1. u = u + 0 * Modulus
  BY NumbersAssumption
<1> QED
  BY <1>1 DEF IsModulo

\* A new value of a sum and its remainder differ by a multiple, whether or not
\* the block ends.
LEMMA ReducedIsModulo ==
  ASSUME NEW u \in Nat, NEW s \in Nat, IsModulo(u, s), NEW end \in BOOLEAN
  PROVE  /\ s % Modulus \in 0..(Modulus - 1)
         /\ IsModulo(Reduced(end, u), s % Modulus)
<1>1. s % Modulus \in 0..(Modulus - 1) /\ IsModulo(s, s % Modulus)
  BY RemainderIsModulo
<1>2. s % Modulus \in Nat
  BY <1>1, NumbersAssumption
<1>3. IsModulo(u, s % Modulus)
  BY <1>1, <1>2, ModuloOfModulo
<1>4. CASE end
  <2>1. Reduced(end, u) = s % Modulus
    BY <1>1, <1>3, <1>4, RemainderIsOnly DEF Reduced
  <2> QED
    BY <1>1, <1>2, <2>1, ModuloOfItself
<1>5. CASE ~end
  BY <1>1, <1>3, <1>5 DEF Reduced
<1> QED
  BY <1>4, <1>5

\* Both sums stay what they are modulo 65521, byte by byte.
LEMMA StepCongruent ==
  AdlerIInv /\ Congruent /\ [AdlerNext]_adler_vars => Congruent'
<1> SUFFICES ASSUME AdlerIInv, Congruent, [AdlerNext]_adler_vars
             PROVE  Congruent'
  OBVIOUS
<1>1. CASE StartBlock
  BY <1>1 DEF StartBlock, Congruent, IsModulo
<1>2. CASE AddByte
  <2>1. PICK x \in Bytes :
          /\ a' = Reduced(n = 1, a + x)
          /\ b' = Reduced(n = 1, b + a + x)
          /\ sums' = <<(sums[1] + x) % Modulus,
                       (sums[2] + sums[1] + x) % Modulus>>
    BY <1>2, AddsByte
  <2>2. /\ a \in Nat /\ b \in Nat /\ x \in Nat
        /\ sums[1] \in Nat /\ sums[2] \in Nat
    BY NumbersAssumption DEF AdlerIInv, AdlerTypeOK, Congruent
  <2>3. IsModulo(a + x, sums[1] + x)
    BY <2>2, ModuloOfItself, ModuloOfSum DEF Congruent
  <2>4. IsModulo(b + a + x, sums[2] + sums[1] + x)
    <3>1. IsModulo(b + (a + x), sums[2] + (sums[1] + x))
      <4>1. a + x \in Nat /\ sums[1] + x \in Nat /\ IsModulo(b, sums[2])
        BY <2>2 DEF Congruent
      <4> QED
        BY <2>2, <2>3, <4>1, ModuloOfSum
    <3>2. /\ b + (a + x) = b + a + x
          /\ sums[2] + (sums[1] + x) = sums[2] + sums[1] + x
      BY <2>2
    <3> QED
      BY <3>1, <3>2
  <2> DEFINE s1 == (sums[1] + x) % Modulus
             s2 == (sums[2] + sums[1] + x) % Modulus
  <2>5. s1 \in 0..(Modulus - 1) /\ IsModulo(a', s1)
    <3>1. a + x \in Nat /\ sums[1] + x \in Nat
      BY <2>2
    <3> QED
      BY <2>1, <2>3, <3>1, ReducedIsModulo, (n = 1) \in BOOLEAN
  <2>6. s2 \in 0..(Modulus - 1) /\ IsModulo(b', s2)
    <3>1. b + a + x \in Nat /\ sums[2] + sums[1] + x \in Nat
      BY <2>2
    <3> QED
      BY <2>1, <2>4, <3>1, ReducedIsModulo, (n = 1) \in BOOLEAN
  <2>7. sums' = <<s1, s2>>
    BY <2>1
  <2> HIDE DEF s1, s2
  <2>8. sums'[1] = s1 /\ sums'[2] = s2
    BY <2>7
  <2> QED
    BY <2>5, <2>6, <2>7, <2>8 DEF Congruent, IsModulo
<1>3. CASE UNCHANGED adler_vars
  BY <1>3 DEF adler_vars, Congruent, IsModulo
<1> QED
  BY <1>1, <1>2, <1>3 DEF AdlerNext

\* Reducing once per block gives the sums of RFC 1950, for inputs of any length
\* and any block that fits a word: a remainder that differs from a sum by a
\* multiple is that sum.
THEOREM ReducesOncePerBlock == AdlerSpec => []SumsAreReduced
<1>1. AdlerInit => Congruent
  <2> SUFFICES ASSUME AdlerInit PROVE Congruent
    OBVIOUS
  <2>1. /\ a \in 0..(Modulus - 1) /\ b \in 0..(Modulus - 1)
        /\ sums = <<a, b>> /\ sums[1] = a /\ sums[2] = b
    BY DEF AdlerInit
  <2>2. a \in Nat /\ b \in Nat
    BY <2>1, NumbersAssumption
  <2> QED
    BY <2>1, <2>2, ModuloOfItself DEF Congruent
<1>2. AdlerIInv /\ Congruent => SumsAreReduced
  <2> SUFFICES ASSUME AdlerIInv, Congruent, n = 0
               PROVE  <<a, b>> = sums
    BY DEF SumsAreReduced
  <2>1. a \in 0..(Modulus - 1) /\ b \in 0..(Modulus - 1) /\ a \in Nat /\ b \in Nat
    BY NumbersAssumption DEF AdlerIInv, AdlerTypeOK
  <2>2. a % Modulus = sums[1] /\ b % Modulus = sums[2]
    BY <2>1, RemainderIsOnly DEF Congruent
  <2>3. a % Modulus = a /\ b % Modulus = b
    BY <2>1, NumbersAssumption
  <2> QED
    BY <2>2, <2>3 DEF Congruent
<1> QED
  BY <1>1, <1>2, InitAdlerIInv, StepAdlerIInv, StepCongruent, PTL DEF AdlerSpec

\* 5552 is the largest block for which the sums of bytes, modulo 65521, cannot
\* overflow 32 bits: the comment at checksum.cpp:38, number by number.
THEOREM LargestBlock ==
  ASSUME MaxByte = 255, Modulus = 65521
  PROVE  \A k \in Nat : LargestSum(k) < 2 * 4294967296 <=> k <= 5552
<1> SUFFICES ASSUME NEW k \in Nat
             PROVE  LargestSum(k) < 2 * 4294967296 <=> k <= 5552
  OBVIOUS
<1>1. LargestSum(k) = 255 * (k * (k + 1)) + 131040 * (k + 1)
  BY DEF LargestSum
<1>2. CASE k <= 5552
  <2>1. k * (k + 1) <= 5552 * 5553
    <3>1. k * (k + 1) <= 5552 * (k + 1)
      BY <1>2
    <3> QED
      BY <1>2, <3>1, k * (k + 1) \in Nat
  <2> QED
    BY <1>1, <1>2, <2>1, k * (k + 1) \in Nat
<1>3. CASE 5553 <= k
  <2>1. 5553 * 5554 <= k * (k + 1)
    <3>1. 5553 * (k + 1) <= k * (k + 1)
      BY <1>3
    <3> QED
      BY <1>3, <3>1, k * (k + 1) \in Nat
  <2> QED
    BY <1>1, <1>3, <2>1, k * (k + 1) \in Nat
<1> QED
  BY <1>2, <1>3

-----------------------------------------------------------------------------
(* Numbers *)

\* Sets of natural numbers have a least one.
LEMMA LeastExists ==
  ASSUME NEW T \in SUBSET Nat, T # {}
  PROVE  \E l \in T : \A m \in T : l <= m
<1> DEFINE F == {0..j : j \in T}
<1>1. F \subseteq FiniteSubsetsOf(Nat) /\ F # {}
  <2>1. ASSUME NEW j \in T PROVE 0..j \in FiniteSubsetsOf(Nat)
    BY FS_Interval DEF FiniteSubsetsOf
  <2> QED
    BY <2>1
<1>2. PICK x \in F : \A z \in F : <<z, x>> \notin StrictSubsetOrdering(Nat)
  <2> HIDE DEF F
  <2> QED
    BY <1>1, WFMin, FS_StrictSubsetOrderingWellFounded
<1>3. PICK l \in T : x = 0..l
  OBVIOUS
<1>4. ASSUME NEW m \in T PROVE l <= m
  <2> SUFFICES ASSUME m < l PROVE FALSE
    OBVIOUS
  <2>1. 0..m \in F
    OBVIOUS
  <2>2. /\ 0..m \in SUBSET Nat /\ 0..l \in SUBSET Nat
        /\ 0..m \subseteq 0..l /\ l \in 0..l /\ l \notin 0..m
    OBVIOUS
  <2>3. <<0..m, 0..l>> \in StrictSubsetOrdering(Nat)
    BY <2>2 DEF StrictSubsetOrdering
  <2> QED
    BY <1>2, <1>3, <2>1, <2>3
<1> QED
  BY <1>4

\* Induction over a set of numbers.
LEMMA Induct ==
  ASSUME NEW T \in SUBSET Nat, 0 \in T, \A l \in T : l + 1 \in T
  PROVE  T = Nat
<1> SUFFICES ASSUME T # Nat PROVE FALSE
  OBVIOUS
<1>1. PICK l \in Nat \ T : \A m \in Nat \ T : l <= m
  BY LeastExists
<1>2. l # 0 /\ l - 1 \in Nat /\ l - 1 \in T
  BY <1>1
<1> QED
  BY <1>1, <1>2

\* Quotient and remainder are unique.
LEMMA Division ==
  ASSUME NEW d \in Nat \ {0}, NEW x \in Nat, NEW q \in Nat, NEW r \in Nat,
         r < d, x = q * d + r
  PROVE  x \div d = q /\ x % d = r
<1> DEFINE u == x \div d
           v == x % d
<1>1. u \in Int /\ v \in 0..(d - 1) /\ x = u * d + v
  OBVIOUS
<1> HIDE DEF u, v
<1>2. (u - q) * d = r - v
  BY <1>1
<1>3. ASSUME NEW e \in Nat, e >= 1 PROVE e * d >= d
  BY <1>3
<1>4. CASE u > q
  <2>1. u - q \in Nat /\ u - q >= 1
    BY <1>1, <1>4
  <2>2. (u - q) * d >= d
    BY <1>3, <2>1
  <2> QED
    BY <1>1, <1>2, <2>2
<1>5. CASE u < q
  <2>1. q - u \in Nat /\ q - u >= 1
    BY <1>1, <1>5
  <2>2. (q - u) * d >= d
    BY <1>3, <2>1
  <2>3. (q - u) * d = v - r
    BY <1>1
  <2> QED
    BY <1>1, <2>2, <2>3
<1>6. u = q
  BY <1>1, <1>4, <1>5
<1> QED
  BY <1>1, <1>6 DEF u, v

\* Every number is so divided.
LEMMA Divides ==
  ASSUME NEW d \in Nat \ {0}, NEW x \in Nat
  PROVE  /\ x \div d \in Nat /\ x % d \in Nat /\ x % d < d
         /\ x = (x \div d) * d + (x % d)
OBVIOUS

\* A multiple of the divisor more.
LEMMA DivisionOfSum ==
  ASSUME NEW d \in Nat \ {0}, NEW x \in Nat, NEW q \in Nat
  PROVE  (x + q * d) \div d = x \div d + q /\ (x + q * d) % d = x % d
<1> DEFINE u == x \div d
           v == x % d
<1>1. u \in Nat /\ v \in Nat /\ v < d /\ x = u * d + v
  BY Divides
<1> HIDE DEF u, v
<1>2. x + q * d = (u + q) * d + v /\ u + q \in Nat /\ x + q * d \in Nat
  BY <1>1
<1> QED
  BY <1>1, <1>2, Division DEF u, v

\* Dividing twice.
LEMMA DivisionTwice ==
  ASSUME NEW d \in Nat \ {0}, NEW e \in Nat \ {0}, NEW x \in Nat
  PROVE  (x \div d) \div e = x \div (d * e)
<1> DEFINE u == x \div d
           v == x % d
           q == u \div e
           r == u % e
<1>1. u \in Nat /\ v \in Nat /\ v < d /\ x = u * d + v
  BY Divides
<1> HIDE DEF u, v
<1>2. q \in Nat /\ r \in Nat /\ r < e /\ u = q * e + r
  BY <1>1, Divides
<1> HIDE DEF q, r
<1>3. r * d \in Nat /\ r * d <= (e - 1) * d
  <2>1. r + 1 <= e /\ e - 1 - r \in Nat
    BY <1>2
  <2>2. (e - 1 - r) * d \in Nat
    BY <2>1
  <2>3. (e - 1 - r) * d = (e - 1) * d - r * d
    BY <1>2
  <2> QED
    BY <1>2, <2>2, <2>3
<1>4. (e - 1) * d = d * e - d /\ d * e \in Nat \ {0}
  OBVIOUS
<1>5. x = q * (d * e) + (r * d + v)
  BY <1>1, <1>2
<1>6. r * d + v < d * e /\ r * d + v \in Nat
  BY <1>1, <1>3, <1>4
<1>7. x \div (d * e) = q
  BY <1>2, <1>4, <1>5, <1>6, Division
<1> QED
  BY <1>7 DEF q, u

\* A quotient is below e if the number is below e times the divisor.
LEMMA QuotientBelow ==
  ASSUME NEW d \in Nat \ {0}, NEW e \in Nat, NEW x \in Nat, x < e * d
  PROVE  x \div d \in Nat /\ x \div d < e
<1> DEFINE u == x \div d
           v == x % d
<1>1. u \in Nat /\ v \in Nat /\ v < d /\ x = u * d + v
  BY Divides
<1> HIDE DEF u, v
<1>2. SUFFICES ASSUME u >= e PROVE FALSE
  BY <1>1 DEF u
<1>3. (u - e) * d \in Nat
  BY <1>1, <1>2
<1>4. (u - e) * d = u * d - e * d
  BY <1>1
<1> QED
  BY <1>1, <1>3, <1>4

-----------------------------------------------------------------------------
(* Powers of two and bits *)

\* A power of two, for the provers a number.
Power(e) == 2 ^ e

LEMMA PowerNext ==
  /\ Power(0) = 1
  /\ \A e \in 0..29 : Power(e) \in Nat \ {0} /\ Power(e + 1) = 2 * Power(e)
BY PowersOfTwoAssumption, Zenon DEF Power

LEMMA PowerType ==
  ASSUME NEW e \in 0..30
  PROVE  Power(e) \in Nat \ {0}
<1>1. CASE e \in 0..29
  BY <1>1, PowerNext
<1>2. CASE e = 30
  <2>1. Power(29 + 1) = 2 * Power(29) /\ Power(29) \in Nat \ {0}
    BY PowerNext
  <2> QED
    BY <1>2, <2>1
<1> QED
  BY <1>1, <1>2

\* Powers multiply as their exponents add.
LEMMA PowerSum ==
  ASSUME NEW d \in Nat, NEW e \in Nat, d + e <= 30
  PROVE  Power(d + e) = Power(d) * Power(e)
<1> DEFINE T == {m \in Nat : d + m <= 30 => Power(d + m) = Power(d) * Power(m)}
<1>1. 0 \in T
  BY PowerNext, PowerType
<1>2. ASSUME NEW m \in T PROVE m + 1 \in T
  <2> SUFFICES ASSUME d + (m + 1) <= 30 PROVE Power(d + (m + 1)) = Power(d) * Power(m + 1)
    OBVIOUS
  <2>1. m \in 0..29 /\ d + m \in 0..29 /\ d \in 0..30 /\ d + (m + 1) = (d + m) + 1
    OBVIOUS
  <2>2. Power(m + 1) = 2 * Power(m) /\ Power((d + m) + 1) = 2 * Power(d + m)
    BY <2>1, PowerNext
  <2>3. Power(d + m) = Power(d) * Power(m)
    BY <2>1
  <2>4. Power(d) \in Nat /\ Power(m) \in Nat
    BY <2>1, PowerType
  <2>5. \A u, v \in Nat : 2 * (u * v) = u * (2 * v)
    OBVIOUS
  <2> QED
    BY <2>1, <2>2, <2>3, <2>4, <2>5
<1>3. T = Nat
  <2> HIDE DEF T
  <2>1. T \in SUBSET Nat
    BY DEF T
  <2> QED
    BY <1>1, <1>2, <2>1, Induct
<1> QED
  BY <1>3

LEMMA BitIs ==
  ASSUME NEW x, NEW e
  PROVE  Bit(x, e) = (x \div Power(e)) % 2
BY DEF Bit, Power

\* Bits behind others: the lower ones are those of x, the higher those of z.
LEMMA BitOfSum ==
  ASSUME NEW u \in Nat, NEW x \in Nat, NEW z \in Nat, x < Power(u), NEW e \in Nat,
         u <= 30, e <= 30
  PROVE  /\ e < u => Bit(x + z * Power(u), e) = Bit(x, e)
         /\ e >= u => Bit(x + z * Power(u), e) = Bit(z, e - u)
<1>1. Power(u) \in Nat \ {0} /\ Power(e) \in Nat \ {0}
  BY PowerType
<1>2. CASE e < u
  <2> DEFINE f == u - e - 1
  <2>1. f \in 0..29 /\ f + 1 \in 0..30 /\ e + (f + 1) = u
    BY <1>2
  <2> HIDE DEF f
  <2>2. Power(u) = Power(e) * Power(f + 1)
    BY <2>1, PowerSum
  <2>3. Power(f + 1) = 2 * Power(f) /\ Power(f) \in Nat
    BY <2>1, PowerNext
  <2>4. PICK p \in Nat \ {0}, q \in Nat : p = Power(e) /\ q = Power(f)
    BY <1>1, <2>3
  <2>5. z * Power(u) = (z * q * 2) * p /\ z * q \in Nat /\ z * q * 2 \in Nat
    BY <2>2, <2>3, <2>4
  <2>6. (x + (z * q * 2) * p) \div p = x \div p + z * q * 2
    BY <2>5, DivisionOfSum
  <2>7. x \div p \in Nat
    BY Divides
  <2>8. (x \div p + (z * q) * 2) % 2 = (x \div p) % 2
    BY <2>5, <2>7, DivisionOfSum
  <2> QED
    BY <1>2, <2>4, <2>5, <2>6, <2>8, BitIs
<1>3. CASE e >= u
  <2>1. e - u \in Nat /\ u + (e - u) = e /\ e - u \in 0..30
    BY <1>3
  <2>2. Power(e) = Power(u) * Power(e - u)
    BY <2>1, PowerSum
  <2>3. Power(e - u) \in Nat \ {0}
    BY <2>1, PowerType
  <2>4. PICK p \in Nat \ {0}, q \in Nat \ {0} : p = Power(u) /\ q = Power(e - u)
    BY <1>1, <2>3
  <2>5. x + z * p \in Nat /\ (x + z * p) \div p = z
    <3>1. x + z * p = z * p + x /\ x + z * p \in Nat /\ x < p
      BY <2>4
    <3> QED
      BY <3>1, Division
  <2>6. ((x + z * p) \div p) \div q = (x + z * p) \div (p * q)
    BY <2>5, DivisionTwice
  <2> QED
    BY <1>3, <2>2, <2>4, <2>5, <2>6, BitIs
<1> QED
  BY <1>2, <1>3

\* The bits of what is left when lower ones are gone.
LEMMA BitOfQuotient ==
  ASSUME NEW u \in Nat, NEW x \in Nat, NEW e \in Nat, u + e <= 30
  PROVE  Bit(x \div Power(u), e) = Bit(x, u + e)
<1>1. Power(u) \in Nat \ {0} /\ Power(e) \in Nat \ {0}
  BY PowerType
<1>2. Power(u + e) = Power(u) * Power(e)
  BY PowerSum
<1>3. (x \div Power(u)) \div Power(e) = x \div (Power(u) * Power(e))
  BY <1>1, DivisionTwice
<1> QED
  BY <1>2, <1>3, BitIs

\* The bits of a byte of a number.
LEMMA BitOfRemainder ==
  ASSUME NEW u \in 0..30, NEW x \in Nat, NEW e \in Nat, e < u
  PROVE  Bit(x % Power(u), e) = Bit(x, e)
<1>1. Power(u) \in Nat \ {0}
  BY PowerType
<1>2. PICK p \in Nat \ {0} : p = Power(u)
  BY <1>1
<1> DEFINE q == x \div p
           r == x % p
<1>3. q \in Nat /\ r \in Nat /\ r < p /\ x = q * p + r
  BY Divides
<1>4. r = x % p
  OBVIOUS
<1> HIDE DEF q, r
<1>5. x = r + q * Power(u) /\ r < Power(u)
  BY <1>2, <1>3
<1>6. Bit(r + q * Power(u), e) = Bit(r, e)
  BY <1>3, <1>5, BitOfSum
<1> QED
  BY <1>2, <1>4, <1>5, <1>6

LEMMA BitType ==
  ASSUME NEW x \in Nat, NEW e \in 0..30
  PROVE  Bit(x, e) \in {0, 1}
<1>1. Power(e) \in Nat \ {0}
  BY PowerType
<1>2. x \div Power(e) \in Nat
  BY <1>1, Divides
<1> QED
  BY <1>2, BitIs

-----------------------------------------------------------------------------
(* The bit writer *)

\* How many bits a writer has, and which: those of its bytes, then those in the
\* accumulator.
BitCount(v) == 8 * Len(v.out) + v.used
BitOf(v, j) ==
  IF j <= 8 * Len(v.out) THEN Bit(v.out[((j - 1) \div 8) + 1], (j - 1) % 8)
  ELSE Bit(v.acc, j - 1 - 8 * Len(v.out))

\* Fewer than eight bits wait.
WriterOK(v) ==
  /\ v = [out |-> v.out, acc |-> v.acc, used |-> v.used]
  /\ v.out \in Seq(0..255)
  /\ v.used \in 0..7 /\ v.acc \in Nat /\ v.acc < Power(v.used)

\* A writer with the bits of a number behind those of another.
Extends(v, u, m, x) ==
  /\ WriterOK(v) /\ BitCount(v) = BitCount(u) + m
  /\ \A j \in 1..BitCount(u) : BitOf(v, j) = BitOf(u, j)
  /\ \A j \in 1..m : BitOf(v, BitCount(u) + j) = Bit(x, j - 1)

LEMMA SmallPowers == Power(0) = 1 /\ Power(1) = 2 /\ Power(2) = 4 /\ Power(3) = 8 /\ Power(4) = 16 /\ Power(5) = 32
                     /\ Power(6) = 64 /\ Power(7) = 128 /\ Power(8) = 256 /\ Power(9) = 512
<1>1. \A e \in 0..29 : Power(e + 1) = 2 * Power(e)
  BY PowerNext
<1>2. Power(0) = 1 /\ Power(0 + 1) = 2 * Power(0) /\ Power(1 + 1) = 2 * Power(1) /\ Power(2 + 1) = 2 * Power(2)
      /\ Power(3 + 1) = 2 * Power(3) /\ Power(4 + 1) = 2 * Power(4) /\ Power(5 + 1) = 2 * Power(5)
      /\ Power(6 + 1) = 2 * Power(6) /\ Power(7 + 1) = 2 * Power(7) /\ Power(8 + 1) = 2 * Power(8)
  BY <1>1, PowerNext
<1> QED
  BY <1>2

LEMMA PutExtends ==
  ASSUME NEW v, WriterOK(v), NEW m \in 0..13, NEW x \in Nat, x < Power(m)
  PROVE  Extends(Put(v, x, m), v, m, x)
<1> DEFINE u == v.used
           c == Len(v.out)
           acc == v.acc + x * Power(u)
           whole == (u + m) \div 8
           last == (u + m) % 8
           bytes == [l \in 1..whole |-> (acc \div 2 ^ (8 * (l - 1))) % 256]
           p == Put(v, x, m)
<1>1. /\ v.out \in Seq(0..255) /\ c \in Nat /\ u \in 0..7 /\ v.acc \in Nat /\ v.acc < Power(u)
      /\ v.used = u /\ Len(v.out) = c
  BY LenProperties DEF WriterOK
<1>2. /\ whole \in 0..2 /\ last \in 0..7 /\ u + m = 8 * whole + last /\ u + m \in 0..20
      /\ 8 * whole \in 0..30
  <2> HIDE DEF u
  <2>1. u + m \in 0..20
    BY <1>1
  <2>2. PICK t \in 0..20 : t = u + m
    BY <2>1
  <2>3. t \div 8 \in 0..2 /\ t % 8 \in 0..7 /\ t = 8 * (t \div 8) + (t % 8)
    OBVIOUS
  <2> QED
    BY <2>2, <2>3
<1>3. p = [out |-> v.out \o bytes, acc |-> acc \div Power(8 * whole), used |-> last]
  BY DEF Put, Power
<1> HIDE DEF u, c, whole, last, p
<1>4. Power(u) \in Nat \ {0} /\ Power(m) \in Nat \ {0} /\ Power(u + m) = Power(m) * Power(u)
  <2>1. u \in 0..30 /\ m \in 0..30 /\ u \in Nat /\ m \in Nat /\ u + m <= 30
    BY <1>1
  <2>2. Power(u + m) = Power(u) * Power(m) /\ Power(u) \in Nat \ {0} /\ Power(m) \in Nat \ {0}
    BY <2>1, PowerSum, PowerType
  <2> QED
    BY <2>2
<1>5. acc \in Nat /\ acc < Power(u + m)
  <2>1. PICK d \in Nat \ {0}, e \in Nat \ {0} : d = Power(u) /\ e = Power(m)
    BY <1>4
  <2>2. x * d \in Nat /\ (e - 1 - x) * d \in Nat /\ e * d \in Nat
    BY <2>1
  <2>3. (e - 1 - x) * d = e * d - d - x * d
    BY <2>1
  <2>4. v.acc < d /\ acc = v.acc + x * d /\ Power(u + m) = e * d
    BY <1>1, <1>4, <2>1
  <2>5. PICK f, g, h : f = x * d /\ g = e * d /\ h = (e - 1 - x) * d
    OBVIOUS
  <2>6. f \in Nat /\ g \in Nat /\ h \in Nat /\ h = g - d - f /\ acc = v.acc + f /\ Power(u + m) = g
    BY <2>2, <2>3, <2>4, <2>5
  <2> HIDE DEF acc
  <2> QED
    BY <1>1, <2>4, <2>6
<1>6. /\ \A e \in 0..30 : e < u => Bit(acc, e) = Bit(v.acc, e)
      /\ \A e \in 0..30 : e >= u => Bit(acc, e) = Bit(x, e - u)
  <2>1. ASSUME NEW e \in 0..30
        PROVE  (e < u => Bit(acc, e) = Bit(v.acc, e)) /\ (e >= u => Bit(acc, e) = Bit(x, e - u))
    <3>1. u \in Nat /\ u <= 30 /\ e \in Nat /\ e <= 30
      BY <1>1
    <3> QED
      BY <1>1, <3>1, BitOfSum
  <2> QED
    BY <2>1
<1> HIDE DEF acc
<1>7. bytes \in Seq(0..255) /\ Len(bytes) = whole
  <2>1. ASSUME NEW l \in 1..whole PROVE (acc \div 2 ^ (8 * (l - 1))) % 256 \in 0..255
    <3>1. 8 * (l - 1) \in 0..30
      BY <1>2
    <3>2. 2 ^ (8 * (l - 1)) \in Nat \ {0}
      BY <3>1, PowerType DEF Power
    <3>3. PICK d \in Nat \ {0} : d = 2 ^ (8 * (l - 1))
      BY <3>2
    <3>4. acc \div d \in Nat
      BY <1>5, Divides
    <3> QED
      BY <3>3, <3>4
  <2>2. whole \in Nat
    BY <1>2
  <2> QED
    BY <2>1, <2>2
<1>8. \A l \in 1..whole, e \in 0..7 : Bit(bytes[l], e) = Bit(acc, 8 * (l - 1) + e)
  <2>1. SUFFICES ASSUME NEW l \in 1..whole, NEW e \in 0..7
                 PROVE  Bit(bytes[l], e) = Bit(acc, 8 * (l - 1) + e)
    OBVIOUS
  <2>2. 8 * (l - 1) \in Nat /\ 8 * (l - 1) \in 0..30 /\ 8 * (l - 1) + e <= 30 /\ e \in Nat /\ e < 8 /\ 8 \in 0..30
    BY <1>2
  <2>3. Power(8 * (l - 1)) \in Nat \ {0}
    BY <2>2, PowerType
  <2>4. PICK q \in Nat : q = acc \div Power(8 * (l - 1))
    BY <1>5, <2>3, Divides
  <2>5. bytes[l] = q % Power(8)
    BY <2>4, SmallPowers DEF Power
  <2>6. Bit(q % Power(8), e) = Bit(q, e)
    BY <2>2, BitOfRemainder
  <2>7. Bit(acc \div Power(8 * (l - 1)), e) = Bit(acc, 8 * (l - 1) + e)
    BY <1>5, <2>2, BitOfQuotient
  <2> QED
    BY <2>4, <2>5, <2>6, <2>7
<1> HIDE DEF bytes
<1>9. /\ p.out \in Seq(0..255) /\ Len(p.out) = c + whole
      /\ \A l \in 1..c : p.out[l] = v.out[l]
      /\ \A l \in 1..whole : p.out[c + l] = bytes[l]
  <2>1. /\ v.out \o bytes \in Seq(0..255) /\ Len(v.out \o bytes) = c + whole
        /\ \A l \in 1..(c + whole) :
             (v.out \o bytes)[l] = IF l <= c THEN v.out[l] ELSE bytes[l - c]
    BY <1>1, <1>7, ConcatProperties
  <2>2. p.out = v.out \o bytes
    BY <1>3
  <2>3. \A l \in 1..c : l \in 1..(c + whole) /\ l <= c
    BY <1>1, <1>2
  <2>4. \A l \in 1..whole : c + l \in 1..(c + whole) /\ ~(c + l <= c) /\ (c + l) - c = l
    BY <1>1, <1>2
  <2> QED
    BY <2>1, <2>2, <2>3, <2>4
<1>10. p.used = last /\ p.acc = acc \div Power(8 * whole) /\ p.acc \in Nat /\ p.acc < Power(last)
  <2>1. p.used = last /\ p.acc = acc \div Power(8 * whole)
    BY <1>3
  <2>2. /\ 8 * whole \in Nat /\ last \in Nat /\ 8 * whole + last <= 30 /\ 8 * whole \in 0..30 /\ last \in 0..30
    BY <1>2
  <2>3. /\ Power(8 * whole + last) = Power(8 * whole) * Power(last)
        /\ Power(8 * whole) \in Nat \ {0} /\ Power(last) \in Nat \ {0}
    BY <2>2, PowerSum, PowerType
  <2>4. PICK d \in Nat \ {0}, e \in Nat \ {0} : d = Power(8 * whole) /\ e = Power(last)
    BY <2>3
  <2>5. acc < e * d
    BY <1>2, <1>5, <2>3, <2>4
  <2>6. acc \div d \in Nat /\ acc \div d < e
    BY <1>5, <2>5, QuotientBelow
  <2> QED
    BY <2>1, <2>4, <2>6
<1>11. WriterOK(p)
  <2>1. p = [out |-> p.out, acc |-> p.acc, used |-> p.used]
    BY <1>3
  <2>2. p.used \in 0..7
    BY <1>2, <1>10
  <2> QED
    BY <2>1, <2>2, <1>9, <1>10 DEF WriterOK
<1>12. BitCount(p) = BitCount(v) + m /\ BitCount(v) = 8 * c + u
  BY <1>1, <1>2, <1>9, <1>10 DEF BitCount
<1>13. \A j \in 1..(8 * c) : BitOf(p, j) = BitOf(v, j)
  <2>1. SUFFICES ASSUME NEW j \in 1..(8 * c) PROVE BitOf(p, j) = BitOf(v, j)
    OBVIOUS
  <2>2. ((j - 1) \div 8) + 1 \in 1..c /\ j <= 8 * Len(p.out) /\ j <= 8 * Len(v.out)
    BY <1>1, <1>2, <1>9
  <2> QED
    BY <1>9, <2>2 DEF BitOf
<1>14. \A e \in 0..20 : e < u + m => BitOf(p, 8 * c + e + 1) = Bit(acc, e)
  <2>1. SUFFICES ASSUME NEW e \in 0..20, e < u + m PROVE BitOf(p, 8 * c + e + 1) = Bit(acc, e)
    OBVIOUS
  <2>2. CASE e < 8 * whole
    <3>1. 8 * c + e + 1 <= 8 * Len(p.out)
      BY <1>1, <1>2, <1>9, <2>2
    <3>2. PICK l \in 1..whole, f \in 0..7 : e = 8 * (l - 1) + f
      <4>1. (e \div 8) + 1 \in 1..whole /\ e % 8 \in 0..7 /\ e = 8 * (((e \div 8) + 1) - 1) + (e % 8)
        BY <1>2, <2>2
      <4> QED
        BY <4>1
    <3>3. (((8 * c + e + 1) - 1) \div 8) + 1 = c + l /\ ((8 * c + e + 1) - 1) % 8 = f
      BY <1>1, <1>2, <3>2
    <3>4. BitOf(p, 8 * c + e + 1) = Bit(p.out[c + l], f)
      BY <3>1, <3>3 DEF BitOf
    <3> QED
      BY <1>8, <1>9, <3>2, <3>4
  <2>3. CASE e >= 8 * whole
    <3>1. /\ ~(8 * c + e + 1 <= 8 * Len(p.out))
          /\ (8 * c + e + 1) - 1 - 8 * Len(p.out) = e - 8 * whole
      BY <1>1, <1>2, <1>9, <2>3
    <3>2. /\ 8 * whole \in Nat /\ e - 8 * whole \in Nat /\ 8 * whole + (e - 8 * whole) <= 30
          /\ 8 * whole + (e - 8 * whole) = e
      BY <1>2, <2>3
    <3>3. Bit(acc \div Power(8 * whole), e - 8 * whole) = Bit(acc, 8 * whole + (e - 8 * whole))
      BY <1>5, <3>2, BitOfQuotient
    <3>4. BitOf(p, 8 * c + e + 1) = Bit(p.acc, e - 8 * whole)
      BY <3>1 DEF BitOf
    <3> QED
      BY <1>10, <3>2, <3>3, <3>4
  <2> QED
    BY <1>2, <2>2, <2>3
<1>15. \A j \in 1..BitCount(v) : BitOf(p, j) = BitOf(v, j)
  <2>1. SUFFICES ASSUME NEW j \in 1..BitCount(v), j > 8 * c PROVE BitOf(p, j) = BitOf(v, j)
    BY <1>1, <1>12, <1>13
  <2>2. PICK e \in 0..6 : j = 8 * c + e + 1 /\ e < u /\ e < u + m /\ e \in 0..20 /\ e \in 0..30
    <3>1. j - 8 * c - 1 \in 0..6 /\ j = 8 * c + (j - 8 * c - 1) + 1 /\ j - 8 * c - 1 < u
      BY <1>1, <1>12, <2>1
    <3> QED
      BY <1>1, <3>1
  <2>3. BitOf(p, j) = Bit(v.acc, e)
    BY <1>6, <1>14, <2>2
  <2>4. ~(j <= 8 * Len(v.out)) /\ j - 1 - 8 * Len(v.out) = e
    BY <1>1, <2>1, <2>2
  <2> QED
    BY <2>3, <2>4 DEF BitOf
<1>16. \A j \in 1..m : BitOf(p, BitCount(v) + j) = Bit(x, j - 1)
  <2>1. SUFFICES ASSUME NEW j \in 1..m PROVE BitOf(p, BitCount(v) + j) = Bit(x, j - 1)
    OBVIOUS
  <2>2. PICK e \in 0..20 : BitCount(v) + j = 8 * c + e + 1 /\ e >= u /\ e < u + m /\ e - u = j - 1 /\ e \in 0..30
    <3>1. u + j - 1 \in 0..20 /\ BitCount(v) + j = 8 * c + (u + j - 1) + 1 /\ u + j - 1 >= u
          /\ u + j - 1 < u + m /\ (u + j - 1) - u = j - 1
      BY <1>1, <1>12
    <3> QED
      BY <3>1
  <2> QED
    BY <1>6, <1>14, <2>2
<1> QED
  BY <1>11, <1>12, <1>15, <1>16 DEF Extends, p

-----------------------------------------------------------------------------
(* Recursion *)

\* A function that starts with a value and goes on with a step.
Recurs(f, S, first, step, m) ==
  /\ f \in [0..m -> S]
  /\ f[0] = first
  /\ \A j \in 1..m : f[j] = step[<<j, f[j - 1]>>]

\* What is defined by recursion over the first numbers is there.
LEMMA Recursion ==
  ASSUME NEW S, NEW first \in S, NEW step \in [Nat \X S -> S], NEW m \in Nat
  PROVE  \E f : Recurs(f, S, first, step, m)
<1> DEFINE Is(f, l) == f[0] = first /\ \A j \in 1..l : f[j] = step[<<j, f[j - 1]>>]
           T == {l \in Nat : \E f \in [0..l -> S] : Is(f, l)}
<1>1. 0 \in T
  <2> DEFINE f == [j \in 0..0 |-> first]
  <2>1. f \in [0..0 -> S] /\ Is(f, 0)
    OBVIOUS
  <2> QED
    BY <2>1
<1>2. ASSUME NEW l \in T PROVE l + 1 \in T
  <2>1. PICK f \in [0..l -> S] : Is(f, l)
    OBVIOUS
  <2> DEFINE g == [j \in 0..(l + 1) |-> IF j = l + 1 THEN step[<<j, f[l]>>] ELSE f[j]]
  <2>2. \A j \in 0..(l + 1) : g[j] \in S
    <3>1. f[l] \in S /\ l + 1 \in Nat /\ step[<<l + 1, f[l]>>] \in S
      OBVIOUS
    <3>2. \A j \in 0..(l + 1) : j # l + 1 => j \in 0..l
      OBVIOUS
    <3> QED
      BY <3>1, <3>2
  <2>3. g[0] = first
    BY <2>1
  <2>4. ASSUME NEW j \in 1..(l + 1) PROVE g[j] = step[<<j, g[j - 1]>>]
    <3>1. j \in 0..(l + 1) /\ j - 1 \in 0..(l + 1) /\ j - 1 # l + 1
      OBVIOUS
    <3>2. g[j - 1] = f[j - 1]
      BY <3>1
    <3>3. CASE j = l + 1
      BY <3>1, <3>2, <3>3
    <3>4. CASE j # l + 1
      <4>1. j \in 1..l /\ g[j] = f[j]
        BY <3>1, <3>4
      <4> QED
        BY <2>1, <3>2, <4>1
    <3> QED
      BY <3>3, <3>4
  <2>5. g \in [0..(l + 1) -> S]
    BY <2>2
  <2> HIDE DEF g
  <2>6. \E h \in [0..(l + 1) -> S] : Is(h, l + 1)
    BY <2>3, <2>4, <2>5
  <2> QED
    BY <2>6
<1>3. T = Nat
  <2> HIDE DEF T
  <2> QED
    BY <1>1, <1>2, Induct DEF T
<1> QED
  BY <1>3 DEF Recurs

\* The steps that double what there is and add a bit.
Doubles(f, bit, m) ==
  /\ f \in [0..m -> Nat] /\ f[0] = 0
  /\ \A j \in 1..m : f[j] = 2 * f[j - 1] + bit[j]

\* The steps that add the next power for each bit.
Adds(f, bit, m) ==
  /\ f \in [0..m -> Nat] /\ f[0] = 0
  /\ \A j \in 1..m : f[j] = f[j - 1] + bit[j] * Power(j - 1)

LEMMA DoublesExists ==
  ASSUME NEW m \in Nat, NEW bit \in [1..m -> {0, 1}]
  PROVE  \E f : Doubles(f, bit, m)
<1> DEFINE step == [p \in Nat \X Nat |-> IF p[1] \in 1..m THEN 2 * p[2] + bit[p[1]] ELSE 0]
<1>1. step \in [Nat \X Nat -> Nat]
  <2>1. \A j \in 1..m : bit[j] \in Nat
    OBVIOUS
  <2> QED
    BY <2>1
<1>2. \A j \in 1..m, x \in Nat : step[<<j, x>>] = 2 * x + bit[j]
  OBVIOUS
<1> HIDE DEF step
<1>3. PICK f : Recurs(f, Nat, 0, step, m)
  <2>1. 0 \in Nat
    OBVIOUS
  <2> QED
    BY <1>1, <2>1, Recursion, Zenon
<1>4. f \in [0..m -> Nat] /\ f[0] = 0 /\ \A j \in 1..m : f[j] = step[<<j, f[j - 1]>>]
  BY <1>3 DEF Recurs
<1>5. \A j \in 1..m : f[j - 1] \in Nat
  BY <1>4
<1>6. \A j \in 1..m : f[j] = 2 * f[j - 1] + bit[j]
  BY <1>2, <1>4, <1>5
<1> QED
  BY <1>4, <1>6 DEF Doubles

LEMMA AddsExists ==
  ASSUME NEW m \in 0..30, NEW bit \in [1..m -> {0, 1}]
  PROVE  \E f : Adds(f, bit, m)
<1> DEFINE step == [p \in Nat \X Nat |-> IF p[1] \in 1..m THEN p[2] + bit[p[1]] * Power(p[1] - 1) ELSE 0]
<1>1. \A j \in 1..m, x \in Nat : x + bit[j] * Power(j - 1) \in Nat
  <2>1. SUFFICES ASSUME NEW j \in 1..m, NEW x \in Nat PROVE x + bit[j] * Power(j - 1) \in Nat
    OBVIOUS
  <2>2. j - 1 \in 0..30
    OBVIOUS
  <2>3. Power(j - 1) \in Nat
    BY <2>2, PowerType
  <2>4. PICK p \in Nat, q \in Nat : p = bit[j] /\ q = Power(j - 1)
    BY <2>3
  <2> QED
    BY <2>4
<1>2. step \in [Nat \X Nat -> Nat]
  BY <1>1
<1>3. \A j \in 1..m, x \in Nat : step[<<j, x>>] = x + bit[j] * Power(j - 1)
  OBVIOUS
<1> HIDE DEF step
<1>4. PICK f : Recurs(f, Nat, 0, step, m)
  <2>1. 0 \in Nat /\ m \in Nat
    OBVIOUS
  <2> QED
    BY <1>2, <2>1, Recursion, Zenon
<1>5. f \in [0..m -> Nat] /\ f[0] = 0 /\ \A j \in 1..m : f[j] = step[<<j, f[j - 1]>>]
  BY <1>4 DEF Recurs
<1>6. \A j \in 1..m : f[j - 1] \in Nat
  <2>1. \A j \in 1..m : j - 1 \in 0..m
    OBVIOUS
  <2> QED
    BY <1>5, <2>1
<1>7. \A j \in 1..m : f[j] = f[j - 1] + bit[j] * Power(j - 1)
  BY <1>3, <1>5, <1>6
<1> QED
  BY <1>5, <1>7 DEF Adds

\* Doubling and adding the bits of a number, the lowest first, reverses them.
LEMMA DoublesReverses ==
  ASSUME NEW m \in 0..30, NEW c \in Nat, NEW bit, NEW f, Doubles(f, bit, m),
         \A j \in 1..m : bit[j] = Bit(c, j - 1)
  PROVE  f[m] < Power(m) /\ \A j \in 1..m : Bit(f[m], j - 1) = Bit(c, m - j)
<1>1. f \in [0..m -> Nat] /\ f[0] = 0 /\ \A j \in 1..m : f[j] = 2 * f[j - 1] + Bit(c, j - 1)
  BY DEF Doubles
<1> DEFINE T == {l \in Nat : l <= m => f[l] < Power(l) /\ \A j \in 1..l : Bit(f[l], j - 1) = Bit(c, l - j)}
<1>2. 0 \in T
  <2>1. f[0] < Power(0) /\ \A j \in 1..0 : Bit(f[0], j - 1) = Bit(c, 0 - j)
    BY <1>1, PowerNext
  <2> QED
    BY <2>1
<1>3. ASSUME NEW l \in T PROVE l + 1 \in T
  <2> SUFFICES ASSUME l + 1 <= m
               PROVE  /\ f[l + 1] < Power(l + 1)
                      /\ \A j \in 1..(l + 1) : Bit(f[l + 1], j - 1) = Bit(c, (l + 1) - j)
    OBVIOUS
  <2>1. /\ l \in Nat /\ l <= m /\ l \in 0..29 /\ l \in 0..m /\ l + 1 \in 1..m /\ (l + 1) - 1 = l
        /\ l + 1 \in 0..m /\ l \in 0..30
    OBVIOUS
  <2>2. f[l] < Power(l) /\ \A j \in 1..l : Bit(f[l], j - 1) = Bit(c, l - j)
    BY <2>1
  <2>3. Power(l + 1) = 2 * Power(l) /\ Power(l) \in Nat
    BY <2>1, PowerNext
  <2>4. Bit(c, l) \in {0, 1} /\ f[l] \in Nat /\ f[l + 1] = 2 * f[l] + Bit(c, l)
    BY <1>1, <2>1, BitType
  <2>5. f[l + 1] < Power(l + 1)
    BY <2>2, <2>3, <2>4
  <2>6. PICK x \in Nat, z \in Nat : x = Bit(c, l) /\ z = f[l] /\ x < Power(1) /\ f[l + 1] = x + z * Power(1) /\ x \in {0, 1}
    BY <2>4, SmallPowers
  <2>7. ASSUME NEW j \in 1..(l + 1) PROVE Bit(f[l + 1], j - 1) = Bit(c, (l + 1) - j)
    <3>1. CASE j = 1
      <4>1. 0 \in Nat /\ 1 \in Nat /\ 0 < 1 /\ 1 <= 30 /\ 0 <= 30
        OBVIOUS
      <4>2. Bit(x + z * Power(1), 0) = Bit(x, 0)
        BY <2>6, <4>1, BitOfSum
      <4>3. Bit(x, 0) = x
        <5>1. Bit(x, 0) = (x \div 1) % 2
          BY BitIs, PowerNext
        <5> QED
          BY <2>6, <5>1
      <4>4. j - 1 = 0 /\ (l + 1) - j = l
        BY <2>1, <3>1
      <4> QED
        BY <2>6, <4>2, <4>3, <4>4
    <3>2. CASE j # 1
      <4>1. /\ j - 1 \in Nat /\ 1 \in Nat /\ j - 1 >= 1 /\ 1 <= 30 /\ j - 1 <= 30 /\ j - 1 \in 1..l
            /\ (l + 1) - j = l - (j - 1)
        BY <2>1, <3>2
      <4>2. Bit(x + z * Power(1), j - 1) = Bit(z, (j - 1) - 1)
        BY <2>6, <4>1, BitOfSum
      <4> QED
        BY <2>2, <2>6, <4>1, <4>2
    <3> QED
      BY <3>1, <3>2
  <2> QED
    BY <2>5, <2>7
<1>4. T = Nat
  <2> HIDE DEF T
  <2> QED
    BY <1>2, <1>3, Induct DEF T
<1>5. m \in Nat /\ m <= m
  OBVIOUS
<1> QED
  BY <1>4, <1>5

\* The bits of a number, the highest first, give what is left of it when the bits
\* still to come are gone.
LEMMA DoublesReads ==
  ASSUME NEW l \in 0..30, NEW m \in 0..30, m <= l, NEW c \in Nat, c < Power(l), NEW bit, NEW f, Doubles(f, bit, m),
         \A j \in 1..m : bit[j] = Bit(c, l - j)
  PROVE  f[m] = c \div Power(l - m)
<1>1. f \in [0..m -> Nat] /\ f[0] = 0 /\ \A j \in 1..m : f[j] = 2 * f[j - 1] + Bit(c, l - j)
  BY DEF Doubles
<1> DEFINE T == {h \in Nat : h <= m => f[h] = c \div Power(l - h)}
<1>2. 0 \in T
  <2>1. PICK p \in Nat : p = Power(l) /\ c < p
    BY PowerType
  <2>2. c \div p = 0
    BY <2>1
  <2>3. l - 0 = l
    OBVIOUS
  <2> QED
    BY <1>1, <2>1, <2>2, <2>3
<1>3. ASSUME NEW h \in T PROVE h + 1 \in T
  <2> SUFFICES ASSUME h + 1 <= m PROVE f[h + 1] = c \div Power(l - (h + 1))
    OBVIOUS
  <2>1. PICK e \in 0..29 : e = l - (h + 1) /\ e + 1 = l - h
    <3>1. l - (h + 1) \in 0..29 /\ (l - (h + 1)) + 1 = l - h
      OBVIOUS
    <3> QED
      BY <3>1
  <2>2. h <= m /\ h \in 0..m /\ h + 1 \in 1..m /\ (h + 1) - 1 = h
    OBVIOUS
  <2>3. f[h] = c \div Power(e + 1) /\ f[h + 1] = 2 * f[h] + Bit(c, e) /\ f[h] \in Nat
    BY <1>1, <2>1, <2>2
  <2>4. PICK p \in Nat \ {0} : p = Power(e) /\ Power(e + 1) = 2 * p
    BY PowerNext
  <2>5. PICK q \in Nat : q = c \div p
    BY Divides
  <2>6. (c \div p) \div 2 = c \div (p * 2) /\ p * 2 = 2 * p
    <3>1. 2 \in Nat \ {0} /\ p * 2 = 2 * p
      OBVIOUS
    <3> QED
      BY <3>1, DivisionTwice, Zenon
  <2>7. f[h] = q \div 2 /\ Bit(c, e) = q % 2
    BY <2>3, <2>4, <2>5, <2>6, BitIs
  <2>8. q = 2 * (q \div 2) + (q % 2)
    OBVIOUS
  <2> QED
    BY <2>1, <2>3, <2>4, <2>5, <2>7, <2>8
<1>4. T = Nat
  <2> HIDE DEF T
  <2> QED
    BY <1>2, <1>3, Induct DEF T
<1>5. m \in Nat /\ m <= m
  OBVIOUS
<1> QED
  BY <1>4, <1>5

\* The bits of a number, the lowest first, give it back.
LEMMA AddsReads ==
  ASSUME NEW m \in 0..30, NEW x \in Nat, x < Power(m), NEW bit, NEW f, Adds(f, bit, m),
         \A j \in 1..m : bit[j] = Bit(x, j - 1)
  PROVE  f[m] = x
<1>1. f \in [0..m -> Nat] /\ f[0] = 0 /\ \A j \in 1..m : f[j] = f[j - 1] + Bit(x, j - 1) * Power(j - 1)
  BY DEF Adds
<1> DEFINE T == {l \in Nat : l <= m => f[l] = x % Power(l)}
<1>2. 0 \in T
  <2>1. x % 1 = 0
    OBVIOUS
  <2> QED
    BY <1>1, <2>1, PowerNext
<1>3. ASSUME NEW l \in T PROVE l + 1 \in T
  <2> SUFFICES ASSUME l + 1 <= m PROVE f[l + 1] = x % Power(l + 1)
    OBVIOUS
  <2>1. l \in 0..29 /\ l <= m /\ l \in 0..m /\ l + 1 \in 1..m /\ (l + 1) - 1 = l
    OBVIOUS
  <2>2. PICK p \in Nat \ {0} : p = Power(l) /\ Power(l + 1) = 2 * p
    BY <2>1, PowerNext
  <2>3. PICK q \in Nat, r \in Nat : q = x \div p /\ r = x % p /\ r < p /\ x = q * p + r
    <3>1. x \div p \in Nat /\ x % p \in Nat /\ x % p < p /\ x = (x \div p) * p + (x % p)
      BY Divides, Zenon
    <3> QED
      BY <3>1
  <2>4. PICK h \in Nat, z \in Nat : z = q % 2 /\ z \in {0, 1} /\ q = h * 2 + z
    <3>1. q \div 2 \in Nat /\ q % 2 \in {0, 1} /\ q = (q \div 2) * 2 + (q % 2)
      OBVIOUS
    <3> QED
      BY <3>1
  <2>5. f[l + 1] = r + z * p
    BY <1>1, <2>1, <2>2, <2>3, <2>4, BitIs
  <2>6. x = h * (2 * p) + (r + z * p)
    <3>1. (h * 2 + z) * p = h * (2 * p) + z * p
      OBVIOUS
    <3>2. q * p = (h * 2 + z) * p
      BY <2>4
    <3>3. PICK d, e : d = h * (2 * p) /\ e = z * p /\ d \in Nat /\ e \in Nat
      BY <2>4
    <3> QED
      BY <2>3, <3>1, <3>2, <3>3
  <2>7. r + z * p < 2 * p /\ r + z * p \in Nat /\ 2 * p \in Nat \ {0}
    BY <2>3, <2>4
  <2>8. x % (2 * p) = r + z * p
    BY <2>6, <2>7, Division
  <2> QED
    BY <2>2, <2>5, <2>8
<1>4. T = Nat
  <2> HIDE DEF T
  <2> QED
    BY <1>2, <1>3, Induct DEF T
<1>5. m \in Nat /\ m <= m
  OBVIOUS
<1>6. PICK p \in Nat \ {0} : p = Power(m)
  BY PowerType
<1>7. x % p = x
  BY <1>6
<1> QED
  BY <1>4, <1>5, <1>6, <1>7

-----------------------------------------------------------------------------
(* Codes written and read *)

\* A writer with the bits of a code behind those of another, the highest first.
ExtendsCode(v, u, m, c) ==
  /\ WriterOK(v) /\ BitCount(v) = BitCount(u) + m
  /\ \A j \in 1..BitCount(u) : BitOf(v, j) = BitOf(u, j)
  /\ \A j \in 1..m : BitOf(v, BitCount(u) + j) = Bit(c, m - j)

LEMMA PutCodeExtends ==
  ASSUME NEW v, WriterOK(v), NEW m \in 0..13, NEW c \in Nat
  PROVE  ExtendsCode(PutCode(v, c, m), v, m, c)
<1> DEFINE Is(e) == e = [k \in 0..m |-> IF k = 0 THEN 0 ELSE 2 * e[k - 1] + Bit(c, k - 1)]
           bit == [j \in 1..m |-> Bit(c, j - 1)]
<1>1. bit \in [1..m -> {0, 1}] /\ m \in Nat /\ m \in 0..30 /\ \A j \in 1..m : bit[j] = Bit(c, j - 1)
  <2>1. ASSUME NEW j \in 1..m PROVE Bit(c, j - 1) \in {0, 1}
    <3>1. j - 1 \in 0..30
      OBVIOUS
    <3> QED
      BY <3>1, BitType
  <2> QED
    BY <2>1
<1>2. PICK f : Doubles(f, bit, m)
  <2> HIDE DEF bit
  <2> QED
    BY <1>1, DoublesExists
<1>3. f \in [0..m -> Nat] /\ f[0] = 0 /\ \A j \in 1..m : f[j] = 2 * f[j - 1] + bit[j]
  BY <1>2 DEF Doubles
<1>4. Is(f)
  <2>1. ASSUME NEW j \in 0..m PROVE f[j] = IF j = 0 THEN 0 ELSE 2 * f[j - 1] + Bit(c, j - 1)
    <3>1. CASE j = 0
      BY <1>3, <3>1
    <3>2. CASE j # 0
      <4>1. j \in 1..m
        BY <3>2
      <4> HIDE DEF bit
      <4> QED
        BY <1>1, <1>3, <3>2, <4>1
    <3> QED
      BY <3>1, <3>2
  <2> QED
    BY <1>3, <2>1
<1> DEFINE u == CHOOSE e : Is(e)
<1>5. Is(u)
  <2> HIDE DEF Is
  <2> QED
    BY <1>4
<1>6. PutCode(v, c, m) = Put(v, u[m], m)
  BY Zenon DEF PutCode
<1> HIDE DEF u, bit
<1>7. u \in [0..m -> Nat] /\ u = f
  <2>1. DOMAIN u = 0..m /\ DOMAIN f = 0..m
    BY <1>4, <1>5
  <2> DEFINE T == {l \in Nat : l <= m => u[l] = f[l]}
  <2>2. 0 \in T
    BY <1>4, <1>5
  <2>3. ASSUME NEW l \in T PROVE l + 1 \in T
    <3> SUFFICES ASSUME l + 1 <= m PROVE u[l + 1] = f[l + 1]
      OBVIOUS
    <3>1. l + 1 \in 0..m /\ l + 1 # 0 /\ (l + 1) - 1 = l /\ l <= m
      OBVIOUS
    <3>2. u[l] = f[l]
      BY <3>1
    <3> QED
      BY <1>4, <1>5, <3>1, <3>2
  <2>4. T = Nat
    <3> HIDE DEF T
    <3> QED
      BY <2>2, <2>3, Induct DEF T
  <2>5. \A l \in 0..m : u[l] = f[l]
    BY <2>4
  <2>6. u = [l \in 0..m |-> u[l]] /\ f = [l \in 0..m |-> f[l]]
    BY <1>3, <1>5
  <2>7. u = f
    BY <2>5, <2>6
  <2> QED
    BY <1>3, <2>7
<1>8. f[m] \in Nat /\ f[m] < Power(m) /\ \A j \in 1..m : Bit(f[m], j - 1) = Bit(c, m - j)
  <2>1. f[m] \in Nat
    BY <1>1, <1>3
  <2> QED
    <3>1. f[m] < Power(m) /\ \A j \in 1..m : Bit(f[m], j - 1) = Bit(c, m - j)
      <4>1. PICK h : h = bit
        OBVIOUS
      <4>2. Doubles(f, h, m) /\ \A j \in 1..m : h[j] = Bit(c, j - 1)
        BY <1>1, <1>2, <4>1
      <4>3. m \in 0..30
        BY <1>1
      <4> QED
        BY <4>2, <4>3, DoublesReverses
    <3> QED
      BY <2>1, <3>1
<1>9. Extends(Put(v, f[m], m), v, m, f[m])
  <2>1. PICK x \in Nat : x = f[m] /\ x < Power(m)
    BY <1>8
  <2>2. Extends(Put(v, x, m), v, m, x)
    BY <2>1, PutExtends
  <2> QED
    BY <2>1, <2>2
<1> QED
  BY <1>6, <1>7, <1>8, <1>9 DEF Extends, ExtendsCode

BitsSeq == Seq({0, 1})

LEMMA BitAtType ==
  ASSUME NEW bits \in BitsSeq, NEW p \in Int
  PROVE  BitAt(bits, p) \in {0, 1}
<1>1. DOMAIN bits = 1..Len(bits) /\ \A j \in 1..Len(bits) : bits[j] \in {0, 1}
  BY LenProperties, ElementOfSeq DEF BitsSeq
<1> QED
  BY <1>1 DEF BitAt

\* Bits read are functions of the steps.
LEMMA CodeIs ==
  ASSUME NEW bits \in BitsSeq, NEW p \in Int, NEW m \in 0..30
  PROVE  \E f, bit : /\ Doubles(f, bit, m) /\ Code(bits, p, m) = f[m]
                     /\ \A j \in 1..m : bit[j] = BitAt(bits, p + j - 1)
<1> DEFINE Is(e) == e = [k \in 0..m |-> IF k = 0 THEN 0 ELSE 2 * e[k - 1] + BitAt(bits, p + k - 1)]
           bit == [j \in 1..m |-> BitAt(bits, p + j - 1)]
<1>1. bit \in [1..m -> {0, 1}] /\ m \in Nat /\ \A j \in 1..m : bit[j] = BitAt(bits, p + j - 1)
  <2>1. ASSUME NEW j \in 1..m PROVE BitAt(bits, p + j - 1) \in {0, 1}
    <3>1. p + j - 1 \in Int
      OBVIOUS
    <3> QED
      BY <3>1, BitAtType
  <2> QED
    BY <2>1
<1> HIDE DEF bit
<1>2. PICK f : Doubles(f, bit, m)
  BY <1>1, DoublesExists
<1>3. f \in [0..m -> Nat] /\ f[0] = 0 /\ \A j \in 1..m : f[j] = 2 * f[j - 1] + bit[j]
  BY <1>2 DEF Doubles
<1>4. Is(f)
  <2>1. ASSUME NEW j \in 0..m PROVE f[j] = IF j = 0 THEN 0 ELSE 2 * f[j - 1] + BitAt(bits, p + j - 1)
    <3>1. CASE j = 0
      BY <1>3, <3>1
    <3>2. CASE j # 0
      <4>1. j \in 1..m
        BY <3>2
      <4> QED
        BY <1>1, <1>3, <3>2, <4>1
    <3> QED
      BY <3>1, <3>2
  <2> QED
    BY <1>3, <2>1
<1> DEFINE u == CHOOSE e : Is(e)
<1>5. Is(u)
  <2> HIDE DEF Is
  <2> QED
    BY <1>4
<1>6. Code(bits, p, m) = u[m]
  BY Zenon DEF Code
<1> HIDE DEF u
<1>7. DOMAIN u = 0..m /\ u = [k \in 0..m |-> u[k]]
  BY <1>5
<1>8. u[0] = 0
  BY <1>1, <1>5
<1>9. \A j \in 1..m : u[j] = 2 * u[j - 1] + bit[j]
  <2>1. \A j \in 1..m : j \in 0..m /\ j # 0
    OBVIOUS
  <2> QED
    BY <1>1, <1>5, <2>1
<1>10. \A j \in 0..m : u[j] = f[j]
  <2> DEFINE T == {l \in Nat : l <= m => u[l] = f[l]}
  <2>1. 0 \in T
    BY <1>3, <1>8
  <2>2. ASSUME NEW l \in T PROVE l + 1 \in T
    <3> SUFFICES ASSUME l + 1 <= m PROVE u[l + 1] = f[l + 1]
      OBVIOUS
    <3>1. l + 1 \in 1..m /\ (l + 1) - 1 = l /\ l <= m
      OBVIOUS
    <3>2. u[l] = f[l]
      BY <3>1
    <3> QED
      BY <1>3, <1>9, <3>1, <3>2
  <2>3. T = Nat
    <3> HIDE DEF T
    <3> QED
      BY <2>1, <2>2, Induct DEF T
  <2> QED
    BY <2>3
<1>11. Code(bits, p, m) = f[m]
  BY <1>1, <1>6, <1>10
<1> QED
  BY <1>1, <1>2, <1>11

LEMMA NumberIs ==
  ASSUME NEW bits \in BitsSeq, NEW p \in Int, NEW m \in 0..30
  PROVE  \E f, bit : /\ Adds(f, bit, m) /\ Number(bits, p, m) = f[m]
                     /\ \A j \in 1..m : bit[j] = BitAt(bits, p + j - 1)
<1> DEFINE Is(e) == e = [k \in 0..m |-> IF k = 0 THEN 0 ELSE e[k - 1] + BitAt(bits, p + k - 1) * 2 ^ (k - 1)]
           bit == [j \in 1..m |-> BitAt(bits, p + j - 1)]
<1>1. bit \in [1..m -> {0, 1}] /\ m \in Nat /\ \A j \in 1..m : bit[j] = BitAt(bits, p + j - 1)
  <2>1. ASSUME NEW j \in 1..m PROVE BitAt(bits, p + j - 1) \in {0, 1}
    <3>1. p + j - 1 \in Int
      OBVIOUS
    <3> QED
      BY <3>1, BitAtType
  <2> QED
    BY <2>1
<1> HIDE DEF bit
<1>2. PICK f : Adds(f, bit, m)
  BY <1>1, AddsExists
<1>3. f \in [0..m -> Nat] /\ f[0] = 0 /\ \A j \in 1..m : f[j] = f[j - 1] + bit[j] * Power(j - 1)
  BY <1>2 DEF Adds
<1>4. Is(f)
  <2>1. ASSUME NEW j \in 0..m PROVE f[j] = IF j = 0 THEN 0 ELSE f[j - 1] + BitAt(bits, p + j - 1) * Power(j - 1)
    <3>1. CASE j = 0
      BY <1>3, <3>1
    <3>2. CASE j # 0
      <4>1. j \in 1..m
        BY <3>2
      <4> QED
        BY <1>1, <1>3, <3>2, <4>1
    <3> QED
      BY <3>1, <3>2
  <2> QED
    BY <1>3, <2>1 DEF Power
<1> DEFINE u == CHOOSE e : Is(e)
<1>5. Is(u)
  <2> HIDE DEF Is
  <2> QED
    BY <1>4
<1>6. Number(bits, p, m) = u[m]
  BY Zenon DEF Number
<1> HIDE DEF u
<1>8. u[0] = 0
  BY <1>1, <1>5
<1>9. \A j \in 1..m : u[j] = u[j - 1] + bit[j] * Power(j - 1)
  <2>1. \A j \in 1..m : j \in 0..m /\ j # 0
    OBVIOUS
  <2> QED
    BY <1>1, <1>5, <2>1 DEF Power
<1>10. \A j \in 0..m : u[j] = f[j]
  <2> DEFINE T == {l \in Nat : l <= m => u[l] = f[l]}
  <2>1. 0 \in T
    BY <1>3, <1>8
  <2>2. ASSUME NEW l \in T PROVE l + 1 \in T
    <3> SUFFICES ASSUME l + 1 <= m PROVE u[l + 1] = f[l + 1]
      OBVIOUS
    <3>1. l + 1 \in 1..m /\ (l + 1) - 1 = l /\ l <= m
      OBVIOUS
    <3>2. u[l] = f[l]
      BY <3>1
    <3> QED
      BY <1>3, <1>9, <3>1, <3>2
  <2>3. T = Nat
    <3> HIDE DEF T
    <3> QED
      BY <2>1, <2>2, Induct DEF T
  <2> QED
    BY <2>3
<1>11. Number(bits, p, m) = f[m]
  BY <1>1, <1>6, <1>10
<1> QED
  BY <1>1, <1>2, <1>11

LEMMA CodeReads ==
  ASSUME NEW bits \in BitsSeq, NEW p \in Int, NEW l \in 0..30, NEW m \in 0..30, m <= l,
         NEW c \in Nat, c < Power(l),
         \A j \in 1..m : BitAt(bits, p + j - 1) = Bit(c, l - j)
  PROVE  Code(bits, p, m) = c \div Power(l - m)
<1>1. PICK f, bit : /\ Doubles(f, bit, m) /\ Code(bits, p, m) = f[m]
                    /\ \A j \in 1..m : bit[j] = BitAt(bits, p + j - 1)
  BY CodeIs
<1>2. \A j \in 1..m : bit[j] = Bit(c, l - j)
  BY <1>1
<1> QED
  BY <1>1, <1>2, DoublesReads

LEMMA NumberReads ==
  ASSUME NEW bits \in BitsSeq, NEW p \in Int, NEW m \in 0..30, NEW x \in Nat, x < Power(m),
         \A j \in 1..m : BitAt(bits, p + j - 1) = Bit(x, j - 1)
  PROVE  Number(bits, p, m) = x
<1>1. PICK f, bit : /\ Adds(f, bit, m) /\ Number(bits, p, m) = f[m]
                    /\ \A j \in 1..m : bit[j] = BitAt(bits, p + j - 1)
  BY NumberIs
<1>2. \A j \in 1..m : bit[j] = Bit(x, j - 1)
  BY <1>1
<1> QED
  BY <1>1, <1>2, AddsReads

-----------------------------------------------------------------------------
(* The tables, a row at a time *)

LEMMA LengthBases ==
  /\ length_base[1] = 3 /\ length_base[2] = 4 /\ length_base[3] = 5 /\ length_base[4] = 6
  /\ length_base[5] = 7 /\ length_base[6] = 8 /\ length_base[7] = 9 /\ length_base[8] = 10
  /\ length_base[9] = 11 /\ length_base[10] = 13 /\ length_base[11] = 15 /\ length_base[12] = 17
  /\ length_base[13] = 19 /\ length_base[14] = 23 /\ length_base[15] = 27 /\ length_base[16] = 31
  /\ length_base[17] = 35 /\ length_base[18] = 43 /\ length_base[19] = 51 /\ length_base[20] = 59
  /\ length_base[21] = 67 /\ length_base[22] = 83 /\ length_base[23] = 99 /\ length_base[24] = 115
  /\ length_base[25] = 131 /\ length_base[26] = 163 /\ length_base[27] = 195 /\ length_base[28] = 227
  /\ length_base[29] = 258
BY DEF length_base

LEMMA LengthExtras ==
  /\ length_extra[1] = 0 /\ length_extra[2] = 0 /\ length_extra[3] = 0 /\ length_extra[4] = 0
  /\ length_extra[5] = 0 /\ length_extra[6] = 0 /\ length_extra[7] = 0 /\ length_extra[8] = 0
  /\ length_extra[9] = 1 /\ length_extra[10] = 1 /\ length_extra[11] = 1 /\ length_extra[12] = 1
  /\ length_extra[13] = 2 /\ length_extra[14] = 2 /\ length_extra[15] = 2 /\ length_extra[16] = 2
  /\ length_extra[17] = 3 /\ length_extra[18] = 3 /\ length_extra[19] = 3 /\ length_extra[20] = 3
  /\ length_extra[21] = 4 /\ length_extra[22] = 4 /\ length_extra[23] = 4 /\ length_extra[24] = 4
  /\ length_extra[25] = 5 /\ length_extra[26] = 5 /\ length_extra[27] = 5 /\ length_extra[28] = 5
  /\ length_extra[29] = 0
BY DEF length_extra

LEMMA DistBases ==
  /\ dist_base[1] = 1 /\ dist_base[2] = 2 /\ dist_base[3] = 3 /\ dist_base[4] = 4
  /\ dist_base[5] = 5 /\ dist_base[6] = 7 /\ dist_base[7] = 9 /\ dist_base[8] = 13
  /\ dist_base[9] = 17 /\ dist_base[10] = 25 /\ dist_base[11] = 33 /\ dist_base[12] = 49
  /\ dist_base[13] = 65 /\ dist_base[14] = 97 /\ dist_base[15] = 129 /\ dist_base[16] = 193
  /\ dist_base[17] = 257 /\ dist_base[18] = 385 /\ dist_base[19] = 513 /\ dist_base[20] = 769
  /\ dist_base[21] = 1025 /\ dist_base[22] = 1537 /\ dist_base[23] = 2049 /\ dist_base[24] = 3073
  /\ dist_base[25] = 4097 /\ dist_base[26] = 6145 /\ dist_base[27] = 8193 /\ dist_base[28] = 12289
  /\ dist_base[29] = 16385 /\ dist_base[30] = 24577
BY DEF dist_base

LEMMA DistExtras ==
  /\ dist_extra[1] = 0 /\ dist_extra[2] = 0 /\ dist_extra[3] = 0 /\ dist_extra[4] = 0
  /\ dist_extra[5] = 1 /\ dist_extra[6] = 1 /\ dist_extra[7] = 2 /\ dist_extra[8] = 2
  /\ dist_extra[9] = 3 /\ dist_extra[10] = 3 /\ dist_extra[11] = 4 /\ dist_extra[12] = 4
  /\ dist_extra[13] = 5 /\ dist_extra[14] = 5 /\ dist_extra[15] = 6 /\ dist_extra[16] = 6
  /\ dist_extra[17] = 7 /\ dist_extra[18] = 7 /\ dist_extra[19] = 8 /\ dist_extra[20] = 8
  /\ dist_extra[21] = 9 /\ dist_extra[22] = 9 /\ dist_extra[23] = 10 /\ dist_extra[24] = 10
  /\ dist_extra[25] = 11 /\ dist_extra[26] = 11 /\ dist_extra[27] = 12 /\ dist_extra[28] = 12
  /\ dist_extra[29] = 13 /\ dist_extra[30] = 13
BY DEF dist_extra

\* A row is what the formula of the format says, and goes on to the next one.
LengthRowIs(l) ==
  /\ length_base[l] = LengthBase(256 + l) /\ length_extra[l] = LengthExtra(256 + l)
  /\ length_base[l] \in Nat /\ length_extra[l] \in 0..5
  /\ l <= 27 => length_base[l + 1] = length_base[l] + Power(length_extra[l])

DistRowIs(l) ==
  /\ dist_base[l] = DistBase(l - 1) /\ dist_extra[l] = DistExtra(l - 1)
  /\ dist_base[l] \in Nat /\ dist_extra[l] \in 0..13
  /\ l <= 29 => dist_base[l + 1] = dist_base[l] + Power(dist_extra[l])

LEMMA LengthRow ==
  ASSUME NEW l \in 1..29
  PROVE  LengthRowIs(l)
<1>1. CASE l = 1
  <2>1. LengthExtra(257) = 0 /\ LengthBase(257) = 3
    BY DEF LengthExtra, LengthBase
  <2> QED
    BY <1>1, <2>1, LengthBases, LengthExtras DEF LengthRowIs, Power
<1>2. CASE l = 2
  <2>1. LengthExtra(258) = 0 /\ LengthBase(258) = 4
    BY DEF LengthExtra, LengthBase
  <2> QED
    BY <1>2, <2>1, LengthBases, LengthExtras DEF LengthRowIs, Power
<1>3. CASE l = 3
  <2>1. LengthExtra(259) = 0 /\ LengthBase(259) = 5
    BY DEF LengthExtra, LengthBase
  <2> QED
    BY <1>3, <2>1, LengthBases, LengthExtras DEF LengthRowIs, Power
<1>4. CASE l = 4
  <2>1. LengthExtra(260) = 0 /\ LengthBase(260) = 6
    BY DEF LengthExtra, LengthBase
  <2> QED
    BY <1>4, <2>1, LengthBases, LengthExtras DEF LengthRowIs, Power
<1>5. CASE l = 5
  <2>1. LengthExtra(261) = 0 /\ LengthBase(261) = 7
    BY DEF LengthExtra, LengthBase
  <2> QED
    BY <1>5, <2>1, LengthBases, LengthExtras DEF LengthRowIs, Power
<1>6. CASE l = 6
  <2>1. LengthExtra(262) = 0 /\ LengthBase(262) = 8
    BY DEF LengthExtra, LengthBase
  <2> QED
    BY <1>6, <2>1, LengthBases, LengthExtras DEF LengthRowIs, Power
<1>7. CASE l = 7
  <2>1. LengthExtra(263) = 0 /\ LengthBase(263) = 9
    BY DEF LengthExtra, LengthBase
  <2> QED
    BY <1>7, <2>1, LengthBases, LengthExtras DEF LengthRowIs, Power
<1>8. CASE l = 8
  <2>1. LengthExtra(264) = 0 /\ LengthBase(264) = 10
    BY DEF LengthExtra, LengthBase
  <2> QED
    BY <1>8, <2>1, LengthBases, LengthExtras DEF LengthRowIs, Power
<1>9. CASE l = 9
  <2>1. LengthExtra(265) = 1 /\ LengthBase(265) = 11
    BY DEF LengthExtra, LengthBase
  <2> QED
    BY <1>9, <2>1, LengthBases, LengthExtras DEF LengthRowIs, Power
<1>10. CASE l = 10
  <2>1. LengthExtra(266) = 1 /\ LengthBase(266) = 13
    BY DEF LengthExtra, LengthBase
  <2> QED
    BY <1>10, <2>1, LengthBases, LengthExtras DEF LengthRowIs, Power
<1>11. CASE l = 11
  <2>1. LengthExtra(267) = 1 /\ LengthBase(267) = 15
    BY DEF LengthExtra, LengthBase
  <2> QED
    BY <1>11, <2>1, LengthBases, LengthExtras DEF LengthRowIs, Power
<1>12. CASE l = 12
  <2>1. LengthExtra(268) = 1 /\ LengthBase(268) = 17
    BY DEF LengthExtra, LengthBase
  <2> QED
    BY <1>12, <2>1, LengthBases, LengthExtras DEF LengthRowIs, Power
<1>13. CASE l = 13
  <2>1. LengthExtra(269) = 2 /\ LengthBase(269) = 19
    BY DEF LengthExtra, LengthBase
  <2> QED
    BY <1>13, <2>1, LengthBases, LengthExtras DEF LengthRowIs, Power
<1>14. CASE l = 14
  <2>1. LengthExtra(270) = 2 /\ LengthBase(270) = 23
    BY DEF LengthExtra, LengthBase
  <2> QED
    BY <1>14, <2>1, LengthBases, LengthExtras DEF LengthRowIs, Power
<1>15. CASE l = 15
  <2>1. LengthExtra(271) = 2 /\ LengthBase(271) = 27
    BY DEF LengthExtra, LengthBase
  <2> QED
    BY <1>15, <2>1, LengthBases, LengthExtras DEF LengthRowIs, Power
<1>16. CASE l = 16
  <2>1. LengthExtra(272) = 2 /\ LengthBase(272) = 31
    BY DEF LengthExtra, LengthBase
  <2> QED
    BY <1>16, <2>1, LengthBases, LengthExtras DEF LengthRowIs, Power
<1>17. CASE l = 17
  <2>1. LengthExtra(273) = 3 /\ LengthBase(273) = 35
    BY DEF LengthExtra, LengthBase
  <2> QED
    BY <1>17, <2>1, LengthBases, LengthExtras DEF LengthRowIs, Power
<1>18. CASE l = 18
  <2>1. LengthExtra(274) = 3 /\ LengthBase(274) = 43
    BY DEF LengthExtra, LengthBase
  <2> QED
    BY <1>18, <2>1, LengthBases, LengthExtras DEF LengthRowIs, Power
<1>19. CASE l = 19
  <2>1. LengthExtra(275) = 3 /\ LengthBase(275) = 51
    BY DEF LengthExtra, LengthBase
  <2> QED
    BY <1>19, <2>1, LengthBases, LengthExtras DEF LengthRowIs, Power
<1>20. CASE l = 20
  <2>1. LengthExtra(276) = 3 /\ LengthBase(276) = 59
    BY DEF LengthExtra, LengthBase
  <2> QED
    BY <1>20, <2>1, LengthBases, LengthExtras DEF LengthRowIs, Power
<1>21. CASE l = 21
  <2>1. LengthExtra(277) = 4 /\ LengthBase(277) = 67
    BY DEF LengthExtra, LengthBase
  <2> QED
    BY <1>21, <2>1, LengthBases, LengthExtras DEF LengthRowIs, Power
<1>22. CASE l = 22
  <2>1. LengthExtra(278) = 4 /\ LengthBase(278) = 83
    BY DEF LengthExtra, LengthBase
  <2> QED
    BY <1>22, <2>1, LengthBases, LengthExtras DEF LengthRowIs, Power
<1>23. CASE l = 23
  <2>1. LengthExtra(279) = 4 /\ LengthBase(279) = 99
    BY DEF LengthExtra, LengthBase
  <2> QED
    BY <1>23, <2>1, LengthBases, LengthExtras DEF LengthRowIs, Power
<1>24. CASE l = 24
  <2>1. LengthExtra(280) = 4 /\ LengthBase(280) = 115
    BY DEF LengthExtra, LengthBase
  <2> QED
    BY <1>24, <2>1, LengthBases, LengthExtras DEF LengthRowIs, Power
<1>25. CASE l = 25
  <2>1. LengthExtra(281) = 5 /\ LengthBase(281) = 131
    BY DEF LengthExtra, LengthBase
  <2> QED
    BY <1>25, <2>1, LengthBases, LengthExtras DEF LengthRowIs, Power
<1>26. CASE l = 26
  <2>1. LengthExtra(282) = 5 /\ LengthBase(282) = 163
    BY DEF LengthExtra, LengthBase
  <2> QED
    BY <1>26, <2>1, LengthBases, LengthExtras DEF LengthRowIs, Power
<1>27. CASE l = 27
  <2>1. LengthExtra(283) = 5 /\ LengthBase(283) = 195
    BY DEF LengthExtra, LengthBase
  <2> QED
    BY <1>27, <2>1, LengthBases, LengthExtras DEF LengthRowIs, Power
<1>28. CASE l = 28
  <2>1. LengthExtra(284) = 5 /\ LengthBase(284) = 227
    BY DEF LengthExtra, LengthBase
  <2> QED
    BY <1>28, <2>1, LengthBases, LengthExtras DEF LengthRowIs, Power
<1>29. CASE l = 29
  <2>1. LengthExtra(285) = 0 /\ LengthBase(285) = 258
    BY DEF LengthExtra, LengthBase
  <2> QED
    BY <1>29, <2>1, LengthBases, LengthExtras DEF LengthRowIs, Power
<1> QED
  BY <1>1, <1>2, <1>3, <1>4, <1>5, <1>6, <1>7, <1>8, <1>9, <1>10,
     <1>11, <1>12, <1>13, <1>14, <1>15, <1>16, <1>17, <1>18, <1>19, <1>20,
     <1>21, <1>22, <1>23, <1>24, <1>25, <1>26, <1>27, <1>28, <1>29

LEMMA DistRow ==
  ASSUME NEW l \in 1..30
  PROVE  DistRowIs(l)
<1>1. CASE l = 1
  <2>1. DistExtra(0) = 0 /\ DistBase(0) = 1
    BY DEF DistExtra, DistBase
  <2> QED
    BY <1>1, <2>1, DistBases, DistExtras DEF DistRowIs, Power
<1>2. CASE l = 2
  <2>1. DistExtra(1) = 0 /\ DistBase(1) = 2
    BY DEF DistExtra, DistBase
  <2> QED
    BY <1>2, <2>1, DistBases, DistExtras DEF DistRowIs, Power
<1>3. CASE l = 3
  <2>1. DistExtra(2) = 0 /\ DistBase(2) = 3
    BY DEF DistExtra, DistBase
  <2> QED
    BY <1>3, <2>1, DistBases, DistExtras DEF DistRowIs, Power
<1>4. CASE l = 4
  <2>1. DistExtra(3) = 0 /\ DistBase(3) = 4
    BY DEF DistExtra, DistBase
  <2> QED
    BY <1>4, <2>1, DistBases, DistExtras DEF DistRowIs, Power
<1>5. CASE l = 5
  <2>1. DistExtra(4) = 1 /\ DistBase(4) = 5
    BY DEF DistExtra, DistBase
  <2> QED
    BY <1>5, <2>1, DistBases, DistExtras DEF DistRowIs, Power
<1>6. CASE l = 6
  <2>1. DistExtra(5) = 1 /\ DistBase(5) = 7
    BY DEF DistExtra, DistBase
  <2> QED
    BY <1>6, <2>1, DistBases, DistExtras DEF DistRowIs, Power
<1>7. CASE l = 7
  <2>1. DistExtra(6) = 2 /\ DistBase(6) = 9
    BY DEF DistExtra, DistBase
  <2> QED
    BY <1>7, <2>1, DistBases, DistExtras DEF DistRowIs, Power
<1>8. CASE l = 8
  <2>1. DistExtra(7) = 2 /\ DistBase(7) = 13
    BY DEF DistExtra, DistBase
  <2> QED
    BY <1>8, <2>1, DistBases, DistExtras DEF DistRowIs, Power
<1>9. CASE l = 9
  <2>1. DistExtra(8) = 3 /\ DistBase(8) = 17
    BY DEF DistExtra, DistBase
  <2> QED
    BY <1>9, <2>1, DistBases, DistExtras DEF DistRowIs, Power
<1>10. CASE l = 10
  <2>1. DistExtra(9) = 3 /\ DistBase(9) = 25
    BY DEF DistExtra, DistBase
  <2> QED
    BY <1>10, <2>1, DistBases, DistExtras DEF DistRowIs, Power
<1>11. CASE l = 11
  <2>1. DistExtra(10) = 4 /\ DistBase(10) = 33
    BY DEF DistExtra, DistBase
  <2> QED
    BY <1>11, <2>1, DistBases, DistExtras DEF DistRowIs, Power
<1>12. CASE l = 12
  <2>1. DistExtra(11) = 4 /\ DistBase(11) = 49
    BY DEF DistExtra, DistBase
  <2> QED
    BY <1>12, <2>1, DistBases, DistExtras DEF DistRowIs, Power
<1>13. CASE l = 13
  <2>1. DistExtra(12) = 5 /\ DistBase(12) = 65
    BY DEF DistExtra, DistBase
  <2> QED
    BY <1>13, <2>1, DistBases, DistExtras DEF DistRowIs, Power
<1>14. CASE l = 14
  <2>1. DistExtra(13) = 5 /\ DistBase(13) = 97
    BY DEF DistExtra, DistBase
  <2> QED
    BY <1>14, <2>1, DistBases, DistExtras DEF DistRowIs, Power
<1>15. CASE l = 15
  <2>1. DistExtra(14) = 6 /\ DistBase(14) = 129
    BY DEF DistExtra, DistBase
  <2> QED
    BY <1>15, <2>1, DistBases, DistExtras DEF DistRowIs, Power
<1>16. CASE l = 16
  <2>1. DistExtra(15) = 6 /\ DistBase(15) = 193
    BY DEF DistExtra, DistBase
  <2> QED
    BY <1>16, <2>1, DistBases, DistExtras DEF DistRowIs, Power
<1>17. CASE l = 17
  <2>1. DistExtra(16) = 7 /\ DistBase(16) = 257
    BY DEF DistExtra, DistBase
  <2> QED
    BY <1>17, <2>1, DistBases, DistExtras DEF DistRowIs, Power
<1>18. CASE l = 18
  <2>1. DistExtra(17) = 7 /\ DistBase(17) = 385
    BY DEF DistExtra, DistBase
  <2> QED
    BY <1>18, <2>1, DistBases, DistExtras DEF DistRowIs, Power
<1>19. CASE l = 19
  <2>1. DistExtra(18) = 8 /\ DistBase(18) = 513
    BY DEF DistExtra, DistBase
  <2> QED
    BY <1>19, <2>1, DistBases, DistExtras DEF DistRowIs, Power
<1>20. CASE l = 20
  <2>1. DistExtra(19) = 8 /\ DistBase(19) = 769
    BY DEF DistExtra, DistBase
  <2> QED
    BY <1>20, <2>1, DistBases, DistExtras DEF DistRowIs, Power
<1>21. CASE l = 21
  <2>1. DistExtra(20) = 9 /\ DistBase(20) = 1025
    BY DEF DistExtra, DistBase
  <2> QED
    BY <1>21, <2>1, DistBases, DistExtras DEF DistRowIs, Power
<1>22. CASE l = 22
  <2>1. DistExtra(21) = 9 /\ DistBase(21) = 1537
    BY DEF DistExtra, DistBase
  <2> QED
    BY <1>22, <2>1, DistBases, DistExtras DEF DistRowIs, Power
<1>23. CASE l = 23
  <2>1. DistExtra(22) = 10 /\ DistBase(22) = 2049
    BY DEF DistExtra, DistBase
  <2> QED
    BY <1>23, <2>1, DistBases, DistExtras DEF DistRowIs, Power
<1>24. CASE l = 24
  <2>1. DistExtra(23) = 10 /\ DistBase(23) = 3073
    BY DEF DistExtra, DistBase
  <2> QED
    BY <1>24, <2>1, DistBases, DistExtras DEF DistRowIs, Power
<1>25. CASE l = 25
  <2>1. DistExtra(24) = 11 /\ DistBase(24) = 4097
    BY DEF DistExtra, DistBase
  <2> QED
    BY <1>25, <2>1, DistBases, DistExtras DEF DistRowIs, Power
<1>26. CASE l = 26
  <2>1. DistExtra(25) = 11 /\ DistBase(25) = 6145
    BY DEF DistExtra, DistBase
  <2> QED
    BY <1>26, <2>1, DistBases, DistExtras DEF DistRowIs, Power
<1>27. CASE l = 27
  <2>1. DistExtra(26) = 12 /\ DistBase(26) = 8193
    BY DEF DistExtra, DistBase
  <2> QED
    BY <1>27, <2>1, DistBases, DistExtras DEF DistRowIs, Power
<1>28. CASE l = 28
  <2>1. DistExtra(27) = 12 /\ DistBase(27) = 12289
    BY DEF DistExtra, DistBase
  <2> QED
    BY <1>28, <2>1, DistBases, DistExtras DEF DistRowIs, Power
<1>29. CASE l = 29
  <2>1. DistExtra(28) = 13 /\ DistBase(28) = 16385
    BY DEF DistExtra, DistBase
  <2> QED
    BY <1>29, <2>1, DistBases, DistExtras DEF DistRowIs, Power
<1>30. CASE l = 30
  <2>1. DistExtra(29) = 13 /\ DistBase(29) = 24577
    BY DEF DistExtra, DistBase
  <2> QED
    BY <1>30, <2>1, DistBases, DistExtras DEF DistRowIs, Power
<1> QED
  BY <1>1, <1>2, <1>3, <1>4, <1>5, <1>6, <1>7, <1>8, <1>9, <1>10,
     <1>11, <1>12, <1>13, <1>14, <1>15, <1>16, <1>17, <1>18, <1>19, <1>20,
     <1>21, <1>22, <1>23, <1>24, <1>25, <1>26, <1>27, <1>28, <1>29, <1>30

\* A sequence that increases by a step increases by many.
LEMMA Increasing ==
  ASSUME NEW m \in Nat, NEW t, \A l \in 1..m : t[l] \in Nat,
         \A l \in 1..(m - 1) : t[l] < t[l + 1]
  PROVE  \A l, j \in 1..m : l < j => t[l] < t[j]
<1> SUFFICES ASSUME NEW l \in 1..m PROVE \A j \in 1..m : l < j => t[l] < t[j]
  OBVIOUS
<1> DEFINE T == {h \in Nat : h <= m /\ l < h => t[l] < t[h]}
<1>1. 0 \in T
  OBVIOUS
<1>2. ASSUME NEW h \in T PROVE h + 1 \in T
  <2> SUFFICES ASSUME h + 1 <= m, l < h + 1 PROVE t[l] < t[h + 1]
    OBVIOUS
  <2>1. h \in 1..(m - 1) /\ h \in 1..m /\ h + 1 \in 1..m /\ h <= m
    OBVIOUS
  <2>2. t[h] < t[h + 1] /\ t[h] \in Nat /\ t[h + 1] \in Nat /\ t[l] \in Nat
    BY <2>1
  <2>3. l < h => t[l] < t[h]
    BY <2>1
  <2>4. l = h \/ l < h
    BY <2>1
  <2> QED
    BY <2>2, <2>3, <2>4
<1>3. T = Nat
  <2> HIDE DEF T
  <2> QED
    BY <1>1, <1>2, Induct DEF T
<1> QED
  BY <1>3

\* The search through a table finds a row.
LEMMA LastNotAboveIs ==
  ASSUME NEW t, NEW m \in Nat \ {0}, DOMAIN t = 1..m, \A l \in 1..m : t[l] \in Nat,
         NEW x \in Nat, t[1] <= x
  PROVE  /\ LastNotAbove(t, x) \in 1..m
         /\ t[LastNotAbove(t, x)] <= x
         /\ \A j \in 1..m : j > LastNotAbove(t, x) => t[j] > x
<1> DEFINE G == {m - l : l \in {h \in 1..m : t[h] <= x}}
<1>1. G \subseteq Nat /\ m - 1 \in G
  <2>1. 1 \in 1..m
    OBVIOUS
  <2> QED
    BY <2>1
<1>2. PICK e \in G : \A g \in G : e <= g
  <2> HIDE DEF G
  <2>1. G # {} /\ G \in SUBSET Nat
    BY <1>1
  <2> QED
    BY <2>1, LeastExists
<1>3. PICK l \in 1..m : t[l] <= x /\ e = m - l
  OBVIOUS
<1>4. ASSUME NEW j \in 1..m, j > l PROVE t[j] > x
  <2> SUFFICES ASSUME t[j] <= x PROVE FALSE
    BY <1>4
  <2>1. m - j \in G
    OBVIOUS
  <2>2. m - l <= m - j
    BY <1>2, <1>3, <2>1
  <2> QED
    BY <1>4, <2>2
<1>5. \E h \in DOMAIN t : t[h] <= x /\ \A j \in DOMAIN t : j > h => t[j] > x
  BY <1>3, <1>4
<1> DEFINE r == LastNotAbove(t, x)
<1>6. r \in DOMAIN t /\ t[r] <= x /\ \A j \in DOMAIN t : j > r => t[j] > x
  BY <1>5 DEF LastNotAbove
<1> QED
  BY <1>6

\* The row of a length or of a distance, which is the only one but for 258.
LengthFound(length, l) ==
  /\ l \in 1..29 /\ length_base[l] <= length
  /\ length - length_base[l] \in Nat /\ length - length_base[l] < Power(length_extra[l])
  /\ length # 258 =>
       \A j \in 1..29 : length \in length_base[j]..(length_base[j] + Power(length_extra[j]) - 1)
                          => j = l

\* How far back a match can reach.
IsDistance(d) == d \in Nat /\ d >= 1 /\ d <= 32768

DistFound(d, l) ==
  /\ l \in 1..30 /\ dist_base[l] <= d
  /\ d - dist_base[l] \in Nat /\ d - dist_base[l] < Power(dist_extra[l])
  /\ \A j \in 1..30 : d \in dist_base[j]..(dist_base[j] + Power(dist_extra[j]) - 1) => j = l

LEMMA LengthRows ==
  ASSUME NEW length \in 3..258
  PROVE  LengthFound(length, LastNotAbove(length_base, length))
<1> DEFINE l == LastNotAbove(length_base, length)
           t == length_base
<1>1. DOMAIN t = 1..29
  BY DEF length_base
<1>2. \A j \in 1..29 : t[j] \in Nat
  BY LengthRow DEF LengthRowIs
<1>3. t[1] = 3 /\ t[28] = 227 /\ t[29] = 258 /\ length_extra[29] = 0 /\ length_extra[28] = 5
  BY LengthBases, LengthExtras
<1> HIDE DEF t
<1>4. l \in 1..29 /\ t[l] <= length /\ \A j \in 1..29 : j > l => t[j] > length
  <2>1. 29 \in Nat \ {0} /\ length \in Nat /\ t[1] <= length
    BY <1>3
  <2>2. /\ LastNotAbove(t, length) \in 1..29
        /\ t[LastNotAbove(t, length)] <= length
        /\ \A j \in 1..29 : j > LastNotAbove(t, length) => t[j] > length
    BY <1>1, <1>2, <2>1, LastNotAboveIs
  <2> QED
    BY <2>2 DEF t
<1> HIDE DEF l
<1>5. \A j \in 1..27 : t[j + 1] = t[j] + Power(length_extra[j]) /\ Power(length_extra[j]) \in Nat \ {0}
  <2>1. SUFFICES ASSUME NEW j \in 1..27
                 PROVE  t[j + 1] = t[j] + Power(length_extra[j]) /\ Power(length_extra[j]) \in Nat \ {0}
    OBVIOUS
  <2>2. j \in 1..29 /\ j <= 27
    OBVIOUS
  <2>3. length_extra[j] \in 0..5 /\ t[j + 1] = t[j] + Power(length_extra[j])
    BY <2>2, LengthRow DEF LengthRowIs, t
  <2>4. length_extra[j] \in 0..30
    BY <2>3
  <2> QED
    BY <2>3, <2>4, PowerType
<1>6. \A h, j \in 1..29 : h < j => t[h] < t[j]
  <2>1. \A h \in 1..(29 - 1) : t[h] < t[h + 1]
    <3>1. SUFFICES ASSUME NEW h \in 1..28 PROVE t[h] < t[h + 1]
      OBVIOUS
    <3>2. CASE h = 28
      BY <1>3, <3>2
    <3>3. CASE h # 28
      <4>1. h \in 1..27 /\ h \in 1..29
        BY <3>3
      <4> QED
        BY <1>2, <1>5, <4>1
    <3> QED
      BY <3>2, <3>3
  <2>2. 29 \in Nat
    OBVIOUS
  <2> QED
    BY <1>2, <2>1, <2>2, Increasing
<1>7. length - t[l] \in Nat
  BY <1>2, <1>4
<1>8. length - t[l] < Power(length_extra[l])
  <2>1. CASE l <= 27
    <3>1. l \in 1..27 /\ l + 1 \in 1..29 /\ l + 1 > l
      BY <1>4, <2>1
    <3> QED
      BY <1>2, <1>4, <1>5, <3>1
  <2>2. CASE l = 28
    <3>1. Power(5) = 32 /\ 29 \in 1..29 /\ 29 > l
      BY <2>2, SmallPowers
    <3> QED
      BY <1>3, <1>4, <2>2, <3>1
  <2>3. CASE l = 29
    BY <1>3, <2>3, PowerNext
  <2> QED
    BY <1>4, <2>1, <2>2, <2>3
<1>9. ASSUME length # 258, NEW j \in 1..29, length \in t[j]..(t[j] + Power(length_extra[j]) - 1)
      PROVE  j = l
  <2>1. t[j] <= length
    BY <1>9
  <2>2. ~(j > l)
    BY <1>2, <1>4, <2>1
  <2>3. SUFFICES ASSUME j < l PROVE FALSE
    BY <1>4, <2>2
  <2>4. CASE j <= 27
    <3>1. j \in 1..27 /\ j + 1 \in 1..29 /\ (j + 1 = l \/ j + 1 < l)
      BY <1>4, <2>3, <2>4
    <3>2. t[j + 1] <= t[l]
      BY <1>2, <1>4, <1>6, <3>1
    <3>3. length < t[j + 1]
      BY <1>2, <1>5, <1>9, <3>1
    <3>4. t[j + 1] \in Nat /\ t[l] \in Nat
      BY <1>2, <1>4, <3>1
    <3> QED
      BY <1>4, <3>2, <3>3, <3>4
  <2>5. CASE j = 28
    <3>1. l = 29
      BY <1>4, <2>3, <2>5
    <3> QED
      BY <1>3, <1>4, <1>9, <3>1
  <2> QED
    BY <1>4, <2>3, <2>4, <2>5
<1> QED
  BY <1>4, <1>7, <1>8, <1>9 DEF l, t, LengthFound

LEMMA DistRows ==
  ASSUME NEW d, IsDistance(d)
  PROVE  DistFound(d, LastNotAbove(dist_base, d))
<1> DEFINE l == LastNotAbove(dist_base, d)
           t == dist_base
<1>0. d \in Nat /\ d >= 1
  BY DEF IsDistance
<1>1. DOMAIN t = 1..30
  BY DEF dist_base
<1>2. \A j \in 1..30 : t[j] \in Nat
  BY DistRow DEF DistRowIs
<1>3. t[1] = 1 /\ t[30] = 24577 /\ dist_extra[30] = 13
  BY DistBases, DistExtras
<1> HIDE DEF t
<1>4. l \in 1..30 /\ t[l] <= d /\ \A j \in 1..30 : j > l => t[j] > d
  <2>1. 30 \in Nat \ {0} /\ d \in Nat /\ t[1] <= d
    BY <1>0, <1>3
  <2>2. PICK m \in Nat \ {0}, x \in Nat, e \in {t} : m = 30 /\ e = t /\ x = d
    BY <2>1
  <2>3. DOMAIN e = 1..m /\ (\A j \in 1..m : e[j] \in Nat) /\ e[1] <= x
    BY <1>1, <1>2, <2>1, <2>2
  <2>4. /\ LastNotAbove(e, x) \in 1..m
        /\ e[LastNotAbove(e, x)] <= x
        /\ \A j \in 1..m : j > LastNotAbove(e, x) => e[j] > x
    BY <2>3, LastNotAboveIs
  <2> QED
    BY <2>2, <2>4 DEF t
<1> HIDE DEF l
<1>5. \A j \in 1..29 : t[j + 1] = t[j] + Power(dist_extra[j]) /\ Power(dist_extra[j]) \in Nat \ {0}
  <2>1. SUFFICES ASSUME NEW j \in 1..29
                 PROVE  t[j + 1] = t[j] + Power(dist_extra[j]) /\ Power(dist_extra[j]) \in Nat \ {0}
    OBVIOUS
  <2>2. j \in 1..30 /\ j <= 29
    OBVIOUS
  <2>3. dist_extra[j] \in 0..13 /\ t[j + 1] = t[j] + Power(dist_extra[j])
    BY <2>2, DistRow DEF DistRowIs, t
  <2>4. dist_extra[j] \in 0..30
    BY <2>3
  <2> QED
    BY <2>3, <2>4, PowerType
<1>6. \A h, j \in 1..30 : h < j => t[h] < t[j]
  <2>1. \A h \in 1..(30 - 1) : t[h] < t[h + 1]
    <3>1. SUFFICES ASSUME NEW h \in 1..29 PROVE t[h] < t[h + 1]
      OBVIOUS
    <3>2. h \in 1..30
      OBVIOUS
    <3> QED
      BY <1>0, <1>2, <1>5, <3>2
  <2>2. 30 \in Nat
    OBVIOUS
  <2> QED
    BY <1>2, <2>1, <2>2, Increasing
<1>7. d - t[l] \in Nat
  BY <1>0, <1>2, <1>4
<1>8. d - t[l] < Power(dist_extra[l])
  <2>1. CASE l <= 29
    <3>1. l \in 1..29 /\ l + 1 \in 1..30 /\ l + 1 > l
      BY <1>0, <1>4, <2>1
    <3> QED
      BY <1>0, <1>2, <1>4, <1>5, <3>1
  <2>2. CASE l = 30
    <3>1. Power(13) = 8192
      BY DEF Power
    <3> QED
      BY <1>3, <1>4, <2>2, <3>1 DEF IsDistance
  <2> QED
    BY <1>0, <1>4, <2>1, <2>2
<1>9. ASSUME NEW j \in 1..30, d \in t[j]..(t[j] + Power(dist_extra[j]) - 1)
      PROVE  j = l
  <2>1. t[j] <= d
    BY <1>0, <1>2, <1>9
  <2>2. ~(j > l)
    BY <1>0, <1>2, <1>4, <2>1
  <2>3. SUFFICES ASSUME j < l PROVE FALSE
    BY <1>0, <1>4, <2>2
  <2>4. j \in 1..29 /\ j + 1 \in 1..30 /\ (j + 1 = l \/ j + 1 < l)
    BY <1>0, <1>4, <2>3
  <2>5. t[j + 1] <= t[l]
    BY <1>0, <1>2, <1>4, <1>6, <2>4
  <2>6. d < t[j + 1]
    BY <1>0, <1>2, <1>5, <1>9, <2>4
  <2>7. t[j + 1] \in Nat /\ t[l] \in Nat
    BY <1>0, <1>2, <1>4, <2>4
  <2> QED
    BY <1>0, <1>4, <2>5, <2>6, <2>7
<1> QED
  BY <1>0, <1>4, <1>7, <1>8, <1>9 DEF l, t, DistFound

-----------------------------------------------------------------------------
(* What a reader gets of what is written *)

\* A writer that only has more.
Later(v, u) ==
  /\ WriterOK(v) /\ BitCount(v) >= BitCount(u)
  /\ \A j \in 1..BitCount(u) : BitOf(v, j) = BitOf(u, j)

\* A sequence that begins with the bits of a writer.
Carries(bits, v) ==
  /\ bits \in BitsSeq /\ BitCount(v) <= Len(bits)
  /\ \A j \in 1..BitCount(v) : bits[j] = BitOf(v, j)

LEMMA BitCountType ==
  ASSUME NEW v, WriterOK(v)
  PROVE  BitCount(v) \in Nat
<1>1. Len(v.out) \in Nat /\ v.used \in 0..7
  BY LenProperties DEF WriterOK
<1> QED
  BY <1>1 DEF BitCount

LEMMA ExtendsLater ==
  ASSUME NEW u, WriterOK(u), NEW v, NEW m \in Nat, NEW x, Extends(v, u, m, x)
  PROVE  WriterOK(v) /\ Later(v, u) /\ BitCount(v) = BitCount(u) + m
<1>1. BitCount(u) \in Nat
  BY BitCountType
<1> QED
  BY <1>1 DEF Extends, Later

LEMMA ExtendsCodeLater ==
  ASSUME NEW u, WriterOK(u), NEW v, NEW m \in Nat, NEW x, ExtendsCode(v, u, m, x)
  PROVE  WriterOK(v) /\ Later(v, u) /\ BitCount(v) = BitCount(u) + m
<1>1. BitCount(u) \in Nat
  BY BitCountType
<1> QED
  BY <1>1 DEF ExtendsCode, Later

LEMMA LaterTwice ==
  ASSUME NEW u, NEW v, NEW t, WriterOK(u), Later(v, u), Later(t, v)
  PROVE  Later(t, u)
<1>1. BitCount(u) \in Nat /\ BitCount(v) \in Nat /\ BitCount(t) \in Nat
  BY BitCountType DEF Later
<1> QED
  BY <1>1 DEF Later

LEMMA LaterCarries ==
  ASSUME NEW u, NEW v, WriterOK(u), Later(v, u), NEW bits, Carries(bits, v)
  PROVE  Carries(bits, u)
<1>1. BitCount(u) \in Nat /\ BitCount(v) \in Nat
  BY BitCountType DEF Later
<1>2. Len(bits) \in Nat
  BY LenProperties DEF Carries, BitsSeq
<1> QED
  BY <1>1, <1>2 DEF Later, Carries

\* The bits behind those of a writer.
LEMMA CarriedBits ==
  ASSUME NEW u, WriterOK(u), NEW v, BitCount(v) \in Nat, NEW bits, Carries(bits, v),
         NEW m \in Nat, BitCount(v) = BitCount(u) + m
  PROVE  /\ BitCount(u) + 1 \in Int
         /\ \A j \in 1..m : BitAt(bits, (BitCount(u) + 1) + j - 1) = BitOf(v, BitCount(u) + j)
<1>1. BitCount(u) \in Nat
  BY BitCountType
<1>2. DOMAIN bits = 1..Len(bits) /\ Len(bits) \in Nat
  BY LenProperties DEF Carries, BitsSeq
<1>3. ASSUME NEW j \in 1..m
      PROVE  BitAt(bits, (BitCount(u) + 1) + j - 1) = BitOf(v, BitCount(u) + j)
  <2>1. (BitCount(u) + 1) + j - 1 = BitCount(u) + j /\ BitCount(u) + j \in 1..BitCount(v)
    BY <1>1
  <2>2. BitCount(u) + j \in DOMAIN bits /\ bits[BitCount(u) + j] = BitOf(v, BitCount(u) + j)
    BY <1>2, <2>1 DEF Carries
  <2> QED
    BY <2>1, <2>2 DEF BitAt
<1> QED
  BY <1>1, <1>3

LEMMA ExtendsReads ==
  ASSUME NEW u, WriterOK(u), NEW m \in 0..30, NEW x \in Nat, x < Power(m),
         NEW v, Extends(v, u, m, x), NEW bits, Carries(bits, v)
  PROVE  Number(bits, BitCount(u) + 1, m) = x
<1>1. m \in Nat /\ BitCount(v) \in Nat /\ BitCount(v) = BitCount(u) + m
  BY BitCountType DEF Extends
<1>2. /\ BitCount(u) + 1 \in Int
      /\ \A j \in 1..m : BitAt(bits, (BitCount(u) + 1) + j - 1) = BitOf(v, BitCount(u) + j)
  BY <1>1, CarriedBits
<1>3. PICK p \in Int : p = BitCount(u) + 1
  BY <1>2
<1>4. \A j \in 1..m : BitAt(bits, p + j - 1) = Bit(x, j - 1)
  BY <1>2, <1>3 DEF Extends
<1>5. bits \in BitsSeq
  BY DEF Carries
<1> QED
  BY <1>3, <1>4, <1>5, NumberReads

LEMMA ExtendsCodeReads ==
  ASSUME NEW u, WriterOK(u), NEW l \in 0..30, NEW m \in 0..30, m <= l, NEW c \in Nat, c < Power(l),
         NEW v, ExtendsCode(v, u, l, c), NEW bits, Carries(bits, v)
  PROVE  Code(bits, BitCount(u) + 1, m) = c \div Power(l - m)
<1>1. l \in Nat /\ BitCount(v) \in Nat /\ BitCount(v) = BitCount(u) + l
  BY BitCountType DEF ExtendsCode
<1>2. /\ BitCount(u) + 1 \in Int
      /\ \A j \in 1..l : BitAt(bits, (BitCount(u) + 1) + j - 1) = BitOf(v, BitCount(u) + j)
  BY <1>1, CarriedBits
<1>3. PICK p \in Int : p = BitCount(u) + 1
  BY <1>2
<1>4. \A j \in 1..l : BitAt(bits, p + j - 1) = Bit(c, l - j)
  BY <1>2, <1>3 DEF ExtendsCode
<1>5. \A j \in 1..m : BitAt(bits, p + j - 1) = Bit(c, l - j)
  BY <1>4
<1>6. bits \in BitsSeq
  BY DEF Carries
<1> QED
  BY <1>3, <1>5, <1>6, CodeReads

-----------------------------------------------------------------------------
(* The fixed code *)

SymbolSize(s) == IF s < 144 THEN 8 ELSE IF s < 256 THEN 9 ELSE IF s < 280 THEN 7 ELSE 8
SymbolCode(s) == IF s < 144 THEN 48 + s ELSE IF s < 256 THEN 400 + (s - 144)
                 ELSE IF s < 280 THEN s - 256 ELSE 192 + (s - 280)

LEMMA SymbolType ==
  ASSUME NEW s \in 0..287
  PROVE  /\ SymbolSize(s) \in 7..9 /\ SymbolCode(s) \in Nat
         /\ SymbolCode(s) < Power(SymbolSize(s))
BY SmallPowers DEF SymbolSize, SymbolCode

LEMMA PutSymbolExtends ==
  ASSUME NEW v, WriterOK(v), NEW s \in 0..287
  PROVE  ExtendsCode(PutSymbol(v, s), v, SymbolSize(s), SymbolCode(s))
<1>1. PutSymbol(v, s) = PutCode(v, SymbolCode(s), SymbolSize(s))
  BY DEF PutSymbol, SymbolCode, SymbolSize
<1>2. PICK m \in 0..13, c \in Nat : m = SymbolSize(s) /\ c = SymbolCode(s)
  BY SymbolType
<1>3. ExtendsCode(PutCode(v, c, m), v, m, c)
  BY PutCodeExtends
<1> QED
  BY <1>1, <1>2, <1>3

\* The first bits of a code tell how long it is.
LEMMA SymbolReads ==
  ASSUME NEW u, WriterOK(u), NEW s \in 0..287, NEW v,
         ExtendsCode(v, u, SymbolSize(s), SymbolCode(s)), NEW bits, Carries(bits, v)
  PROVE  Symbol(bits, BitCount(u) + 1) = [value |-> s, size |-> SymbolSize(s)]
<1>1. PICK l \in 7..9, c \in Nat : l = SymbolSize(s) /\ c = SymbolCode(s) /\ c < Power(l)
  BY SymbolType
<1>2. ExtendsCode(v, u, l, c) /\ l \in 0..30
  BY <1>1
<1>3. \A m \in 0..30 : m <= l => Code(bits, BitCount(u) + 1, m) = c \div Power(l - m)
  BY <1>1, <1>2, ExtendsCodeReads
<1> DEFINE c7 == Code(bits, BitCount(u) + 1, 7)
           c8 == Code(bits, BitCount(u) + 1, 8)
           c9 == Code(bits, BitCount(u) + 1, 9)
<1>4. /\ Symbol(bits, BitCount(u) + 1) =
           IF c7 <= 23 THEN [value |-> 256 + c7, size |-> 7]
           ELSE IF c8 <= 191 THEN [value |-> c8 - 48, size |-> 8]
           ELSE IF c8 <= 199 THEN [value |-> 280 + c8 - 192, size |-> 8]
           ELSE [value |-> 144 + c9 - 400, size |-> 9]
      /\ c7 = c \div Power(l - 7)
      /\ l >= 8 => c8 = c \div Power(l - 8)
      /\ l >= 9 => c9 = c \div Power(l - 9)
  BY <1>1, <1>3 DEF Symbol
<1> HIDE DEF c7, c8, c9
<1>5. CASE s < 144
  <2>1. l = 8 /\ c = 48 + s
    BY <1>1, <1>5 DEF SymbolSize, SymbolCode
  <2>2. c7 = c \div 2 /\ c8 = c
    BY <1>4, <2>1, SmallPowers
  <2> QED
    BY <1>1, <1>4, <1>5, <2>1, <2>2
<1>6. CASE s >= 144 /\ s < 256
  <2>1. l = 9 /\ c = 400 + (s - 144)
    BY <1>1, <1>6 DEF SymbolSize, SymbolCode
  <2>2. c7 = c \div 4 /\ c8 = c \div 2 /\ c9 = c
    BY <1>4, <2>1, SmallPowers
  <2> QED
    BY <1>1, <1>4, <1>6, <2>1, <2>2
<1>7. CASE s >= 256 /\ s < 280
  <2>1. l = 7 /\ c = s - 256
    BY <1>1, <1>7 DEF SymbolSize, SymbolCode
  <2>2. c7 = c
    BY <1>4, <2>1, SmallPowers
  <2> QED
    BY <1>1, <1>4, <1>7, <2>1, <2>2
<1>8. CASE s >= 280
  <2>1. l = 8 /\ c = 192 + (s - 280)
    BY <1>1, <1>8 DEF SymbolSize, SymbolCode
  <2>2. c7 = c \div 2 /\ c8 = c
    BY <1>4, <2>1, SmallPowers
  <2> QED
    BY <1>1, <1>4, <1>8, <2>1, <2>2
<1> QED
  BY <1>5, <1>6, <1>7, <1>8

\* A writer that has a token of so many bits behind what another has.
Says(v, u, m, t) ==
  /\ WriterOK(v) /\ Later(v, u) /\ BitCount(v) = BitCount(u) + m
  /\ \A bits : Carries(bits, v) => Token(bits, BitCount(u) + 1) = t

\* A byte written is a byte read.
LEMMA ByteReads ==
  ASSUME NEW u, WriterOK(u), NEW s \in 0..255, NEW v, v = PutSymbol(u, s)
  PROVE  Says(v, u, SymbolSize(s), [kind |-> "byte", value |-> s, next |-> BitCount(v) + 1])
<1>1. s \in 0..287
  OBVIOUS
<1>2. ExtendsCode(v, u, SymbolSize(s), SymbolCode(s))
  BY <1>1, PutSymbolExtends
<1>3. SymbolSize(s) \in Nat
  BY <1>1, SymbolType
<1>4. WriterOK(v) /\ Later(v, u) /\ BitCount(v) = BitCount(u) + SymbolSize(s)
  BY <1>2, <1>3, ExtendsCodeLater
<1>5. (BitCount(u) + 1) + SymbolSize(s) = BitCount(v) + 1
  BY <1>3, <1>4, BitCountType
<1>6. ASSUME NEW bits, Carries(bits, v)
      PROVE  Token(bits, BitCount(u) + 1) = [kind |-> "byte", value |-> s, next |-> BitCount(v) + 1]
  <2>1. Symbol(bits, BitCount(u) + 1) = [value |-> s, size |-> SymbolSize(s)]
    BY <1>1, <1>2, <1>6, SymbolReads
  <2> QED
    BY <1>5, <2>1 DEF Token
<1> QED
  BY <1>4, <1>6 DEF Says

LEMMA EndReads ==
  ASSUME NEW u, WriterOK(u), NEW v, v = PutSymbol(u, 256)
  PROVE  Says(v, u, 7, [kind |-> "end", next |-> BitCount(v) + 1])
<1>1. PICK s \in 0..287 : s = 256
  OBVIOUS
<1>2. SymbolSize(s) = 7
  BY <1>1 DEF SymbolSize
<1>3. ExtendsCode(v, u, SymbolSize(s), SymbolCode(s))
  BY <1>1, PutSymbolExtends
<1>4. WriterOK(v) /\ Later(v, u) /\ BitCount(v) = BitCount(u) + 7
  <2>1. 7 \in Nat
    OBVIOUS
  <2> QED
    BY <1>2, <1>3, <2>1, ExtendsCodeLater
<1>5. (BitCount(u) + 1) + 7 = BitCount(v) + 1
  BY <1>4, BitCountType
<1>6. ASSUME NEW bits, Carries(bits, v)
      PROVE  Token(bits, BitCount(u) + 1) = [kind |-> "end", next |-> BitCount(v) + 1]
  <2>1. Symbol(bits, BitCount(u) + 1) = [value |-> s, size |-> 7]
    BY <1>2, <1>3, <1>6, SymbolReads
  <2> QED
    BY <1>1, <1>5, <2>1 DEF Token
<1> QED
  BY <1>4, <1>6 DEF Says

\* How many bits a match takes.
MatchBits(length, d) ==
  LET l == LastNotAbove(length_base, length)
      e == LastNotAbove(dist_base, d)
  IN  SymbolSize(256 + l) + length_extra[l] + 5 + dist_extra[e]

\* A symbol and its extra bits, a distance and its extra bits.
MatchOf(u, s, x2, e2, x3, x4, e4) == Put(PutCode(Put(PutSymbol(u, s), x2, e2), x3, 5), x4, e4)

CopyOf(s, x2, x3, x4, e) ==
  [kind |-> "copy", length |-> LengthBase(s) + x2, dist |-> DistBase(x3) + x4, next |-> e]

MatchOfOK(s, x2, e2, x3, x4, e4) ==
  /\ s \in 257..285
  /\ x2 \in Nat /\ e2 \in 0..13 /\ x2 < Power(e2) /\ e2 = LengthExtra(s)
  /\ x3 \in Nat /\ x3 < Power(5)
  /\ x4 \in Nat /\ e4 \in 0..13 /\ x4 < Power(e4) /\ e4 = DistExtra(x3)

LEMMA MatchOfReads ==
  ASSUME NEW u, WriterOK(u), NEW s, NEW x2, NEW e2, NEW x3, NEW x4, NEW e4,
         MatchOfOK(s, x2, e2, x3, x4, e4),
         NEW v, v = MatchOf(u, s, x2, e2, x3, x4, e4)
  PROVE  Says(v, u, SymbolSize(s) + e2 + 5 + e4, CopyOf(s, x2, x3, x4, BitCount(v) + 1))
<1>0. /\ s \in 257..285
      /\ x2 \in Nat /\ e2 \in 0..13 /\ x2 < Power(e2) /\ e2 = LengthExtra(s)
      /\ x3 \in Nat /\ x3 < Power(5)
      /\ x4 \in Nat /\ e4 \in 0..13 /\ x4 < Power(e4) /\ e4 = DistExtra(x3)
  BY DEF MatchOfOK
<1>1. PICK v1, v2, v3 : /\ v1 = PutSymbol(u, s) /\ v2 = Put(v1, x2, e2)
                        /\ v3 = PutCode(v2, x3, 5) /\ v = Put(v3, x4, e4)
  BY DEF MatchOf
<1>2. PICK m \in 7..9 : m = SymbolSize(s)
  <2>1. s \in 0..287
    BY <1>0
  <2> QED
    BY <2>1, SymbolType
<1>3. /\ s \in 0..287 /\ m \in Nat /\ e2 \in Nat /\ e4 \in Nat /\ 5 \in Nat
      /\ e2 \in 0..30 /\ e4 \in 0..30 /\ 5 \in 0..30 /\ 5 <= 5 /\ 5 \in 0..13
  BY <1>0, <1>2
<1>4. ExtendsCode(v1, u, m, SymbolCode(s))
  BY <1>1, <1>2, <1>3, PutSymbolExtends
<1>5. WriterOK(v1) /\ Later(v1, u) /\ BitCount(v1) = BitCount(u) + m
  BY <1>3, <1>4, ExtendsCodeLater
<1>6. Extends(v2, v1, e2, x2)
  BY <1>0, <1>1, <1>5, PutExtends
<1>7. WriterOK(v2) /\ Later(v2, v1) /\ BitCount(v2) = BitCount(v1) + e2
  BY <1>3, <1>5, <1>6, ExtendsLater
<1>8. ExtendsCode(v3, v2, 5, x3)
  BY <1>0, <1>1, <1>3, <1>7, PutCodeExtends
<1>9. WriterOK(v3) /\ Later(v3, v2) /\ BitCount(v3) = BitCount(v2) + 5
  BY <1>3, <1>7, <1>8, ExtendsCodeLater
<1>10. Extends(v, v3, e4, x4)
  BY <1>0, <1>1, <1>9, PutExtends
<1>11. WriterOK(v) /\ Later(v, v3) /\ BitCount(v) = BitCount(v3) + e4
  BY <1>3, <1>9, <1>10, ExtendsLater
<1>12. Later(v3, v1) /\ Later(v, v2) /\ Later(v, v1) /\ Later(v, u)
  <2>1. Later(v3, v1) /\ Later(v, v2)
    BY <1>5, <1>7, <1>9, <1>11, LaterTwice
  <2>2. Later(v, v1)
    BY <1>5, <1>7, <2>1, LaterTwice
  <2> QED
    BY <1>5, <2>1, <2>2, LaterTwice
<1>13. BitCount(u) \in Nat /\ BitCount(v1) \in Nat /\ BitCount(v2) \in Nat /\ BitCount(v3) \in Nat
  BY <1>5, <1>7, <1>9, BitCountType
<1>14. /\ BitCount(v) = BitCount(u) + (m + e2 + 5 + e4)
       /\ (BitCount(u) + 1) + m = BitCount(v1) + 1 /\ (BitCount(v1) + 1) + e2 = BitCount(v2) + 1
       /\ (BitCount(v2) + 1) + 5 + e4 = BitCount(v) + 1 /\ (BitCount(v2) + 1) + 5 = BitCount(v3) + 1
  BY <1>3, <1>5, <1>7, <1>9, <1>11, <1>13
<1>15. ASSUME NEW bits, Carries(bits, v)
       PROVE  Token(bits, BitCount(u) + 1) = CopyOf(s, x2, x3, x4, BitCount(v) + 1)
  <2>1. Carries(bits, v3) /\ Carries(bits, v2) /\ Carries(bits, v1)
    BY <1>5, <1>7, <1>9, <1>11, <1>12, <1>15, LaterCarries
  <2>2. Symbol(bits, BitCount(u) + 1) = [value |-> s, size |-> m]
    BY <1>2, <1>3, <1>4, <2>1, SymbolReads
  <2>3. Number(bits, BitCount(v1) + 1, e2) = x2
    BY <1>0, <1>3, <1>5, <1>6, <2>1, ExtendsReads
  <2>4. Code(bits, BitCount(v2) + 1, 5) = x3
    <3>1. Code(bits, BitCount(v2) + 1, 5) = x3 \div Power(5 - 5)
      BY <1>0, <1>3, <1>7, <1>8, <2>1, ExtendsCodeReads
    <3>2. 5 - 5 = 0 /\ Power(0) = 1 /\ x3 \div 1 = x3
      BY <1>0, PowerNext
    <3> QED
      BY <3>1, <3>2
  <2>5. Number(bits, BitCount(v3) + 1, e4) = x4
    BY <1>0, <1>3, <1>9, <1>10, <1>15, ExtendsReads
  <2>6. ~(s < 256) /\ s # 256
    BY <1>0
  <2> DEFINE q == BitCount(u) + 1 + m
             r == q + LengthExtra(s)
             c == Code(bits, r, 5)
  <2>7. Token(bits, BitCount(u) + 1) =
          [kind |-> "copy", length |-> LengthBase(s) + Number(bits, q, LengthExtra(s)),
           dist |-> DistBase(c) + Number(bits, r + 5, DistExtra(c)),
           next |-> r + 5 + DistExtra(c)]
    BY <2>2, <2>6 DEF Token
  <2>8. q = BitCount(v1) + 1 /\ r = BitCount(v2) + 1
    BY <1>0, <1>14
  <2>9. c = x3 /\ r + 5 = BitCount(v3) + 1 /\ r + 5 + DistExtra(c) = BitCount(v) + 1
    BY <1>0, <1>14, <2>4, <2>8
  <2> HIDE DEF q, r, c
  <2> QED
    BY <2>3, <2>5, <2>7, <2>8, <2>9, <1>0 DEF CopyOf
<1> QED
  BY <1>2, <1>11, <1>12, <1>14, <1>15 DEF Says

\* A match written is a match read.
LEMMA MatchReads ==
  ASSUME NEW u, WriterOK(u), NEW length \in 3..258, NEW d, IsDistance(d),
         NEW v, v = PutMatch(u, length, d)
  PROVE  /\ MatchBits(length, d) \in Nat /\ MatchBits(length, d) >= 7
         /\ Says(v, u, MatchBits(length, d),
                 [kind |-> "copy", length |-> length, dist |-> d, next |-> BitCount(v) + 1])
<1>0. d \in Nat
  BY DEF IsDistance
<1>1. PICK li : li = LastNotAbove(length_base, length) /\ LengthFound(length, li)
  BY LengthRows
<1>2. PICK di : di = LastNotAbove(dist_base, d) /\ DistFound(d, di)
  BY DistRows
<1>3. /\ li \in 1..29 /\ length_base[li] <= length
      /\ length - length_base[li] \in Nat /\ length - length_base[li] < Power(length_extra[li])
  BY <1>1 DEF LengthFound
<1>4. /\ di \in 1..30 /\ dist_base[di] <= d
      /\ d - dist_base[di] \in Nat /\ d - dist_base[di] < Power(dist_extra[di])
  BY <1>2 DEF DistFound
<1>5. PICK s \in 257..285 : s = 257 + li - 1 /\ s = 256 + li
  BY <1>3
<1>6. /\ length_base[li] = LengthBase(s) /\ length_extra[li] = LengthExtra(s)
      /\ length_base[li] \in Nat /\ length_extra[li] \in 0..5
  BY <1>3, <1>5, LengthRow DEF LengthRowIs
<1>7. /\ dist_base[di] = DistBase(di - 1) /\ dist_extra[di] = DistExtra(di - 1)
      /\ dist_base[di] \in Nat /\ dist_extra[di] \in 0..13
  BY <1>4, DistRow DEF DistRowIs
<1>8. PICK x2 \in Nat : x2 = length - length_base[li] /\ x2 < Power(length_extra[li])
  BY <1>3
<1>9. PICK e2 \in 0..13 : e2 = length_extra[li]
  BY <1>6
<1>10. PICK x3 \in Nat : x3 = di - 1 /\ x3 < Power(5)
  BY <1>4, SmallPowers
<1>11. PICK x4 \in Nat : x4 = d - dist_base[di] /\ x4 < Power(dist_extra[di])
  BY <1>4
<1>12. PICK e4 \in 0..13 : e4 = dist_extra[di]
  BY <1>7
<1>13. v = MatchOf(u, s, x2, e2, x3, x4, e4)
  BY <1>1, <1>2, <1>5, <1>8, <1>9, <1>10, <1>11, <1>12 DEF PutMatch, MatchOf
<1>14. MatchOfOK(s, x2, e2, x3, x4, e4)
  BY <1>6, <1>7, <1>8, <1>9, <1>10, <1>11, <1>12 DEF MatchOfOK
<1>15. Says(v, u, SymbolSize(s) + e2 + 5 + e4, CopyOf(s, x2, x3, x4, BitCount(v) + 1))
  <2>1. PICK t : t = MatchOf(u, s, x2, e2, x3, x4, e4)
    OBVIOUS
  <2>2. Says(t, u, SymbolSize(s) + e2 + 5 + e4, CopyOf(s, x2, x3, x4, BitCount(t) + 1))
    BY <1>14, <2>1, MatchOfReads, Zenon
  <2> QED
    BY <1>13, <2>1, <2>2
<1>16. MatchBits(length, d) = SymbolSize(s) + e2 + 5 + e4
  BY <1>1, <1>2, <1>5, <1>9, <1>12 DEF MatchBits
<1>17. SymbolSize(s) \in 7..9
  <2>1. s \in 0..287
    OBVIOUS
  <2> QED
    BY <2>1, SymbolType
<1>18. MatchBits(length, d) \in Nat /\ MatchBits(length, d) >= 7
  BY <1>16, <1>17
<1>19. LengthBase(s) + x2 = length /\ DistBase(x3) + x4 = d
  BY <1>0, <1>6, <1>7, <1>8, <1>10, <1>11
<1> QED
  BY <1>15, <1>16, <1>18, <1>19 DEF CopyOf

-----------------------------------------------------------------------------
(* A match behind the bits that wait *)

LEMMA BitsOfType ==
  ASSUME NEW bytes \in Seq(0..255)
  PROVE  /\ BitsOf(bytes) \in BitsSeq /\ Len(BitsOf(bytes)) = 8 * Len(bytes)
         /\ \A j \in 1..(8 * Len(bytes)) :
              BitsOf(bytes)[j] = Bit(bytes[((j - 1) \div 8) + 1], (j - 1) % 8)
<1>1. Len(bytes) \in Nat /\ \A l \in 1..Len(bytes) : bytes[l] \in Nat
  <2>1. 0..255 \subseteq Nat
    OBVIOUS
  <2>2. bytes \in Seq(Nat)
    BY <2>1, SeqMonotonic
  <2> QED
    BY <2>2, LenProperties, ElementOfSeq
<1>2. PICK c \in Nat : c = Len(bytes)
  BY <1>1
<1>3. ASSUME NEW j \in 1..(8 * c) PROVE Bit(bytes[((j - 1) \div 8) + 1], (j - 1) % 8) \in {0, 1}
  <2>1. ((j - 1) \div 8) + 1 \in 1..c /\ (j - 1) % 8 \in 0..30
    OBVIOUS
  <2>2. bytes[((j - 1) \div 8) + 1] \in Nat
    <3>1. PICK l \in 1..c : l = ((j - 1) \div 8) + 1
      BY <2>1
    <3> QED
      BY <1>1, <1>2, <3>1
  <2> QED
    BY <2>1, <2>2, BitType
<1>4. BitsOf(bytes) = [j \in 1..(8 * c) |-> Bit(bytes[((j - 1) \div 8) + 1], (j - 1) % 8)]
  BY <1>2 DEF BitsOf, Bit
<1>5. 8 * c \in Nat
  OBVIOUS
<1>6. BitsOf(bytes) \in [1..(8 * c) -> {0, 1}]
  BY <1>3, <1>4
<1>7. BitsOf(bytes) \in BitsSeq /\ Len(BitsOf(bytes)) = 8 * c
  BY <1>5, <1>6 DEF BitsSeq
<1> QED
  BY <1>2, <1>4, <1>7

\* All the bits of a writer.
WrittenBits(v) == BitsOf(v.out) \o [j \in 1..v.used |-> Bit(v.acc, j - 1)]

LEMMA WrittenBitsCarry ==
  ASSUME NEW v, WriterOK(v)
  PROVE  Carries(WrittenBits(v), v) /\ Len(WrittenBits(v)) = BitCount(v)
<1>1. v.out \in Seq(0..255) /\ v.used \in 0..7 /\ v.acc \in Nat
  BY DEF WriterOK
<1>2. PICK c \in Nat, u \in 0..7 : c = Len(v.out) /\ u = v.used
  BY <1>1, LenProperties
<1> DEFINE s == BitsOf(v.out)
           t == [j \in 1..u |-> Bit(v.acc, j - 1)]
<1>3. s \in BitsSeq /\ Len(s) = 8 * c
      /\ \A j \in 1..(8 * c) : s[j] = Bit(v.out[((j - 1) \div 8) + 1], (j - 1) % 8)
  BY <1>1, <1>2, BitsOfType
<1>4. t \in BitsSeq /\ Len(t) = u
  <2>1. \A j \in 1..u : Bit(v.acc, j - 1) \in {0, 1}
    <3>1. SUFFICES ASSUME NEW j \in 1..u PROVE Bit(v.acc, j - 1) \in {0, 1}
      OBVIOUS
    <3>2. j - 1 \in 0..30
      OBVIOUS
    <3> QED
      BY <1>1, <3>2, BitType
  <2>2. t \in [1..u -> {0, 1}] /\ u \in Nat
    BY <2>1
  <2> HIDE DEF t
  <2> QED
    BY <2>2 DEF BitsSeq
<1>5. \A j \in 1..u : t[j] = Bit(v.acc, j - 1)
  OBVIOUS
<1>6. WrittenBits(v) = s \o t
  BY <1>2 DEF WrittenBits
<1> HIDE DEF s, t
<1>7. /\ s \o t \in BitsSeq /\ Len(s \o t) = 8 * c + u
      /\ \A j \in 1..(8 * c + u) : (s \o t)[j] = IF j <= 8 * c THEN s[j] ELSE t[j - 8 * c]
  <2>1. PICK e, g : e = s /\ g = t
    OBVIOUS
  <2>2. e \in Seq({0, 1}) /\ g \in Seq({0, 1}) /\ Len(e) = 8 * c /\ Len(g) = u
    BY <1>3, <1>4, <2>1 DEF BitsSeq
  <2>3. /\ e \o g \in Seq({0, 1}) /\ Len(e \o g) = Len(e) + Len(g)
        /\ \A j \in 1..(Len(e) + Len(g)) : (e \o g)[j] = IF j <= Len(e) THEN e[j] ELSE g[j - Len(e)]
    BY <2>2, ConcatProperties
  <2> QED
    BY <2>1, <2>2, <2>3 DEF BitsSeq
<1>8. BitCount(v) = 8 * c + u
  BY <1>2 DEF BitCount
<1>9. ASSUME NEW j \in 1..(8 * c + u) PROVE (s \o t)[j] = BitOf(v, j)
  <2>1. CASE j <= 8 * c
    <3>1. j \in 1..(8 * c)
      BY <2>1
    <3> QED
      BY <1>2, <1>3, <1>7, <2>1, <3>1 DEF BitOf
  <2>2. CASE ~(j <= 8 * c)
    <3>1. j - 8 * c \in 1..u /\ j - 1 - 8 * c = (j - 8 * c) - 1
      BY <2>2
    <3> QED
      BY <1>2, <1>5, <1>7, <2>2, <3>1 DEF BitOf
  <2> QED
    BY <2>1, <2>2
<1>10. 8 * c + u <= 8 * c + u
  OBVIOUS
<1> QED
  BY <1>6, <1>7, <1>8, <1>9, <1>10 DEF Carries

\* The code of a match is the shortest.
LEMMA MatchSizeIs ==
  ASSUME NEW length \in 3..257, NEW d, IsDistance(d)
  PROVE  MatchSize(length, d) = MatchBits(length, d)
<1>1. PICK li : li = LastNotAbove(length_base, length) /\ LengthFound(length, li)
  <2>1. length \in 3..258
    OBVIOUS
  <2> QED
    BY <2>1, LengthRows
<1>2. PICK di : di = LastNotAbove(dist_base, d) /\ DistFound(d, di)
  BY DistRows
<1>3. d \in Nat /\ length # 258
  BY DEF IsDistance
<1> DEFINE IsLength(j) == length \in LengthBase(j)..(LengthBase(j) + 2 ^ LengthExtra(j) - 1)
           IsDist(j) == d \in DistBase(j)..(DistBase(j) + 2 ^ DistExtra(j) - 1)
           s == CHOOSE j \in 257..285 : IsLength(j)
           t == CHOOSE j \in 0..29 : IsDist(j)
<1>4. \A j \in 1..29 : /\ length_base[j] = LengthBase(256 + j) /\ length_extra[j] = LengthExtra(256 + j)
                       /\ length_base[j] \in Nat /\ Power(length_extra[j]) \in Nat /\ length_extra[j] \in Nat
  <2>1. SUFFICES ASSUME NEW j \in 1..29
                 PROVE  /\ length_base[j] = LengthBase(256 + j) /\ length_extra[j] = LengthExtra(256 + j)
                        /\ length_base[j] \in Nat /\ Power(length_extra[j]) \in Nat /\ length_extra[j] \in Nat
    OBVIOUS
  <2>2. /\ length_base[j] = LengthBase(256 + j) /\ length_extra[j] = LengthExtra(256 + j)
        /\ length_base[j] \in Nat /\ length_extra[j] \in 0..5
    BY LengthRow DEF LengthRowIs
  <2>3. length_extra[j] \in 0..30
    BY <2>2
  <2>4. Power(length_extra[j]) \in Nat
    BY <2>3, PowerType
  <2> QED
    BY <2>2, <2>4
<1>5. \A j \in 1..30 : /\ dist_base[j] = DistBase(j - 1) /\ dist_extra[j] = DistExtra(j - 1)
                       /\ dist_base[j] \in Nat /\ Power(dist_extra[j]) \in Nat /\ dist_extra[j] \in Nat
  <2>1. SUFFICES ASSUME NEW j \in 1..30
                 PROVE  /\ dist_base[j] = DistBase(j - 1) /\ dist_extra[j] = DistExtra(j - 1)
                        /\ dist_base[j] \in Nat /\ Power(dist_extra[j]) \in Nat /\ dist_extra[j] \in Nat
    OBVIOUS
  <2>2. /\ dist_base[j] = DistBase(j - 1) /\ dist_extra[j] = DistExtra(j - 1)
        /\ dist_base[j] \in Nat /\ dist_extra[j] \in 0..13
    BY DistRow DEF DistRowIs
  <2>3. dist_extra[j] \in 0..30
    BY <2>2
  <2>4. Power(dist_extra[j]) \in Nat
    BY <2>3, PowerType
  <2> QED
    BY <2>2, <2>4
<1>6. \A j \in 257..285 : IsLength(j) <=> j = 256 + li
  <2>1. SUFFICES ASSUME NEW j \in 257..285 PROVE IsLength(j) <=> j = 256 + li
    OBVIOUS
  <2>2. PICK h \in 1..29 : j = 256 + h
    <3>1. j - 256 \in 1..29 /\ j = 256 + (j - 256)
      OBVIOUS
    <3> QED
      BY <3>1
  <2>3. IsLength(j) <=> length \in length_base[h]..(length_base[h] + Power(length_extra[h]) - 1)
    BY <1>4, <2>2 DEF Power
  <2> HIDE DEF IsLength
  <2>4. ASSUME IsLength(j) PROVE j = 256 + li
    BY <1>1, <1>3, <2>2, <2>3, <2>4 DEF LengthFound
  <2>5. ASSUME j = 256 + li PROVE IsLength(j)
    <3>1. h = li
      BY <1>1, <2>2, <2>5 DEF LengthFound
    <3>2. /\ length_base[h] <= length /\ length - length_base[h] < Power(length_extra[h])
          /\ length_base[h] \in Nat /\ Power(length_extra[h]) \in Nat
      BY <1>1, <1>4, <3>1 DEF LengthFound
    <3>3. length \in length_base[h]..(length_base[h] + Power(length_extra[h]) - 1)
      BY <3>2
    <3> QED
      BY <2>3, <3>3
  <2> QED
    BY <2>4, <2>5
<1>7. \A j \in 0..29 : IsDist(j) <=> j = di - 1
  <2>1. SUFFICES ASSUME NEW j \in 0..29 PROVE IsDist(j) <=> j = di - 1
    OBVIOUS
  <2>2. PICK h \in 1..30 : j = h - 1
    <3>1. j + 1 \in 1..30 /\ j = (j + 1) - 1
      OBVIOUS
    <3> QED
      BY <3>1
  <2>3. IsDist(j) <=> d \in dist_base[h]..(dist_base[h] + Power(dist_extra[h]) - 1)
    BY <1>5, <2>2 DEF Power
  <2> HIDE DEF IsDist
  <2>4. ASSUME IsDist(j) PROVE j = di - 1
    BY <1>2, <2>2, <2>3, <2>4 DEF DistFound
  <2>5. ASSUME j = di - 1 PROVE IsDist(j)
    <3>1. h = di
      BY <1>2, <2>2, <2>5 DEF DistFound
    <3>2. /\ dist_base[h] <= d /\ d - dist_base[h] < Power(dist_extra[h])
          /\ dist_base[h] \in Nat /\ Power(dist_extra[h]) \in Nat
      BY <1>2, <1>5, <3>1 DEF DistFound
    <3>3. d \in dist_base[h]..(dist_base[h] + Power(dist_extra[h]) - 1)
      BY <1>3, <3>2
    <3> QED
      BY <2>3, <3>3
  <2> QED
    BY <2>4, <2>5
<1>8. 256 + li \in 257..285 /\ di - 1 \in 0..29 /\ li \in 1..29 /\ di \in 1..30
  BY <1>1, <1>2 DEF LengthFound, DistFound
<1>9. s = 256 + li /\ t = di - 1
  <2> HIDE DEF IsLength, IsDist
  <2> QED
    BY <1>6, <1>7, <1>8
<1>10. MatchSize(length, d) = (IF s < 280 THEN 7 ELSE 8) + LengthExtra(s) + 5 + DistExtra(t)
  BY DEF MatchSize
<1>11. SymbolSize(256 + li) = IF 256 + li < 280 THEN 7 ELSE 8
  BY <1>8 DEF SymbolSize
<1>12. MatchBits(length, d) = SymbolSize(256 + li) + length_extra[li] + 5 + dist_extra[di]
  BY <1>1, <1>2 DEF MatchBits
<1>13. length_extra[li] = LengthExtra(256 + li) /\ dist_extra[di] = DistExtra(di - 1)
  BY <1>4, <1>5, <1>8
<1> HIDE DEF s, t
<1> QED
  BY <1>9, <1>10, <1>11, <1>12, <1>13

LEMMA MatchAlwaysDecodes ==
  ASSUME WriterOK(w), NEW length \in 3..258, NEW d, IsDistance(d)
  PROVE  MatchDecodes(length, d)
<1> DEFINE u == [w EXCEPT !.out = <<>>]
           v == PutMatch(u, length, d)
<1>1. /\ w = [out |-> w.out, acc |-> w.acc, used |-> w.used]
      /\ w.used \in 0..7 /\ w.acc \in Nat /\ w.acc < Power(w.used)
  BY DEF WriterOK
<1>2. u = [out |-> <<>>, acc |-> w.acc, used |-> w.used]
  BY <1>1
<1>3. WriterOK(u) /\ BitCount(u) = w.used /\ \A j \in 1..w.used : BitOf(u, j) = Bit(w.acc, j - 1)
  <2>1. <<>> \in Seq(0..255) /\ Len(<<>>) = 0
    BY EmptySeq
  <2>2. u.out = <<>> /\ u.acc = w.acc /\ u.used = w.used /\ u = [out |-> u.out, acc |-> u.acc, used |-> u.used]
    BY <1>2
  <2> HIDE DEF u
  <2>3. WriterOK(u)
    BY <1>1, <2>1, <2>2 DEF WriterOK
  <2>4. BitCount(u) = w.used
    BY <1>1, <2>1, <2>2 DEF BitCount
  <2>5. \A j \in 1..w.used : BitOf(u, j) = Bit(w.acc, j - 1)
    BY <1>1, <2>1, <2>2 DEF BitOf
  <2> QED
    BY <2>3, <2>4, <2>5
<1> HIDE DEF u
<1>4. /\ MatchBits(length, d) \in Nat
      /\ Says(v, u, MatchBits(length, d),
              [kind |-> "copy", length |-> length, dist |-> d, next |-> BitCount(v) + 1])
  BY <1>3, MatchReads
<1>5. MatchDecodes(length, d) <=>
        LET bits == WrittenBits(v)
            t    == Token(bits, w.used + 1)
        IN  /\ \A j \in 1..w.used : bits[j] = Bit(w.acc, j - 1)
            /\ t.kind = "copy" /\ t.length = length /\ t.dist = d
            /\ t.next = Len(bits) + 1
            /\ length # 258 => Len(bits) = w.used + MatchSize(length, d)
            /\ v.used < 8 /\ v.acc < 2 ^ v.used
  BY DEF MatchDecodes, WrittenBits, u
<1> HIDE DEF v
<1>6. WriterOK(v) /\ Later(v, u) /\ BitCount(v) = BitCount(u) + MatchBits(length, d)
  BY <1>4 DEF Says
<1>7. PICK bits : bits = WrittenBits(v) /\ Carries(bits, v) /\ Len(bits) = BitCount(v)
  BY <1>6, WrittenBitsCarry
<1>8. PICK t : t = Token(bits, w.used + 1)
  OBVIOUS
<1>9. t = [kind |-> "copy", length |-> length, dist |-> d, next |-> Len(bits) + 1]
  BY <1>3, <1>4, <1>7, <1>8 DEF Says
<1>10. \A j \in 1..w.used : bits[j] = Bit(w.acc, j - 1)
  <2>1. Carries(bits, u)
    BY <1>3, <1>6, <1>7, LaterCarries
  <2> QED
    BY <1>3, <2>1 DEF Carries
<1>11. length # 258 => Len(bits) = w.used + MatchSize(length, d)
  <2>1. SUFFICES ASSUME length # 258 PROVE Len(bits) = w.used + MatchSize(length, d)
    OBVIOUS
  <2>2. length \in 3..257
    BY <2>1
  <2> QED
    BY <1>3, <1>6, <1>7, <2>2, MatchSizeIs
<1>12. v.used < 8 /\ v.acc < 2 ^ v.used
  BY <1>6 DEF WriterOK, Power
<1> QED
  BY <1>5, <1>7, <1>8, <1>9, <1>10, <1>11, <1>12

-----------------------------------------------------------------------------
(* The reader, a token at a time *)

ReadFirst == [data |-> <<>>, next |-> 4, going |-> TRUE, ended |-> FALSE]
ReadHas(data, p) == [data |-> data, next |-> p, going |-> TRUE, ended |-> FALSE]
ReadEnded(data, p) == [data |-> data, next |-> p, going |-> FALSE, ended |-> TRUE]

ReadingOf(f, bits) ==
  /\ f[0] = ReadFirst
  /\ \A m \in 1..(Len(bits) \div 7) : f[m] = WithToken(f[m - 1], bits, Len(bits))

LEMMA ReadIs ==
  ASSUME NEW bits \in BitsSeq
  PROVE  \E f : ReadingOf(f, bits) /\ Read(bits, 4) = f[Len(bits) \div 7]
<1> DEFINE c == Len(bits) \div 7
           Is(e, m) == e = [j \in 0..m |-> IF j = 0 THEN ReadFirst
                                           ELSE WithToken(e[j - 1], bits, Len(bits))]
           T == {m \in Nat : \E e : Is(e, m)}
<1>1. c \in Nat
  <2>1. Len(bits) \in Nat
    BY LenProperties DEF BitsSeq
  <2> QED
    BY <2>1
<1> HIDE DEF c
<1>2. 0 \in T
  <2> DEFINE e == [j \in 0..0 |-> ReadFirst]
  <2>1. Is(e, 0)
    OBVIOUS
  <2> QED
    BY <2>1
<1>3. ASSUME NEW m \in T PROVE m + 1 \in T
  <2>1. PICK e : Is(e, m)
    OBVIOUS
  <2> DEFINE g == [j \in 0..(m + 1) |-> IF j = m + 1 THEN WithToken(e[m], bits, Len(bits)) ELSE e[j]]
  <2>2. \A j \in 0..(m + 1) : j # m + 1 => j \in 0..m
    OBVIOUS
  <2>3. ASSUME NEW j \in 0..(m + 1)
        PROVE  g[j] = IF j = 0 THEN ReadFirst ELSE WithToken(g[j - 1], bits, Len(bits))
    <3>1. CASE j = 0
      <4>1. 0 \in 0..(m + 1) /\ 0 # m + 1 /\ 0 \in 0..m
        OBVIOUS
      <4> QED
        BY <2>1, <3>1, <4>1
    <3>2. CASE j # 0 /\ j # m + 1
      <4>1. j \in 0..m /\ j - 1 \in 0..(m + 1) /\ j - 1 # m + 1
        BY <3>2
      <4> QED
        BY <2>1, <3>2, <4>1
    <3>3. CASE j = m + 1
      <4>1. j # 0 /\ j - 1 = m /\ m \in 0..(m + 1) /\ m # m + 1
        BY <3>3
      <4> QED
        BY <3>3, <4>1
    <3> QED
      BY <3>1, <3>2, <3>3
  <2>4. Is(g, m + 1)
    BY <2>3
  <2> HIDE DEF g
  <2> QED
    BY <2>4
<1>4. T = Nat
  <2> HIDE DEF T
  <2> QED
    BY <1>2, <1>3, Induct DEF T
<1>5. \E e : Is(e, c)
  BY <1>1, <1>4
<1> DEFINE u == CHOOSE e : Is(e, c)
<1>6. Is(u, c)
  <2> HIDE DEF Is
  <2> QED
    BY <1>5
<1>7. Read(bits, 4) = u[c]
  BY Zenon DEF Read, ReadFirst, c
<1> HIDE DEF u
<1>8. u[0] = ReadFirst
  BY <1>1, <1>6
<1>9. \A m \in 1..c : u[m] = WithToken(u[m - 1], bits, Len(bits))
  <2>1. \A m \in 1..c : m \in 0..c /\ m # 0
    BY <1>1
  <2> QED
    BY <1>6, <2>1
<1> QED
  BY <1>7, <1>8, <1>9 DEF ReadingOf, c

\* A stream of one block, which decodes to these bytes so far.
Coded(v, data) ==
  \A bits : Carries(bits, v) =>
    /\ bits[1] = 1 /\ bits[2] = 1 /\ bits[3] = 0
    /\ \A f : ReadingOf(f, bits) =>
         \E m \in Nat : 7 * m <= BitCount(v) - 3 /\ f[m] = ReadHas(data, BitCount(v) + 1)

\* What a reader with these bytes has after a token.
TokenRead(t, data, s) ==
  /\ t.kind = "byte" => s = ReadHas(Append(data, t.value), t.next)
  /\ t.kind = "copy" /\ t.dist <= Len(data) => s = ReadHas(Copied(data, t.length, t.dist), t.next)
  /\ t.kind = "end" => s = ReadEnded(data, t.next)

\* One token more is read.
LEMMA TokenIsRead ==
  ASSUME NEW u, WriterOK(u), NEW v, NEW l \in Nat, l >= 7, NEW t, Says(v, u, l, t),
         NEW bits, Carries(bits, v), NEW f, ReadingOf(f, bits),
         NEW data, NEW m \in Nat, 7 * m <= BitCount(u) - 3, f[m] = ReadHas(data, BitCount(u) + 1)
  PROVE  /\ 7 * (m + 1) <= BitCount(v) - 3
         /\ m + 1 \in 1..(Len(bits) \div 7)
         /\ TokenRead(t, data, f[m + 1])
<1>1. BitCount(u) \in Nat /\ BitCount(v) = BitCount(u) + l
  BY BitCountType DEF Says
<1>2. Len(bits) \in Nat /\ BitCount(v) <= Len(bits)
  BY LenProperties DEF Carries, BitsSeq
<1>3. 7 * (m + 1) <= BitCount(v) - 3 /\ 7 * (m + 1) <= Len(bits)
  BY <1>1, <1>2
<1>4. m + 1 \in 1..(Len(bits) \div 7)
  <2>1. PICK c \in Nat : c = Len(bits)
    BY <1>2
  <2>2. c = 7 * (c \div 7) + (c % 7) /\ c % 7 \in 0..6 /\ c \div 7 \in Nat
    OBVIOUS
  <2>3. m + 1 <= c \div 7
    BY <1>3, <2>1, <2>2
  <2> QED
    BY <2>1, <2>2, <2>3
<1>5. f[m + 1] = WithToken(f[m], bits, Len(bits))
  <2>1. (m + 1) - 1 = m
    OBVIOUS
  <2> QED
    BY <1>4, <2>1 DEF ReadingOf
<1>6. Token(bits, BitCount(u) + 1) = t /\ BitCount(u) + 1 <= Len(bits)
  BY <1>1, <1>2 DEF Says
<1>7. PICK s : s = f[m]
  OBVIOUS
<1>8. s.data = data /\ s.next = BitCount(u) + 1 /\ s.going = TRUE /\ s.ended = FALSE
  BY <1>7 DEF ReadHas
<1>9. Token(bits, s.next) = t /\ s.next <= Len(bits) /\ s.going
  BY <1>6, <1>8
<1>10. t.kind = "byte" => f[m + 1] = ReadHas(Append(data, t.value), t.next)
  BY <1>5, <1>7, <1>8, <1>9, Zenon DEF WithToken, TokenAdded, ReadHas
<1>11. t.kind = "copy" /\ t.dist <= Len(data) =>
         f[m + 1] = ReadHas(Copied(data, t.length, t.dist), t.next)
  <2>1. "copy" # "byte"
    OBVIOUS
  <2> QED
    BY <1>5, <1>7, <1>8, <1>9, <2>1, Zenon DEF WithToken, TokenAdded, ReadHas
<1>12. t.kind = "end" => f[m + 1] = ReadEnded(data, t.next)
  <2>1. "end" # "byte" /\ "end" # "copy"
    OBVIOUS
  <2> QED
    BY <1>5, <1>7, <1>8, <1>9, <2>1, Zenon DEF WithToken, TokenAdded, ReadEnded
<1> QED
  BY <1>3, <1>4, <1>10, <1>11, <1>12 DEF TokenRead

LEMMA CodedByte ==
  ASSUME NEW u, WriterOK(u), NEW data, Coded(u, data), NEW s \in 0..255, NEW v, v = PutSymbol(u, s)
  PROVE  WriterOK(v) /\ Coded(v, Append(data, s))
<1> DEFINE t == [kind |-> "byte", value |-> s, next |-> BitCount(v) + 1]
<1>1. PICK l \in Nat : l >= 7 /\ Says(v, u, l, t)
  <2>1. SymbolSize(s) \in Nat /\ SymbolSize(s) >= 7
    BY DEF SymbolSize
  <2>2. Says(v, u, SymbolSize(s), t)
    BY ByteReads
  <2> QED
    BY <2>1, <2>2
<1>3. WriterOK(v) /\ Later(v, u)
  BY <1>1 DEF Says
<1>4. t.kind = "byte" /\ t.value = s /\ t.next = BitCount(v) + 1
  OBVIOUS
<1> HIDE DEF t
<1>5. ASSUME NEW bits, Carries(bits, v)
      PROVE  /\ bits[1] = 1 /\ bits[2] = 1 /\ bits[3] = 0
             /\ \A f : ReadingOf(f, bits) =>
                  \E m \in Nat : 7 * m <= BitCount(v) - 3 /\ f[m] = ReadHas(Append(data, s), BitCount(v) + 1)
  <2>1. Carries(bits, u)
    BY <1>3, <1>5, LaterCarries
  <2>2. bits[1] = 1 /\ bits[2] = 1 /\ bits[3] = 0
    BY <2>1 DEF Coded
  <2>3. ASSUME NEW f, ReadingOf(f, bits)
        PROVE  \E m \in Nat : 7 * m <= BitCount(v) - 3 /\ f[m] = ReadHas(Append(data, s), BitCount(v) + 1)
    <3>1. PICK m \in Nat : 7 * m <= BitCount(u) - 3 /\ f[m] = ReadHas(data, BitCount(u) + 1)
      BY <2>1, <2>3 DEF Coded
    <3>2. /\ 7 * (m + 1) <= BitCount(v) - 3
          /\ TokenRead(t, data, f[m + 1])
      BY <1>1, <1>5, <2>3, <3>1, TokenIsRead
    <3>3. m + 1 \in Nat
      OBVIOUS
    <3> QED
      BY <1>4, <3>2, <3>3 DEF TokenRead
  <2> QED
    BY <2>2, <2>3
<1> QED
  BY <1>3, <1>5 DEF Coded

LEMMA CodedCopy ==
  ASSUME NEW u, WriterOK(u), NEW data, Coded(u, data),
         NEW length \in 3..258, NEW d, IsDistance(d), d <= Len(data), NEW v, v = PutMatch(u, length, d)
  PROVE  WriterOK(v) /\ Coded(v, Copied(data, length, d))
<1> DEFINE t == [kind |-> "copy", length |-> length, dist |-> d, next |-> BitCount(v) + 1]
<1>1. PICK l \in Nat : l >= 7 /\ Says(v, u, l, t)
  BY MatchReads
<1>3. WriterOK(v) /\ Later(v, u)
  BY <1>1 DEF Says
<1>4. t.kind = "copy" /\ t.length = length /\ t.dist = d /\ t.next = BitCount(v) + 1
  OBVIOUS
<1> HIDE DEF t
<1>5. ASSUME NEW bits, Carries(bits, v)
      PROVE  /\ bits[1] = 1 /\ bits[2] = 1 /\ bits[3] = 0
             /\ \A f : ReadingOf(f, bits) =>
                  \E m \in Nat : /\ 7 * m <= BitCount(v) - 3
                                 /\ f[m] = ReadHas(Copied(data, length, d), BitCount(v) + 1)
  <2>1. Carries(bits, u)
    BY <1>3, <1>5, LaterCarries
  <2>2. bits[1] = 1 /\ bits[2] = 1 /\ bits[3] = 0
    BY <2>1 DEF Coded
  <2>3. ASSUME NEW f, ReadingOf(f, bits)
        PROVE  \E m \in Nat : /\ 7 * m <= BitCount(v) - 3
                              /\ f[m] = ReadHas(Copied(data, length, d), BitCount(v) + 1)
    <3>1. PICK m \in Nat : 7 * m <= BitCount(u) - 3 /\ f[m] = ReadHas(data, BitCount(u) + 1)
      BY <2>1, <2>3 DEF Coded
    <3>2. /\ 7 * (m + 1) <= BitCount(v) - 3
          /\ TokenRead(t, data, f[m + 1])
      BY <1>1, <1>5, <2>3, <3>1, TokenIsRead
    <3>3. m + 1 \in Nat
      OBVIOUS
    <3> QED
      BY <1>4, <3>2, <3>3 DEF TokenRead
  <2> QED
    BY <2>2, <2>3
<1> QED
  BY <1>3, <1>5 DEF Coded

-----------------------------------------------------------------------------
(* The first bits and the last *)

LEMMA CodedFirst ==
  ASSUME NEW v, v = Put(Put(NewWriter, 1, 1), 1, 2)
  PROVE  WriterOK(v) /\ Coded(v, <<>>)
<1> DEFINE u == NewWriter
           t == Put(u, 1, 1)
<1>1. WriterOK(u) /\ BitCount(u) = 0
  <2>1. <<>> \in Seq(0..255) /\ Len(<<>>) = 0
    BY EmptySeq
  <2>2. u.out = <<>> /\ u.acc = 0 /\ u.used = 0 /\ u = [out |-> u.out, acc |-> u.acc, used |-> u.used]
    BY DEF NewWriter
  <2> HIDE DEF u
  <2>3. 0 < Power(0)
    BY PowerNext
  <2> QED
    BY <2>1, <2>2, <2>3 DEF WriterOK, BitCount
<1> HIDE DEF u
<1>2. 1 < Power(1) /\ 1 < Power(2) /\ 1 \in 0..13 /\ 2 \in 0..13 /\ 1 \in Nat /\ 2 \in Nat
  BY SmallPowers
<1>3. Extends(t, u, 1, 1)
  BY <1>1, <1>2, PutExtends
<1> HIDE DEF t
<1>4. WriterOK(t) /\ Later(t, u) /\ BitCount(t) = 1
  BY <1>1, <1>2, <1>3, ExtendsLater
<1>5. v = Put(t, 1, 2)
  BY DEF t, u
<1>6. Extends(v, t, 2, 1)
  BY <1>2, <1>4, <1>5, PutExtends
<1>7. WriterOK(v) /\ Later(v, t) /\ BitCount(v) = 3
  BY <1>2, <1>4, <1>6, ExtendsLater
<1>8. Bit(1, 0) = 1 /\ Bit(1, 1) = 0
  <2>1. Bit(1, 0) = (1 \div 1) % 2 /\ Bit(1, 1) = (1 \div 2) % 2
    BY BitIs, SmallPowers
  <2> QED
    BY <2>1
<1>9. BitOf(v, 1) = 1 /\ BitOf(v, 2) = 1 /\ BitOf(v, 3) = 0
  <2>1. BitOf(t, 0 + 1) = Bit(1, 1 - 1)
    <3>1. 1 \in 1..1 /\ BitCount(u) + 1 = 0 + 1
      BY <1>1
    <3> QED
      BY <1>3, <3>1 DEF Extends
  <2>2. BitOf(v, 1) = BitOf(t, 1)
    <3>1. 1 \in 1..BitCount(t)
      BY <1>4
    <3> QED
      BY <1>6, <3>1 DEF Extends
  <2>3. BitOf(v, BitCount(t) + 1) = Bit(1, 1 - 1) /\ BitOf(v, BitCount(t) + 2) = Bit(1, 2 - 1)
    <3>1. 1 \in 1..2 /\ 2 \in 1..2
      OBVIOUS
    <3> QED
      BY <1>6, <3>1 DEF Extends
  <2> QED
    BY <1>4, <1>8, <2>1, <2>2, <2>3
<1>10. ASSUME NEW bits, Carries(bits, v)
       PROVE  /\ bits[1] = 1 /\ bits[2] = 1 /\ bits[3] = 0
              /\ \A f : ReadingOf(f, bits) =>
                   \E m \in Nat : 7 * m <= BitCount(v) - 3 /\ f[m] = ReadHas(<<>>, BitCount(v) + 1)
  <2>1. bits[1] = 1 /\ bits[2] = 1 /\ bits[3] = 0
    <3>1. 1 \in 1..BitCount(v) /\ 2 \in 1..BitCount(v) /\ 3 \in 1..BitCount(v)
      BY <1>7
    <3> QED
      BY <1>9, <1>10, <3>1 DEF Carries
  <2>2. ASSUME NEW f, ReadingOf(f, bits)
        PROVE  \E m \in Nat : 7 * m <= BitCount(v) - 3 /\ f[m] = ReadHas(<<>>, BitCount(v) + 1)
    <3>1. f[0] = ReadHas(<<>>, BitCount(v) + 1)
      <4>1. BitCount(v) + 1 = 4
        BY <1>7
      <4> QED
        BY <2>2, <4>1 DEF ReadingOf, ReadFirst, ReadHas
    <3>2. 0 \in Nat /\ 7 * 0 <= BitCount(v) - 3
      BY <1>7
    <3> QED
      BY <3>1, <3>2
  <2> QED
    BY <2>1, <2>2
<1> QED
  BY <1>7, <1>10 DEF Coded

\* The last byte is filled with zeros.
LEMMA FlushCarries ==
  ASSUME NEW v, WriterOK(v), NEW z, z = Flush(v)
  PROVE  /\ z.out \in Seq(0..255) /\ Carries(BitsOf(z.out), v)
         /\ Len(z.out) \in Nat /\ Len(BitsOf(z.out)) = 8 * Len(z.out)
         /\ (BitCount(v) + 7) \div 8 = Len(z.out)
<1>1. v.out \in Seq(0..255) /\ v.used \in 0..7 /\ v.acc \in Nat
  BY DEF WriterOK
<1>2. PICK c \in Nat, u \in 0..7 : c = Len(v.out) /\ u = v.used
  BY <1>1, LenProperties
<1>3. BitCount(v) = 8 * c + u
  BY <1>2 DEF BitCount
<1>4. CASE u = 0
  <2>1. z.out = v.out
    BY <1>2, <1>4 DEF Flush
  <2>2. BitsOf(v.out) \in BitsSeq /\ Len(BitsOf(v.out)) = 8 * c
        /\ \A j \in 1..(8 * c) : BitsOf(v.out)[j] = Bit(v.out[((j - 1) \div 8) + 1], (j - 1) % 8)
    BY <1>1, <1>2, BitsOfType
  <2>3. ASSUME NEW j \in 1..(8 * c) PROVE BitsOf(v.out)[j] = BitOf(v, j)
    <3>1. j <= 8 * Len(v.out)
      BY <1>2
    <3> QED
      BY <2>2, <3>1 DEF BitOf
  <2>4. BitCount(v) = 8 * c /\ 8 * c <= 8 * c /\ (8 * c + 7) \div 8 = c
    BY <1>3, <1>4
  <2>5. Carries(BitsOf(v.out), v)
    BY <2>2, <2>3, <2>4 DEF Carries
  <2> QED
    BY <1>1, <1>2, <2>1, <2>2, <2>4, <2>5
<1>5. CASE u # 0
  <2> DEFINE x == v.acc % 256
             s == Append(v.out, x)
  <2>1. z.out = s
    BY <1>2, <1>5 DEF Flush
  <2>2. x \in 0..255
    <3>1. PICK q \in Nat : q = v.acc
      BY <1>1
    <3>2. q % 256 \in 0..255
      OBVIOUS
    <3> QED
      BY <3>1, <3>2
  <2>3. s \in Seq(0..255) /\ Len(s) = c + 1 /\ s[c + 1] = x /\ \A l \in 1..c : s[l] = v.out[l]
    <3> HIDE DEF x
    <3> QED
      BY <1>1, <1>2, <2>2, AppendProperties
  <2>4. \A e \in 0..7 : Bit(x, e) = Bit(v.acc, e)
    <3> SUFFICES ASSUME NEW e \in 0..7 PROVE Bit(x, e) = Bit(v.acc, e)
      OBVIOUS
    <3>1. PICK q \in Nat : q = v.acc
      BY <1>1
    <3>2. PICK t \in 0..30 : t = 8
      OBVIOUS
    <3>3. e \in Nat /\ e < t /\ Power(t) = 256
      BY <3>2, SmallPowers
    <3>4. Bit(q % Power(t), e) = Bit(q, e)
      BY <3>3, BitOfRemainder
    <3> QED
      BY <3>1, <3>3, <3>4
  <2> HIDE DEF x, s
  <2>5. BitsOf(s) \in BitsSeq /\ Len(BitsOf(s)) = 8 * (c + 1)
        /\ \A j \in 1..(8 * (c + 1)) : BitsOf(s)[j] = Bit(s[((j - 1) \div 8) + 1], (j - 1) % 8)
    BY <2>3, BitsOfType
  <2>6. ASSUME NEW j \in 1..(8 * c + u) PROVE BitsOf(s)[j] = BitOf(v, j)
    <3>1. j \in 1..(8 * (c + 1))
      OBVIOUS
    <3>2. CASE j <= 8 * c
      <4>1. ((j - 1) \div 8) + 1 \in 1..c
        BY <3>2
      <4> QED
        BY <1>2, <2>3, <2>5, <3>1, <3>2, <4>1 DEF BitOf
    <3>3. CASE ~(j <= 8 * c)
      <4>1. PICK e \in 0..6 : j = 8 * c + e + 1
        <5>1. j - 8 * c - 1 \in 0..6 /\ j = 8 * c + (j - 8 * c - 1) + 1
          BY <3>3
        <5> QED
          BY <5>1
      <4>2. ((j - 1) \div 8) + 1 = c + 1 /\ (j - 1) % 8 = e /\ j - 1 - 8 * c = e /\ e \in 0..7
        BY <4>1
      <4>3. BitsOf(s)[j] = Bit(x, e)
        BY <2>3, <2>5, <3>1, <4>2
      <4>4. BitOf(v, j) = Bit(v.acc, e)
        BY <1>2, <3>3, <4>2 DEF BitOf
      <4> QED
        BY <2>4, <4>2, <4>3, <4>4
    <3> QED
      BY <3>2, <3>3
  <2>7. BitCount(v) <= 8 * (c + 1) /\ (BitCount(v) + 7) \div 8 = c + 1
    BY <1>3, <1>5
  <2>8. Carries(BitsOf(s), v)
    BY <1>3, <2>5, <2>6, <2>7 DEF Carries
  <2> QED
    BY <2>1, <2>3, <2>5, <2>7, <2>8
<1> QED
  BY <1>4, <1>5

\* The bytes are a stream of one block, which decodes to the data and fills them.
StreamOf(body, data) ==
  LET bits == BitsOf(body)
      r    == Read(bits, 4)
  IN  /\ IsLastFixedBlock(bits)
      /\ r.ended = TRUE /\ (r.next - 1 + 7) \div 8 = Len(body)
      /\ r.data = data

LEMMA CodedEnd ==
  ASSUME NEW u, WriterOK(u), NEW data, Coded(u, data), NEW z, z = Flush(PutSymbol(u, 256))
  PROVE  z.out \in Seq(0..255) /\ StreamOf(z.out, data)
<1>1. PICK v : v = PutSymbol(u, 256)
  OBVIOUS
<1> DEFINE t == [kind |-> "end", next |-> BitCount(v) + 1]
           bits == BitsOf(z.out)
<1>2. Says(v, u, 7, t)
  BY <1>1, EndReads
<1>3. WriterOK(v) /\ Later(v, u) /\ BitCount(v) \in Nat
  BY <1>2, BitCountType DEF Says
<1>4. /\ z.out \in Seq(0..255) /\ Carries(bits, v)
      /\ Len(z.out) \in Nat /\ Len(bits) = 8 * Len(z.out)
      /\ (BitCount(v) + 7) \div 8 = Len(z.out)
  BY <1>1, <1>3, FlushCarries
<1>5. t.kind = "end" /\ t.next = BitCount(v) + 1
  OBVIOUS
<1> HIDE DEF t, bits
<1>6. Carries(bits, u) /\ bits \in BitsSeq
  BY <1>3, <1>4, LaterCarries DEF Carries
<1>7. bits[1] = 1 /\ bits[2] = 1 /\ bits[3] = 0
  BY <1>6 DEF Coded
<1>8. IsLastFixedBlock(bits)
  <2>1. Len(bits) >= 3 /\ DOMAIN bits = 1..Len(bits) /\ Len(bits) \in Nat
    <3>1. BitCount(u) >= 3
      <4>1. PICK f : ReadingOf(f, bits)
        BY <1>6, ReadIs
      <4>2. PICK m \in Nat : 7 * m <= BitCount(u) - 3
        BY <1>6, <4>1 DEF Coded
      <4> QED
        BY <4>2, BitCountType
    <3>2. BitCount(u) \in Nat /\ BitCount(u) <= Len(bits)
      BY <1>6, BitCountType DEF Carries
    <3>3. DOMAIN bits = 1..Len(bits) /\ Len(bits) \in Nat
      BY <1>6, LenProperties DEF BitsSeq
    <3> QED
      BY <3>1, <3>2, <3>3
  <2>2. BitAt(bits, 1) = 1 /\ BitAt(bits, 2) = 1 /\ BitAt(bits, 3) = 0
    <3>1. 1 \in DOMAIN bits /\ 2 \in DOMAIN bits /\ 3 \in DOMAIN bits
      BY <2>1
    <3> QED
      BY <1>7, <3>1 DEF BitAt
  <2>3. Bit(1, 0) = 1 /\ Bit(1, 1) = 0
    <3>1. Bit(1, 0) = (1 \div 1) % 2 /\ Bit(1, 1) = (1 \div 2) % 2
      BY BitIs, SmallPowers
    <3> QED
      BY <3>1
  <2>4. 1 < Power(1) /\ 1 < Power(2) /\ 1 \in 0..30 /\ 2 \in 0..30 /\ 1 \in Nat /\ 1 \in Int /\ 2 \in Int
    BY SmallPowers
  <2>5. Number(bits, 1, 1) = 1
    <3>1. \A j \in 1..1 : BitAt(bits, 1 + j - 1) = Bit(1, j - 1)
      <4>1. \A j \in 1..1 : j = 1 /\ 1 + j - 1 = 1 /\ j - 1 = 0
        OBVIOUS
      <4> QED
        BY <2>2, <2>3, <4>1
    <3> QED
      BY <1>6, <2>4, <3>1, NumberReads
  <2>6. Number(bits, 2, 2) = 1
    <3>1. \A j \in 1..2 : BitAt(bits, 2 + j - 1) = Bit(1, j - 1)
      <4>1. \A j \in 1..2 : (j = 1 /\ 2 + j - 1 = 2 /\ j - 1 = 0) \/ (j = 2 /\ 2 + j - 1 = 3 /\ j - 1 = 1)
        OBVIOUS
      <4> QED
        BY <2>2, <2>3, <4>1
    <3> QED
      BY <1>6, <2>4, <3>1, NumberReads
  <2> QED
    BY <2>5, <2>6 DEF IsLastFixedBlock
<1>9. PICK f : ReadingOf(f, bits) /\ Read(bits, 4) = f[Len(bits) \div 7]
  BY <1>6, ReadIs
<1>10. PICK m \in Nat : 7 * m <= BitCount(u) - 3 /\ f[m] = ReadHas(data, BitCount(u) + 1)
  BY <1>6, <1>9 DEF Coded
<1>11. m + 1 \in 1..(Len(bits) \div 7) /\ f[m + 1] = ReadEnded(data, t.next)
  <2>1. PICK l \in Nat : l = 7
    OBVIOUS
  <2>3. l >= 7 /\ Says(v, u, l, t)
    BY <1>2, <2>1
  <2>4. Carries(bits, v) /\ ReadingOf(f, bits)
    BY <1>4, <1>9
  <2>2. m + 1 \in 1..(Len(bits) \div 7) /\ TokenRead(t, data, f[m + 1])
    BY <1>10, <2>3, <2>4, TokenIsRead
  <2> QED
    BY <1>5, <2>2 DEF TokenRead
<1>12. PICK c \in Nat : c = Len(bits) \div 7
  <2>1. Len(bits) \in Nat
    BY <1>6, LenProperties DEF BitsSeq
  <2>2. Len(bits) \div 7 \in Nat
    BY <2>1
  <2> QED
    BY <2>2
<1>13. f[c] = ReadEnded(data, t.next)
  <2> DEFINE T == {l \in Nat : m + 1 + l <= c => f[m + 1 + l] = ReadEnded(data, t.next)}
  <2>1. 0 \in T
    BY <1>11
  <2>2. ASSUME NEW l \in T PROVE l + 1 \in T
    <3> SUFFICES ASSUME m + 1 + (l + 1) <= c PROVE f[m + 1 + (l + 1)] = ReadEnded(data, t.next)
      OBVIOUS
    <3>1. /\ m + 1 + (l + 1) \in 1..c /\ (m + 1 + (l + 1)) - 1 = m + 1 + l /\ m + 1 + l <= c
      OBVIOUS
    <3>2. PICK s : s = f[m + 1 + l] /\ s = ReadEnded(data, t.next)
      BY <3>1
    <3>3. f[m + 1 + (l + 1)] = WithToken(s, bits, Len(bits))
      BY <1>9, <1>12, <3>1, <3>2 DEF ReadingOf
    <3>4. s.data = data /\ s.next = t.next /\ ~s.going /\ s.ended = TRUE
      BY <3>2 DEF ReadEnded
    <3>5. WithToken(s, bits, Len(bits)) = ReadEnded(data, t.next)
      BY <3>4, Zenon DEF WithToken, TokenAdded, ReadEnded
    <3> QED
      BY <3>3, <3>5
  <2>3. T = Nat
    <3> HIDE DEF T
    <3> QED
      BY <2>1, <2>2, Induct DEF T
  <2>4. PICK l \in Nat : c = m + 1 + l
    <3>1. c - (m + 1) \in Nat /\ c = m + 1 + (c - (m + 1))
      BY <1>11, <1>12
    <3> QED
      BY <3>1
  <2>5. m + 1 + l <= c /\ l \in T
    BY <2>3, <2>4
  <2> QED
    BY <2>4, <2>5
<1>14. Read(bits, 4) = [data |-> data, next |-> BitCount(v) + 1, going |-> FALSE, ended |-> TRUE]
  BY <1>5, <1>9, <1>12, <1>13 DEF ReadEnded
<1>15. PICK r : r = Read(bits, 4)
  OBVIOUS
<1>16. r.ended = TRUE /\ r.data = data /\ r.next = BitCount(v) + 1
  BY <1>14, <1>15
<1>17. (r.next - 1 + 7) \div 8 = Len(z.out)
  <2>1. r.next - 1 + 7 = BitCount(v) + 7
    BY <1>3, <1>16
  <2> QED
    BY <1>4, <2>1
<1> QED
  BY <1>4, <1>8, <1>15, <1>16, <1>17 DEF StreamOf, bits

-----------------------------------------------------------------------------
(* ByteStrings that repeat earlier ones *)

ByteStrings == Seq(0..255)

LEMMA BeginningIs ==
  ASSUME NEW S, NEW r \in Seq(S), NEW m \in 0..Len(r)
  PROVE  /\ SubSeq(r, 1, m) \in Seq(S) /\ Len(SubSeq(r, 1, m)) = m
         /\ \A j \in 1..m : SubSeq(r, 1, m)[j] = r[j]
<1>1. Len(r) \in Nat /\ \A j \in 1..m : r[j] \in S
  BY LenProperties, ElementOfSeq
<1>2. m \in Int /\ 1 \in Int
  BY <1>1
<1>3. /\ SubSeq(r, 1, m) \in Seq(S)
      /\ Len(SubSeq(r, 1, m)) = IF 1 <= m THEN m - 1 + 1 ELSE 0
      /\ \A j \in 1..(m - 1 + 1) : SubSeq(r, 1, m)[j] = r[1 + j - 1]
  BY <1>1, <1>2, SubSeqProperties
<1>4. m - 1 + 1 = m /\ \A j \in 1..m : 1 + j - 1 = j
  BY <1>1
<1> QED
  BY <1>1, <1>3, <1>4

LEMMA BeginningAndByte ==
  ASSUME NEW r \in ByteStrings, NEW m \in Nat, m + 1 <= Len(r)
  PROVE  Append(SubSeq(r, 1, m), r[m + 1]) = SubSeq(r, 1, m + 1) /\ r[m + 1] \in 0..255
<1>1. Len(r) \in Nat /\ m + 1 \in 1..Len(r) /\ m \in 0..Len(r) /\ m + 1 \in 0..Len(r)
  BY LenProperties DEF ByteStrings
<1>2. r[m + 1] \in 0..255
  BY <1>1, ElementOfSeq DEF ByteStrings
<1>3. PICK s, t, e : s = SubSeq(r, 1, m) /\ t = SubSeq(r, 1, m + 1) /\ e = r[m + 1]
  OBVIOUS
<1>4. s \in ByteStrings /\ Len(s) = m /\ \A j \in 1..m : s[j] = r[j]
  BY <1>1, <1>3, BeginningIs DEF ByteStrings
<1>5. t \in ByteStrings /\ Len(t) = m + 1 /\ \A j \in 1..(m + 1) : t[j] = r[j]
  BY <1>1, <1>3, BeginningIs DEF ByteStrings
<1>6. /\ Append(s, e) \in ByteStrings /\ Len(Append(s, e)) = m + 1
      /\ Append(s, e)[m + 1] = e /\ \A j \in 1..m : Append(s, e)[j] = s[j]
  BY <1>2, <1>3, <1>4, AppendProperties DEF ByteStrings
<1>7. \A j \in 1..(m + 1) : Append(s, e)[j] = t[j]
  <2>1. \A j \in 1..(m + 1) : j = m + 1 \/ j \in 1..m
    OBVIOUS
  <2> QED
    BY <1>3, <1>4, <1>5, <1>6, <2>1
<1>8. Append(s, e) = t
  BY <1>5, <1>6, <1>7, SeqEqual DEF ByteStrings
<1> QED
  BY <1>2, <1>3, <1>8

\* The bytes after the first m, so many, are those d before them.
Repeats(r, m, d, l) ==
  /\ l \in Nat /\ m + l <= Len(r)
  /\ \A j \in 1..l : r[m + j] = r[m + j - d]

LEMMA CopiedIs ==
  ASSUME NEW r \in ByteStrings, NEW m \in 0..Len(r), NEW d \in 1..m, NEW l, Repeats(r, m, d, l)
  PROVE  Copied(SubSeq(r, 1, m), l, d) = SubSeq(r, 1, m + l)
<1>1. Len(r) \in Nat /\ l \in Nat /\ m \in Nat /\ d \in Nat \ {0} /\ m + l \in 0..Len(r)
  BY LenProperties DEF Repeats, ByteStrings
<1>2. PICK s, t : s = SubSeq(r, 1, m) /\ t = SubSeq(r, 1, m + l)
  OBVIOUS
<1>3. s \in ByteStrings /\ Len(s) = m /\ \A j \in 1..m : s[j] = r[j]
  BY <1>2, BeginningIs DEF ByteStrings
<1>4. t \in ByteStrings /\ Len(t) = m + l /\ \A j \in 1..(m + l) : t[j] = r[j]
  BY <1>1, <1>2, BeginningIs DEF ByteStrings
<1> DEFINE At(j) == m - d + 1 + ((j - 1) % d)
           T == {h \in Nat : \A j \in 1..l : j <= h => r[At(j)] = r[m + j]}
<1>5. \A j \in 1..l : (j - 1) % d \in 0..(d - 1) /\ At(j) \in 1..m
  <2> SUFFICES ASSUME NEW j \in 1..l PROVE (j - 1) % d \in 0..(d - 1) /\ At(j) \in 1..m
    OBVIOUS
  <2>1. PICK q \in Nat : q = j - 1
    BY <1>1
  <2>2. q % d \in Nat /\ q % d < d
    BY <1>1, Divides
  <2> QED
    BY <1>1, <2>1, <2>2
<1>6. 0 \in T
  BY <1>1
<1>7. ASSUME NEW h \in T PROVE h + 1 \in T
  <2> SUFFICES ASSUME NEW j \in 1..l, j <= h + 1 PROVE r[At(j)] = r[m + j]
    OBVIOUS
  <2>1. CASE j <= d
    <3>1. PICK q \in Nat, z \in Nat : q = j - 1 /\ z = 0
      BY <1>1
    <3>2. q < d /\ q = z * d + q
      BY <1>1, <2>1, <3>1
    <3>3. q % d = q
      BY <1>1, <3>2, Division
    <3>4. At(j) = m + j - d
      BY <1>1, <3>1, <3>3
    <3>5. r[m + j] = r[m + j - d]
      BY DEF Repeats
    <3> QED
      BY <3>4, <3>5
  <2>2. CASE j > d
    <3>1. j - d \in 1..l /\ j - d <= h
      BY <1>1, <2>2
    <3>2. r[At(j - d)] = r[m + (j - d)]
      BY <3>1
    <3>3. PICK q \in Nat, z \in Nat : q = j - d - 1 /\ z = 1 /\ j - 1 = q + z * d /\ (j - d) - 1 = q
      BY <1>1, <2>2
    <3>4. (q + z * d) % d = q % d
      BY <1>1, DivisionOfSum
    <3>5. At(j) = At(j - d)
      BY <3>3, <3>4
    <3>6. r[m + j] = r[m + j - d]
      BY DEF Repeats
    <3>7. m + (j - d) = m + j - d
      BY <1>1
    <3> QED
      BY <3>2, <3>5, <3>6, <3>7
  <2> QED
    BY <1>1, <2>1, <2>2
<1>8. T = Nat
  <2> HIDE DEF T
  <2> QED
    BY <1>6, <1>7, Induct DEF T
<1>9. \A j \in 1..l : r[At(j)] = r[m + j]
  <2>1. l \in T
    BY <1>1, <1>8
  <2>2. \A j \in 1..l : j <= l
    BY <1>1
  <2> HIDE DEF At
  <2> QED
    BY <2>1, <2>2
<1>10. PICK e : e = [j \in 1..l |-> s[Len(s) - d + 1 + ((j - 1) % d)]]
  OBVIOUS
<1>11. \A j \in 1..l : e[j] = t[m + j] /\ e[j] \in 0..255
  <2> SUFFICES ASSUME NEW j \in 1..l PROVE e[j] = t[m + j] /\ e[j] \in 0..255
    OBVIOUS
  <2>1. e[j] = s[At(j)] /\ At(j) \in 1..m
    BY <1>3, <1>5, <1>10
  <2>2. m + j \in 1..(m + l) /\ m + j \in 1..Len(t)
    BY <1>1, <1>4
  <2>3. t[m + j] \in 0..255
    BY <1>4, <2>2, ElementOfSeq DEF ByteStrings
  <2> HIDE DEF At
  <2> QED
    BY <1>3, <1>4, <1>9, <2>1, <2>2, <2>3
<1>12. e \in ByteStrings /\ Len(e) = l
  <2>1. e \in [1..l -> 0..255]
    BY <1>10, <1>11
  <2> QED
    BY <1>1, <2>1 DEF ByteStrings
<1>13. /\ s \o e \in ByteStrings /\ Len(s \o e) = m + l
       /\ \A j \in 1..(m + l) : (s \o e)[j] = IF j <= m THEN s[j] ELSE e[j - m]
  BY <1>3, <1>12, ConcatProperties DEF ByteStrings
<1>14. \A j \in 1..(m + l) : (s \o e)[j] = t[j]
  <2> SUFFICES ASSUME NEW j \in 1..(m + l) PROVE (s \o e)[j] = t[j]
    OBVIOUS
  <2>1. CASE j <= m
    <3>1. j \in 1..m
      BY <1>1, <2>1
    <3> QED
      BY <1>3, <1>4, <1>13, <3>1
  <2>2. CASE ~(j <= m)
    <3>1. j - m \in 1..l /\ m + (j - m) = j
      BY <1>1, <2>2
    <3>2. e[j - m] = t[m + (j - m)]
      BY <1>11, <3>1
    <3> QED
      BY <1>13, <2>2, <3>1, <3>2
  <2> QED
    BY <2>1, <2>2
<1>15. s \o e = t
  BY <1>4, <1>13, <1>14, SeqEqual DEF ByteStrings
<1>16. Copied(s, l, d) = s \o e
  BY <1>10 DEF Copied
<1> QED
  BY <1>2, <1>15, <1>16

\* The least number of a set.
LEMMA MinIs ==
  ASSUME NEW T \in SUBSET Nat, T # {}
  PROVE  Min(T) \in T /\ \A m \in T : Min(T) <= m
BY LeastExists DEF Min

\* As long as the bytes repeat.
LEMMA FirstDifference ==
  ASSUME NEW r, NEW m \in Nat, NEW d \in Int, NEW limit \in Nat, m + limit <= Len(r),
         NEW l, l = Min({j \in 0..limit : j = limit \/ r[m + j + 1] # r[m + j + 1 - d]})
  PROVE  Repeats(r, m, d, l) /\ l <= limit
<1> DEFINE T == {j \in 0..limit : j = limit \/ r[m + j + 1] # r[m + j + 1 - d]}
<1>1. T \in SUBSET Nat /\ limit \in T
  OBVIOUS
<1>2. l \in T /\ \A j \in T : l <= j
  <2> HIDE DEF T
  <2>1. Min(T) \in T /\ \A j \in T : Min(T) <= j
    BY <1>1, MinIs
  <2> QED
    BY <2>1 DEF T
<1>3. l \in Nat /\ l <= limit /\ Len(r) = Len(r)
  BY <1>2
<1>4. ASSUME NEW j \in 1..l PROVE r[m + j] = r[m + j - d]
  <2>0. j - 1 \in 0..limit /\ j - 1 # limit /\ ~(l <= j - 1)
    BY <1>3
  <2>1. j - 1 \notin T
    <3> HIDE DEF T
    <3> QED
      BY <1>2, <2>0
  <2>2. r[m + (j - 1) + 1] = r[m + (j - 1) + 1 - d]
    BY <2>0, <2>1
  <2>3. m + (j - 1) + 1 = m + j
    BY <1>3
  <2> QED
    BY <2>2, <2>3
<1>5. \A j \in Nat : j <= limit => m + j <= Len(r)
  OBVIOUS
<1> QED
  BY <1>3, <1>4, <1>5 DEF Repeats

-----------------------------------------------------------------------------
(* Sequences of pieces *)

\* The pieces of a flattened sequence are put one behind the other.
LEMMA FlattenIs ==
  ASSUME NEW S, NEW pieces \in Seq(Seq(S)), Len(pieces) # 0
  PROVE  \E f \in [1..Len(pieces) -> Seq(S)] :
           /\ f[1] = pieces[1]
           /\ \A j \in 2..Len(pieces) : f[j] = f[j - 1] \o pieces[j]
           /\ FlattenSeq(pieces) = f[Len(pieces)]
<1> DEFINE Is(f) == f = [j \in 1..Len(pieces) |->
                           IF j = 1 THEN pieces[1] ELSE f[j - 1] \o pieces[j]]
<1>1. Len(pieces) \in Nat \ {0} /\ \A j \in 1..Len(pieces) : pieces[j] \in Seq(S)
  BY LenProperties, ElementOfSeq
<1>2. PICK z : z = Len(pieces)
  OBVIOUS
<1> DEFINE step == [p \in Nat \X Seq(S) |->
                      IF p[1] + 1 \in 1..z THEN p[2] \o pieces[p[1] + 1] ELSE p[2]]
<1>3. step \in [Nat \X Seq(S) -> Seq(S)]
  BY <1>1, <1>2, ConcatProperties
<1>4. \A j \in Nat, s \in Seq(S) : j + 1 \in 1..z => step[<<j, s>>] = s \o pieces[j + 1]
  OBVIOUS
<1> HIDE DEF step
<1>5. PICK g \in [0..(z - 1) -> Seq(S)] :
        g[0] = pieces[1] /\ \A j \in 1..(z - 1) : g[j] = step[<<j, g[j - 1]>>]
  <2>1. pieces[1] \in Seq(S) /\ z - 1 \in Nat
    BY <1>1, <1>2
  <2>2. PICK first, last : first = pieces[1] /\ last = z - 1
    OBVIOUS
  <2>3. \E g : Recurs(g, Seq(S), first, step, last)
    BY <1>3, <2>1, <2>2, Recursion
  <2> QED
    BY <2>2, <2>3 DEF Recurs
<1> DEFINE f == [j \in 1..z |-> g[j - 1]]
<1>6. f \in [1..z -> Seq(S)] /\ f[1] = pieces[1]
  BY <1>1, <1>2, <1>5
<1>7. ASSUME NEW j \in 2..z PROVE f[j] = f[j - 1] \o pieces[j]
  <2>1. /\ j - 1 \in 1..(z - 1) /\ j - 1 \in Nat /\ (j - 1) + 1 = j /\ j \in 1..z
        /\ (j - 1) - 1 \in 0..(z - 1) /\ j - 1 \in 1..z
    BY <1>1, <1>2
  <2>2. f[j] = g[j - 1] /\ f[j - 1] = g[(j - 1) - 1] /\ g[(j - 1) - 1] \in Seq(S)
    BY <2>1
  <2>3. g[j - 1] = step[<<j - 1, g[(j - 1) - 1]>>]
    BY <1>5, <2>1
  <2>4. step[<<j - 1, g[(j - 1) - 1]>>] = g[(j - 1) - 1] \o pieces[(j - 1) + 1]
    BY <1>4, <2>1, <2>2
  <2> QED
    BY <2>1, <2>2, <2>3, <2>4
<1>8. Is(f)
  <2>1. \A j \in 1..z : f[j] = IF j = 1 THEN pieces[1] ELSE f[j - 1] \o pieces[j]
    <3>1. \A j \in 1..z : j # 1 => j \in 2..z
      BY <1>1, <1>2
    <3> HIDE DEF f
    <3> QED
      BY <1>6, <1>7, <3>1
  <2> QED
    BY <1>2, <2>1
<1> HIDE DEF f
<1>9. \E e : Is(e)
  BY <1>8
<1> DEFINE u == CHOOSE e : Is(e)
<1>10. Is(u)
  BY <1>9
<1>11. FlattenSeq(pieces) = u[z]
  <2>1. u = CHOOSE e : e = [j \in 1..Len(pieces) |->
                              IF j = 1 THEN pieces[j] ELSE e[j - 1] \o pieces[j]]
    <3>1. ASSUME NEW e
          PROVE  [j \in 1..Len(pieces) |-> IF j = 1 THEN pieces[1] ELSE e[j - 1] \o pieces[j]]
                 = [j \in 1..Len(pieces) |-> IF j = 1 THEN pieces[j] ELSE e[j - 1] \o pieces[j]]
      OBVIOUS
    <3> QED
      BY <3>1
  <2> HIDE DEF u
  <2> QED
    BY <1>2, <2>1 DEF FlattenSeq
<1> HIDE DEF u
<1> DEFINE T == {l \in Nat : l + 1 \in 1..z => u[l + 1] = f[l + 1]}
<1>12. T = Nat
  <2>1. 0 \in T
    BY <1>1, <1>2, <1>6, <1>10
  <2>2. ASSUME NEW l \in T PROVE l + 1 \in T
    <3> SUFFICES ASSUME (l + 1) + 1 \in 1..z PROVE u[(l + 1) + 1] = f[(l + 1) + 1]
      OBVIOUS
    <3>1. l + 1 \in 1..z /\ (l + 1) + 1 # 1 /\ ((l + 1) + 1) - 1 = l + 1
      BY <1>1, <1>2
    <3>2. u[l + 1] = f[l + 1]
      BY <3>1
    <3>3. u[(l + 1) + 1] = u[l + 1] \o pieces[(l + 1) + 1]
      BY <1>2, <1>10, <3>1
    <3>4. f[(l + 1) + 1] = f[l + 1] \o pieces[(l + 1) + 1]
      BY <1>2, <1>8, <3>1
    <3> QED
      BY <3>2, <3>3, <3>4
  <2> HIDE DEF T
  <2> QED
    BY <2>1, <2>2, Induct DEF T
<1>13. u[z] = f[z]
  <2>1. z - 1 \in Nat /\ (z - 1) + 1 \in 1..z /\ (z - 1) + 1 = z
    BY <1>1, <1>2
  <2>2. u[(z - 1) + 1] = f[(z - 1) + 1]
    BY <1>12, <2>1
  <2> QED
    BY <2>1, <2>2
<1> QED
  BY <1>2, <1>6, <1>7, <1>11, <1>13

\* A sequence of pieces is flattened to a sequence.
LEMMA FlattenType ==
  ASSUME NEW S, NEW pieces \in Seq(Seq(S))
  PROVE  FlattenSeq(pieces) \in Seq(S)
<1>1. CASE Len(pieces) = 0
  <2>1. pieces = <<>> /\ FlattenSeq(pieces) = pieces
    BY <1>1, EmptySeq DEF FlattenSeq
  <2> QED
    BY <2>1, EmptySeq
<1>2. CASE Len(pieces) # 0
  <2>1. Len(pieces) \in Nat \ {0}
    BY <1>2, LenProperties
  <2>2. PICK l : l = Len(pieces)
    OBVIOUS
  <2>3. \E f \in [1..l -> Seq(S)] : FlattenSeq(pieces) = f[l]
    BY <1>2, <2>2, FlattenIs
  <2> QED
    BY <2>1, <2>2, <2>3
<1> QED
  BY <1>1, <1>2


\* Pieces of the same length: where each element is.
LEMMA FlattenEqual ==
  ASSUME NEW S, NEW pieces \in Seq(Seq(S)), NEW c \in Nat,
         \A j \in 1..Len(pieces) : Len(pieces[j]) = c
  PROVE  /\ FlattenSeq(pieces) \in Seq(S) /\ Len(FlattenSeq(pieces)) = Len(pieces) * c
         /\ \A j \in 1..Len(pieces), e \in 1..c :
              FlattenSeq(pieces)[(j - 1) * c + e] = pieces[j][e]
<1>1. PICK z \in Nat : z = Len(pieces)
  BY LenProperties
<1>2. \A j \in 1..z : pieces[j] \in Seq(S) /\ Len(pieces[j]) = c
  BY <1>1, ElementOfSeq
<1>3. CASE z = 0
  <2>1. pieces = <<>> /\ FlattenSeq(pieces) = pieces
    BY <1>1, <1>3, EmptySeq DEF FlattenSeq
  <2>2. 0 * c = 0 /\ <<>> \in Seq(S) /\ Len(<<>>) = 0
    BY EmptySeq
  <2>3. FlattenSeq(pieces) = <<>> /\ Len(pieces) * c = 0
    BY <1>1, <1>3, <2>1, <2>2
  <2>4. \A j \in 1..Len(pieces) : FALSE
    BY <1>1, <1>3
  <2> QED
    BY <2>2, <2>3, <2>4
<1>4. CASE z # 0
  <2>1. PICK f \in [1..z -> Seq(S)] :
          /\ f[1] = pieces[1]
          /\ \A j \in 2..z : f[j] = f[j - 1] \o pieces[j]
          /\ FlattenSeq(pieces) = f[z]
    BY <1>1, <1>4, FlattenIs
  <2> DEFINE Good(h) == /\ Len(f[h]) = h * c
                        /\ \A j \in 1..h, e \in 1..c : f[h][(j - 1) * c + e] = pieces[j][e]
             T == {l \in Nat : l + 1 \in 1..z => Good(l + 1)}
  <2>2. 0 \in T
    <3>1. f[0 + 1] = pieces[1] /\ 1 * c = c /\ 1 \in 1..z /\ 0 + 1 = 1
      BY <1>1, <1>4, <2>1
    <3>2. \A j \in 1..1, e \in 1..c : j = 1 /\ (j - 1) * c + e = e
      OBVIOUS
    <3> QED
      BY <1>2, <3>1, <3>2
  <2>3. ASSUME NEW l \in T PROVE l + 1 \in T
    <3> SUFFICES ASSUME (l + 1) + 1 \in 1..z PROVE Good((l + 1) + 1)
      OBVIOUS
    <3>1. PICK h \in Nat : h = l + 1
      OBVIOUS
    <3>2. h \in 1..z /\ h + 1 \in 2..z /\ h + 1 \in 1..z /\ (h + 1) - 1 = h
      BY <1>1, <3>1
    <3>3. Good(h)
      BY <3>1, <3>2
    <3>4. PICK s, t : s = f[h] /\ t = pieces[h + 1]
      OBVIOUS
    <3>5. f[h + 1] = s \o t /\ s \in Seq(S) /\ t \in Seq(S) /\ Len(t) = c /\ Len(s) = h * c
      BY <1>2, <2>1, <3>2, <3>3, <3>4
    <3>6. PICK m \in Nat : m = h * c
      OBVIOUS
    <3>7. /\ Len(s \o t) = m + c
          /\ \A p \in 1..(m + c) : (s \o t)[p] = IF p <= m THEN s[p] ELSE t[p - m]
      <4>1. Len(s) = m
        BY <3>5, <3>6
      <4>2. /\ Len(s \o t) = Len(s) + Len(t)
            /\ \A p \in 1..(Len(s) + Len(t)) : (s \o t)[p] = IF p <= Len(s) THEN s[p] ELSE t[p - Len(s)]
        BY <3>5, ConcatProperties
      <4> QED
        BY <3>5, <4>1, <4>2
    <3>8. (h + 1) * c = m + c
      BY <3>6
    <3>9. ASSUME NEW j \in 1..(h + 1), NEW e \in 1..c
          PROVE  f[h + 1][(j - 1) * c + e] = pieces[j][e]
      <4>1. CASE j = h + 1
        <5>0. j - 1 = h
          BY <4>1
        <5>1. (j - 1) * c + e = m + e /\ m + e \in 1..(m + c) /\ ~(m + e <= m) /\ (m + e) - m = e
          <6>1. (j - 1) * c = m
            BY <3>6, <5>0
          <6>2. m + e \in 1..(m + c) /\ ~(m + e <= m) /\ (m + e) - m = e
            OBVIOUS
          <6> QED
            BY <6>1, <6>2
        <5> QED
          BY <3>4, <3>5, <3>7, <4>1, <5>1
      <4>2. CASE j # h + 1
        <5>1. j \in 1..h
          BY <4>2
        <5>2. PICK x \in Nat, q \in Nat : x = j - 1 /\ q = h - j /\ h = (x + q) + 1
          BY <5>1
        <5>3. PICK xc \in Nat, qc \in Nat : xc = x * c /\ qc = q * c
          OBVIOUS
        <5>4. m = (xc + qc) + c
          <6>1. m = ((x + q) + 1) * c
            BY <3>6, <5>2
          <6>2. ((x + q) + 1) * c = (x * c + q * c) + c
            OBVIOUS
          <6> QED
            BY <5>3, <6>1, <6>2
        <5>5. (j - 1) * c + e = xc + e
          BY <5>2, <5>3
        <5>6. xc + e \in 1..(m + c) /\ xc + e <= m
          BY <5>4
        <5>7. f[h][xc + e] = pieces[j][e]
          BY <3>3, <5>1, <5>5
        <5> QED
          BY <3>4, <3>5, <3>7, <5>5, <5>6, <5>7
      <4> QED
        BY <4>1, <4>2
    <3>10. Good(h + 1)
      BY <3>5, <3>7, <3>8, <3>9
    <3> QED
      BY <3>1, <3>10
  <2>4. T = Nat
    <3> HIDE DEF T
    <3> QED
      BY <2>2, <2>3, Induct DEF T
  <2>5. Good(z)
    <3>1. z - 1 \in Nat /\ (z - 1) + 1 \in 1..z /\ (z - 1) + 1 = z
      BY <1>1, <1>4
    <3>2. Good((z - 1) + 1)
      BY <2>4, <3>1
    <3> QED
      BY <3>1, <3>2
  <2>6. f[z] \in Seq(S)
    BY <1>1, <1>4, <2>1
  <2> QED
    BY <1>1, <2>1, <2>5, <2>6
<1> QED
  BY <1>3, <1>4

-----------------------------------------------------------------------------
(* Rows of pixels *)

IsImage(image) ==
  /\ image.width \in Nat \ {0} /\ image.height \in Nat \ {0}
  /\ image.rgba \in Seq(ByteStrings) /\ Len(image.rgba) = image.width * image.height
  /\ \A p \in DOMAIN image.rgba : Len(image.rgba[p]) = 4

\* So many bytes of each pixel, after a filter byte.
RowOf(image, c, y) ==
  <<0>> \o FlattenSeq([x \in 1..image.width |-> SubSeq(image.rgba[y * image.width + x], 1, c)])
RawOf(image, c) == FlattenSeq([y \in 1..image.height |-> RowOf(image, c, y - 1)])

LEMMA PixelIs ==
  ASSUME NEW image, IsImage(image), NEW p \in 1..(image.width * image.height)
  PROVE  /\ p \in DOMAIN image.rgba /\ image.rgba[p] \in ByteStrings /\ Len(image.rgba[p]) = 4
         /\ image.rgba[p] = <<image.rgba[p][1], image.rgba[p][2], image.rgba[p][3], image.rgba[p][4]>>
         /\ \A c \in 3..4 : /\ SubSeq(image.rgba[p], 1, c) \in ByteStrings
                            /\ Len(SubSeq(image.rgba[p], 1, c)) = c
                            /\ \A e \in 1..c : SubSeq(image.rgba[p], 1, c)[e] = image.rgba[p][e]
<1>1. p \in 1..Len(image.rgba) /\ DOMAIN image.rgba = 1..Len(image.rgba)
  BY LenProperties DEF IsImage
<1>2. PICK q : q = image.rgba[p]
  OBVIOUS
<1>3. q \in ByteStrings /\ Len(q) = 4
  BY <1>1, <1>2, ElementOfSeq DEF IsImage
<1>4. \A c \in 3..4 : /\ SubSeq(q, 1, c) \in ByteStrings /\ Len(SubSeq(q, 1, c)) = c
                      /\ \A e \in 1..c : SubSeq(q, 1, c)[e] = q[e]
  <2> SUFFICES ASSUME NEW c \in 3..4
               PROVE  /\ SubSeq(q, 1, c) \in ByteStrings /\ Len(SubSeq(q, 1, c)) = c
                      /\ \A e \in 1..c : SubSeq(q, 1, c)[e] = q[e]
    OBVIOUS
  <2>1. c \in 0..Len(q) /\ q \in Seq(0..255)
    BY <1>3 DEF ByteStrings
  <2> QED
    BY <2>1, BeginningIs DEF ByteStrings
<1>5. q = <<q[1], q[2], q[3], q[4]>>
  <2>1. q[1] \in 0..255 /\ q[2] \in 0..255 /\ q[3] \in 0..255 /\ q[4] \in 0..255
    <3>1. \A e \in 1..4 : q[e] \in 0..255
      BY <1>3, ElementOfSeq DEF ByteStrings
    <3> QED
      BY <3>1
  <2> QED
    BY <1>3, <2>1 DEF ByteStrings
<1> QED
  BY <1>1, <1>2, <1>3, <1>4, <1>5

LEMMA RowIs ==
  ASSUME NEW image, IsImage(image), NEW c \in 3..4, NEW y \in 0..(image.height - 1)
  PROVE  /\ RowOf(image, c, y) \in ByteStrings /\ Len(RowOf(image, c, y)) = 1 + image.width * c
         /\ \A x \in 1..image.width, e \in 1..c :
              RowOf(image, c, y)[1 + (x - 1) * c + e] = image.rgba[y * image.width + x][e]
<1>1. PICK l \in Nat \ {0}, h \in Nat \ {0} : l = image.width /\ h = image.height
  BY DEF IsImage
<1> DEFINE Place(x) == y * l + x
<1>2. \A x \in 1..l : Place(x) \in 1..(image.width * image.height)
  <2> SUFFICES ASSUME NEW x \in 1..l PROVE y * l + x \in 1..(l * h)
    BY <1>1
  <2>1. PICK q \in Nat : q = h - 1 - y /\ h = y + q + 1
    BY <1>1
  <2>2. PICK yl \in Nat, ql \in Nat : yl = y * l /\ ql = q * l
    BY <1>1
  <2>3. (y + q + 1) * l = y * l + q * l + l
    BY <1>1
  <2>4. l * h = yl + ql + l
    BY <2>1, <2>2, <2>3
  <2> QED
    BY <1>1, <2>2, <2>4
<1> HIDE DEF Place
<1>3. PICK s : s = [x \in 1..l |-> SubSeq(image.rgba[Place(x)], 1, c)]
  OBVIOUS
<1>4. \A x \in 1..l : /\ s[x] \in ByteStrings /\ Len(s[x]) = c
                      /\ \A e \in 1..c : s[x][e] = image.rgba[Place(x)][e]
  BY <1>2, <1>3, PixelIs
<1>5. s \in Seq(ByteStrings) /\ Len(s) = l
  <2>1. s \in [1..l -> ByteStrings]
    BY <1>3, <1>4
  <2> QED
    BY <1>1, <2>1
<1>6. PICK t : t = FlattenSeq(s)
  OBVIOUS
<1>7. /\ t \in ByteStrings /\ Len(t) = l * c
      /\ \A x \in 1..l, e \in 1..c : t[(x - 1) * c + e] = s[x][e]
  <2>1. c \in Nat /\ s \in Seq(Seq(0..255)) /\ \A x \in 1..Len(s) : Len(s[x]) = c
    BY <1>4, <1>5 DEF ByteStrings
  <2>2. /\ FlattenSeq(s) \in Seq(0..255) /\ Len(FlattenSeq(s)) = Len(s) * c
        /\ \A x \in 1..Len(s), e \in 1..c : FlattenSeq(s)[(x - 1) * c + e] = s[x][e]
    BY <2>1, FlattenEqual
  <2> QED
    BY <1>5, <1>6, <2>2 DEF ByteStrings
<1>8. RowOf(image, c, y) = <<0>> \o t
  BY <1>1, <1>3, <1>6 DEF RowOf, Place
<1>9. PICK m \in Nat : m = l * c
  BY <1>1
<1>10. PICK o : o = <<0>>
  OBVIOUS
<1>11. o \in ByteStrings /\ Len(o) = 1
  BY <1>10 DEF ByteStrings
<1>12. /\ o \o t \in ByteStrings /\ Len(o \o t) = 1 + m
       /\ \A p \in 1..(1 + m) : (o \o t)[p] = IF p <= 1 THEN o[p] ELSE t[p - 1]
  <2>1. /\ o \o t \in ByteStrings /\ Len(o \o t) = Len(o) + Len(t)
        /\ \A p \in 1..(Len(o) + Len(t)) : (o \o t)[p] = IF p <= Len(o) THEN o[p] ELSE t[p - Len(o)]
    BY <1>7, <1>11, ConcatProperties DEF ByteStrings
  <2>2. Len(o) + Len(t) = 1 + m
    BY <1>7, <1>9, <1>11
  <2> QED
    BY <1>11, <2>1, <2>2
<1>13. ASSUME NEW x \in 1..l, NEW e \in 1..c
       PROVE  (o \o t)[1 + (x - 1) * c + e] = image.rgba[y * l + x][e]
  <2>1. PICK q \in Nat, r \in Nat : q = x - 1 /\ r = l - x /\ l = q + r + 1
    BY <1>1
  <2>2. PICK qc \in Nat, rc \in Nat : qc = q * c /\ rc = r * c
    BY <2>1
  <2>3. (q + r + 1) * c = q * c + r * c + c
    BY <2>1
  <2>4. m = qc + rc + c
    BY <1>9, <2>1, <2>2, <2>3
  <2>5. 1 + qc + e \in 1..(1 + m) /\ ~(1 + qc + e <= 1) /\ (1 + qc + e) - 1 = qc + e
    BY <2>4
  <2>6. (o \o t)[1 + qc + e] = t[qc + e]
    BY <1>12, <2>5
  <2>7. t[(x - 1) * c + e] = s[x][e] /\ (x - 1) * c = qc
    BY <1>7, <2>1, <2>2
  <2>8. s[x][e] = image.rgba[Place(x)][e]
    BY <1>4
  <2> QED
    BY <2>6, <2>7, <2>8 DEF Place
<1> QED
  BY <1>1, <1>8, <1>9, <1>10, <1>12, <1>13

LEMMA RawIs ==
  ASSUME NEW image, IsImage(image), NEW c \in 3..4
  PROVE  /\ RawOf(image, c) \in ByteStrings
         /\ \A y \in 0..(image.height - 1), x \in 0..(image.width - 1), e \in 1..c :
              RawOf(image, c)[y * (1 + image.width * c) + 1 + x * c + e]
                = image.rgba[y * image.width + (x + 1)][e]
<1>1. PICK l \in Nat \ {0}, h \in Nat \ {0}, z \in Nat :
        l = image.width /\ h = image.height /\ z = 1 + image.width * c
  BY DEF IsImage
<1>2. PICK s : s = [y \in 1..h |-> RowOf(image, c, y - 1)]
  OBVIOUS
<1>3. \A y \in 1..h : y - 1 \in 0..(image.height - 1)
  BY <1>1
<1>4. \A y \in 1..h : /\ s[y] \in ByteStrings /\ Len(s[y]) = z
                      /\ \A x \in 1..l, e \in 1..c :
                           s[y][1 + (x - 1) * c + e] = image.rgba[(y - 1) * l + x][e]
  <2> SUFFICES ASSUME NEW y \in 1..h
               PROVE  /\ s[y] \in ByteStrings /\ Len(s[y]) = z
                      /\ \A x \in 1..l, e \in 1..c :
                           s[y][1 + (x - 1) * c + e] = image.rgba[(y - 1) * l + x][e]
    OBVIOUS
  <2>1. PICK q \in 0..(image.height - 1) : q = y - 1
    BY <1>3
  <2>2. /\ RowOf(image, c, q) \in ByteStrings /\ Len(RowOf(image, c, q)) = 1 + image.width * c
        /\ \A x \in 1..image.width, e \in 1..c :
              RowOf(image, c, q)[1 + (x - 1) * c + e] = image.rgba[q * image.width + x][e]
    BY RowIs
  <2>3. s[y] = RowOf(image, c, q)
    BY <1>2, <2>1
  <2> QED
    BY <1>1, <2>1, <2>2, <2>3
<1>5. s \in Seq(ByteStrings) /\ Len(s) = h
  <2>1. s \in [1..h -> ByteStrings]
    BY <1>2, <1>4
  <2> QED
    BY <1>1, <2>1
<1>6. PICK t : t = FlattenSeq(s)
  OBVIOUS
<1>7. t \in ByteStrings /\ \A y \in 1..h, e \in 1..z : t[(y - 1) * z + e] = s[y][e]
  <2>1. z \in Nat /\ s \in Seq(Seq(0..255)) /\ \A y \in 1..Len(s) : Len(s[y]) = z
    BY <1>4, <1>5 DEF ByteStrings
  <2>2. /\ FlattenSeq(s) \in Seq(0..255) /\ Len(FlattenSeq(s)) = Len(s) * z
        /\ \A y \in 1..Len(s), e \in 1..z : FlattenSeq(s)[(y - 1) * z + e] = s[y][e]
    BY <2>1, FlattenEqual
  <2> QED
    BY <1>5, <1>6, <2>2 DEF ByteStrings
<1>8. RawOf(image, c) = t
  BY <1>1, <1>2, <1>6 DEF RawOf
<1>9. ASSUME NEW y \in 0..(h - 1), NEW x \in 0..(l - 1), NEW e \in 1..c
      PROVE  t[y * z + 1 + x * c + e] = image.rgba[y * l + (x + 1)][e]
  <2>1. y + 1 \in 1..h /\ (y + 1) - 1 = y /\ x + 1 \in 1..l /\ (x + 1) - 1 = x
    BY <1>1
  <2>2. PICK q \in Nat : q = l - 1 - x /\ l = x + q + 1
    BY <1>1
  <2>3. PICK xc \in Nat, qc \in Nat : xc = x * c /\ qc = q * c
    BY <2>1
  <2>4. (x + q + 1) * c = x * c + q * c + c
    BY <2>2
  <2>5. z = 1 + xc + qc + c
    <3>1. z = 1 + (x + q + 1) * c
      BY <1>1, <2>2
    <3> QED
      BY <2>3, <2>4, <3>1
  <2>6. PICK p \in 1..z : p = 1 + xc + e
    BY <2>5
  <2>7. t[y * z + p] = s[y + 1][p]
    BY <1>7, <2>1
  <2>8. s[y + 1][p] = image.rgba[y * l + (x + 1)][e]
    <3>1. s[y + 1][1 + ((x + 1) - 1) * c + e] = image.rgba[((y + 1) - 1) * l + (x + 1)][e]
      BY <1>4, <2>1
    <3>2. 1 + ((x + 1) - 1) * c + e = p
      BY <2>1, <2>3, <2>6
    <3> QED
      BY <2>1, <3>1, <3>2
  <2>9. y * z + 1 + x * c + e = y * z + p
    <3>1. y * z \in Nat
      BY <1>1
    <3> QED
      BY <2>3, <2>6, <3>1
  <2> QED
    BY <2>7, <2>8, <2>9
<1> QED
  BY <1>1, <1>7, <1>8, <1>9

-----------------------------------------------------------------------------
(* The container *)

LEMMA BigEndian ==
  ASSUME NEW x \in Nat
  PROVE  /\ PutBE32(x) \in Seq(Nat) /\ Len(PutBE32(x)) = 4
         /\ BE32At(PutBE32(x), 1) = x
<1>1. PICK d \in Nat \ {0} : d = 65536
  OBVIOUS
<1>2. PICK q \in Nat, r \in Nat : q = x \div d /\ r = x % d /\ x = q * d + r
  BY Divides
<1>3. PICK e \in Nat \ {0} : e = 256
  OBVIOUS
<1>4. PICK q1 \in Nat, q2 \in Nat : q1 = q \div e /\ q2 = q % e /\ q = q1 * e + q2
  BY Divides
<1>5. PICK r1 \in Nat, r2 \in Nat : r1 = r \div e /\ r2 = r % e /\ r = r1 * e + r2
  BY Divides
<1>6. PutBE32(x) = <<q1, q2, r1, r2>>
  <2>1. PutBE32(x) = BE32(q, r)
    BY <1>1, <1>2 DEF PutBE32
  <2> QED
    BY <1>3, <1>4, <1>5, <2>1 DEF BE32
<1>7. BE16At(<<q1, q2, r1, r2>>, 1) = q /\ BE16At(<<q1, q2, r1, r2>>, 1 + 2) = r
  <2>1. PICK s : s = <<q1, q2, r1, r2>>
    OBVIOUS
  <2>2. s[1] = q1 /\ s[1 + 1] = q2 /\ s[1 + 2] = r1 /\ s[1 + 2 + 1] = r2
    BY <2>1
  <2>3. e * q1 + q2 = q /\ e * r1 + r2 = r
    BY <1>4, <1>5
  <2> QED
    BY <1>3, <2>1, <2>2, <2>3 DEF BE16At
<1>8. BE32At(<<q1, q2, r1, r2>>, 1) = x
  <2>1. BE32At(<<q1, q2, r1, r2>>, 1) = d * q + r
    BY <1>1, <1>7 DEF BE32At
  <2> QED
    BY <1>2, <2>1
<1>9. <<q1, q2, r1, r2>> \in Seq(Nat) /\ Len(<<q1, q2, r1, r2>>) = 4
  OBVIOUS
<1> QED
  BY <1>6, <1>8, <1>9

\* The data of the first chunk: two sizes and the type of the colours.
HeaderOf(x, y, t) == PutBE32(x) \o PutBE32(y) \o <<8, t, 0, 0, 0>>

LEMMA HeaderIs ==
  ASSUME NEW x \in Nat, NEW y \in Nat, NEW t \in Nat, NEW header, header = HeaderOf(x, y, t)
  PROVE  BE32At(header, 1) = x /\ BE32At(header, 5) = y /\ header[10] = t
<1>1. PICK p, q, r : p = PutBE32(x) /\ q = PutBE32(y) /\ r = <<8, t, 0, 0, 0>>
  OBVIOUS
<1>2. p \in Seq(Nat) /\ Len(p) = 4 /\ q \in Seq(Nat) /\ Len(q) = 4
      /\ BE32At(p, 1) = x /\ BE32At(q, 1) = y
  BY <1>1, BigEndian
<1>3. r \in Seq(Nat) /\ Len(r) = 5 /\ r[2] = t
  <2>1. 8 \in Nat /\ 0 \in Nat
    OBVIOUS
  <2> QED
    BY <1>1, <2>1
<1>4. PICK s : s = p \o q
  OBVIOUS
<1>5. s \in Seq(Nat) /\ Len(s) = 8 /\ \A j \in 1..8 : s[j] = IF j <= 4 THEN p[j] ELSE q[j - 4]
  <2>1. /\ p \o q \in Seq(Nat) /\ Len(p \o q) = Len(p) + Len(q)
        /\ \A j \in 1..(Len(p) + Len(q)) : (p \o q)[j] = IF j <= Len(p) THEN p[j] ELSE q[j - Len(p)]
    BY <1>2, ConcatProperties
  <2>2. s \in Seq(Nat) /\ Len(s) = 8 /\ Len(p) = 4 /\ Len(p) + Len(q) = 8
    BY <1>2, <1>4, <2>1
  <2>3. \A j \in 1..8 : s[j] = IF j <= 4 THEN p[j] ELSE q[j - 4]
    BY <1>4, <2>1, <2>2, Zenon
  <2> QED
    BY <2>2, <2>3
<1>6. \A j \in 1..13 : (s \o r)[j] = IF j <= 8 THEN s[j] ELSE r[j - 8]
  <2>1. \A j \in 1..(Len(s) + Len(r)) : (s \o r)[j] = IF j <= Len(s) THEN s[j] ELSE r[j - Len(s)]
    BY <1>3, <1>5, ConcatProperties
  <2>2. Len(s) = 8 /\ Len(s) + Len(r) = 13
    BY <1>3, <1>5
  <2> QED
    BY <2>1, <2>2
<1>7. header = s \o r
  BY <1>1, <1>4 DEF HeaderOf
<1>8. \A j \in 1..4 : header[j] = p[j] /\ header[4 + j] = q[j]
  <2> SUFFICES ASSUME NEW j \in 1..4 PROVE header[j] = p[j] /\ header[4 + j] = q[j]
    OBVIOUS
  <2>1. j \in 1..8 /\ j \in 1..13 /\ j <= 4 /\ j <= 8
    OBVIOUS
  <2>2. 4 + j \in 1..8 /\ 4 + j \in 1..13 /\ ~(4 + j <= 4) /\ 4 + j <= 8 /\ (4 + j) - 4 = j
    OBVIOUS
  <2> QED
    BY <1>5, <1>6, <1>7, <2>1, <2>2
<1>10. header[10] = t
  <2>1. 10 \in 1..13 /\ ~(10 <= 8) /\ 10 - 8 = 2
    OBVIOUS
  <2>2. (s \o r)[10] = r[2]
    BY <1>6, <2>1
  <2> QED
    BY <1>3, <1>7, <2>2
<1>11. BE16At(header, 1) = BE16At(p, 1) /\ BE16At(header, 1 + 2) = BE16At(p, 1 + 2)
  <2>1. header[1] = p[1] /\ header[1 + 1] = p[1 + 1] /\ header[1 + 2] = p[1 + 2] /\ header[1 + 2 + 1] = p[1 + 2 + 1]
    <3>1. 1 \in 1..4 /\ 1 + 1 \in 1..4 /\ 1 + 2 \in 1..4 /\ 1 + 2 + 1 \in 1..4
      OBVIOUS
    <3> QED
      BY <1>8, <3>1
  <2> QED
    BY <2>1 DEF BE16At
<1>12. BE16At(header, 5) = BE16At(q, 1) /\ BE16At(header, 5 + 2) = BE16At(q, 1 + 2)
  <2>1. header[5] = q[1] /\ header[5 + 1] = q[1 + 1] /\ header[5 + 2] = q[1 + 2] /\ header[5 + 2 + 1] = q[1 + 2 + 1]
    <3>1. /\ 1 \in 1..4 /\ 1 + 1 \in 1..4 /\ 1 + 2 \in 1..4 /\ 1 + 2 + 1 \in 1..4
          /\ 5 = 4 + 1 /\ 5 + 1 = 4 + (1 + 1) /\ 5 + 2 = 4 + (1 + 2) /\ 5 + 2 + 1 = 4 + (1 + 2 + 1)
      OBVIOUS
    <3> QED
      BY <1>8, <3>1
  <2> QED
    BY <2>1 DEF BE16At
<1>13. BE32At(header, 1) = BE32At(p, 1) /\ BE32At(header, 5) = BE32At(q, 1)
  BY <1>11, <1>12 DEF BE32At
<1> QED
  BY <1>2, <1>10, <1>13

\* The pixels of an image, those of three bytes without their alpha.
PixelsOf(image, c) ==
  [p \in 1..(image.width * image.height) |->
     <<image.rgba[p][1], image.rgba[p][2], image.rgba[p][3], IF c = 4 THEN image.rgba[p][4] ELSE 255>>]

LEMMA RowsUnpacked ==
  ASSUME NEW image, IsImage(image), NEW c \in 3..4, NEW header,
         BE32At(header, 1) = image.width, BE32At(header, 5) = image.height,
         c = IF header[10] = 2 THEN 3 ELSE 4
  PROVE  Unpacked(header, RawOf(image, c)) = PixelsOf(image, c)
<1>1. PICK l \in Nat \ {0}, h \in Nat \ {0} : l = image.width /\ h = image.height
  BY DEF IsImage
<1>2. PICK data : data = RawOf(image, c)
  OBVIOUS
<1> DEFINE At(p, e) == data[((p - 1) \div l) * (1 + l * c) + 1 + ((p - 1) % l) * c + e]
<1>3. Unpacked(header, data)
        = [p \in 1..(l * h) |-> <<At(p, 1), At(p, 2), At(p, 3), IF c = 4 THEN At(p, 4) ELSE 255>>]
  BY <1>1, Zenon DEF Unpacked
<1>4. ASSUME NEW p \in 1..(l * h), NEW e \in 1..c
      PROVE  At(p, e) = image.rgba[p][e]
  <2>1. PICK q \in Nat : q = p - 1
    OBVIOUS
  <2>2. PICK y \in Nat, x \in Nat : y = q \div l /\ x = q % l /\ x < l /\ q = y * l + x
    BY Divides
  <2>3. y < h
    <3>1. q < h * l
      <4>1. h * l \in Nat /\ h * l = l * h
        OBVIOUS
      <4> QED
        BY <2>1, <4>1
    <3> QED
      BY <2>2, <3>1, QuotientBelow
  <2>4. y \in 0..(image.height - 1) /\ x \in 0..(image.width - 1)
    <3>1. y \in 0..(h - 1) /\ x \in 0..(l - 1)
      BY <2>2, <2>3
    <3> QED
      BY <1>1, <3>1
  <2>5. data[y * (1 + image.width * c) + 1 + x * c + e] = image.rgba[y * image.width + (x + 1)][e]
    BY <1>2, <2>4, RawIs
  <2>6. y * image.width + (x + 1) = p
    <3>1. y * l \in Nat
      OBVIOUS
    <3> QED
      BY <1>1, <2>1, <2>2, <3>1
  <2> QED
    BY <1>1, <2>1, <2>2, <2>5, <2>6
<1> HIDE DEF At
<1>5. \A p \in 1..(l * h) : At(p, 1) = image.rgba[p][1] /\ At(p, 2) = image.rgba[p][2]
                            /\ At(p, 3) = image.rgba[p][3] /\ (c = 4 => At(p, 4) = image.rgba[p][4])
  <2>1. 1 \in 1..c /\ 2 \in 1..c /\ 3 \in 1..c /\ (c = 4 => 4 \in 1..c)
    OBVIOUS
  <2> QED
    BY <1>4, <2>1
<1>6. CASE c = 4
  <2>1. [p \in 1..(l * h) |-> <<At(p, 1), At(p, 2), At(p, 3), IF c = 4 THEN At(p, 4) ELSE 255>>]
        = [p \in 1..(l * h) |-> <<image.rgba[p][1], image.rgba[p][2], image.rgba[p][3],
                                  IF c = 4 THEN image.rgba[p][4] ELSE 255>>]
    BY <1>5, <1>6, Zenon
  <2> QED
    BY <1>1, <1>2, <1>3, <2>1, Zenon DEF PixelsOf
<1>7. CASE c # 4
  <2>1. [p \in 1..(l * h) |-> <<At(p, 1), At(p, 2), At(p, 3), IF c = 4 THEN At(p, 4) ELSE 255>>]
        = [p \in 1..(l * h) |-> <<image.rgba[p][1], image.rgba[p][2], image.rgba[p][3],
                                  IF c = 4 THEN image.rgba[p][4] ELSE 255>>]
    BY <1>5, <1>7, Zenon
  <2> QED
    BY <1>1, <1>2, <1>3, <2>1, Zenon DEF PixelsOf
<1> QED
  BY <1>6, <1>7

\* The whole image, if its pixels are opaque or their alpha is kept.
LEMMA PixelsWhole ==
  ASSUME NEW image, IsImage(image), NEW c \in 3..4,
         c = 3 => \A p \in DOMAIN image.rgba : image.rgba[p][4] = 255
  PROVE  PixelsOf(image, c) = image.rgba
<1>1. PICK m \in Nat : m = image.width * image.height
  BY DEF IsImage
<1>2. image.rgba = [p \in 1..m |-> image.rgba[p]]
  <2>1. Len(image.rgba) = m /\ image.rgba \in [1..Len(image.rgba) -> ByteStrings]
    BY <1>1, LenProperties DEF IsImage
  <2> QED
    BY <2>1
<1> DEFINE Whole(p) == <<image.rgba[p][1], image.rgba[p][2], image.rgba[p][3],
                         IF c = 4 THEN image.rgba[p][4] ELSE 255>>
<1>3. ASSUME NEW p \in 1..m PROVE Whole(p) = image.rgba[p]
  <2>1. /\ p \in DOMAIN image.rgba
        /\ image.rgba[p] = <<image.rgba[p][1], image.rgba[p][2], image.rgba[p][3], image.rgba[p][4]>>
    BY <1>1, PixelIs
  <2>2. (IF c = 4 THEN image.rgba[p][4] ELSE 255) = image.rgba[p][4]
    BY <2>1
  <2> QED
    BY <2>1, <2>2, Zenon
<1>4. PixelsOf(image, c) = [p \in 1..m |-> Whole(p)]
  BY <1>1, Zenon DEF PixelsOf
<1> HIDE DEF Whole
<1>5. [p \in 1..m |-> Whole(p)] = [p \in 1..m |-> image.rgba[p]]
  BY <1>3
<1> QED
  BY <1>2, <1>4, <1>5

\* The image without its alpha.
LEMMA PixelsOpaque ==
  ASSUME NEW image, IsImage(image)
  PROVE  PixelsOf(image, 3) = [p \in DOMAIN image.rgba |-> [image.rgba[p] EXCEPT ![4] = 255]]
<1>1. PICK m \in Nat : m = image.width * image.height
  BY DEF IsImage
<1>2. DOMAIN image.rgba = 1..m
  BY <1>1, LenProperties DEF IsImage
<1>3. ASSUME NEW p \in 1..m
      PROVE  <<image.rgba[p][1], image.rgba[p][2], image.rgba[p][3], IF 3 = 4 THEN image.rgba[p][4] ELSE 255>>
             = [image.rgba[p] EXCEPT ![4] = 255]
  <2>1. PICK s : s = image.rgba[p]
    OBVIOUS
  <2>2. s \in ByteStrings /\ Len(s) = 4
    BY <1>1, <2>1, PixelIs
  <2>3. s \in [1..4 -> 0..255]
    BY <2>2, LenProperties DEF ByteStrings
  <2>4. <<s[1], s[2], s[3], 255>> = [s EXCEPT ![4] = 255]
    <3>1. \A e \in 1..4 : <<s[1], s[2], s[3], 255>>[e] = [s EXCEPT ![4] = 255][e]
      BY <2>3
    <3>2. [s EXCEPT ![4] = 255] \in [1..4 -> 0..255] /\ <<s[1], s[2], s[3], 255>> \in [1..4 -> 0..255]
      BY <2>3
    <3> QED
      BY <3>1, <3>2
  <2>5. (IF 3 = 4 THEN s[4] ELSE 255) = 255
    OBVIOUS
  <2> QED
    BY <2>1, <2>4, <2>5, Zenon
<1> QED
  BY <1>1, <1>2, <1>3, Zenon DEF PixelsOf

-----------------------------------------------------------------------------
(* The chunks *)

StreamAndSum(body, data) == <<120, 1>> \o body \o Adler(data)

LEMMA AdlerType ==
  ASSUME NEW data
  PROVE  \E S : 0..255 \subseteq S /\ Adler(data) \in Seq(S) /\ Len(Adler(data)) = 4
<1>1. \E x, y : Adler(data) = BE32(x, y)
  BY Zenon DEF Adler
<1>2. PICK x, y : Adler(data) = BE32(x, y)
  BY <1>1
<1>3. PICK e, f, g, h : BE32(x, y) = <<e, f, g, h>>
  BY DEF BE32
<1> DEFINE S == 0..255 \cup {e, f, g, h}
<1>4. e \in S /\ f \in S /\ g \in S /\ h \in S /\ 0..255 \subseteq S
  OBVIOUS
<1> HIDE DEF S
<1>5. <<e, f, g, h>> \in Seq(S) /\ Len(<<e, f, g, h>>) = 4
  BY <1>4
<1> QED
  BY <1>2, <1>3, <1>4, <1>5

LEMMA StreamAndSumIs ==
  ASSUME NEW body \in ByteStrings, NEW data, NEW idat, idat = StreamAndSum(body, data)
  PROVE  /\ idat[1] = 120 /\ idat[2] = 1
         /\ SubSeq(idat, 3, Len(idat) - 4) = body
         /\ SubSeq(idat, Len(idat) - 3, Len(idat)) = Adler(data)
<1>1. PICK S : 0..255 \subseteq S /\ Adler(data) \in Seq(S) /\ Len(Adler(data)) = 4
  BY AdlerType
<1>2. PICK s, t, sum : s = <<120, 1>> /\ t = s \o body /\ sum = Adler(data)
  OBVIOUS
<1>3. s \in Seq(S) /\ Len(s) = 2 /\ s[1] = 120 /\ s[2] = 1
  <2>1. 120 \in S /\ 1 \in S
    BY <1>1
  <2> QED
    BY <1>2, <2>1
<1>4. body \in Seq(S)
  BY <1>1, SeqMonotonic DEF ByteStrings
<1>5. PICK c \in Nat : c = Len(body)
  BY <1>4, LenProperties
<1>6. t \in Seq(S) /\ Len(t) = c + 2 /\ \A j \in 1..(c + 2) : t[j] = IF j <= 2 THEN s[j] ELSE body[j - 2]
  <2>1. /\ s \o body \in Seq(S) /\ Len(s \o body) = Len(s) + Len(body)
        /\ \A j \in 1..(Len(s) + Len(body)) : (s \o body)[j] = IF j <= Len(s) THEN s[j] ELSE body[j - Len(s)]
    BY <1>3, <1>4, ConcatProperties
  <2>2. Len(s) + Len(body) = c + 2
    BY <1>3, <1>5
  <2> QED
    BY <1>2, <1>3, <2>1, <2>2
<1>7. idat = t \o sum
  BY <1>2 DEF StreamAndSum
<1>8. /\ idat \in Seq(S) /\ Len(idat) = c + 6
      /\ \A j \in 1..(c + 6) : idat[j] = IF j <= c + 2 THEN t[j] ELSE sum[j - (c + 2)]
  <2>0. sum \in Seq(S) /\ Len(sum) = 4
    BY <1>1, <1>2
  <2>1. /\ t \o sum \in Seq(S) /\ Len(t \o sum) = Len(t) + Len(sum)
        /\ \A j \in 1..(Len(t) + Len(sum)) : (t \o sum)[j] = IF j <= Len(t) THEN t[j] ELSE sum[j - Len(t)]
    BY <1>6, <2>0, ConcatProperties
  <2>2. Len(t) + Len(sum) = c + 6
    BY <1>6, <2>0
  <2> QED
    BY <1>6, <1>7, <2>1, <2>2
<1>9. idat[1] = 120 /\ idat[2] = 1
  <2>1. 1 \in 1..(c + 6) /\ 2 \in 1..(c + 6) /\ 1 <= c + 2 /\ 2 <= c + 2 /\ 1 \in 1..(c + 2) /\ 2 \in 1..(c + 2)
    OBVIOUS
  <2>2. idat[1] = t[1] /\ idat[2] = t[2] /\ t[1] = s[1] /\ t[2] = s[2]
    BY <1>6, <1>8, <2>1
  <2> QED
    BY <1>3, <2>2
<1>10. SubSeq(idat, 3, Len(idat) - 4) = body
  <2>1. PICK m \in Int, z \in Int : m = Len(idat) - 4 /\ m = c + 2 /\ z = 3
    BY <1>8
  <2>2. \A j \in z..m : idat[j] \in S
    <3>1. \A j \in z..m : j \in 1..Len(idat)
      BY <1>8, <2>1
    <3> QED
      BY <1>8, <3>1, ElementOfSeq
  <2>3. PICK u : u = SubSeq(idat, z, m)
    OBVIOUS
  <2>4. u \in Seq(S) /\ Len(u) = (IF z <= m THEN m - z + 1 ELSE 0)
        /\ \A j \in 1..(m - z + 1) : u[j] = idat[z + j - 1]
    BY <2>2, <2>3, SubSeqProperties
  <2>5. Len(u) = c
    BY <2>1, <2>4
  <2>6. ASSUME NEW j \in 1..c PROVE u[j] = body[j]
    <3>1. j \in 1..(m - z + 1) /\ z + j - 1 = j + 2
      BY <2>1
    <3>2. j + 2 \in 1..(c + 6) /\ j + 2 <= c + 2 /\ j + 2 \in 1..(c + 2) /\ ~(j + 2 <= 2) /\ (j + 2) - 2 = j
      OBVIOUS
    <3>3. u[j] = idat[j + 2]
      BY <2>4, <3>1
    <3> QED
      BY <1>6, <1>8, <3>2, <3>3
  <2>7. u = body
    BY <1>4, <1>5, <2>4, <2>5, <2>6, SeqEqual
  <2> QED
    BY <2>1, <2>3, <2>7
<1>11. SubSeq(idat, Len(idat) - 3, Len(idat)) = Adler(data)
  <2>1. PICK m \in Int, z \in Int : m = Len(idat) /\ m = c + 6 /\ z = Len(idat) - 3 /\ z = c + 3
    BY <1>8
  <2>2. \A j \in z..m : idat[j] \in S
    <3>1. \A j \in z..m : j \in 1..Len(idat)
      BY <1>8, <2>1
    <3> QED
      BY <1>8, <3>1, ElementOfSeq
  <2>3. PICK u : u = SubSeq(idat, z, m)
    OBVIOUS
  <2>4. u \in Seq(S) /\ Len(u) = (IF z <= m THEN m - z + 1 ELSE 0)
        /\ \A j \in 1..(m - z + 1) : u[j] = idat[z + j - 1]
    BY <2>2, <2>3, SubSeqProperties
  <2>5. Len(u) = 4
    BY <2>1, <2>4
  <2>6. ASSUME NEW j \in 1..4 PROVE u[j] = sum[j]
    <3>0. m = c + 6 /\ z = c + 3
      BY <2>1
    <3>1. j \in 1..(m - z + 1) /\ z + j - 1 = c + 2 + j
      BY <3>0
    <3>2. c + 2 + j \in 1..(c + 6) /\ ~(c + 2 + j <= c + 2) /\ (c + 2 + j) - (c + 2) = j
      OBVIOUS
    <3>3. u[j] = idat[c + 2 + j]
      BY <2>4, <3>1
    <3> QED
      BY <1>8, <3>2, <3>3
  <2>7. u = sum
    BY <1>1, <1>2, <2>4, <2>5, <2>6, SeqEqual
  <2> QED
    BY <1>2, <2>1, <2>3, <2>7
<1> QED
  BY <1>9, <1>10, <1>11

ChunksOf(header, body, data) ==
  <<PutChunk("IHDR", header), PutChunk("sRGB", <<0>>),
    PutChunk("IDAT", StreamAndSum(body, data)), PutChunk("IEND", <<>>)>>

LEMMA ChunksDecode ==
  ASSUME NEW header, NEW body \in ByteStrings, NEW data, StreamOf(body, data),
         file = ChunksOf(header, body, data), NEW pixels, Unpacked(header, data) = pixels
  PROVE  DecodesTo(pixels)
<1>1. PICK idat : idat = StreamAndSum(body, data)
  OBVIOUS
<1>2. PICK bits, r : bits = BitsOf(body) /\ r = Read(bits, 4)
  OBVIOUS
<1>3. IsLastFixedBlock(bits) /\ r.ended = TRUE /\ (r.next - 1 + 7) \div 8 = Len(body) /\ r.data = data
  BY <1>2 DEF StreamOf
<1>4. /\ idat[1] = 120 /\ idat[2] = 1 /\ SubSeq(idat, 3, Len(idat) - 4) = body
      /\ SubSeq(idat, Len(idat) - 3, Len(idat)) = Adler(data)
  BY <1>1, StreamAndSumIs
<1>5. PICK c1, c2, c3, c4 : /\ c1 = PutChunk("IHDR", header) /\ c2 = PutChunk("sRGB", <<0>>)
                            /\ c3 = PutChunk("IDAT", idat) /\ c4 = PutChunk("IEND", <<>>)
  OBVIOUS
<1>6. file = <<c1, c2, c3, c4>>
  BY <1>1, <1>5 DEF ChunksOf
<1>7. file[1] = c1 /\ file[2] = c2 /\ file[3] = c3 /\ file[4] = c4
  BY <1>6
<1>8. /\ c1.type = "IHDR" /\ c2.type = "sRGB" /\ c3.type = "IDAT" /\ c4.type = "IEND"
      /\ c3.data = idat /\ c1.data = header
  BY <1>5, Zenon DEF PutChunk
<1>9. \A type, d : /\ PutChunk(type, d).length = PutBE32(Len(PutChunk(type, d).data))
                   /\ PutChunk(type, d).crc = <<"crc", PutChunk(type, d).type, PutChunk(type, d).data>>
  BY Zenon DEF PutChunk
<1>10. [k \in 1..4 |-> file[k].type] = <<"IHDR", "sRGB", "IDAT", "IEND">>
  <2>1. PICK s : s = <<"IHDR", "sRGB", "IDAT", "IEND">>
    OBVIOUS
  <2>2. s[1] = "IHDR" /\ s[2] = "sRGB" /\ s[3] = "IDAT" /\ s[4] = "IEND" /\ s = [j \in 1..4 |-> s[j]]
    BY <2>1
  <2>3. \A j \in 1..4 : file[j].type = s[j]
    <3>1. \A j \in 1..4 : j = 1 \/ j = 2 \/ j = 3 \/ j = 4
      OBVIOUS
    <3> QED
      BY <1>7, <1>8, <2>2, <3>1, Zenon
  <2>4. [j \in 1..4 |-> file[j].type] = [j \in 1..4 |-> s[j]]
    BY <2>3
  <2> QED
    BY <2>1, <2>2, <2>4
<1>11. \A j \in 1..4 : /\ file[j].length = PutBE32(Len(file[j].data))
                       /\ file[j].crc = <<"crc", file[j].type, file[j].data>>
  <2>1. \A j \in 1..4 : j = 1 \/ j = 2 \/ j = 3 \/ j = 4
    OBVIOUS
  <2>2. \A j \in 1..4 : \E type, d : file[j] = PutChunk(type, d)
    BY <1>5, <1>7, <2>1, Zenon
  <2> SUFFICES ASSUME NEW j \in 1..4
               PROVE  /\ file[j].length = PutBE32(Len(file[j].data))
                      /\ file[j].crc = <<"crc", file[j].type, file[j].data>>
    OBVIOUS
  <2>3. PICK type, d : file[j] = PutChunk(type, d)
    BY <2>2
  <2> QED
    BY <1>9, <2>3, Zenon
<1>12. (256 * idat[1] + idat[2]) % 31 = 0
  <2>1. (256 * 120 + 1) % 31 = 0
    OBVIOUS
  <2> QED
    BY <1>4, <2>1, Zenon
<1>13. file[3].data = idat /\ file[1].data = header
  BY <1>7, <1>8
<1>14. /\ BitsOf(SubSeq(idat, 3, Len(idat) - 4)) = bits /\ Read(bits, 4) = r
       /\ Len(SubSeq(idat, 3, Len(idat) - 4)) = Len(body)
       /\ SubSeq(idat, Len(idat) - 3, Len(idat)) = Adler(r.data)
       /\ Unpacked(header, r.data) = pixels
  BY <1>2, <1>3, <1>4
<1> QED
  BY <1>3, <1>10, <1>11, <1>12, <1>13, <1>14, Zenon DEF DecodesTo

-----------------------------------------------------------------------------
(* The encoder of png.cpp *)

LEMMA WithinIsImage ==
  ASSUME NEW image, NEW m \in Nat, ImageWithin(image, m)
  PROVE  IsImage(image) /\ image.width \in 1..m
<1>1. image.width \in Nat \ {0} /\ image.height \in Nat \ {0} /\ image.width \in 1..m
  BY DEF ImageWithin
<1> QED
  BY <1>1 DEF ImageWithin, IsImage, ByteStrings

\* The sizes of an image that is encoded, and how long its rows may be.
Sides == 1..4096
RowSizes == 1..16385

LEMMA SmallDistances ==
  ASSUME NEW c \in 3..4
  PROVE  IsDistance(c) /\ \A x \in Sides : IsDistance(1 + x * c)
<1>1. CASE c = 3
  BY <1>1 DEF IsDistance, Sides
<1>2. CASE c = 4
  BY <1>2 DEF IsDistance, Sides
<1> QED
  BY <1>1, <1>2

LEMMA SmallerDistances == \A d \in RowSizes : IsDistance(d)
BY DEF IsDistance, RowSizes

LEMMA PairMin ==
  ASSUME NEW x \in Nat, NEW y \in Nat
  PROVE  Min({x, y}) \in Nat /\ Min({x, y}) <= x /\ Min({x, y}) <= y
<1>1. {x, y} \in SUBSET Nat /\ {x, y} # {}
  OBVIOUS
<1>2. Min({x, y}) \in {x, y} /\ \A m \in {x, y} : Min({x, y}) <= m
  BY <1>1, MinIs
<1> QED
  BY <1>2

LEMMA MatchLengthIs ==
  ASSUME raw \in ByteStrings, i \in 0..Len(raw), NEW d \in Nat
  PROVE  /\ MatchLength(d) \in 0..258
         /\ MatchLength(d) # 0 => d <= i /\ Repeats(raw, i, d, MatchLength(d))
<1>1. Len(raw) \in Nat /\ i \in Nat /\ Len(raw) - i \in Nat
  BY LenProperties DEF ByteStrings
<1>2. CASE i < d
  BY <1>2 DEF MatchLength
<1>3. CASE ~(i < d)
  <2>1. PICK limit : limit = Min({258, Len(raw) - i})
    OBVIOUS
  <2>2. limit \in Nat /\ limit <= 258 /\ limit <= Len(raw) - i
    BY <1>1, <2>1, PairMin
  <2>3. PICK l : l = Min({j \in 0..limit : j = limit \/ raw[i + j + 1] # raw[i + j + 1 - d]})
    OBVIOUS
  <2>4. MatchLength(d) = l
    BY <1>3, <2>1, <2>3 DEF MatchLength
  <2>5. i + limit <= Len(raw) /\ d \in Int
    BY <1>1, <2>2
  <2>6. Repeats(raw, i, d, l) /\ l <= limit
    BY <1>1, <2>2, <2>3, <2>5, FirstDifference
  <2>7. l \in Nat
    BY <2>6 DEF Repeats
  <2> QED
    BY <1>1, <1>3, <2>2, <2>4, <2>6, <2>7
<1> QED
  BY <1>2, <1>3

\* What is coded are the bytes of the rows up to the position; and a finished file
\* consists of the four chunks, whose stream is one of all of them.
PngIInv ==
  /\ pc \in {"deflate", "done"}
  /\ img \in Images
  /\ raw = RawOf(img, bpp)
  /\ i \in 0..Len(raw)
  /\ pc = "deflate" => WriterOK(w) /\ Coded(w, SubSeq(raw, 1, i))
  /\ pc = "done" => \E body \in ByteStrings : /\ StreamOf(body, raw)
                                        /\ file = ChunksOf(Ihdr, body, raw)

LEMMA PngTypes ==
  ASSUME img \in Images
  PROVE  /\ IsImage(img) /\ bpp \in 3..4 /\ IsDistance(bpp) /\ IsDistance(stride)
         /\ RawOf(img, bpp) \in ByteStrings
         /\ Ihdr = HeaderOf(img.width, img.height, IF bpp = 3 THEN 2 ELSE 6)
         /\ bpp = 3 <=> Opaque
<1>1. bpp \in 3..4 /\ (bpp = 3 <=> Opaque)
  BY DEF bpp
<1>2. IsImage(img) /\ img.width \in Sides
  <2>1. PICK m \in Nat : m = 4096
    OBVIOUS
  <2>2. ImageWithin(img, m)
    BY <2>1, ImagesAssumption
  <2>3. IsImage(img) /\ img.width \in 1..m
    BY <2>2, WithinIsImage
  <2> QED
    BY <2>1, <2>3 DEF Sides
<1>3. IsDistance(bpp) /\ IsDistance(stride)
  BY <1>1, <1>2, SmallDistances DEF stride
<1>4. Ihdr = HeaderOf(img.width, img.height, IF bpp = 3 THEN 2 ELSE 6)
  BY <1>1, Zenon DEF Ihdr, HeaderOf
<1>5. RawOf(img, bpp) \in ByteStrings
  BY <1>1, <1>2, RawIs
<1> QED
  BY <1>1, <1>2, <1>3, <1>4, <1>5

LEMMA InitPng == PngInit => PngIInv
<1> SUFFICES ASSUME PngInit PROVE PngIInv
  OBVIOUS
<1>1. img \in Images /\ pc = "deflate" /\ i = 0 /\ w = Put(Put(NewWriter, 1, 1), 1, 2)
  BY DEF PngInit
<1>2. \A y : Row(y) = RowOf(img, bpp, y)
  BY DEF Row, RowOf
<1>3. raw = RawOf(img, bpp)
  BY <1>2, Zenon DEF PngInit, RawOf
<1>4. raw \in ByteStrings
  BY <1>1, <1>3, PngTypes
<1>5. Len(raw) \in Nat
  BY <1>4, LenProperties DEF ByteStrings
<1>6. SubSeq(raw, 1, i) = <<>>
  BY <1>1, SubSeqEmpty
<1>7. WriterOK(w) /\ Coded(w, <<>>)
  BY <1>1, CodedFirst
<1>8. i \in 0..Len(raw) /\ pc # "done"
  BY <1>1, <1>5
<1> QED
  BY <1>1, <1>3, <1>6, <1>7, <1>8 DEF PngIInv

LEMMA StepPng == PngIInv /\ [PngNext]_png_vars => PngIInv'
<1> SUFFICES ASSUME PngIInv, [PngNext]_png_vars PROVE PngIInv'
  OBVIOUS
<1>1. img \in Images /\ raw = RawOf(img, bpp) /\ i \in 0..Len(raw)
  BY DEF PngIInv
<1>2. /\ IsImage(img) /\ bpp \in 3..4 /\ IsDistance(bpp) /\ IsDistance(stride) /\ raw \in ByteStrings
  BY <1>1, PngTypes
<1>3. Len(raw) \in Nat /\ i \in Nat /\ bpp \in Nat /\ stride \in Nat
  BY <1>1, <1>2, LenProperties DEF ByteStrings, IsDistance
<1>4. pc = "deflate" => WriterOK(w) /\ Coded(w, SubSeq(raw, 1, i))
  BY DEF PngIInv
<1>5. img' = img /\ raw' = raw
  BY DEF PngNext, Match, Literal, EndBlock, png_vars
<1>6. img' \in Images /\ raw' = RawOf(img', bpp')
  BY <1>1, <1>5 DEF bpp, Opaque
<1>7. CASE Match
  <2>1. pc = "deflate" /\ best >= 3 /\ w' = PutMatch(w, best, dist) /\ i' = i + best /\ pc' = pc
    BY <1>7 DEF Match
  <2>2. PICK l, d : l = best /\ d = dist
    OBVIOUS
  <2>3. l = MatchLength(d) /\ (d = bpp \/ d = stride)
    BY <2>2 DEF best, dist
  <2>4. d \in Nat /\ IsDistance(d)
    BY <1>2, <1>3, <2>3
  <2>5. l \in 0..258 /\ (l # 0 => d <= i /\ Repeats(raw, i, d, l))
    BY <1>1, <1>2, <2>3, <2>4, MatchLengthIs
  <2>6. l \in 3..258 /\ d <= i /\ Repeats(raw, i, d, l) /\ d >= 1
    <3>1. d >= 1
      BY <2>4 DEF IsDistance
    <3> QED
      BY <2>1, <2>2, <2>5, <3>1
  <2>7. SubSeq(raw, 1, i) \in ByteStrings /\ Len(SubSeq(raw, 1, i)) = i
    BY <1>1, <1>2, BeginningIs DEF ByteStrings
  <2>8. PICK data : data = SubSeq(raw, 1, i)
    OBVIOUS
  <2>9. WriterOK(w) /\ Coded(w, data) /\ d <= Len(data)
    BY <1>4, <2>1, <2>6, <2>7, <2>8
  <2>10. PICK v : v = PutMatch(w, l, d)
    OBVIOUS
  <2>11. WriterOK(v) /\ Coded(v, Copied(data, l, d))
    BY <2>4, <2>6, <2>9, <2>10, CodedCopy
  <2>12. d \in 1..i
    BY <1>3, <2>4, <2>6
  <2>13. Copied(data, l, d) = SubSeq(raw, 1, i + l)
    BY <1>1, <1>2, <2>6, <2>8, <2>12, CopiedIs
  <2>14. i + l \in 0..Len(raw)
    BY <1>3, <2>6 DEF Repeats
  <2>15. w' = v /\ i' = i + l /\ pc' = "deflate"
    BY <2>1, <2>2, <2>10
  <2> QED
    BY <1>5, <1>6, <2>11, <2>13, <2>14, <2>15 DEF PngIInv
<1>8. CASE Literal
  <2>1. /\ pc = "deflate" /\ i < Len(raw) /\ w' = PutSymbol(w, raw[i + 1]) /\ i' = i + 1 /\ pc' = pc
    BY <1>8 DEF Literal
  <2>2. i + 1 <= Len(raw) /\ i + 1 \in 0..Len(raw)
    BY <1>3, <2>1
  <2>3. Append(SubSeq(raw, 1, i), raw[i + 1]) = SubSeq(raw, 1, i + 1) /\ raw[i + 1] \in 0..255
    BY <1>2, <1>3, <2>2, BeginningAndByte
  <2>4. PICK s \in 0..255, v \in {PutSymbol(w, raw[i + 1])} : s = raw[i + 1] /\ v = PutSymbol(w, s)
    BY <2>3
  <2>5. WriterOK(w) /\ Coded(w, SubSeq(raw, 1, i))
    BY <1>4, <2>1
  <2>6. WriterOK(v) /\ Coded(v, Append(SubSeq(raw, 1, i), s))
    BY <2>4, <2>5, CodedByte
  <2>7. w' = v /\ i' = i + 1 /\ pc' = "deflate" /\ Coded(v, SubSeq(raw, 1, i + 1))
    BY <2>1, <2>3, <2>4, <2>6
  <2> QED
    BY <1>5, <1>6, <2>2, <2>6, <2>7 DEF PngIInv
<1>9. CASE EndBlock
  <2>1. /\ pc = "deflate" /\ i = Len(raw) /\ w' = Flush(PutSymbol(w, 256)) /\ pc' = "done" /\ i' = i
        /\ file' = <<PutChunk("IHDR", Ihdr), PutChunk("sRGB", <<0>>),
                     PutChunk("IDAT", <<120, 1>> \o w'.out \o Adler(raw)), PutChunk("IEND", <<>>)>>
    BY <1>9 DEF EndBlock
  <2>2. SubSeq(raw, 1, i) = raw
    BY <1>2, <2>1, SubSeqFull DEF ByteStrings
  <2>3. WriterOK(w) /\ Coded(w, raw)
    BY <1>4, <2>1, <2>2
  <2>4. PICK z : z = Flush(PutSymbol(w, 256))
    OBVIOUS
  <2>5. z.out \in Seq(0..255) /\ StreamOf(z.out, raw)
    BY <2>3, <2>4, CodedEnd
  <2>6. PICK body \in ByteStrings : body = z.out
    BY <2>5 DEF ByteStrings
  <2>7. file' = ChunksOf(Ihdr, body, raw)
    BY <2>1, <2>4, <2>6, Zenon DEF ChunksOf, StreamAndSum
  <2>8. Ihdr' = Ihdr
    BY <1>5 DEF Ihdr, Opaque
  <2>9. StreamOf(body, raw') /\ file' = ChunksOf(Ihdr', body, raw')
    BY <1>5, <2>5, <2>6, <2>7, <2>8
  <2> QED
    BY <1>1, <1>5, <1>6, <2>1, <2>9 DEF PngIInv
<1>10. CASE UNCHANGED png_vars
  <2>1. pc' = pc /\ i' = i /\ w' = w /\ file' = file
    BY <1>10 DEF png_vars
  <2>2. Ihdr' = Ihdr
    BY <1>5 DEF Ihdr, Opaque
  <2> QED
    BY <1>5, <1>6, <2>1, <2>2 DEF PngIInv
<1> QED
  BY <1>7, <1>8, <1>9, <1>10 DEF PngNext

\* At every step of encode any match that can be in the rows, put behind the bits that
\* wait, is read back as it is (png.cpp:80-99).
THEOREM MatchesDecode == PngSpec => []AnyMatchDecodes
<1>1. PngIInv => AnyMatchDecodes
  <2> SUFFICES ASSUME PngIInv, pc = "deflate" PROVE AnyMatchDecodes
    BY DEF AnyMatchDecodes
  <2>1. WriterOK(w)
    BY DEF PngIInv
  <2>2. \A length \in Lengths : length \in 3..258
    BY MatchAssumption
  <2>3. \A d \in Distances : IsDistance(d)
    <3>1. Distances \subseteq RowSizes
      BY MatchAssumption DEF RowSizes
    <3> QED
      BY <3>1, SmallerDistances
  <2>4. IsDistance(1) /\ 3 \in 3..258
    BY DEF IsDistance
  <2>5. \A length \in Lengths : MatchDecodes(length, 1)
    BY <2>1, <2>2, <2>4, MatchAlwaysDecodes
  <2>6. \A d \in Distances : MatchDecodes(3, d)
    BY <2>1, <2>3, <2>4, MatchAlwaysDecodes
  <2> QED
    BY <2>5, <2>6 DEF AnyMatchDecodes
<1> QED
  BY <1>1, InitPng, StepPng, PTL DEF PngSpec

\* A reader of PNG gets the pixels of the image from the file encode makes of it, for
\* every image: with alpha only if some pixel is not opaque (png.cpp:80-240).
THEOREM PngFilesDecode == PngSpec => []FileDecodes
<1>1. PngIInv => FileDecodes
  <2> SUFFICES ASSUME PngIInv PROVE FileDecodes
    OBVIOUS
  <2>1. img \in Images /\ raw = RawOf(img, bpp) /\ pc # "written"
    BY DEF PngIInv
  <2>2. /\ IsImage(img) /\ bpp \in 3..4
        /\ Ihdr = HeaderOf(img.width, img.height, IF bpp = 3 THEN 2 ELSE 6)
        /\ bpp = 3 <=> Opaque
    BY <2>1, PngTypes
  <2>3. SUFFICES ASSUME pc = "done"
                 PROVE  /\ DecodesTo(img.rgba)
                        /\ file[1].data[10] = 2 <=> \A p \in DOMAIN img.rgba : img.rgba[p][4] = 255
    BY <2>1 DEF FileDecodes
  <2>4. PICK body \in ByteStrings : StreamOf(body, raw) /\ file = ChunksOf(Ihdr, body, raw)
    BY <2>3 DEF PngIInv
  <2>5. PICK c \in 3..4, t \in Nat, header \in {Ihdr} : c = bpp /\ t = (IF c = 3 THEN 2 ELSE 6) /\ header = Ihdr
    BY <2>2
  <2>6. BE32At(header, 1) = img.width /\ BE32At(header, 5) = img.height /\ header[10] = t
    <3>1. header = HeaderOf(img.width, img.height, t)
      BY <2>2, <2>5
    <3>2. img.width \in Nat /\ img.height \in Nat
      BY <2>2 DEF IsImage
    <3> QED
      BY <3>1, <3>2, HeaderIs
  <2>7. header[10] = 2 <=> c = 3
    BY <2>5, <2>6
  <2>8. c = IF header[10] = 2 THEN 3 ELSE 4
    BY <2>5, <2>7
  <2>9. Unpacked(header, raw) = PixelsOf(img, c)
    BY <2>1, <2>2, <2>5, <2>6, <2>8, RowsUnpacked
  <2>10. PixelsOf(img, c) = img.rgba
    <3>1. c = 3 => \A p \in DOMAIN img.rgba : img.rgba[p][4] = 255
      BY <2>2, <2>5 DEF Opaque
    <3> QED
      BY <2>2, <3>1, PixelsWhole
  <2>11. DecodesTo(img.rgba)
    BY <2>4, <2>5, <2>9, <2>10, ChunksDecode
  <2>12. file[1].data[10] = header[10]
    <3>1. file[1] = PutChunk("IHDR", header)
      BY <2>4, <2>5 DEF ChunksOf
    <3>2. PutChunk("IHDR", header).data = header
      BY Zenon DEF PutChunk
    <3> QED
      BY <3>1, <3>2
  <2> QED
    BY <2>2, <2>5, <2>7, <2>11, <2>12 DEF Opaque
<1> QED
  BY <1>1, InitPng, StepPng, PTL DEF PngSpec

-----------------------------------------------------------------------------
(* The tables of png_writer.cpp *)

LEMMA WindowIs ==
  /\ Window \in Nat \ {0} /\ MaxChain \in Nat /\ Buckets \in Nat \ {0}
  /\ \A d \in 1..(Window - 1) : IsDistance(d)
BY WindowAssumption DEF IsDistance

HashIn(r, q) == HashOf(r[q + 1], r[q + 2], r[q + 3])

\* The last position before p with a hash, or -1.
IsLast(r, x, c, p) ==
  /\ x \in Int /\ x < p /\ x >= -1
  /\ x # -1 => x + 2 < Len(r) /\ HashIn(r, x) = c
  /\ \A q \in Nat : x < q /\ q < p /\ q + 2 < Len(r) => HashIn(r, q) # c

\* The tables once the positions before p are entered: the ring has those of the window.
Tables(r, h, v, p) ==
  /\ h \in [0..(Buckets - 1) -> Int] /\ v \in [0..(Window - 1) -> Int]
  /\ \A c \in 0..(Buckets - 1) : IsLast(r, h[c], c, p)
  /\ \A q \in Nat : q < p /\ q + 2 < Len(r) /\ p - q <= Window
       => IsLast(r, v[q % Window], HashIn(r, q), q)

LEMMA NoTables ==
  ASSUME NEW r
  PROVE  Tables(r, NoHead, NoPrev, 0)
<1>1. Window \in Nat /\ Buckets \in Nat
  BY WindowIs
<1>2. NoHead \in [0..(Buckets - 1) -> Int] /\ NoPrev \in [0..(Window - 1) -> Int]
  BY DEF NoHead, NoPrev
<1>3. ASSUME NEW c \in 0..(Buckets - 1) PROVE IsLast(r, NoHead[c], c, 0)
  <2>1. NoHead[c] = -1 /\ \A q \in Nat : ~(q < 0)
    BY DEF NoHead
  <2> QED
    BY <2>1 DEF IsLast
<1>4. \A q \in Nat : ~(q < 0)
  OBVIOUS
<1> QED
  BY <1>2, <1>3, <1>4 DEF Tables

LEMMA HashType ==
  ASSUME raw \in ByteStrings, NEW p \in Nat, p + 2 < Len(raw)
  PROVE  HashAt(p) \in 0..(Buckets - 1) /\ HashAt(p) = HashIn(raw, p)
<1>1. Len(raw) \in Nat
  BY LenProperties DEF ByteStrings
<1>2. p + 1 \in 1..Len(raw) /\ p + 2 \in 1..Len(raw) /\ p + 3 \in 1..Len(raw)
  BY <1>1
<1>3. raw[p + 1] \in 0..255 /\ raw[p + 2] \in 0..255 /\ raw[p + 3] \in 0..255
  BY <1>2, ElementOfSeq DEF ByteStrings
<1> QED
  BY <1>3, HashAssumption DEF HashAt, HashIn

\* Two positions less than a ring apart have slots of their own.
LEMMA SlotsDiffer ==
  ASSUME NEW c \in Nat \ {0}, NEW q \in Nat, NEW p \in Nat, q < p, p - q < c
  PROVE  q % c # p % c
<1> SUFFICES ASSUME q % c = p % c PROVE FALSE
  OBVIOUS
<1>1. PICK x \in Nat, y \in Nat, z \in Nat, d \in Nat :
        q = x * c + z /\ p = y * c + z /\ d = p - q
  <2>1. /\ q \div c \in Nat /\ q % c \in Nat /\ q = (q \div c) * c + (q % c)
        /\ p \div c \in Nat /\ p % c \in Nat /\ p = (p \div c) * c + (p % c)
    BY Divides
  <2>2. p - q \in Nat
    OBVIOUS
  <2> QED
    BY <2>1, <2>2
<1>2. d = (y - x) * c /\ d > 0 /\ d < c
  <2>1. y * c - x * c = (y - x) * c /\ x * c \in Nat /\ y * c \in Nat
    OBVIOUS
  <2> QED
    BY <1>1, <2>1
<1>3. CASE y - x <= 0
  <2>1. PICK e \in Nat : e = x - y
    BY <1>3
  <2>2. e * c \in Nat /\ (y - x) * c = -(e * c)
    BY <2>1
  <2> QED
    BY <1>2, <2>2
<1>4. CASE y - x >= 1
  <2>1. PICK e \in Nat : e = y - x - 1
    BY <1>4
  <2>2. e * c \in Nat /\ (y - x) * c = e * c + c
    BY <2>1
  <2> QED
    BY <1>2, <2>2
<1> QED
  BY <1>3, <1>4

LEMMA EnteredTables ==
  ASSUME raw \in ByteStrings, NEW p \in Nat, NEW t, Tables(raw, t.head, t.prev, p)
  PROVE  Tables(raw, Entered(t, p).head, Entered(t, p).prev, p + 1)
<1>1. Len(raw) \in Nat
  BY LenProperties DEF ByteStrings
<1>2. Window \in Nat \ {0} /\ Buckets \in Nat \ {0}
  BY WindowIs
<1>3. PICK h, v : h = t.head /\ v = t.prev
  OBVIOUS
<1>4. /\ h \in [0..(Buckets - 1) -> Int] /\ v \in [0..(Window - 1) -> Int]
      /\ \A c \in 0..(Buckets - 1) : IsLast(raw, h[c], c, p)
      /\ \A q \in Nat : q < p /\ q + 2 < Len(raw) /\ p - q <= Window
           => IsLast(raw, v[q % Window], HashIn(raw, q), q)
  BY <1>3 DEF Tables
<1>5. CASE p + 2 >= Len(raw)
  <2>1. Entered(t, p) = t
    BY <1>5, Zenon DEF Entered
  <2>2. ASSUME NEW c \in 0..(Buckets - 1) PROVE IsLast(raw, h[c], c, p + 1)
    <3>1. IsLast(raw, h[c], c, p)
      BY <1>4
    <3>2. \A q \in Nat : q < p + 1 /\ q + 2 < Len(raw) => q < p
      BY <1>1, <1>5
    <3> QED
      BY <3>1, <3>2 DEF IsLast
  <2>3. ASSUME NEW q \in Nat, q < p + 1, q + 2 < Len(raw), p + 1 - q <= Window
        PROVE  IsLast(raw, v[q % Window], HashIn(raw, q), q)
    <3>1. q < p /\ p - q <= Window
      BY <1>1, <1>2, <1>5, <2>3
    <3> QED
      BY <1>4, <2>3, <3>1
  <2> QED
    BY <1>3, <1>4, <2>1, <2>2, <2>3 DEF Tables
<1>6. CASE ~(p + 2 >= Len(raw))
  <2>1. PICK b0 : b0 = HashAt(p)
    OBVIOUS
  <2>2. b0 \in 0..(Buckets - 1) /\ b0 = HashIn(raw, p)
    BY <1>1, <1>6, <2>1, HashType
  <2>3. PICK e \in 0..(Window - 1) : e = p % Window
    <3>1. p % Window \in Nat /\ p % Window < Window
      BY <1>2, Divides
    <3> QED
      BY <1>2, <3>1
  <2>4. PICK g, u : g = [h EXCEPT ![b0] = p] /\ u = [v EXCEPT ![e] = h[b0]]
    OBVIOUS
  <2>5. Entered(t, p).head = g /\ Entered(t, p).prev = u
    <3>1. Entered(t, p) = [head |-> g, prev |-> u]
      BY <1>3, <1>6, <2>1, <2>3, <2>4, Zenon DEF Entered
    <3> QED
      BY <3>1
  <2>6. /\ g \in [0..(Buckets - 1) -> Int]
        /\ \A c \in 0..(Buckets - 1) : g[c] = IF c = b0 THEN p ELSE h[c]
    BY <1>4, <2>2, <2>4
  <2>7. /\ u \in [0..(Window - 1) -> Int]
        /\ \A s \in 0..(Window - 1) : u[s] = IF s = e THEN h[b0] ELSE v[s]
    BY <1>4, <2>2, <2>4
  <2>8. ASSUME NEW c \in 0..(Buckets - 1) PROVE IsLast(raw, g[c], c, p + 1)
    <3>1. CASE c = b0
      <4>1. g[c] = p
        BY <2>6, <3>1
      <4>2. p \in Int /\ p < p + 1 /\ p >= -1 /\ p + 2 < Len(raw) /\ \A q \in Nat : ~(p < q /\ q < p + 1)
        BY <1>1, <1>6
      <4> QED
        BY <2>2, <3>1, <4>1, <4>2 DEF IsLast
    <3>2. CASE c # b0
      <4>1. g[c] = h[c] /\ IsLast(raw, h[c], c, p)
        BY <1>4, <2>6, <3>2
      <4>2. \A q \in Nat : q < p + 1 => q < p \/ q = p
        OBVIOUS
      <4>3. HashIn(raw, p) # c
        BY <2>2, <3>2
      <4>4. PICK x \in Int : x = h[c]
        BY <4>1 DEF IsLast
      <4>5. x < p + 1
        BY <4>1, <4>4 DEF IsLast
      <4> QED
        BY <4>1, <4>2, <4>3, <4>4, <4>5 DEF IsLast
    <3> QED
      BY <3>1, <3>2
  <2>9. ASSUME NEW q \in Nat, q < p + 1, q + 2 < Len(raw), p + 1 - q <= Window
        PROVE  IsLast(raw, u[q % Window], HashIn(raw, q), q)
    <3>1. CASE q = p
      <4>1. u[q % Window] = h[b0]
        BY <2>3, <2>7, <3>1
      <4>2. IsLast(raw, h[b0], b0, p)
        BY <1>4, <2>2
      <4> QED
        BY <2>2, <3>1, <4>1, <4>2
    <3>2. CASE q # p
      <4>1. q < p /\ p - q <= Window /\ p - q < Window
        BY <1>2, <2>9, <3>2
      <4>2. q % Window # p % Window
        BY <1>2, <4>1, SlotsDiffer
      <4>3. q % Window \in 0..(Window - 1)
        <5>1. q % Window \in Nat /\ q % Window < Window
          BY <1>2, Divides
        <5> QED
          BY <1>2, <5>1
      <4>4. u[q % Window] = v[q % Window]
        BY <2>3, <2>7, <4>2, <4>3
      <4>5. IsLast(raw, v[q % Window], HashIn(raw, q), q)
        BY <1>4, <2>9, <4>1
      <4> QED
        BY <4>4, <4>5
    <3> QED
      BY <3>1, <3>2
  <2> QED
    BY <2>5, <2>6, <2>7, <2>8, <2>9 DEF Tables
<1> QED
  BY <1>5, <1>6

\* What Inserted builds, position by position.
LEMMA InsertedIs ==
  ASSUME NEW c \in Nat
  PROVE  \E f : /\ f[0] = [head |-> head, prev |-> prev]
                /\ \A m \in 1..c : f[m] = Entered(f[m - 1], i + m - 1)
                /\ Inserted(c) = f[c]
<1> DEFINE Is(e, m) == e = [j \in 0..m |-> IF j = 0 THEN [head |-> head, prev |-> prev]
                                           ELSE Entered(e[j - 1], i + j - 1)]
           T == {m \in Nat : \E e : Is(e, m)}
<1>2. 0 \in T
  <2> DEFINE e == [j \in 0..0 |-> [head |-> head, prev |-> prev]]
  <2>1. Is(e, 0)
    OBVIOUS
  <2> QED
    BY <2>1
<1>3. ASSUME NEW m \in T PROVE m + 1 \in T
  <2>1. PICK e : Is(e, m)
    OBVIOUS
  <2> DEFINE g == [j \in 0..(m + 1) |-> IF j = m + 1 THEN Entered(e[m], i + (m + 1) - 1) ELSE e[j]]
  <2>2. \A j \in 0..(m + 1) : j # m + 1 => j \in 0..m
    OBVIOUS
  <2>3. ASSUME NEW j \in 0..(m + 1)
        PROVE  g[j] = IF j = 0 THEN [head |-> head, prev |-> prev] ELSE Entered(g[j - 1], i + j - 1)
    <3>1. CASE j = 0
      <4>1. 0 \in 0..(m + 1) /\ 0 # m + 1 /\ 0 \in 0..m
        OBVIOUS
      <4> QED
        BY <2>1, <3>1, <4>1
    <3>2. CASE j # 0 /\ j # m + 1
      <4>1. j \in 0..m /\ j - 1 \in 0..(m + 1) /\ j - 1 # m + 1
        BY <3>2
      <4> QED
        BY <2>1, <3>2, <4>1
    <3>3. CASE j = m + 1
      <4>1. j # 0 /\ j - 1 = m /\ m \in 0..(m + 1) /\ m # m + 1
        BY <3>3
      <4> QED
        BY <3>3, <4>1
    <3> QED
      BY <3>1, <3>2, <3>3
  <2>4. Is(g, m + 1)
    BY <2>3
  <2> HIDE DEF g
  <2> QED
    BY <2>4
<1>4. T = Nat
  <2> HIDE DEF T
  <2> QED
    BY <1>2, <1>3, Induct DEF T
<1>5. \E e : Is(e, c)
  BY <1>4
<1> DEFINE u == CHOOSE e : Is(e, c)
<1>6. Is(u, c)
  <2> HIDE DEF Is
  <2> QED
    BY <1>5
<1>7. Inserted(c) = u[c]
  BY Zenon DEF Inserted
<1> HIDE DEF u
<1>8. u[0] = [head |-> head, prev |-> prev]
  BY <1>6
<1>9. \A m \in 1..c : u[m] = Entered(u[m - 1], i + m - 1)
  <2>1. \A m \in 1..c : m \in 0..c /\ m # 0
    OBVIOUS
  <2> QED
    BY <1>6, <2>1
<1> QED
  BY <1>7, <1>8, <1>9

LEMMA InsertedTables ==
  ASSUME raw \in ByteStrings, i \in Nat, Tables(raw, head, prev, i), NEW c \in Nat
  PROVE  Tables(raw, Inserted(c).head, Inserted(c).prev, i + c)
<1>1. PICK f : /\ f[0] = [head |-> head, prev |-> prev]
               /\ \A m \in 1..c : f[m] = Entered(f[m - 1], i + m - 1)
               /\ Inserted(c) = f[c]
  BY InsertedIs
<1> DEFINE T == {m \in Nat : m <= c => Tables(raw, f[m].head, f[m].prev, i + m)}
<1>2. 0 \in T
  <2>1. f[0].head = head /\ f[0].prev = prev /\ i + 0 = i
    BY <1>1
  <2> QED
    BY <2>1
<1>3. ASSUME NEW m \in T PROVE m + 1 \in T
  <2> SUFFICES ASSUME m + 1 <= c PROVE Tables(raw, f[m + 1].head, f[m + 1].prev, i + (m + 1))
    OBVIOUS
  <2>1. m + 1 \in 1..c /\ (m + 1) - 1 = m /\ i + (m + 1) - 1 = i + m /\ m <= c /\ i + m \in Nat
        /\ i + (m + 1) = (i + m) + 1
    OBVIOUS
  <2>0. PICK t : t = f[m]
    OBVIOUS
  <2>2. PICK p \in Nat : p = i + m
    BY <2>1
  <2>3. f[m + 1] = Entered(t, p)
    BY <1>1, <2>0, <2>1, <2>2
  <2>4. Tables(raw, t.head, t.prev, p)
    BY <2>0, <2>1, <2>2
  <2>5. Tables(raw, Entered(t, p).head, Entered(t, p).prev, p + 1)
    BY <2>4, EnteredTables
  <2> QED
    BY <2>1, <2>2, <2>3, <2>5
<1>4. T = Nat
  <2> HIDE DEF T
  <2> QED
    BY <1>2, <1>3, Induct DEF T
<1>5. c \in T /\ c <= c
  BY <1>4
<1> QED
  BY <1>1, <1>5

-----------------------------------------------------------------------------
(* The search of png_writer.cpp *)

Limit == Min({258, Len(raw) - i})

LEMMA LongestIs ==
  ASSUME raw \in ByteStrings, i \in Nat, i <= Len(raw), NEW c \in Nat
  PROVE  /\ Limit \in Nat /\ Limit <= 258 /\ LabLength(c, Limit) = Longest(c)
         /\ Longest(c) \in Nat /\ Longest(c) <= Limit
         /\ Repeats(raw, i, i - c, Longest(c))
<1>1. Len(raw) \in Nat /\ Len(raw) - i \in Nat
  BY LenProperties DEF ByteStrings
<1>2. PICK limit : limit = Limit
  OBVIOUS
<1>3. limit \in Nat /\ limit <= 258 /\ limit <= Len(raw) - i
  BY <1>1, <1>2, PairMin DEF Limit
<1>4. Longest(c) = LabLength(c, limit)
  BY <1>2 DEF Longest, Limit
<1>5. PICK d \in Int, l \in {LabLength(c, limit)} : d = i - c /\ l = LabLength(c, limit)
  OBVIOUS
<1>6. l = Min({j \in 0..limit : j = limit \/ raw[i + j + 1] # raw[i + j + 1 - d]})
  <2>1. \A j \in 0..limit : c + j + 1 = i + j + 1 - d
    BY <1>5
  <2>2. {j \in 0..limit : j = limit \/ raw[c + j + 1] # raw[i + j + 1]}
        = {j \in 0..limit : j = limit \/ raw[i + j + 1] # raw[i + j + 1 - d]}
    BY <2>1
  <2>3. l = Min({j \in 0..limit : j = limit \/ raw[c + j + 1] # raw[i + j + 1]})
    BY <1>5 DEF LabLength
  <2> QED
    BY <2>2, <2>3
<1>7. i + limit <= Len(raw)
  BY <1>1, <1>3
<1>8. Repeats(raw, i, d, l) /\ l <= limit
  <2>1. PICK r : r = raw
    OBVIOUS
  <2>0. PICK m : m = i
    OBVIOUS
  <2>2. m + limit <= Len(r) /\ limit \in Nat /\ m \in Nat /\ d \in Int
    BY <1>3, <1>7, <2>0, <2>1
  <2>3. l = Min({j \in 0..limit : j = limit \/ r[m + j + 1] # r[m + j + 1 - d]})
    BY <1>6, <2>0, <2>1
  <2>4. Repeats(r, m, d, l) /\ l <= limit
    BY <2>2, <2>3, FirstDifference
  <2> QED
    BY <2>0, <2>1, <2>4
<1>9. l \in Nat
  BY <1>8 DEF Repeats
<1> QED
  BY <1>2, <1>3, <1>4, <1>5, <1>8, <1>9

Searching == /\ raw \in ByteStrings /\ i \in Nat /\ i + 2 < Len(raw)
             /\ Tables(raw, head, prev, i)

Behind(x) == {q \in SameHash : q > x}

LEMMA SameHashIs ==
  ASSUME Searching
  PROVE  /\ SameHash \in SUBSET Nat /\ IsFiniteSet(SameHash)
         /\ \A q \in SameHash : q < i /\ q + 2 < Len(raw) /\ HashIn(raw, q) = HashAt(i)
<1>1. raw \in ByteStrings /\ i \in Nat /\ i + 2 < Len(raw)
  BY DEF Searching
<1>2. Len(raw) \in Nat
  BY <1>1, LenProperties DEF ByteStrings
<1>3. SameHash \subseteq 0..(i - 1)
  BY DEF SameHash
<1>4. IsFiniteSet(0..(i - 1))
  <2>1. 0 \in Int /\ i - 1 \in Int
    BY <1>1
  <2> QED
    BY <2>1, FS_Interval
<1>5. IsFiniteSet(SameHash)
  BY <1>3, <1>4, FS_Subset
<1>6. \A q \in SameHash : q \in Nat /\ q < i /\ q + 2 < Len(raw)
  BY <1>1, <1>2, <1>3
<1>7. \A q \in SameHash : HashIn(raw, q) = HashAt(i)
  BY DEF SameHash, HashAt, HashIn
<1> QED
  BY <1>5, <1>6, <1>7

\* The position before one of the chain, or the first of it.
LEMMA NextIs ==
  ASSUME Searching, NEW c \in Nat, c <= i, NEW x, IsLast(raw, x, HashAt(i), c)
  PROVE  /\ x \in Int /\ x >= -1 /\ x < c /\ (x # -1 => x \in SameHash)
         /\ \A q \in SameHash : q > x => q >= c
<1>1. i \in Nat /\ x \in Int /\ x >= -1 /\ x < c
  BY DEF Searching, IsLast
<1>2. x # -1 => x \in SameHash
  <2> SUFFICES ASSUME x # -1 PROVE x \in SameHash
    OBVIOUS
  <2>1. x \in 0..(i - 1)
    BY <1>1
  <2>2. HashIn(raw, x) = HashAt(i)
    BY DEF IsLast
  <2>3. HashAt(x) = HashAt(i)
    BY <2>2 DEF HashIn, HashAt
  <2> QED
    BY <2>1, <2>3 DEF SameHash
<1>3. ASSUME NEW q \in SameHash, q > x PROVE q >= c
  <2>1. q \in Nat /\ q + 2 < Len(raw) /\ HashIn(raw, q) = HashAt(i)
    BY SameHashIs
  <2> SUFFICES ASSUME q < c PROVE FALSE
    BY <2>1
  <2> QED
    BY <1>1, <1>3, <2>1 DEF IsLast
<1> QED
  BY <1>1, <1>2, <1>3

\* What the search has found, if anything.
Found(s) ==
  /\ s.dist > 0 /\ i - s.dist \in SameHash /\ i - s.dist > s.cand
  /\ Longest(i - s.dist) = s.len
  /\ Cardinality(Behind(i - s.dist)) < MaxChain
  /\ \A p \in Behind(i - s.dist) : Longest(p) < s.len

\* After m steps it has tried the m nearest positions, unless it has ended.
SearchOK(s, m) ==
  /\ s.cand \in Int /\ s.cand >= -1 /\ (s.cand # -1 => s.cand \in SameHash)
  /\ s.len \in Nat /\ s.len <= Limit /\ s.dist \in Int /\ s.dist < Window
  /\ s.len > 0 => Found(s)
  /\ \A p \in Behind(s.cand) : Longest(p) <= s.len
  /\ s.stop => s.len = Limit
  /\ s.cand >= 0 /\ ~s.stop /\ i - s.cand <= Window - 1 => Cardinality(Behind(s.cand)) = m

LEMMA SearchBegins ==
  ASSUME Searching, NEW s,
         s = [cand |-> head[HashAt(i)], len |-> 0, dist |-> 0, stop |-> FALSE]
  PROVE  SearchOK(s, 0)
<1>1. s.cand = head[HashAt(i)] /\ s.len = 0 /\ s.dist = 0 /\ s.stop = FALSE
  OBVIOUS
<1>2. IsLast(raw, s.cand, HashAt(i), i)
  <2>1. HashAt(i) \in 0..(Buckets - 1)
    BY HashType DEF Searching
  <2> QED
    BY <1>1, <2>1 DEF Searching, Tables
<1>3. i \in Nat /\ i <= i
  BY DEF Searching
<1>4. PICK x : x = s.cand
  OBVIOUS
<1>5. /\ x \in Int /\ x >= -1 /\ x < i /\ (x # -1 => x \in SameHash)
      /\ \A q \in SameHash : q > x => q >= i
  BY <1>2, <1>3, <1>4, NextIs
<1>6. Behind(x) = {}
  <2>1. \A q \in SameHash : q \in Nat /\ q < i
    BY SameHashIs
  <2>2. \A q \in SameHash : ~(q > x)
    BY <1>3, <1>5, <2>1
  <2> QED
    BY <2>2 DEF Behind
<1>7. Cardinality(Behind(x)) = 0
  BY <1>6, FS_EmptySet
<1>8. Limit \in Nat
  <2>1. raw \in ByteStrings /\ i \in Nat /\ Len(raw) \in Nat /\ i <= Len(raw)
    BY LenProperties DEF Searching, ByteStrings
  <2> QED
    BY <1>3, <2>1, LongestIs
<1>9. 0 < Window /\ 0 <= Limit
  BY <1>8, WindowIs
<1>10. /\ s.cand \in Int /\ s.cand >= -1 /\ (s.cand # -1 => s.cand \in SameHash)
       /\ \A p \in Behind(s.cand) : Longest(p) <= s.len
       /\ Cardinality(Behind(s.cand)) = 0
  BY <1>4, <1>5, <1>6, <1>7
<1>11. s.len \in Nat /\ s.len <= Limit /\ s.dist \in Int /\ s.dist < Window /\ ~(s.len > 0) /\ ~s.stop
  BY <1>1, <1>9
<1> HIDE DEF Limit
<1> QED
  BY <1>10, <1>11 DEF SearchOK

LEMMA SearchGoesOn ==
  ASSUME Searching, NEW s, NEW m \in Nat, m < MaxChain, SearchOK(s, m)
  PROVE  SearchOK(Tried(s), m + 1)
<1>0. /\ raw \in ByteStrings /\ i \in Nat /\ Len(raw) \in Nat /\ i <= Len(raw)
      /\ Window \in Nat \ {0} /\ MaxChain \in Nat
  BY LenProperties, WindowIs DEF Searching, ByteStrings
<1>1. CASE s.cand < 0 \/ s.stop \/ i - s.cand > Window - 1
  <2>1. Tried(s) = s
    BY <1>1, Zenon DEF Tried
  <2>2. ~(s.cand >= 0 /\ ~s.stop /\ i - s.cand <= Window - 1)
    <3>1. s.cand \in Int
      BY DEF SearchOK
    <3>2. s.cand < 0 => ~(s.cand >= 0)
      BY <3>1
    <3>3. i - s.cand > Window - 1 => ~(i - s.cand <= Window - 1)
      BY <1>0, <3>1
    <3> QED
      BY <1>1, <3>2, <3>3, Zenon
  <2> QED
    BY <2>1, <2>2 DEF SearchOK
<1>2. CASE ~(s.cand < 0 \/ s.stop \/ i - s.cand > Window - 1)
  <2>1. /\ s.cand \in Int /\ s.cand >= -1 /\ (s.cand # -1 => s.cand \in SameHash)
        /\ s.len \in Nat /\ s.len <= Limit /\ s.dist \in Int /\ s.dist < Window
        /\ s.len > 0 => Found(s)
        /\ \A p \in Behind(s.cand) : Longest(p) <= s.len
        /\ s.cand >= 0 /\ ~s.stop /\ i - s.cand <= Window - 1 => Cardinality(Behind(s.cand)) = m
    BY DEF SearchOK
  <2>2. PICK c, best0, d0 : c = s.cand /\ best0 = s.len /\ d0 = s.dist
    OBVIOUS
  <2>3. c \in Nat /\ c \in SameHash /\ c < i /\ i - c <= Window - 1
    <3>1. c \in Nat /\ c # -1 /\ i - c <= Window - 1
      BY <1>0, <1>2, <2>1, <2>2
    <3>2. c \in SameHash
      BY <2>1, <2>2, <3>1
    <3> QED
      BY <3>1, <3>2, SameHashIs
  <2>4. Cardinality(Behind(c)) = m
    <3>1. s.cand >= 0 /\ i - s.cand <= Window - 1
      BY <2>2, <2>3
    <3>2. ~s.stop
      BY <1>2
    <3> QED
      BY <2>1, <2>2, <3>1, <3>2
  <2>5. PICK len, x : len = Longest(c) /\ x = prev[c % Window]
    OBVIOUS
  <2>6. len \in Nat /\ len <= Limit /\ LabLength(c, Limit) = len /\ Limit \in Nat
    BY <1>0, <2>3, <2>5, LongestIs
  <2>7. /\ x \in Int /\ x >= -1 /\ x < c /\ (x # -1 => x \in SameHash)
        /\ \A q \in SameHash : q > x => q >= c
    <3>1. c + 2 < Len(raw) /\ HashIn(raw, c) = HashAt(i)
      BY <2>3, SameHashIs
    <3>2. IsLast(raw, x, HashIn(raw, c), c)
      <4>1. i - c <= Window
        BY <1>0, <2>3
      <4> QED
        BY <2>3, <2>5, <3>1, <4>1 DEF Searching, Tables
    <3>3. c <= i
      BY <1>0, <2>3
    <3> QED
      BY <2>3, <3>1, <3>2, <3>3, NextIs
  <2>8. PICK len2, d2 : /\ len2 = Max({len, best0})
                        /\ d2 = IF len > best0 THEN i - c ELSE d0
    OBVIOUS
  <2>9. PICK stop2 : stop2 = (len > best0 /\ len = Limit)
    OBVIOUS
  <2>10. Tried(s) = [cand |-> x, len |-> len2, dist |-> d2, stop |-> stop2]
    BY <1>2, <2>2, <2>5, <2>6, <2>8, <2>9, Zenon DEF Tried, Limit
  <2>11. PICK z : z = Tried(s)
    OBVIOUS
  <2>12. z.cand = x /\ z.len = len2 /\ z.dist = d2 /\ z.stop = stop2
    BY <2>10, <2>11
  <2>13. len2 = IF len > best0 THEN len ELSE best0
    <3>1. Max({len, best0}) = IF len > best0 THEN len ELSE best0
      <4>1. len \in Int /\ best0 \in Int
        BY <2>1, <2>2, <2>6
      <4> QED
        BY <4>1 DEF Max
    <3> QED
      BY <2>8, <3>1
  <2>14. best0 \in Nat /\ best0 <= Limit /\ d0 \in Int /\ d0 < Window
    BY <2>1, <2>2
  <2>15. len2 \in Nat /\ len2 <= Limit /\ len <= len2 /\ best0 <= len2
    BY <2>6, <2>13, <2>14
  <2>16. d2 \in Int /\ d2 < Window
    BY <1>0, <2>3, <2>8, <2>14
  <2>17. \A p \in Behind(c) : p \in Nat /\ p \in SameHash /\ p > c /\ Longest(p) \in Nat /\ Longest(p) <= best0
    <3>1. \A p \in Behind(c) : p \in SameHash /\ p > c
      BY DEF Behind
    <3>2. \A p \in SameHash : p \in Nat
      BY SameHashIs
    <3>3. \A p \in Nat : Longest(p) \in Nat
      BY <1>0, LongestIs
    <3> QED
      BY <2>1, <2>2, <3>1, <3>2, <3>3
  <2>18. \A q \in SameHash : q \in Nat
    BY SameHashIs
  <2>19. Behind(x) = Behind(c) \cup {c}
    <3>1. \A q \in SameHash : q > x <=> (q > c \/ q = c)
      BY <2>3, <2>7, <2>18
    <3> QED
      BY <2>3, <3>1 DEF Behind
  <2>20. \A p \in Behind(x) : Longest(p) <= len2
    <3>1. ASSUME NEW p \in Behind(c) PROVE Longest(p) <= len2
      BY <2>14, <2>15, <2>17
    <3> QED
      BY <2>5, <2>15, <2>19, <3>1
  <2>21. Cardinality(Behind(x)) = m + 1
    <3>1. IsFiniteSet(Behind(c))
      BY SameHashIs, FS_Subset DEF Behind
    <3>2. c \notin Behind(c)
      BY <2>3 DEF Behind
    <3> QED
      BY <2>4, <2>19, <3>1, <3>2, FS_AddElement
  <2>22. len2 > 0 => Found(z)
    <3> SUFFICES ASSUME len2 > 0 PROVE Found(z)
      OBVIOUS
    <3>1. CASE len > best0
      <4>1. d2 = i - c /\ len2 = len
        BY <2>8, <2>13, <3>1
      <4>2. i - d2 = c /\ d2 > 0
        BY <1>0, <2>3, <4>1
      <4>3. \A p \in Behind(c) : Longest(p) < len
        BY <2>6, <2>14, <2>17, <3>1
      <4> QED
        BY <2>3, <2>4, <2>5, <2>7, <2>12, <4>1, <4>2, <4>3 DEF Found
    <3>2. CASE ~(len > best0)
      <4>1. d2 = d0 /\ len2 = best0
        BY <2>8, <2>13, <3>2
      <4>2. Found(s)
        BY <2>1, <2>2, <4>1
      <4>3. i - d0 > x
        <5>1. i - d0 > c
          BY <2>2, <4>2 DEF Found
        <5> QED
          BY <1>0, <2>3, <2>7, <2>14, <5>1
      <4> QED
        BY <2>2, <2>12, <4>1, <4>2, <4>3 DEF Found
    <3> QED
      BY <3>1, <3>2
  <2>23. stop2 => len2 = Limit
    BY <2>9, <2>13
  <2> QED
    BY <2>7, <2>11, <2>12, <2>15, <2>16, <2>20, <2>21, <2>22, <2>23 DEF SearchOK
<1> QED
  BY <1>1, <1>2

LEMMA ChainIs ==
  \E f : /\ f[0] = [cand |-> head[HashAt(i)], len |-> 0, dist |-> 0, stop |-> FALSE]
         /\ \A m \in 1..MaxChain : f[m] = Tried(f[m - 1])
         /\ Chain = f[MaxChain]
<1>1. PICK c \in Nat : c = MaxChain
  BY WindowIs
<1>2. PICK first : first = [cand |-> head[HashAt(i)], len |-> 0, dist |-> 0, stop |-> FALSE]
  OBVIOUS
<1> DEFINE Is(e, m) == e = [j \in 0..m |-> IF j = 0 THEN first ELSE Tried(e[j - 1])]
           T == {m \in Nat : \E e : Is(e, m)}
<1>3. 0 \in T
  <2> DEFINE e == [j \in 0..0 |-> first]
  <2>1. Is(e, 0)
    OBVIOUS
  <2> QED
    BY <2>1
<1>4. ASSUME NEW m \in T PROVE m + 1 \in T
  <2>1. PICK e : Is(e, m)
    OBVIOUS
  <2> DEFINE g == [j \in 0..(m + 1) |-> IF j = m + 1 THEN Tried(e[m]) ELSE e[j]]
  <2>2. \A j \in 0..(m + 1) : j # m + 1 => j \in 0..m
    OBVIOUS
  <2>3. ASSUME NEW j \in 0..(m + 1) PROVE g[j] = IF j = 0 THEN first ELSE Tried(g[j - 1])
    <3>1. CASE j = 0
      <4>1. 0 \in 0..(m + 1) /\ 0 # m + 1 /\ 0 \in 0..m
        OBVIOUS
      <4> QED
        BY <2>1, <3>1, <4>1
    <3>2. CASE j # 0 /\ j # m + 1
      <4>1. j \in 0..m /\ j - 1 \in 0..(m + 1) /\ j - 1 # m + 1
        BY <3>2
      <4> QED
        BY <2>1, <3>2, <4>1
    <3>3. CASE j = m + 1
      <4>1. j # 0 /\ j - 1 = m /\ m \in 0..(m + 1) /\ m # m + 1
        BY <3>3
      <4> QED
        BY <3>3, <4>1
    <3> QED
      BY <3>1, <3>2, <3>3
  <2>4. Is(g, m + 1)
    BY <2>3
  <2> HIDE DEF g
  <2> QED
    BY <2>4
<1>5. T = Nat
  <2> HIDE DEF T
  <2> QED
    BY <1>3, <1>4, Induct DEF T
<1>6. \E e : Is(e, c)
  BY <1>5
<1> DEFINE u == CHOOSE e : Is(e, c)
<1>7. Is(u, c)
  <2> HIDE DEF Is
  <2> QED
    BY <1>6
<1>8. Chain = u[c]
  BY <1>1, <1>2, Zenon DEF Chain
<1> HIDE DEF u
<1>9. u[0] = first
  BY <1>7
<1>10. \A m \in 1..c : u[m] = Tried(u[m - 1])
  <2>1. \A m \in 1..c : m \in 0..c /\ m # 0
    OBVIOUS
  <2> QED
    BY <1>7, <2>1
<1> QED
  BY <1>1, <1>2, <1>8, <1>9, <1>10

LEMMA SearchEnds ==
  ASSUME Searching
  PROVE  SearchOK(Chain, MaxChain) /\ LabBest = Chain
<1>1. PICK f : /\ f[0] = [cand |-> head[HashAt(i)], len |-> 0, dist |-> 0, stop |-> FALSE]
               /\ \A m \in 1..MaxChain : f[m] = Tried(f[m - 1])
               /\ Chain = f[MaxChain]
  BY ChainIs
<1> DEFINE T == {m \in Nat : m <= MaxChain => SearchOK(f[m], m)}
<1>2. 0 \in T
  BY <1>1, SearchBegins
<1>3. ASSUME NEW m \in T PROVE m + 1 \in T
  <2> SUFFICES ASSUME m + 1 <= MaxChain PROVE SearchOK(f[m + 1], m + 1)
    OBVIOUS
  <2>1. MaxChain \in Nat
    BY WindowIs
  <2>2. m + 1 \in 1..MaxChain /\ (m + 1) - 1 = m /\ m < MaxChain /\ m <= MaxChain /\ m \in Nat
    BY <2>1
  <2>3. PICK s : s = f[m]
    OBVIOUS
  <2>4. SearchOK(s, m)
    BY <2>2, <2>3
  <2>5. SearchOK(Tried(s), m + 1)
    BY <2>2, <2>4, SearchGoesOn
  <2>6. f[m + 1] = Tried(s)
    BY <1>1, <2>2, <2>3
  <2> QED
    BY <2>5, <2>6
<1>4. T = Nat
  <2> HIDE DEF T
  <2> QED
    BY <1>2, <1>3, Induct DEF T
<1>5. MaxChain \in T /\ MaxChain \in Nat /\ MaxChain <= MaxChain
  BY <1>4, WindowIs
<1>6. SearchOK(f[MaxChain], MaxChain)
  BY <1>5
<1>7. i + 2 < Len(raw)
  BY DEF Searching
<1> QED
  BY <1>1, <1>6, <1>7 DEF LabBest

\* A match that is found is one.
LEMMA LabBestIs ==
  ASSUME raw \in ByteStrings, i \in 0..Len(raw), Tables(raw, head, prev, i), LabBest.len >= 3
  PROVE  \E l \in 3..258, d \in 1..i :
           LabBest.len = l /\ LabBest.dist = d /\ IsDistance(d) /\ Repeats(raw, i, d, l)
<1>1. Len(raw) \in Nat /\ i \in Nat /\ i <= Len(raw)
  BY LenProperties DEF ByteStrings
<1>2. i + 2 < Len(raw)
  <2> SUFFICES ASSUME ~(i + 2 < Len(raw)) PROVE FALSE
    OBVIOUS
  <2>1. LabBest = NoMatch
    BY DEF LabBest
  <2>2. NoMatch.len = 0
    BY DEF NoMatch
  <2> QED
    BY <2>1, <2>2
<1>3. Searching
  BY <1>1, <1>2 DEF Searching
<1>4. PICK s, l, d : s = LabBest /\ l = s.len /\ d = s.dist
  OBVIOUS
<1>5. SearchOK(s, MaxChain)
  BY <1>3, <1>4, SearchEnds
<1>6. l \in Nat /\ l <= Limit /\ d \in Int /\ d < Window /\ l >= 3
  BY <1>4, <1>5 DEF SearchOK
<1>7. Found(s)
  BY <1>4, <1>5, <1>6 DEF SearchOK
<1>8. d > 0 /\ i - d \in SameHash /\ Longest(i - d) = l
  BY <1>4, <1>7 DEF Found
<1>9. PICK c \in Nat : c = i - d
  BY <1>3, <1>8, SameHashIs
<1>10. /\ Limit \in Nat /\ Limit <= 258 /\ Repeats(raw, i, i - c, Longest(c))
  BY <1>1, LongestIs
<1>11. i - c = d /\ d \in 1..i
  BY <1>1, <1>6, <1>8, <1>9
<1>12. l \in 3..258
  BY <1>6, <1>10
<1>13. IsDistance(d)
  <2>1. Window \in Nat
    BY WindowIs
  <2>2. d \in 1..(Window - 1)
    BY <1>1, <1>6, <1>11, <2>1
  <2> QED
    BY <2>2, WindowIs
<1> QED
  BY <1>4, <1>8, <1>9, <1>10, <1>11, <1>12, <1>13

-----------------------------------------------------------------------------
(* The sheets of the laboratory *)

\* What is coded are the bytes of the rows up to the position, and the tables are those
\* of the positions before it.
LabIInv ==
  /\ pc \in {"lab", "written", "failed"}
  /\ img \in Canvases /\ with_alpha \in BOOLEAN
  /\ raw = RawOf(img, channels)
  /\ i \in 0..Len(raw)
  /\ Tables(raw, head, prev, i)
  /\ pc = "lab" => WriterOK(w) /\ Coded(w, SubSeq(raw, 1, i))
  /\ pc = "written" => \E body \in ByteStrings : /\ StreamOf(body, raw)
                                           /\ file = ChunksOf(LabIhdr, body, raw)

LEMMA LabTypes ==
  ASSUME img \in Canvases, with_alpha \in BOOLEAN
  PROVE  /\ IsImage(img) /\ channels \in 3..4 /\ (channels = 4 <=> with_alpha)
         /\ RawOf(img, channels) \in ByteStrings
         /\ LabIhdr = HeaderOf(img.width, img.height, IF channels = 3 THEN 2 ELSE 6)
<1>1. channels \in 3..4 /\ (channels = 4 <=> with_alpha) /\ (channels = 3 <=> ~with_alpha)
  BY DEF channels
<1>2. IsImage(img)
  <2>1. PICK m : m = 2147483647
    OBVIOUS
  <2>2. m \in Nat /\ ImageWithin(img, m)
    BY <2>1, CanvasesAssumption
  <2> QED
    BY <2>2, WithinIsImage
<1>3. LabIhdr = HeaderOf(img.width, img.height, IF channels = 3 THEN 2 ELSE 6)
  <2>1. (IF with_alpha THEN 6 ELSE 2) = (IF channels = 3 THEN 2 ELSE 6)
    BY <1>1
  <2> QED
    BY <2>1, Zenon DEF LabIhdr, HeaderOf
<1>4. RawOf(img, channels) \in ByteStrings
  BY <1>1, <1>2, RawIs
<1> QED
  BY <1>1, <1>2, <1>3, <1>4

LEMMA InitLabPng == LabPngInit => LabIInv
<1> SUFFICES ASSUME LabPngInit PROVE LabIInv
  OBVIOUS
<1>1. /\ img \in Canvases /\ with_alpha \in BOOLEAN /\ pc = "lab" /\ i = 0
      /\ w = Put(Put(NewWriter, 1, 1), 1, 2) /\ head = NoHead /\ prev = NoPrev
  BY DEF LabPngInit
<1>2. \A y : LabRow(y) = RowOf(img, channels, y)
  BY DEF LabRow, RowOf
<1>3. raw = RawOf(img, channels)
  BY <1>2, Zenon DEF LabPngInit, RawOf
<1>4. raw \in ByteStrings
  BY <1>1, <1>3, LabTypes
<1>5. Len(raw) \in Nat
  BY <1>4, LenProperties DEF ByteStrings
<1>6. SubSeq(raw, 1, i) = <<>>
  BY <1>1, SubSeqEmpty
<1>7. WriterOK(w) /\ Coded(w, <<>>)
  BY <1>1, CodedFirst
<1>8. i \in 0..Len(raw) /\ pc # "written"
  BY <1>1, <1>5
<1>9. Tables(raw, head, prev, i)
  BY <1>1, NoTables
<1> QED
  BY <1>1, <1>3, <1>6, <1>7, <1>8, <1>9 DEF LabIInv

LEMMA StepLabPng == LabIInv /\ [LabPngNext]_lab_vars => LabIInv'
<1> SUFFICES ASSUME LabIInv, [LabPngNext]_lab_vars PROVE LabIInv'
  OBVIOUS
<1>1. /\ img \in Canvases /\ with_alpha \in BOOLEAN /\ raw = RawOf(img, channels)
      /\ i \in 0..Len(raw) /\ Tables(raw, head, prev, i)
  BY DEF LabIInv
<1>2. raw \in ByteStrings
  BY <1>1, LabTypes
<1>3. Len(raw) \in Nat /\ i \in Nat
  BY <1>1, <1>2, LenProperties DEF ByteStrings
<1>4. pc = "lab" => WriterOK(w) /\ Coded(w, SubSeq(raw, 1, i))
  BY DEF LabIInv
<1>5. img' = img /\ raw' = raw /\ with_alpha' = with_alpha
  BY DEF LabPngNext, LabMatch, LabLiteral, LabEnd, Advance, lab_vars
<1>6. img' \in Canvases /\ with_alpha' \in BOOLEAN /\ raw' = RawOf(img', channels')
  BY <1>1, <1>5 DEF channels
<1>7. ASSUME NEW l \in Nat, NEW v, pc = "lab", pc' = "lab", i' = i + l, i + l <= Len(raw),
             head' = Inserted(l).head, prev' = Inserted(l).prev,
             w' = v, WriterOK(v), Coded(v, SubSeq(raw, 1, i + l))
      PROVE  LabIInv'
  <2>1. Tables(raw, Inserted(l).head, Inserted(l).prev, i + l)
    BY <1>1, <1>2, <1>3, InsertedTables
  <2>2. Tables(raw', head', prev', i')
    BY <1>5, <1>7, <2>1
  <2>3. i' \in 0..Len(raw') /\ pc' # "written"
    BY <1>3, <1>5, <1>7
  <2> QED
    BY <1>5, <1>6, <1>7, <2>2, <2>3 DEF LabIInv
<1>8. CASE LabMatch
  <2>1. /\ pc = "lab" /\ LabBest.len >= 3 /\ w' = PutMatch(w, LabBest.len, LabBest.dist)
        /\ i' = i + LabBest.len /\ pc' = pc
        /\ head' = Inserted(LabBest.len).head /\ prev' = Inserted(LabBest.len).prev
    BY <1>8 DEF LabMatch, Advance
  <2>2. PICK l \in 3..258, d \in 1..i :
          LabBest.len = l /\ LabBest.dist = d /\ IsDistance(d) /\ Repeats(raw, i, d, l)
    BY <1>1, <1>2, <2>1, LabBestIs
  <2>3. SubSeq(raw, 1, i) \in ByteStrings /\ Len(SubSeq(raw, 1, i)) = i
    BY <1>1, <1>2, BeginningIs DEF ByteStrings
  <2>4. PICK data : data = SubSeq(raw, 1, i)
    OBVIOUS
  <2>5. WriterOK(w) /\ Coded(w, data) /\ d <= Len(data)
    BY <1>3, <1>4, <2>1, <2>3, <2>4
  <2>6. PICK v : v = PutMatch(w, l, d)
    OBVIOUS
  <2>7. WriterOK(v) /\ Coded(v, Copied(data, l, d))
    BY <2>2, <2>5, <2>6, CodedCopy
  <2>8. Copied(data, l, d) = SubSeq(raw, 1, i + l)
    BY <1>1, <1>2, <2>2, <2>4, CopiedIs
  <2>9. i + l <= Len(raw)
    BY <2>2 DEF Repeats
  <2>10. /\ w' = v /\ i' = i + l /\ pc' = "lab" /\ head' = Inserted(l).head /\ prev' = Inserted(l).prev
         /\ l \in Nat /\ Coded(v, SubSeq(raw, 1, i + l))
    BY <2>1, <2>2, <2>6, <2>7, <2>8
  <2> QED
    BY <1>7, <2>1, <2>7, <2>9, <2>10
<1>9. CASE LabLiteral
  <2>1. /\ pc = "lab" /\ i < Len(raw) /\ w' = PutSymbol(w, raw[i + 1]) /\ i' = i + 1 /\ pc' = pc
        /\ head' = Inserted(1).head /\ prev' = Inserted(1).prev
    BY <1>9 DEF LabLiteral, Advance
  <2>2. i + 1 <= Len(raw) /\ 1 \in Nat
    BY <1>3, <2>1
  <2>3. Append(SubSeq(raw, 1, i), raw[i + 1]) = SubSeq(raw, 1, i + 1) /\ raw[i + 1] \in 0..255
    BY <1>2, <1>3, <2>2, BeginningAndByte
  <2>4. PICK s \in 0..255, v \in {PutSymbol(w, raw[i + 1])} : s = raw[i + 1] /\ v = PutSymbol(w, s)
    BY <2>3
  <2>5. WriterOK(w) /\ Coded(w, SubSeq(raw, 1, i))
    BY <1>4, <2>1
  <2>6. WriterOK(v) /\ Coded(v, Append(SubSeq(raw, 1, i), s))
    BY <2>4, <2>5, CodedByte
  <2>7. w' = v /\ pc' = "lab" /\ Coded(v, SubSeq(raw, 1, i + 1))
    BY <2>1, <2>3, <2>4, <2>6
  <2> QED
    BY <1>7, <2>1, <2>2, <2>6, <2>7
<1>10. CASE LabEnd
  <2>1. /\ pc = "lab" /\ i = Len(raw) /\ w' = Flush(PutSymbol(w, 256))
        /\ i' = i /\ head' = head /\ prev' = prev
        /\ (pc' = "written" /\ file' = LabChunks(w'.out)) \/ (pc' = "failed" /\ file' = <<>>)
    BY <1>10 DEF LabEnd
  <2>2. SubSeq(raw, 1, i) = raw
    BY <1>2, <2>1, SubSeqFull DEF ByteStrings
  <2>3. WriterOK(w) /\ Coded(w, raw)
    BY <1>4, <2>1, <2>2
  <2>4. PICK z : z = Flush(PutSymbol(w, 256))
    OBVIOUS
  <2>5. z.out \in Seq(0..255) /\ StreamOf(z.out, raw)
    BY <2>3, <2>4, CodedEnd
  <2>6. PICK body \in ByteStrings : body = z.out
    BY <2>5 DEF ByteStrings
  <2>7. pc' = "written" => file' = ChunksOf(LabIhdr, body, raw)
    <3> SUFFICES ASSUME pc' = "written" PROVE file' = ChunksOf(LabIhdr, body, raw)
      OBVIOUS
    <3>1. "written" # "failed"
      OBVIOUS
    <3>2. file' = LabChunks(w'.out)
      BY <2>1, <3>1
    <3>3. file' = LabChunks(body)
      BY <2>1, <2>4, <2>6, <3>2
    <3> QED
      BY <3>3, Zenon DEF LabChunks, ChunksOf, StreamAndSum
  <2>8. LabIhdr' = LabIhdr
    BY <1>5 DEF LabIhdr
  <2>9. StreamOf(body, raw') /\ (pc' = "written" => file' = ChunksOf(LabIhdr', body, raw'))
    BY <1>5, <2>5, <2>6, <2>7, <2>8
  <2>10. Tables(raw', head', prev', i') /\ i' \in 0..Len(raw')
    BY <1>1, <1>5, <2>1
  <2>11. pc' \in {"lab", "written", "failed"} /\ pc' # "lab"
    BY <2>1
  <2> QED
    BY <1>6, <2>9, <2>10, <2>11 DEF LabIInv
<1>11. CASE UNCHANGED lab_vars
  <2>1. pc' = pc /\ i' = i /\ w' = w /\ file' = file /\ head' = head /\ prev' = prev
    BY <1>11 DEF lab_vars
  <2>2. LabIhdr' = LabIhdr
    BY <1>5 DEF LabIhdr
  <2> QED
    BY <1>5, <1>6, <2>1, <2>2 DEF LabIInv
<1> QED
  BY <1>8, <1>9, <1>10, <1>11 DEF LabPngNext

\* A sheet that write_png reports as written is a file a reader of PNG gets the canvas
\* from, with the alpha or without (png_writer.cpp:141-259).
THEOREM SheetsDecode == LabPngSpec => []FileDecodes
<1>1. LabIInv => FileDecodes
  <2> SUFFICES ASSUME LabIInv PROVE FileDecodes
    OBVIOUS
  <2>1. img \in Canvases /\ with_alpha \in BOOLEAN /\ raw = RawOf(img, channels) /\ pc # "done"
    BY DEF LabIInv
  <2>2. /\ IsImage(img) /\ channels \in 3..4 /\ (channels = 4 <=> with_alpha)
        /\ LabIhdr = HeaderOf(img.width, img.height, IF channels = 3 THEN 2 ELSE 6)
    BY <2>1, LabTypes
  <2> DEFINE pixels == [p \in DOMAIN img.rgba |->
                          IF with_alpha THEN img.rgba[p] ELSE [img.rgba[p] EXCEPT ![4] = 255]]
  <2>3. SUFFICES ASSUME pc = "written" PROVE DecodesTo(pixels)
    BY <2>1 DEF FileDecodes
  <2>4. PICK body \in ByteStrings : StreamOf(body, raw) /\ file = ChunksOf(LabIhdr, body, raw)
    BY <2>3 DEF LabIInv
  <2>5. PICK c \in 3..4, t \in Nat, header \in {LabIhdr} :
          c = channels /\ t = (IF c = 3 THEN 2 ELSE 6) /\ header = LabIhdr
    BY <2>2
  <2>6. BE32At(header, 1) = img.width /\ BE32At(header, 5) = img.height /\ header[10] = t
    <3>1. header = HeaderOf(img.width, img.height, t)
      BY <2>2, <2>5
    <3>2. img.width \in Nat /\ img.height \in Nat
      BY <2>2 DEF IsImage
    <3> QED
      BY <3>1, <3>2, HeaderIs
  <2>7. header[10] = 2 <=> c = 3
    BY <2>5, <2>6
  <2>8. c = IF header[10] = 2 THEN 3 ELSE 4
    BY <2>5, <2>7
  <2>9. Unpacked(header, raw) = PixelsOf(img, c)
    BY <2>1, <2>2, <2>5, <2>6, <2>8, RowsUnpacked
  <2>10. PixelsOf(img, c) = pixels
    <3>1. CASE with_alpha
      <4>1. c = 4 /\ (c = 3 => \A p \in DOMAIN img.rgba : img.rgba[p][4] = 255)
        BY <2>2, <2>5, <3>1
      <4>2. PixelsOf(img, c) = img.rgba
        BY <2>2, <4>1, PixelsWhole
      <4>3. img.rgba = [p \in DOMAIN img.rgba |-> img.rgba[p]]
        <5>1. img.rgba \in [1..Len(img.rgba) -> ByteStrings]
          BY <2>2, LenProperties DEF IsImage
        <5> QED
          BY <5>1
      <4> QED
        BY <3>1, <4>2, <4>3
    <3>2. CASE ~with_alpha
      <4>1. c = 3
        BY <2>2, <2>5, <3>2
      <4>2. PixelsOf(img, 3) = [p \in DOMAIN img.rgba |-> [img.rgba[p] EXCEPT ![4] = 255]]
        BY <2>2, PixelsOpaque
      <4> QED
        BY <3>2, <4>1, <4>2
    <3> QED
      BY <3>1, <3>2
  <2> HIDE DEF pixels
  <2> QED
    BY <2>4, <2>5, <2>9, <2>10, ChunksDecode
<1> QED
  BY <1>1, InitLabPng, StepLabPng, PTL DEF LabPngSpec

\* However often the ring has been round, the search finds the longest match among the
\* nearest positions with the same hash, and of the longest the nearest
\* (png_writer.cpp:156-178).
THEOREM SearchIsExact == LabPngSpec => []MatchIsNearest
<1>1. LabIInv => MatchIsNearest
  <2> SUFFICES ASSUME LabIInv, pc = "lab", i + 2 < Len(raw) PROVE MatchIsNearest
    BY DEF MatchIsNearest
  <2>1. raw = RawOf(img, channels) /\ i \in 0..Len(raw) /\ Tables(raw, head, prev, i) /\ raw \in ByteStrings
    BY LabTypes DEF LabIInv
  <2>2. Len(raw) \in Nat /\ i \in Nat /\ i <= Len(raw) /\ Window \in Nat \ {0} /\ MaxChain \in Nat
    BY <2>1, LenProperties, WindowIs DEF ByteStrings
  <2>3. Searching
    BY <2>1, <2>2 DEF Searching
  <2>4. PICK s, l, d, c : s = LabBest /\ l = s.len /\ d = s.dist /\ c = s.cand
    OBVIOUS
  <2>5. SearchOK(s, MaxChain)
    BY <2>3, <2>4, SearchEnds
  <2>6. /\ c \in Int /\ c >= -1 /\ l \in Nat /\ d \in Int /\ d < Window
        /\ l > 0 => Found(s)
        /\ \A p \in Behind(c) : Longest(p) <= l
        /\ s.stop => l = Limit
        /\ c >= 0 /\ ~s.stop /\ i - c <= Window - 1 => Cardinality(Behind(c)) = MaxChain
    BY <2>4, <2>5 DEF SearchOK
  <2>7. \A p \in SameHash : p \in Nat /\ Longest(p) \in Nat /\ Longest(p) <= Limit
    <3>1. \A p \in SameHash : p \in Nat
      BY <2>3, SameHashIs
    <3> QED
      BY <2>1, <2>2, <3>1, LongestIs
  <2>8. \A p : Behind(p) = {q \in SameHash : q > p}
    BY DEF Behind
  <2>9. Recent = {p \in SameHash : i - p < Window /\ Cardinality(Behind(p)) < MaxChain}
    BY <2>8, Zenon DEF Recent
  <2>10. ASSUME NEW p \in Recent PROVE Longest(p) <= l
    <3>1. p \in SameHash /\ p \in Nat /\ i - p < Window /\ Cardinality(Behind(p)) < MaxChain
      BY <2>7, <2>9
    <3>2. CASE p > c
      BY <2>6, <3>1, <3>2 DEF Behind
    <3>3. CASE s.stop
      BY <2>6, <2>7, <3>1, <3>3
    <3>4. CASE ~(p > c) /\ ~s.stop
      <4>1. c >= 0 /\ i - c <= Window - 1
        BY <2>2, <2>6, <3>1, <3>4
      <4>2. Cardinality(Behind(c)) = MaxChain
        BY <2>6, <3>4, <4>1
      <4>3. Behind(c) \subseteq Behind(p)
        <5>1. \A q \in SameHash : q > c => q > p
          BY <2>6, <2>7, <3>1, <3>4
        <5> QED
          BY <5>1 DEF Behind
      <4>4. IsFiniteSet(Behind(p))
        BY <2>3, SameHashIs, FS_Subset DEF Behind
      <4>5. Cardinality(Behind(c)) <= Cardinality(Behind(p))
        BY <4>3, <4>4, FS_Subset
      <4>6. Cardinality(Behind(p)) \in Nat
        BY <4>4, FS_CardinalityType
      <4> QED
        BY <2>2, <3>1, <4>2, <4>5, <4>6
    <3> QED
      BY <3>2, <3>3, <3>4
  <2>11. ASSUME l > 0
         PROVE  /\ i - d \in Recent /\ Longest(i - d) = l
                /\ \A p \in Recent : p > i - d => Longest(p) < l
    <3>1. /\ d > 0 /\ i - d \in SameHash /\ Longest(i - d) = l
          /\ Cardinality(Behind(i - d)) < MaxChain
          /\ \A p \in Behind(i - d) : Longest(p) < l
      BY <2>4, <2>6, <2>11 DEF Found
    <3>2. i - (i - d) < Window
      BY <2>2, <2>6
    <3>3. i - d \in Recent
      BY <2>9, <3>1, <3>2
    <3>4. \A p \in Recent : p > i - d => p \in Behind(i - d)
      BY <2>9 DEF Behind
    <3> QED
      BY <3>1, <3>3, <3>4
  <2> QED
    BY <2>4, <2>6, <2>10, <2>11 DEF MatchIsNearest
<1> QED
  BY <1>1, InitLabPng, StepLabPng, PTL DEF LabPngSpec

-----------------------------------------------------------------------------
(* The encoder of bmp.cpp *)

\* A piece of a file, behind its first p bytes.
PieceAt(s, p, t) == \A j \in 1..Len(t) : s[p + j] = t[j]

Extended(s, t, u) ==
  /\ u \in Seq(Nat) /\ Len(u) = Len(s) + Len(t)
  /\ PieceAt(u, Len(s), t)
  /\ \A j \in 1..Len(s) : u[j] = s[j]

LEMMA PieceAdded ==
  ASSUME NEW s \in Seq(Nat), NEW t \in Seq(Nat)
  PROVE  Extended(s, t, s \o t)
<1>1. Len(s) \in Nat /\ Len(t) \in Nat
  BY LenProperties
<1>2. /\ s \o t \in Seq(Nat) /\ Len(s \o t) = Len(s) + Len(t)
      /\ \A j \in 1..(Len(s) + Len(t)) : (s \o t)[j] = IF j <= Len(s) THEN s[j] ELSE t[j - Len(s)]
  BY ConcatProperties
<1>3. ASSUME NEW j \in 1..Len(t) PROVE (s \o t)[Len(s) + j] = t[j]
  <2>1. Len(s) + j \in 1..(Len(s) + Len(t)) /\ ~(Len(s) + j <= Len(s)) /\ (Len(s) + j) - Len(s) = j
    BY <1>1
  <2> QED
    BY <1>2, <2>1
<1>4. ASSUME NEW j \in 1..Len(s) PROVE (s \o t)[j] = s[j]
  <2>1. j \in 1..(Len(s) + Len(t)) /\ j <= Len(s)
    BY <1>1
  <2> QED
    BY <1>2, <2>1
<1> QED
  BY <1>2, <1>3, <1>4 DEF Extended, PieceAt

LEMMA PieceKept ==
  ASSUME NEW s \in Seq(Nat), NEW t \in Seq(Nat), NEW u, Extended(s, t, u),
         NEW v \in Seq(Nat), NEW p \in Nat, p + Len(v) <= Len(s), PieceAt(s, p, v)
  PROVE  PieceAt(u, p, v)
<1> SUFFICES ASSUME NEW j \in 1..Len(v) PROVE u[p + j] = v[j]
  BY DEF PieceAt
<1>1. Len(s) \in Nat /\ Len(v) \in Nat
  BY LenProperties
<1>2. p + j \in 1..Len(s)
  BY <1>1
<1> QED
  BY <1>2 DEF PieceAt, Extended

\* What fits in 32 bits.
IsWord(x) == x \in Nat /\ x \div 65536 < 65536
IsShort(x) == x \in Nat /\ x < 65536

LEMMA LittleShort ==
  ASSUME NEW x \in Nat, IsShort(x)
  PROVE  /\ PutLE16(x) \in Seq(Nat) /\ Len(PutLE16(x)) = 2
         /\ PutLE16(x)[1] + 256 * PutLE16(x)[2] = x
<1>1. x % 256 \in Nat /\ (x \div 256) % 256 = x \div 256 /\ x \div 256 \in Nat
      /\ x = 256 * (x \div 256) + (x % 256)
  BY DEF IsShort
<1>2. PICK p \in Nat, q \in Nat : p = x % 256 /\ q = (x \div 256) % 256
  BY <1>1
<1>3. PutLE16(x) = <<p, q>> /\ x = p + 256 * q
  <2>1. PutLE16(x) = <<p, q>>
    BY <1>2 DEF PutLE16
  <2>2. x = p + 256 * q
    BY <1>1, <1>2
  <2> QED
    BY <2>1, <2>2
<1>4. <<p, q>> \in Seq(Nat) /\ Len(<<p, q>>) = 2 /\ <<p, q>>[1] = p /\ <<p, q>>[2] = q
  OBVIOUS
<1> QED
  BY <1>3, <1>4

LEMMA LittleEndian ==
  ASSUME NEW x, IsWord(x)
  PROVE  /\ PutLE32(x) \in Seq(Nat) /\ Len(PutLE32(x)) = 4
         /\ LE32At(PutLE32(x), 0) = x
<1>1. PICK p \in Nat, q \in Nat : p = x % 65536 /\ q = x \div 65536
  BY DEF IsWord
<1>2. IsShort(p) /\ IsShort(q) /\ x = p + 65536 * q
  BY <1>1 DEF IsWord, IsShort
<1>3. PICK s, t : s = PutLE16(p) /\ t = PutLE16(q)
  OBVIOUS
<1>4. /\ s \in Seq(Nat) /\ Len(s) = 2 /\ s[1] + 256 * s[2] = p
      /\ t \in Seq(Nat) /\ Len(t) = 2 /\ t[1] + 256 * t[2] = q
  BY <1>2, <1>3, LittleShort
<1>5. PutLE32(x) = s \o t
  BY <1>1, <1>3 DEF PutLE32
<1>6. PICK u : u = s \o t
  OBVIOUS
<1>7. u \in Seq(Nat) /\ Len(u) = 4
      /\ u[1] = s[1] /\ u[2] = s[2] /\ u[3] = t[1] /\ u[4] = t[2]
  <2>1. Extended(s, t, u)
    BY <1>4, <1>6, PieceAdded
  <2>2. 1 \in 1..2 /\ 2 \in 1..2 /\ 2 + 1 = 3 /\ 2 + 2 = 4
    OBVIOUS
  <2> QED
    BY <1>4, <2>1, <2>2 DEF Extended, PieceAt
<1>8. LE32At(u, 0) = u[1] + 256 * u[2] + 65536 * (u[3] + 256 * u[4])
  BY DEF LE32At
<1>9. PICK y1 \in Nat, y2 \in Nat : y1 = s[1] + 256 * s[2] /\ y2 = t[1] + 256 * t[2]
  BY <1>4
<1>10. y1 = p /\ y2 = q
  BY <1>4, <1>9
<1>11. LE32At(u, 0) = y1 + 65536 * y2
  BY <1>7, <1>8, <1>9
<1>12. LE32At(u, 0) = x
  BY <1>2, <1>10, <1>11
<1>13. PutLE32(x) = u
  BY <1>5, <1>6
<1> QED
  BY <1>7, <1>12, <1>13

LEMMA PieceRead ==
  ASSUME NEW s, NEW p \in Nat, NEW x, IsWord(x), PieceAt(s, p, PutLE32(x))
  PROVE  LE32At(s, p) = x
<1>1. PICK t : t = PutLE32(x)
  OBVIOUS
<1>2. Len(t) = 4 /\ LE32At(t, 0) = x
  BY <1>1, LittleEndian
<1>3. s[p + 1] = t[1] /\ s[p + 2] = t[2] /\ s[p + 3] = t[3] /\ s[p + 4] = t[4]
  BY <1>1, <1>2 DEF PieceAt
<1>4. 0 + 1 = 1 /\ 0 + 2 = 2 /\ 0 + 3 = 3 /\ 0 + 4 = 4
  OBVIOUS
<1> QED
  BY <1>2, <1>3, <1>4 DEF LE32At

HeaderBytes(z, l, h, d, v) ==
  <<66, 77>> \o PutLE32(z) \o PutLE16(0) \o PutLE16(0) \o PutLE32(54)
    \o PutLE32(40) \o PutLE32(l) \o PutLE32(h)
    \o PutLE16(1) \o PutLE16(24) \o PutLE32(0) \o PutLE32(d)
    \o PutLE32(v) \o PutLE32(v) \o PutLE32(0) \o PutLE32(0)

\* What a reader takes from the first 54 bytes.
HeaderRead(s, z, l, h, d) ==
  /\ LE32At(s, 2) = z /\ LE32At(s, 10) = 54 /\ LE32At(s, 18) = l /\ LE32At(s, 22) = h
  /\ LE32At(s, 34) = d /\ s[29] = 24

\* A sequence of c numbers with known pieces in it.
Fields(s, c, F) ==
  /\ s \in Seq(Nat) /\ Len(s) = c
  /\ \A f \in F : f[1] \in Nat /\ f[2] \in Seq(Nat) /\ f[1] + Len(f[2]) <= c /\ PieceAt(s, f[1], f[2])

LEMMA FieldAdded ==
  ASSUME NEW s, NEW c \in Nat, NEW F, Fields(s, c, F), NEW q \in Nat,
         NEW t \in Seq(Nat), Len(t) = q, NEW m, m = c + q
  PROVE  /\ Fields(s \o t, m, F)
         /\ Fields(s \o t, m, F \cup {<<c, t>>})
<1>1. s \in Seq(Nat) /\ Len(s) = c
  BY DEF Fields
<1>2. PICK u : u = s \o t
  OBVIOUS
<1>3. Extended(s, t, u)
  BY <1>1, <1>2, PieceAdded
<1>4. u \in Seq(Nat) /\ Len(u) = m /\ PieceAt(u, c, t)
  BY <1>1, <1>3 DEF Extended
<1>5. ASSUME NEW f \in F
      PROVE  f[1] \in Nat /\ f[2] \in Seq(Nat) /\ f[1] + Len(f[2]) <= m /\ PieceAt(u, f[1], f[2])
  <2>1. PICK p, v : p = f[1] /\ v = f[2]
    OBVIOUS
  <2>2. p \in Nat /\ v \in Seq(Nat) /\ p + Len(v) <= c /\ PieceAt(s, p, v)
    BY <2>1 DEF Fields
  <2>3. PieceAt(u, p, v)
    BY <1>1, <1>3, <2>2, PieceKept
  <2>4. Len(v) \in Nat
    BY <2>2, LenProperties
  <2> QED
    BY <2>1, <2>2, <2>3, <2>4
<1>6. ASSUME NEW f \in {<<c, t>>}
      PROVE  f[1] \in Nat /\ f[2] \in Seq(Nat) /\ f[1] + Len(f[2]) <= m /\ PieceAt(u, f[1], f[2])
  <2>1. f[1] = c /\ f[2] = t
    OBVIOUS
  <2> QED
    BY <1>4, <2>1
<1> QED
  BY <1>2, <1>4, <1>5, <1>6 DEF Fields

LEMMA Field32 ==
  ASSUME NEW s, NEW c \in Nat, NEW F, Fields(s, c, F), NEW x, IsWord(x)
  PROVE  /\ Fields(s \o PutLE32(x), c + 4, F)
         /\ Fields(s \o PutLE32(x), c + 4, F \cup {<<c, PutLE32(x)>>})
<1>1. PICK t : t = PutLE32(x)
  OBVIOUS
<1>2. t \in Seq(Nat) /\ Len(t) = 4
  BY <1>1, LittleEndian
<1>3. 4 \in Nat /\ c + 4 = c + 4
  OBVIOUS
<1> QED
  BY <1>1, <1>2, <1>3, FieldAdded

LEMMA Field16 ==
  ASSUME NEW s, NEW c \in Nat, NEW F, Fields(s, c, F), NEW x, IsShort(x)
  PROVE  /\ Fields(s \o PutLE16(x), c + 2, F)
         /\ Fields(s \o PutLE16(x), c + 2, F \cup {<<c, PutLE16(x)>>})
<1>1. PICK t : t = PutLE16(x)
  OBVIOUS
<1>2. t \in Seq(Nat) /\ Len(t) = 2
  BY <1>1, LittleShort DEF IsShort
<1>3. 2 \in Nat /\ c + 2 = c + 2
  OBVIOUS
<1> QED
  BY <1>1, <1>2, <1>3, FieldAdded

LEMMA HeaderBytesRead ==
  ASSUME NEW z, NEW l, NEW h, NEW d, NEW v, NEW header,
         IsWord(z), IsWord(l), IsWord(h), IsWord(d), IsWord(v), header = HeaderBytes(z, l, h, d, v)
  PROVE  header \in Seq(Nat) /\ Len(header) = 54 /\ HeaderRead(header, z, l, h, d)
<1>1. IsWord(54) /\ IsWord(40) /\ IsWord(0) /\ IsShort(0) /\ IsShort(1) /\ IsShort(24)
  BY DEF IsWord, IsShort
<1>2. IsWord(z) /\ IsWord(l) /\ IsWord(h) /\ IsWord(d) /\ IsWord(v)
  OBVIOUS
<1>3. Len(PutLE16(24)) = 2
  BY <1>1, LittleShort DEF IsShort
<1>4. PutLE16(24)[1] = 24
  <2>1. 24 % 256 = 24
    OBVIOUS
  <2> QED
    BY <2>1 DEF PutLE16
<1>5. PICK s1 : s1 = <<66, 77>> /\ Fields(s1, 2, {})
  <2>1. <<66, 77>> \in Seq(Nat) /\ Len(<<66, 77>>) = 2
    OBVIOUS
  <2> QED
    BY <2>1 DEF Fields
<1>6. PICK f1 : f1 = {} \cup {<<2, PutLE32(z)>>}
  OBVIOUS
<1>7. PICK s2 : s2 = s1 \o PutLE32(z) /\ Fields(s2, 6, f1)
  <2>1. 2 \in Nat /\ 2 + 4 = 6
    OBVIOUS
  <2>2. Fields(s1 \o PutLE32(z), 2 + 4, {} \cup {<<2, PutLE32(z)>>})
    BY <1>1, <1>2, <1>5, <2>1, Field32
  <2> QED
    BY <1>6, <2>1, <2>2
<1>8. PICK s3 : s3 = s2 \o PutLE16(0) /\ Fields(s3, 8, f1)
  <2>1. 6 \in Nat /\ 6 + 2 = 8
    OBVIOUS
  <2> QED
    BY <1>1, <1>2, <1>7, <2>1, Field16
<1>9. PICK s4 : s4 = s3 \o PutLE16(0) /\ Fields(s4, 10, f1)
  <2>1. 8 \in Nat /\ 8 + 2 = 10
    OBVIOUS
  <2> QED
    BY <1>1, <1>2, <1>8, <2>1, Field16
<1>10. PICK f2 : f2 = f1 \cup {<<10, PutLE32(54)>>}
  OBVIOUS
<1>11. PICK s5 : s5 = s4 \o PutLE32(54) /\ Fields(s5, 14, f2)
  <2>1. 10 \in Nat /\ 10 + 4 = 14
    OBVIOUS
  <2>2. Fields(s4 \o PutLE32(54), 10 + 4, f1 \cup {<<10, PutLE32(54)>>})
    BY <1>1, <1>2, <1>9, <2>1, Field32
  <2> QED
    BY <1>10, <2>1, <2>2
<1>12. PICK s6 : s6 = s5 \o PutLE32(40) /\ Fields(s6, 18, f2)
  <2>1. 14 \in Nat /\ 14 + 4 = 18
    OBVIOUS
  <2> QED
    BY <1>1, <1>2, <1>11, <2>1, Field32
<1>13. PICK f3 : f3 = f2 \cup {<<18, PutLE32(l)>>}
  OBVIOUS
<1>14. PICK s7 : s7 = s6 \o PutLE32(l) /\ Fields(s7, 22, f3)
  <2>1. 18 \in Nat /\ 18 + 4 = 22
    OBVIOUS
  <2>2. Fields(s6 \o PutLE32(l), 18 + 4, f2 \cup {<<18, PutLE32(l)>>})
    BY <1>1, <1>2, <1>12, <2>1, Field32
  <2> QED
    BY <1>13, <2>1, <2>2
<1>15. PICK f4 : f4 = f3 \cup {<<22, PutLE32(h)>>}
  OBVIOUS
<1>16. PICK s8 : s8 = s7 \o PutLE32(h) /\ Fields(s8, 26, f4)
  <2>1. 22 \in Nat /\ 22 + 4 = 26
    OBVIOUS
  <2>2. Fields(s7 \o PutLE32(h), 22 + 4, f3 \cup {<<22, PutLE32(h)>>})
    BY <1>1, <1>2, <1>14, <2>1, Field32
  <2> QED
    BY <1>15, <2>1, <2>2
<1>17. PICK s9 : s9 = s8 \o PutLE16(1) /\ Fields(s9, 28, f4)
  <2>1. 26 \in Nat /\ 26 + 2 = 28
    OBVIOUS
  <2> QED
    BY <1>1, <1>2, <1>16, <2>1, Field16
<1>18. PICK f5 : f5 = f4 \cup {<<28, PutLE16(24)>>}
  OBVIOUS
<1>19. PICK s10 : s10 = s9 \o PutLE16(24) /\ Fields(s10, 30, f5)
  <2>1. 28 \in Nat /\ 28 + 2 = 30
    OBVIOUS
  <2>2. Fields(s9 \o PutLE16(24), 28 + 2, f4 \cup {<<28, PutLE16(24)>>})
    BY <1>1, <1>2, <1>17, <2>1, Field16
  <2> QED
    BY <1>18, <2>1, <2>2
<1>20. PICK s11 : s11 = s10 \o PutLE32(0) /\ Fields(s11, 34, f5)
  <2>1. 30 \in Nat /\ 30 + 4 = 34
    OBVIOUS
  <2> QED
    BY <1>1, <1>2, <1>19, <2>1, Field32
<1>21. PICK f6 : f6 = f5 \cup {<<34, PutLE32(d)>>}
  OBVIOUS
<1>22. PICK s12 : s12 = s11 \o PutLE32(d) /\ Fields(s12, 38, f6)
  <2>1. 34 \in Nat /\ 34 + 4 = 38
    OBVIOUS
  <2>2. Fields(s11 \o PutLE32(d), 34 + 4, f5 \cup {<<34, PutLE32(d)>>})
    BY <1>1, <1>2, <1>20, <2>1, Field32
  <2> QED
    BY <1>21, <2>1, <2>2
<1>23. PICK s13 : s13 = s12 \o PutLE32(v) /\ Fields(s13, 42, f6)
  <2>1. 38 \in Nat /\ 38 + 4 = 42
    OBVIOUS
  <2> QED
    BY <1>1, <1>2, <1>22, <2>1, Field32
<1>24. PICK s14 : s14 = s13 \o PutLE32(v) /\ Fields(s14, 46, f6)
  <2>1. 42 \in Nat /\ 42 + 4 = 46
    OBVIOUS
  <2> QED
    BY <1>1, <1>2, <1>23, <2>1, Field32
<1>25. PICK s15 : s15 = s14 \o PutLE32(0) /\ Fields(s15, 50, f6)
  <2>1. 46 \in Nat /\ 46 + 4 = 50
    OBVIOUS
  <2> QED
    BY <1>1, <1>2, <1>24, <2>1, Field32
<1>26. PICK s16 : s16 = s15 \o PutLE32(0) /\ Fields(s16, 54, f6)
  <2>1. 50 \in Nat /\ 50 + 4 = 54
    OBVIOUS
  <2> QED
    BY <1>1, <1>2, <1>25, <2>1, Field32
<1>27. header = s16
  BY <1>5, <1>7, <1>8, <1>9, <1>11, <1>12, <1>14, <1>16, <1>17, <1>19, <1>20, <1>22, <1>23, <1>24, <1>25, <1>26 DEF HeaderBytes
<1>28. {<<2, PutLE32(z)>>, <<10, PutLE32(54)>>, <<18, PutLE32(l)>>, <<22, PutLE32(h)>>, <<28, PutLE16(24)>>, <<34, PutLE32(d)>>} \subseteq f6
  BY <1>6, <1>10, <1>13, <1>15, <1>18, <1>21
<1>29. ASSUME NEW p, NEW t, <<p, t>> \in f6 PROVE PieceAt(s16, p, t)
  <2>1. <<p, t>>[1] = p /\ <<p, t>>[2] = t
    OBVIOUS
  <2> QED
    BY <1>26, <1>29, <2>1 DEF Fields
<1>30. PieceAt(s16, 2, PutLE32(z)) /\ PieceAt(s16, 10, PutLE32(54)) /\ PieceAt(s16, 18, PutLE32(l)) /\ PieceAt(s16, 22, PutLE32(h)) /\ PieceAt(s16, 28, PutLE16(24)) /\ PieceAt(s16, 34, PutLE32(d))
  BY <1>28, <1>29
<1>31. /\ LE32At(s16, 2) = z /\ LE32At(s16, 10) = 54 /\ LE32At(s16, 18) = l
      /\ LE32At(s16, 22) = h /\ LE32At(s16, 34) = d
  <2>1. 2 \in Nat /\ 10 \in Nat /\ 18 \in Nat /\ 22 \in Nat /\ 34 \in Nat
    OBVIOUS
  <2> QED
    BY <1>1, <1>30, <2>1, PieceRead
<1>32. s16[29] = 24
  <2>1. 28 + 1 = 29 /\ 1 \in 1..2
    OBVIOUS
  <2> QED
    BY <1>3, <1>4, <1>30, <2>1 DEF PieceAt
<1> QED
  BY <1>26, <1>27, <1>31, <1>32 DEF HeaderRead, Fields

LEMMA HeaderKept ==
  ASSUME NEW z, NEW l, NEW h, NEW d, NEW header, NEW s, HeaderRead(header, z, l, h, d),
         \A j \in 1..54 : s[j] = header[j]
  PROVE  HeaderRead(s, z, l, h, d)
<1>1. ASSUME NEW p \in {2, 10, 18, 22, 34} PROVE LE32At(s, p) = LE32At(header, p)
  <2>1. p + 1 \in 1..54 /\ p + 2 \in 1..54 /\ p + 3 \in 1..54 /\ p + 4 \in 1..54
    OBVIOUS
  <2>2. s[p + 1] = header[p + 1] /\ s[p + 2] = header[p + 2] /\ s[p + 3] = header[p + 3]
        /\ s[p + 4] = header[p + 4]
    BY <2>1
  <2> QED
    BY <2>2 DEF LE32At
<1>2. s[29] = header[29]
  OBVIOUS
<1> QED
  BY <1>1, <1>2, Zenon DEF HeaderRead

\* The value nearest to what is weighed.
Nearest255(f, v, e, m) ==
  f \in 0..255 /\ 2 * (255 * f - (e * v + (255 - e) * m)) \in -255..255

LEMMA FlattenNearest ==
  ASSUME NEW v \in 0..255, NEW e \in 0..255, NEW m \in 0..255
  PROVE  Nearest255(Flatten(v, e, m), v, e, m)
<1>1. PICK x \in Nat, y \in Nat : x = e * v /\ y = (255 - e) * m
  <2>1. 255 - e \in Nat
    OBVIOUS
  <2> QED
    BY <2>1
<1>2. x <= e * 255 /\ y <= (255 - e) * 255
  <2>1. PICK c \in Nat, o \in Nat : v + c = 255 /\ m + o = 255
    <3>1. 255 - v \in Nat /\ 255 - m \in Nat /\ v + (255 - v) = 255 /\ m + (255 - m) = 255
      OBVIOUS
    <3> QED
      BY <3>1
  <2>2. PICK q \in Nat : q = 255 - e
    OBVIOUS
  <2>3. e * (v + c) = e * v + e * c /\ e * c \in Nat /\ q * (m + o) = q * m + q * o /\ q * o \in Nat
    BY <2>2
  <2> QED
    BY <1>1, <2>1, <2>2, <2>3
<1>3. x + y <= 65025
  BY <1>2
<1>4. PICK f \in Nat : f = (x + y + 127) \div 255
  BY <1>1
<1>5. 255 * f <= x + y + 127 /\ x + y + 127 < 255 * f + 255
  BY <1>4
<1>6. Flatten(v, e, m) = f
  BY <1>1, <1>4 DEF Flatten
<1>7. f \in 0..255
  BY <1>3, <1>5
<1> QED
  BY <1>1, <1>5, <1>6, <1>7 DEF Nearest255

LEMMA PaddedRow ==
  ASSUME NEW l \in Nat
  PROVE  /\ RowSize(l) \in Nat /\ 3 * l <= RowSize(l) /\ RowSize(l) <= 3 * l + 3
         /\ ((l * 24 + 31) \div 32) * 4 = RowSize(l)
<1>1. PICK q \in Nat : q = (3 * l + 3) \div 4
  OBVIOUS
<1>2. 4 * q <= 3 * l + 3 /\ 3 * l + 3 < 4 * q + 4
  BY <1>1
<1>3. (l * 24 + 31) \div 32 = q
  BY <1>2
<1>4. RowSize(l) = 4 * q
  BY <1>1 DEF RowSize
<1>5. ((l * 24 + 31) \div 32) * 4 = q * 4
  BY <1>3
<1> QED
  BY <1>2, <1>4, <1>5

\* A whole row fits before the end of as many rows as there are.
LEMMA RowFits ==
  ASSUME NEW x \in Nat, NEW y \in Nat, NEW r \in Nat, x < y
  PROVE  x * r + r <= y * r /\ x * r \in Nat
<1>1. PICK e \in Nat : y = x + 1 + e
  <2>1. y - x - 1 \in Nat /\ y = x + 1 + (y - x - 1)
    OBVIOUS
  <2> QED
    BY <2>1
<1>2. (x + 1 + e) * r = x * r + r + e * r /\ e * r \in Nat /\ x * r \in Nat
  OBVIOUS
<1> QED
  BY <1>1, <1>2

\* The bytes of a row of pixels, and what they are.
FlatPixel(g, p) == [c \in 1..3 |-> Flatten(p[4 - c], p[4], g.matte[4 - c])]
FlatRow(g, row) ==
  FlattenSeq([x \in 1..g.img.width |-> FlatPixel(g, g.img.rgba[row * g.img.width + x])])

Flat(g, x, row, c) ==
  LET p == g.img.rgba[row * g.img.width + x + 1] IN Flatten(p[c], p[4], g.matte[c])

\* How near a value is to the one that is weighed by the alpha.
NearFlat(g, x, row, c, f) ==
  LET p == g.img.rgba[row * g.img.width + x + 1]
  IN  2 * (255 * f - (p[4] * p[c] + (255 - p[4]) * g.matte[c])) \in -255..255

IsJob(g) ==
  IsImage(g.img) /\ g.matte \in [1..3 -> 0..255] /\ g.img.width \in Sides /\ g.img.height \in Sides

LEMMA FlatIs ==
  ASSUME NEW g, IsJob(g), NEW x \in 0..(g.img.width - 1), NEW row \in 0..(g.img.height - 1),
         NEW c \in 1..3
  PROVE  Flat(g, x, row, c) \in 0..255 /\ NearFlat(g, x, row, c, Flat(g, x, row, c))
<1>1. PICK image : image = g.img
  OBVIOUS
<1>2. IsImage(image) /\ image.width \in Nat \ {0} /\ image.height \in Nat \ {0}
  BY <1>1 DEF IsJob, IsImage
<1>3. row * image.width + (x + 1) \in 1..(image.width * image.height)
  <2>1. PICK l \in Nat, h \in Nat : l = image.width /\ h = image.height
    BY <1>2
  <2>2. row \in Nat /\ row < h /\ x + 1 \in Nat /\ x + 1 <= l /\ 1 <= x + 1
    BY <1>1, <1>2, <2>1
  <2>3. row * l + l <= h * l /\ row * l \in Nat /\ h * l = l * h
    BY <2>1, <2>2, RowFits
  <2> QED
    BY <2>1, <2>2, <2>3
<1>4. PICK e \in 1..(image.width * image.height) : e = row * image.width + (x + 1)
  BY <1>3
<1>5. row * image.width + x + 1 = e
  BY <1>1, <1>2, <1>4
<1>6. PICK p : p = image.rgba[e]
  OBVIOUS
<1>7. p \in ByteStrings /\ Len(p) = 4
  BY <1>2, <1>6, PixelIs
<1>8. p[c] \in 0..255 /\ p[4] \in 0..255
  <2>1. c \in 1..4 /\ 4 \in 1..4
    OBVIOUS
  <2> QED
    BY <1>7, <2>1, ElementOfSeq DEF ByteStrings
<1>9. g.matte[c] \in 0..255
  BY DEF IsJob
<1>10. Flat(g, x, row, c) = Flatten(p[c], p[4], g.matte[c])
  BY <1>1, <1>5, <1>6 DEF Flat
<1>11. PICK v \in 0..255, u \in 0..255, m \in 0..255 : v = p[c] /\ u = p[4] /\ m = g.matte[c]
  BY <1>8, <1>9
<1>12. PICK f : f = Flatten(v, u, m)
  OBVIOUS
<1>13. f \in 0..255 /\ 2 * (255 * f - (u * v + (255 - u) * m)) \in -255..255
  <2>1. Nearest255(f, v, u, m)
    BY <1>12, FlattenNearest
  <2> QED
    BY <2>1 DEF Nearest255
<1>14. Flat(g, x, row, c) = f
  BY <1>10, <1>11, <1>12
<1>15. g.img.rgba[row * g.img.width + x + 1] = p
  BY <1>1, <1>5, <1>6
<1> QED
  BY <1>11, <1>13, <1>14, <1>15 DEF NearFlat

LEMMA FlatRowIs ==
  ASSUME NEW g, IsJob(g), NEW row \in 0..(g.img.height - 1)
  PROVE  /\ FlatRow(g, row) \in Seq(Nat) /\ Len(FlatRow(g, row)) = 3 * g.img.width
         /\ \A x \in 0..(g.img.width - 1), c \in 1..3 :
              FlatRow(g, row)[3 * x + (4 - c)] = Flat(g, x, row, c)
<1>1. PICK l \in Nat, h \in Nat : l = g.img.width /\ h = g.img.height
  BY DEF IsJob, IsImage
<1>2. PICK pieces : pieces = [x \in 1..l |-> FlatPixel(g, g.img.rgba[row * g.img.width + x])]
  OBVIOUS
<1>3. FlatRow(g, row) = FlattenSeq(pieces)
  BY <1>1, <1>2, Zenon DEF FlatRow
<1>4. ASSUME NEW x \in 0..(l - 1)
      PROVE  /\ pieces[x + 1] \in Seq(Nat) /\ Len(pieces[x + 1]) = 3
             /\ \A c \in 1..3 : pieces[x + 1][4 - c] = Flat(g, x, row, c)
  <2>1. x + 1 \in 1..l
    OBVIOUS
  <2>2. PICK q, p : q = FlatPixel(g, p) /\ p = g.img.rgba[row * g.img.width + (x + 1)]
    OBVIOUS
  <2>3. pieces[x + 1] = q
    BY <1>2, <2>1, <2>2
  <2>4. row * g.img.width + (x + 1) = row * g.img.width + x + 1
    <3>1. PICK m \in Nat : m = row * g.img.width
      BY <1>1
    <3> QED
      BY <3>1
  <2>5. \A c \in 1..3 : Flat(g, x, row, c) = Flatten(p[c], p[4], g.matte[c])
    BY <2>2, <2>4 DEF Flat
  <2>6. \A c \in 1..3 : Flat(g, x, row, c) \in 0..255
    BY <1>1, FlatIs
  <2>7. ASSUME NEW c \in 1..3 PROVE q[4 - c] = Flat(g, x, row, c) /\ q[c] \in Nat
    <3>1. 4 - c \in 1..3 /\ 4 - (4 - c) = c
      OBVIOUS
    <3>2. q[4 - c] = Flatten(p[c], p[4], g.matte[c])
      BY <2>2, <3>1 DEF FlatPixel
    <3>3. q[c] = Flatten(p[4 - c], p[4], g.matte[4 - c])
      BY <2>2 DEF FlatPixel
    <3>4. q[c] = Flat(g, x, row, 4 - c) /\ Flat(g, x, row, 4 - c) \in 0..255
      BY <2>5, <2>6, <3>1, <3>3
    <3> QED
      BY <2>5, <3>2, <3>4
  <2>8. q \in [1..3 -> Nat]
    <3>1. q = [c \in 1..3 |-> q[c]]
      BY <2>2 DEF FlatPixel
    <3> QED
      BY <2>7, <3>1
  <2>9. q \in Seq(Nat) /\ Len(q) = 3
    <3>1. PICK d \in Nat : d = 3
      OBVIOUS
    <3>2. q \in [1..d -> Nat]
      BY <2>8, <3>1
    <3>3. q \in Seq(Nat) /\ Len(q) = d
      BY <3>2, SeqDef, LenProperties
    <3> QED
      BY <3>1, <3>3
  <2> QED
    BY <2>3, <2>7, <2>9
<1>5. pieces \in Seq(Seq(Nat)) /\ Len(pieces) = l /\ \A j \in 1..l : Len(pieces[j]) = 3
  <2>1. ASSUME NEW j \in 1..l PROVE pieces[j] \in Seq(Nat) /\ Len(pieces[j]) = 3
    <3>1. j - 1 \in 0..(l - 1) /\ (j - 1) + 1 = j
      OBVIOUS
    <3> QED
      BY <1>4, <3>1
  <2>2. pieces \in [1..l -> Seq(Nat)]
    <3>1. pieces = [x \in 1..l |-> pieces[x]]
      BY <1>2
    <3> QED
      BY <2>1, <3>1
  <2> QED
    BY <2>1, <2>2, SeqDef, LenProperties
<1>6. /\ FlattenSeq(pieces) \in Seq(Nat) /\ Len(FlattenSeq(pieces)) = l * 3
      /\ \A j \in 1..l, e \in 1..3 : FlattenSeq(pieces)[(j - 1) * 3 + e] = pieces[j][e]
  <2>1. PICK d \in Nat : d = 3
    OBVIOUS
  <2>2. \A j \in 1..Len(pieces) : Len(pieces[j]) = d
    BY <1>5, <2>1
  <2>3. pieces \in Seq(Seq(Nat))
    BY <1>5
  <2>4. /\ FlattenSeq(pieces) \in Seq(Nat) /\ Len(FlattenSeq(pieces)) = Len(pieces) * d
        /\ \A j \in 1..Len(pieces), e \in 1..d :
             FlattenSeq(pieces)[(j - 1) * d + e] = pieces[j][e]
    BY <2>2, <2>3, FlattenEqual
  <2> QED
    BY <1>5, <2>1, <2>4
<1>7. ASSUME NEW x \in 0..(l - 1), NEW c \in 1..3
      PROVE  FlattenSeq(pieces)[3 * x + (4 - c)] = Flat(g, x, row, c)
  <2>1. x + 1 \in 1..l /\ 4 - c \in 1..3 /\ ((x + 1) - 1) * 3 + (4 - c) = 3 * x + (4 - c)
    OBVIOUS
  <2>2. FlattenSeq(pieces)[((x + 1) - 1) * 3 + (4 - c)] = pieces[x + 1][4 - c]
    BY <1>6, <2>1
  <2> QED
    BY <1>4, <2>1, <2>2
<1> QED
  BY <1>1, <1>3, <1>6, <1>7

\* The header, and the rows from the last one up to the one before left.
RowsWritten(s, g, left) ==
  /\ s \in Seq(Nat) /\ Len(s) = 54 + (g.img.height - left) * RowSize(g.img.width)
  /\ \A j \in 1..54 : s[j] = BmpHeader(g.img)[j]
  /\ \A row \in left..(g.img.height - 1), x \in 0..(g.img.width - 1), c \in 1..3 :
       s[54 + (g.img.height - 1 - row) * RowSize(g.img.width) + (3 * x + (4 - c))]
         = Flat(g, x, row, c)

LEMMA RowAdded ==
  ASSUME NEW s, NEW g, IsJob(g), NEW left \in 1..g.img.height, RowsWritten(s, g, left),
         NEW pad, pad = [q \in 1..(RowSize(g.img.width) - 3 * g.img.width) |-> 0]
  PROVE  RowsWritten(s \o FlatRow(g, left - 1) \o pad, g, left - 1)
<1>1. PICK l \in Nat, h \in Nat, r \in Nat, o \in Nat :
        l = g.img.width /\ h = g.img.height /\ r = RowSize(g.img.width) /\ o = left - 1
  <2>1. PICK l \in Nat, h \in Nat : l = g.img.width /\ h = g.img.height
    BY DEF IsJob, IsImage
  <2>2. PICK r \in Nat : r = RowSize(l)
    BY PaddedRow
  <2>3. left - 1 \in Nat
    BY <2>1
  <2> QED
    BY <2>1, <2>2, <2>3
<1>2. 3 * l <= r /\ left = o + 1 /\ o < h /\ o \in 0..(h - 1)
  <2>1. 3 * l <= r
    BY <1>1, PaddedRow
  <2>2. left \in 1..h /\ o = left - 1
    BY <1>1
  <2> QED
    BY <2>1, <2>2
<1>3. PICK k0 \in Nat : k0 = (h - left) * r
  <2>1. h - left \in Nat
    BY <1>1
  <2> QED
    BY <1>1, <2>1
<1>4. /\ s \in Seq(Nat) /\ Len(s) = 54 + k0
      /\ \A j \in 1..54 : s[j] = BmpHeader(g.img)[j]
      /\ \A row \in left..(h - 1), x \in 0..(l - 1), c \in 1..3 :
           s[54 + (h - 1 - row) * r + (3 * x + (4 - c))] = Flat(g, x, row, c)
  BY <1>1, <1>3 DEF RowsWritten
<1>5. PICK f : f = FlatRow(g, o)
  OBVIOUS
<1>6. /\ f \in Seq(Nat) /\ Len(f) = 3 * l
      /\ \A x \in 0..(l - 1), c \in 1..3 : f[3 * x + (4 - c)] = Flat(g, x, o, c)
  BY <1>1, <1>2, <1>5, FlatRowIs
<1>7. pad \in Seq(Nat) /\ Len(pad) = r - 3 * l
  <2>1. PICK m \in Nat : m = r - 3 * l
    BY <1>2
  <2>2. pad = [q \in 1..m |-> 0]
    BY <1>1, <2>1
  <2>3. [q \in 1..m |-> 0] \in Seq(Nat) /\ Len([q \in 1..m |-> 0]) = m
    OBVIOUS
  <2> QED
    BY <2>1, <2>2, <2>3
<1>8. PICK u, v : u = s \o f /\ v = u \o pad
  OBVIOUS
<1>9. Extended(s, f, u)
  BY <1>4, <1>6, <1>8, PieceAdded
<1>10. u \in Seq(Nat) /\ Len(u) = 54 + k0 + 3 * l
  BY <1>4, <1>6, <1>9 DEF Extended
<1>11. Extended(u, pad, v)
  BY <1>7, <1>8, <1>10, PieceAdded
<1>12. v \in Seq(Nat) /\ Len(v) = 54 + k0 + r
  BY <1>2, <1>7, <1>10, <1>11 DEF Extended
<1>13. ASSUME NEW j \in 1..(54 + k0) PROVE v[j] = s[j]
  <2>1. j \in 1..Len(s) /\ j \in 1..Len(u)
    BY <1>4, <1>10
  <2> QED
    BY <1>9, <1>11, <2>1 DEF Extended
<1>14. ASSUME NEW j \in 1..(3 * l) PROVE v[54 + k0 + j] = f[j]
  <2>1. j \in 1..Len(f) /\ Len(s) + j \in 1..Len(u) /\ Len(s) + j = 54 + k0 + j
    BY <1>4, <1>6, <1>10
  <2> QED
    BY <1>9, <1>11, <2>1 DEF Extended, PieceAt
<1>15. (h - o) * r = k0 + r
  <2>1. PICK m \in Nat : m = h - left
    BY <1>1
  <2>2. h - o = m + 1 /\ (m + 1) * r = m * r + r
    BY <1>2, <2>1
  <2> QED
    BY <1>3, <2>1, <2>2
<1>16. \A j \in 1..54 : v[j] = BmpHeader(g.img)[j]
  <2> SUFFICES ASSUME NEW j \in 1..54 PROVE v[j] = BmpHeader(g.img)[j]
    OBVIOUS
  <2>1. j \in 1..(54 + k0)
    OBVIOUS
  <2> QED
    BY <1>4, <1>13, <2>1
<1>17. ASSUME NEW row \in o..(h - 1), NEW x \in 0..(l - 1), NEW c \in 1..3
       PROVE  v[54 + (h - 1 - row) * r + (3 * x + (4 - c))] = Flat(g, x, row, c)
  <2>1. PICK e \in 1..(3 * l) : e = 3 * x + (4 - c)
    OBVIOUS
  <2>2. CASE row = o
    <3>1. h - 1 - row = h - left
      BY <1>2, <2>2
    <3>2. 54 + (h - 1 - row) * r + e = 54 + k0 + e
      BY <1>3, <3>1
    <3> QED
      BY <1>6, <1>14, <2>1, <2>2, <3>2
  <2>3. CASE row # o
    <3>1. row \in left..(h - 1)
      BY <1>2, <2>3
    <3>2. PICK d \in Nat, m \in Nat : d = h - 1 - row /\ m = h - left /\ d < m
      <4>1. h - 1 - row \in Nat /\ h - left \in Nat /\ h - 1 - row < h - left
        <5>1. left \in 1..h /\ row \in left..(h - 1)
          BY <1>1, <3>1
        <5> QED
          BY <5>1
      <4> QED
        BY <4>1
    <3>3. d * r + r <= m * r /\ d * r \in Nat
      BY <3>2, RowFits
    <3>4. PICK z \in Nat : z = d * r
      BY <3>3
    <3>5. 54 + z + e \in 1..(54 + k0)
      BY <1>2, <1>3, <2>1, <3>2, <3>3, <3>4
    <3>6. s[54 + z + e] = Flat(g, x, row, c)
      BY <1>4, <2>1, <3>1, <3>2, <3>4
    <3> QED
      BY <1>13, <2>1, <3>2, <3>4, <3>5, <3>6
  <2> QED
    BY <2>2, <2>3
<1>18. Len(v) = 54 + (h - o) * r
  BY <1>12, <1>15
<1>19. RowsWritten(v, g, o)
  BY <1>1, <1>12, <1>16, <1>17, <1>18 DEF RowsWritten
<1> QED
  BY <1>1, <1>5, <1>8, <1>19

BmpIInv ==
  /\ job \in BmpImages /\ bmp_pc \in {"row", "done"}
  /\ rows \in 0..job.img.height /\ (bmp_pc = "done" => rows = 0)
  /\ RowsWritten(bmp, job, rows)

\* The pixels for a metre.
Density == 2835

\* The sizes of a file are sizes of 32 bits.
LEMMA SidesAreWords == \A x \in Sides : x \in Nat \ {0} /\ IsWord(x)
BY DEF Sides, IsWord

LEMMA DensityIsWord == IsWord(Density)
BY DEF Density, IsWord

LEMMA RowsAreWords ==
  ASSUME NEW l \in Sides, NEW h \in Sides
  PROVE  /\ RowSize(l) * h \in Nat
         /\ IsWord(RowSize(l) * h) /\ IsWord(54 + RowSize(l) * h)
<1>1. l \in Nat /\ h \in Nat
  BY SidesAreWords
<1>2. PICK r \in Nat : r = RowSize(l) /\ r <= 3 * l + 3
  BY <1>1, PaddedRow
<1>3. r <= 12291 /\ h <= 4096
  <2>1. l <= 4096 /\ h <= 4096
    BY SMT DEF Sides
  <2> QED
    BY <1>1, <1>2, <2>1, SMT
<1>4. PICK m \in Nat, q \in Nat : m = 12291 /\ q = 4096
  BY SMT
<1>5. r <= m /\ h <= q
  BY <1>3, <1>4, SMT
<1>6. r * h <= m * h /\ m * h <= m * q /\ r * h \in Nat
  <2>1. PICK c \in Nat, o \in Nat : r + c = m /\ h + o = q
    <3>1. m - r \in Nat /\ r + (m - r) = m /\ q - h \in Nat /\ h + (q - h) = q
      BY <1>1, <1>5
    <3> QED
      BY <3>1
  <2>2. /\ (r + c) * h = r * h + c * h /\ c * h \in Nat /\ r * h \in Nat
        /\ m * (h + o) = m * h + m * o /\ m * o \in Nat /\ m * h \in Nat
    BY <1>1
  <2> QED
    BY <2>1, <2>2
<1>7. PICK data \in Nat : data = r * h
  BY <1>6
<1>8. data <= 50343936
  BY <1>1, <1>3, <1>4, <1>6, <1>7, SMT
<1>9. IsWord(data) /\ IsWord(54 + data)
  BY <1>8, SMT DEF IsWord
<1> QED
  BY <1>2, <1>7, <1>9

LEMMA JobIs ==
  ASSUME NEW g \in BmpImages
  PROVE  IsJob(g)
<1>1. PICK m \in Nat : m = 4096
  OBVIOUS
<1>2. ImageWithin(g.img, m)
  BY <1>1, BmpImagesAssumption
<1>3. g.matte \in [1..3 -> 0..255]
  BY BmpImagesAssumption
<1>4. IsImage(g.img) /\ g.img.width \in 1..m /\ g.img.height \in 1..m
  BY <1>2, WithinIsImage DEF ImageWithin
<1>5. Sides = 1..m
  BY <1>1 DEF Sides
<1> QED
  BY <1>3, <1>4, <1>5 DEF IsJob

LEMMA BmpHeaderIs ==
  ASSUME NEW g \in BmpImages, NEW header, header = BmpHeader(g.img), NEW data,
         data = RowSize(g.img.width) * g.img.height
  PROVE  /\ header \in Seq(Nat) /\ Len(header) = 54
         /\ HeaderRead(header, 54 + data, g.img.width, g.img.height, data)
<1>1. PICK z, l, h, v : z = 54 + data /\ l = g.img.width /\ h = g.img.height /\ v = Density
  OBVIOUS
<1>2. IsWord(z) /\ IsWord(l) /\ IsWord(h) /\ IsWord(data) /\ IsWord(v)
  <2>1. l \in Sides /\ h \in Sides
    BY <1>1, JobIs DEF IsJob
  <2>2. data = RowSize(l) * h
    BY <1>1
  <2> QED
    BY <1>1, <2>1, <2>2, SidesAreWords, RowsAreWords, DensityIsWord
<1>3. header = HeaderBytes(z, l, h, data, v)
  BY <1>1, SMT DEF BmpHeader, HeaderBytes, Density
<1> QED
  BY <1>1, <1>2, <1>3, HeaderBytesRead

LEMMA InitBmp == BmpInit => BmpIInv
<1> SUFFICES ASSUME BmpInit PROVE BmpIInv
  OBVIOUS
<1>1. job \in BmpImages /\ bmp_pc = "row" /\ rows = job.img.height /\ bmp = BmpHeader(job.img)
  BY DEF BmpInit
<1>2. PICK h \in Nat, r \in Nat : h = job.img.height /\ r = RowSize(job.img.width)
  <2>1. IsJob(job)
    BY <1>1, JobIs
  <2>2. job.img.width \in Nat /\ job.img.height \in Nat
    BY <2>1 DEF IsJob, IsImage
  <2> QED
    BY <2>2, PaddedRow
<1>3. bmp \in Seq(Nat) /\ Len(bmp) = 54
  BY <1>1, BmpHeaderIs
<1>4. h - rows = 0 /\ 0 * r = 0 /\ 54 + 0 = 54 /\ \A row \in rows..(h - 1) : FALSE
  BY <1>1, <1>2
<1>5. RowsWritten(bmp, job, rows)
  BY <1>1, <1>2, <1>3, <1>4 DEF RowsWritten
<1> QED
  BY <1>1, <1>2, <1>5 DEF BmpIInv

LEMMA StepBmp == BmpIInv /\ [BmpNext]_bmp_vars => BmpIInv'
<1> SUFFICES ASSUME BmpIInv, [BmpNext]_bmp_vars PROVE BmpIInv'
  OBVIOUS
<1>1. /\ job \in BmpImages /\ bmp_pc \in {"row", "done"}
      /\ rows \in 0..job.img.height /\ (bmp_pc = "done" => rows = 0)
      /\ RowsWritten(bmp, job, rows)
  BY DEF BmpIInv
<1>2. IsJob(job) /\ job.img.height \in Nat
  <2>1. IsJob(job)
    BY <1>1, JobIs
  <2> QED
    BY <2>1 DEF IsJob, IsImage
<1>3. CASE PutRow
  <2>1. bmp_pc = "row" /\ rows > 0 /\ rows' = rows - 1 /\ bmp_pc' = bmp_pc /\ job' = job
    BY <1>3 DEF PutRow
  <2>2. PICK pad : pad = [q \in 1..(RowSize(job.img.width) - 3 * job.img.width) |-> 0]
    OBVIOUS
  <2>3. bmp' = bmp \o FlatRow(job, rows - 1) \o pad
    BY <1>3, <2>2, Zenon DEF PutRow, FlatRow, FlatPixel
  <2>4. rows \in 1..job.img.height /\ rows - 1 \in 0..job.img.height
    BY <1>1, <1>2, <2>1
  <2>5. RowsWritten(bmp \o FlatRow(job, rows - 1) \o pad, job, rows - 1)
    BY <1>1, <1>2, <2>2, <2>4, RowAdded
  <2> QED
    BY <1>1, <2>1, <2>3, <2>4, <2>5 DEF BmpIInv
<1>4. CASE EndRows
  BY <1>1, <1>4 DEF EndRows, BmpIInv
<1>5. CASE UNCHANGED bmp_vars
  BY <1>1, <1>5 DEF bmp_vars, BmpIInv
<1> QED
  BY <1>3, <1>4, <1>5 DEF BmpNext

\* A reader of BMP finds every pixel of every image in the file that is made of it,
\* flattened to the nearest value, and rows as long as the format says
\* (bmp.cpp:21-53).
THEOREM BitmapsRead == BmpSpec => []BitmapReads
<1>1. BmpIInv => BitmapReads
  <2> SUFFICES ASSUME BmpIInv, bmp_pc = "done" PROVE BitmapReads
    BY DEF BitmapReads
  <2>1. job \in BmpImages /\ RowsWritten(bmp, job, 0) /\ IsJob(job)
    BY JobIs DEF BmpIInv
  <2>2. PICK l \in Nat, h \in Nat, r \in Nat :
          l = job.img.width /\ h = job.img.height /\ r = RowSize(job.img.width)
    <3>1. job.img.width \in Nat /\ job.img.height \in Nat
      BY <2>1 DEF IsJob, IsImage
    <3> QED
      BY <3>1, PaddedRow
  <2>3. PICK header, data : header = BmpHeader(job.img) /\ data = r * h
    OBVIOUS
  <2>4. HeaderRead(header, 54 + data, l, h, data)
    BY <2>1, <2>2, <2>3, BmpHeaderIs
  <2>5. /\ Len(bmp) = 54 + h * r /\ \A j \in 1..54 : bmp[j] = header[j]
        /\ \A row \in 0..(h - 1), x \in 0..(l - 1), c \in 1..3 :
             bmp[54 + (h - 1 - row) * r + (3 * x + (4 - c))] = Flat(job, x, row, c)
    <3>1. h - 0 = h
      OBVIOUS
    <3> QED
      BY <2>1, <2>2, <2>3, <3>1 DEF RowsWritten
  <2>6. HeaderRead(bmp, 54 + data, l, h, data)
    BY <2>4, <2>5, HeaderKept
  <2>7. /\ LE32At(bmp, 2) = 54 + data /\ LE32At(bmp, 10) = 54 /\ LE32At(bmp, 18) = l
        /\ LE32At(bmp, 22) = h /\ LE32At(bmp, 34) = data /\ bmp[29] = 24
    BY <2>6 DEF HeaderRead
  <2>8. data = r * h /\ h * r = r * h
    BY <2>3
  <2>9. ((l * 24 + 31) \div 32) * 4 = r
    BY <2>2, PaddedRow
  <2>10. ASSUME NEW x \in 0..(l - 1), NEW row \in 0..(h - 1), NEW c \in 1..3
         PROVE  NearFlat(job, x, row, c, bmp[54 + (h - 1 - row) * r + 3 * x + 4 - c])
    <3>1. 54 + (h - 1 - row) * r + (3 * x + (4 - c)) = 54 + (h - 1 - row) * r + 3 * x + 4 - c
      <4>1. PICK m \in Int : m = (h - 1 - row) * r
        OBVIOUS
      <4> QED
        BY <4>1
    <3>2. bmp[54 + (h - 1 - row) * r + 3 * x + 4 - c] = Flat(job, x, row, c)
      BY <2>5, <3>1
    <3> QED
      BY <2>1, <2>2, <3>2, FlatIs
  <2> DEFINE start  == LE32At(bmp, 10)
             width  == LE32At(bmp, 18)
             height == LE32At(bmp, 22)
             line == ((width * bmp[29] + 31) \div 32) * 4
  <2>11. start = 54 /\ width = l /\ height = h /\ line = r
    BY <2>7, <2>9
  <2> HIDE DEF start, width, height, line
  <2>12. /\ width = job.img.width /\ height = job.img.height
         /\ LE32At(bmp, 2) = Len(bmp) /\ LE32At(bmp, 34) = line * height
         /\ Len(bmp) = start + line * height
    BY <2>2, <2>5, <2>7, <2>8, <2>11
  <2>13. \A x \in 0..(width - 1), row \in 0..(height - 1), c \in 1..3 :
           NearFlat(job, x, row, c, bmp[start + (height - 1 - row) * line + 3 * x + 4 - c])
    BY <2>10, <2>11
  <2> QED
    BY <2>12, <2>13, Zenon DEF BitmapReads, NearFlat, start, width, height, line
<1> QED
  BY <1>1, InitBmp, StepBmp, PTL DEF BmpSpec
=============================================================================
