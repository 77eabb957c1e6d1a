----------------------------- MODULE LabProofs -----------------------------
(***************************************************************************)
(* The proofs about the laboratory.                                        *)
(*                                                                         *)
(* `grind` (src/tools/lab/grinding.cpp): that the tables hold the lowest   *)
(* scores and that the counters are exact, from GrindIInv: each thread's   *)
(* list has the lowest scores of the candidates the thread has tried, the  *)
(* merged lists those of the threads merged, and the counters are numbers  *)
(* of candidates whose turn is over.                                       *)
(*                                                                         *)
(* `palette` (src/tools/lab/palette_gate.cpp): that a search agrees with   *)
(* itself and that jobs are independent, from PaletteIInv: the search of a *)
(* job is, after as many iterations, what it would be alone, and a job     *)
(* that was taken is searched by one thread or has its result.             *)
(*                                                                         *)
(* Induction over the natural numbers is lemma Induct, from the least      *)
(* element of a set; recursive functions are unfolded with it.             *)
(***************************************************************************)
EXTENDS Lab, FiniteSetTheorems, WellFoundedInduction, TLAPS

-----------------------------------------------------------------------------
(* Numbers *)

\* Sets of natural numbers have a least one.
LEMMA Least ==
  ASSUME NEW T \in SUBSET Nat, T # {}
  PROVE  \E n \in T : \A m \in T : n <= m
<1> DEFINE F == {0..k : k \in T}
<1>1. F \subseteq FiniteSubsetsOf(Nat) /\ F # {}
  <2>1. ASSUME NEW k \in T PROVE 0..k \in FiniteSubsetsOf(Nat)
    BY FS_Interval DEF FiniteSubsetsOf
  <2> QED
    BY <2>1
<1>2. PICK x \in F : \A y \in F : <<y, x>> \notin StrictSubsetOrdering(Nat)
  <2> HIDE DEF F
  <2> QED
    BY <1>1, WFMin, FS_StrictSubsetOrderingWellFounded
<1>3. PICK n \in T : x = 0..n
  OBVIOUS
<1>4. ASSUME NEW m \in T PROVE n <= m
  <2> SUFFICES ASSUME m < n PROVE FALSE
    OBVIOUS
  <2>1. 0..m \in F
    OBVIOUS
  <2>2. /\ 0..m \in SUBSET Nat /\ 0..n \in SUBSET Nat
        /\ 0..m \subseteq 0..n /\ n \in 0..n /\ n \notin 0..m
    OBVIOUS
  <2>3. <<0..m, 0..n>> \in StrictSubsetOrdering(Nat)
    BY <2>2 DEF StrictSubsetOrdering
  <2> QED
    BY <1>2, <1>3, <2>1, <2>3
<1> QED
  BY <1>4

\* Induction over a set of numbers.
LEMMA Induct ==
  ASSUME NEW T \in SUBSET Nat, 0 \in T, \A n \in T : n + 1 \in T
  PROVE  T = Nat
<1> SUFFICES ASSUME T # Nat PROVE FALSE
  OBVIOUS
<1>1. PICK n \in Nat \ T : \A m \in Nat \ T : n <= m
  BY Least
<1>2. n # 0 /\ n - 1 \in Nat /\ n - 1 \in T
  BY <1>1
<1> QED
  BY <1>1, <1>2

\* Quotient and remainder are unique.
LEMMA Division ==
  ASSUME NEW n \in Nat \ {0}, NEW a \in Nat, NEW q \in Nat, NEW r \in 0..(n - 1),
         a = q * n + r
  PROVE  a \div n = q /\ a % n = r
<1> DEFINE d == a \div n
           m == a % n
<1>1. d \in Int /\ m \in 0..(n - 1) /\ a = d * n + m
  OBVIOUS
<1> HIDE DEF d, m
<1>2. (d - q) * n = r - m
  BY <1>1
<1>3. CASE d > q
  <2>1. (d - q) * n >= n
    <3>1. d - q >= 1 /\ d - q \in Nat
      BY <1>1, <1>3
    <3> DEFINE e == d - q
    <3>2. e \in Nat /\ e >= 1
      BY <3>1
    <3> HIDE DEF e
    <3>3. e * n >= n
      BY <3>2
    <3> QED
      BY <3>3 DEF e
  <2> QED
    BY <1>1, <1>2, <2>1
<1>4. CASE d < q
  <2>1. (q - d) * n >= n
    <3> DEFINE e == q - d
    <3>2. e \in Nat /\ e >= 1
      BY <1>1, <1>4
    <3> HIDE DEF e
    <3>3. e * n >= n
      BY <3>2
    <3> QED
      BY <3>3 DEF e
  <2>2. (q - d) * n = m - r
    BY <1>1
  <2> QED
    BY <1>1, <2>1, <2>2
<1>5. d = q
  BY <1>1, <1>3, <1>4
<1> QED
  BY <1>1, <1>5 DEF d, m

\* Of n threads, the one that takes candidate j takes none before j + n.
LEMMA Turns ==
  ASSUME NEW n \in Nat \ {0}, NEW j \in Nat
  PROVE  /\ j % n \in 0..(n - 1)
         /\ (j + n) % n = j % n
         /\ \A i \in Nat : j < i /\ i < j + n => i % n # j % n
         /\ j < n => j % n = j
<1> DEFINE q == j \div n
           r == j % n
<1>1. q \in Nat /\ r \in 0..(n - 1) /\ j = q * n + r
  OBVIOUS
<1> HIDE DEF q, r
<1>2. (j + n) % n = r
  <2>1. j + n = (q + 1) * n + r
    BY <1>1
  <2> QED
    BY <1>1, <2>1, Division
<1>3. ASSUME NEW i \in Nat, j < i, i < j + n, i % n = r PROVE FALSE
  <2> DEFINE p == i \div n
  <2>1. p \in Nat /\ i = p * n + r
    BY <1>3
  <2> HIDE DEF p
  <2> DEFINE e == p - q
  <2>2. e \in Int /\ i - j = e * n
    BY <1>1, <2>1
  <2> HIDE DEF e
  <2>3. e >= 1
    BY <1>3, <2>2
  <2>4. e * n >= n
    BY <2>2, <2>3
  <2> QED
    BY <1>3, <2>2, <2>4
<1>4. ASSUME j < n PROVE r = j
  <2>1. j = 0 * n + j
    OBVIOUS
  <2> QED
    BY <1>4, <2>1, Division DEF r
<1> QED
  BY <1>1, <1>2, <1>3, <1>4 DEF r

-----------------------------------------------------------------------------
(* best_list *)

Hits(S) == [score : Nat, index : S]

Ordered(hits) ==
  \A i, j \in DOMAIN hits : i < j => Before(hits[i], hits[j])

Has(hits, n) == \E i \in DOMAIN hits : hits[i].index = n

\* A list holds the lowest of the scores of S, in order, and all if it has room.
IsBest(hits, S, score) ==
  /\ hits \in Seq(Hits(S)) /\ Len(hits) <= Keep
  /\ \A i \in DOMAIN hits : hits[i].score = score[hits[i].index]
  /\ Ordered(hits)
  /\ \A n \in S : Has(hits, n) \/ (Len(hits) = Keep /\ score[n] >= hits[Keep].score)

\* Hits are in a total order, by score and then by candidate.
LEMMA BeforeIsOrder ==
  ASSUME NEW S \in SUBSET Nat, NEW a \in Hits(S), NEW b \in Hits(S), NEW c \in Hits(S)
  PROVE  /\ Before(a, b) /\ Before(b, c) => Before(a, c)
         /\ ~Before(a, a)
         /\ a.index # b.index => Before(a, b) \/ Before(b, a)
         /\ Before(a, b) => a.score <= b.score
         /\ a.score < b.score => Before(a, b)
<1>1. /\ a.score \in Nat /\ b.score \in Nat /\ c.score \in Nat
      /\ a.index \in Nat /\ b.index \in Nat /\ c.index \in Nat
  BY DEF Hits
<1> QED
  BY <1>1 DEF Before

\* A hit that is sorted in has a place: the ones before it stay where they are,
\* the others move up.
LEMMA SortedIn ==
  ASSUME NEW S \in SUBSET Nat, NEW hits \in Seq(Hits(S)), Ordered(hits),
         NEW h \in Hits(S), ~Has(hits, h.index)
  PROVE  \E p \in 1..(Len(hits) + 1) :
           /\ \A i \in 1..(p - 1) : Before(hits[i], h)
           /\ \A i \in p..Len(hits) : Before(h, hits[i])
           /\ Sorted(hits, h) =
                [n \in 1..(Len(hits) + 1) |->
                   IF n < p THEN hits[n] ELSE IF n = p THEN h ELSE hits[n - 1]]
<1> DEFINE L == Len(hits)
           T == {i \in 1..(L + 1) : i = L + 1 \/ ~Before(hits[i], h)}
<1>1. L \in Nat /\ DOMAIN hits = 1..L /\ \A i \in 1..L : hits[i] \in Hits(S)
  OBVIOUS
<1> HIDE DEF L
<1>2. PICK p \in T : \A i \in T : p <= i
  <2>1. L + 1 \in T /\ T \subseteq Nat
    BY <1>1
  <2> QED
    BY <2>1, Least
<1>3. p \in 1..(L + 1) /\ \A i \in 1..(p - 1) : Before(hits[i], h)
  BY <1>1, <1>2
<1>4. ASSUME NEW i \in p..L PROVE Before(h, hits[i])
  <2>1. p \in 1..L /\ i \in 1..L /\ ~Before(hits[p], h)
    BY <1>1, <1>2, <1>3
  <2>2. hits[p].index # h.index
    BY <1>1, <2>1 DEF Has
  <2>3. Before(h, hits[p])
    BY <1>1, <2>1, <2>2, BeforeIsOrder
  <2>4. i = p \/ Before(hits[p], hits[i])
    BY <1>1, <2>1, <1>3 DEF Ordered
  <2> QED
    BY <1>1, <2>1, <2>3, <2>4, BeforeIsOrder
<1>5. \A i \in p..L : ~Before(hits[i], h)
  BY <1>1, <1>3, <1>4, BeforeIsOrder
<1>6. ASSUME NEW n \in 1..(L + 1)
      PROVE  (IF n <= L /\ Before(hits[n], h) THEN hits[n]
              ELSE IF n = 1 \/ Before(hits[n - 1], h) THEN h ELSE hits[n - 1])
             = IF n < p THEN hits[n] ELSE IF n = p THEN h ELSE hits[n - 1]
  <2>1. CASE n < p
    BY <1>1, <1>3, <2>1
  <2>2. CASE n = p
    <3>1. ~(n <= L /\ Before(hits[n], h))
      BY <1>1, <1>3, <1>5, <2>2
    <3>2. n = 1 \/ Before(hits[n - 1], h)
      BY <1>1, <1>3, <2>2
    <3> QED
      BY <1>1, <1>3, <2>2, <3>1, <3>2
  <2>3. CASE n > p
    <3>1. ~(n <= L /\ Before(hits[n], h))
      BY <1>1, <1>3, <1>5, <2>3
    <3>2. ~(n = 1 \/ Before(hits[n - 1], h))
      BY <1>1, <1>3, <1>5, <2>3
    <3> QED
      BY <1>1, <1>3, <2>3, <3>1, <3>2
  <2> QED
    BY <1>1, <1>3, <2>1, <2>2, <2>3
<1>7. Sorted(hits, h) =
        [n \in 1..(L + 1) |->
           IF n < p THEN hits[n] ELSE IF n = p THEN h ELSE hits[n - 1]]
  BY <1>6 DEF Sorted, L
<1> QED
  BY <1>3, <1>4, <1>7 DEF L

\* So that what is sorted in order stays in order, and holds one more.
LEMMA SortedStays ==
  ASSUME NEW S \in SUBSET Nat, NEW hits \in Seq(Hits(S)), Ordered(hits),
         NEW h \in Hits(S), ~Has(hits, h.index)
  PROVE  LET s == Sorted(hits, h)
         IN  /\ s \in Seq(Hits(S)) /\ Len(s) = Len(hits) + 1
             /\ Ordered(s)
             /\ \A m \in DOMAIN s : s[m] = h \/ \E i \in DOMAIN hits : s[m] = hits[i]
             /\ \E m \in DOMAIN s : s[m] = h
             /\ \A i \in DOMAIN hits : s[i] = hits[i] \/ s[i + 1] = hits[i]
             /\ hits # <<>> /\ Before(h, hits[Len(hits)]) => s[Len(s)] = hits[Len(hits)]
<1> DEFINE s == Sorted(hits, h)
           L == Len(hits)
<1>1. L \in Nat /\ DOMAIN hits = 1..L /\ \A i \in 1..L : hits[i] \in Hits(S)
  OBVIOUS
<1>2. PICK p \in 1..(L + 1) :
        /\ \A i \in 1..(p - 1) : Before(hits[i], h)
        /\ \A i \in p..L : Before(h, hits[i])
        /\ s = [n \in 1..(L + 1) |->
                  IF n < p THEN hits[n] ELSE IF n = p THEN h ELSE hits[n - 1]]
  BY SortedIn
<1> HIDE DEF s, L
<1>3. /\ DOMAIN s = 1..(L + 1)
      /\ \A n \in 1..(L + 1) : s[n] = IF n < p THEN hits[n]
                                       ELSE IF n = p THEN h ELSE hits[n - 1]
  BY <1>2
<1>4. \A n \in 1..(L + 1) : s[n] \in Hits(S)
  BY <1>1, <1>2, <1>3
<1>5. s \in Seq(Hits(S)) /\ Len(s) = L + 1
  <2>1. s \in [1..(L + 1) -> Hits(S)]
    BY <1>2, <1>4, <1>3
  <2> QED
    BY <1>1, <2>1
<1>6. Ordered(s)
  <2> SUFFICES ASSUME NEW i \in 1..(L + 1), NEW j \in 1..(L + 1), i < j
               PROVE  Before(s[i], s[j])
    BY <1>3 DEF Ordered
  <2>1. CASE j < p
    BY <1>1, <1>3, <2>1 DEF Ordered
  <2>2. CASE j = p
    BY <1>1, <1>2, <1>3, <2>2
  <2>3. CASE i = p
    BY <1>1, <1>2, <1>3, <2>3
  <2>4. CASE i < p /\ p < j
    <3>1. s[i] = hits[i] /\ s[j] = hits[j - 1] /\ j - 1 \in p..L /\ i \in 1..(p - 1)
      BY <1>1, <1>2, <1>3, <2>4
    <3>2. hits[i] \in Hits(S) /\ hits[j - 1] \in Hits(S)
      BY <1>1, <1>2, <3>1
    <3> QED
      BY <1>2, <3>1, <3>2, BeforeIsOrder
  <2>5. CASE p < i
    <3>1. s[i] = hits[i - 1] /\ s[j] = hits[j - 1] /\ i - 1 \in 1..L /\ j - 1 \in 1..L
      BY <1>1, <1>2, <1>3, <2>5
    <3> QED
      BY <1>1, <3>1 DEF Ordered
  <2> QED
    BY <1>2, <2>1, <2>2, <2>3, <2>4, <2>5
<1>7. \A m \in DOMAIN s : s[m] = h \/ \E i \in DOMAIN hits : s[m] = hits[i]
  BY <1>1, <1>2, <1>3
<1>8. \E m \in DOMAIN s : s[m] = h
  BY <1>2, <1>3
<1>9. \A i \in DOMAIN hits : s[i] = hits[i] \/ s[i + 1] = hits[i]
  BY <1>1, <1>2, <1>3
<1>10. ASSUME hits # <<>>, Before(h, hits[L]) PROVE s[L + 1] = hits[L]
  <2>1. L >= 1 /\ hits[L] \in Hits(S)
    BY <1>1, <1>10 DEF L
  <2>2. p # L + 1
    BY <1>1, <1>2, <2>1, <1>10, BeforeIsOrder
  <2> QED
    BY <1>1, <1>2, <1>3, <2>1, <2>2
<1> QED
  BY <1>5, <1>6, <1>7, <1>8, <1>9, <1>10 DEF s, L

\* A list that is cut holds its first hits.
LEMMA CutHits ==
  ASSUME NEW S, NEW hits \in Seq(Hits(S)), Len(hits) <= Keep + 1
  PROVE  /\ Cut(hits) \in Seq(Hits(S))
         /\ Len(Cut(hits)) = IF Len(hits) > Keep THEN Keep ELSE Len(hits)
         /\ \A i \in 1..Len(Cut(hits)) : Cut(hits)[i] = hits[i]
<1>1. CASE Len(hits) <= Keep
  BY <1>1, GrindAssumption DEF Cut
<1>2. CASE Len(hits) > Keep
  <2>1. Cut(hits) = SubSeq(hits, 1, Keep)
    BY <1>2 DEF Cut
  <2>2. SubSeq(hits, 1, Keep) \in Seq(Hits(S)) /\ Len(SubSeq(hits, 1, Keep)) = Keep
    BY <1>2, GrindAssumption
  <2>3. \A i \in 1..Keep : SubSeq(hits, 1, Keep)[i] = hits[i]
    BY <1>2, GrindAssumption
  <2> QED
    BY <1>2, <2>1, <2>2, <2>3
<1> QED
  BY <1>1, <1>2, GrindAssumption

\* Hits of some candidates are hits of more.
LEMMA HitsOfMore ==
  ASSUME NEW S, NEW W, S \subseteq W, NEW hits \in Seq(Hits(S))
  PROVE  /\ hits \in Seq(Hits(W)) /\ Len(hits) \in Nat /\ DOMAIN hits = 1..Len(hits)
         /\ \A i \in DOMAIN hits : /\ hits[i] \in Hits(S)
                                  /\ hits[i].index \in S /\ hits[i].score \in Nat
<1>1. \A i \in 1..Len(hits) : hits[i] \in Hits(S)
  OBVIOUS
<1>2. Hits(S) \subseteq Hits(W)
  BY DEF Hits
<1>3. hits \in [1..Len(hits) -> Hits(W)] /\ Len(hits) \in Nat
  BY <1>1, <1>2
<1>4. hits \in Seq(Hits(W))
  BY <1>3
<1> QED
  BY <1>1, <1>4 DEF Hits

\* What a list of the lowest scores holds after one more was offered.
LEMMA OfferBest ==
  ASSUME NEW U \in SUBSET Nat, NEW score \in [U -> Nat], NEW S \in SUBSET U,
         NEW hits, IsBest(hits, S, score), NEW n \in U \ S
  PROVE  IsBest(Offer(hits, score[n], n), S \cup {n}, score)
<1> DEFINE h == [score |-> score[n], index |-> n]
           W == S \cup {n}
           s == Sorted(hits, h)
<1>1. /\ hits \in Seq(Hits(S)) /\ Len(hits) <= Keep /\ Len(hits) \in Nat
      /\ \A i \in DOMAIN hits : hits[i].score = score[hits[i].index]
      /\ Ordered(hits)
      /\ \A m \in S : Has(hits, m) \/ (Len(hits) = Keep /\ score[m] >= hits[Keep].score)
  BY DEF IsBest
<1>2. W \in SUBSET Nat /\ h \in Hits(W) /\ hits \in Seq(Hits(W)) /\ Keep \in Nat \ {0}
  <2>1. W \in SUBSET Nat /\ Keep \in Nat \ {0}
    BY GrindAssumption
  <2>2. h \in Hits(W)
    BY DEF Hits
  <2>3. hits \in Seq(Hits(W))
    BY <1>1, HitsOfMore
  <2> QED
    BY <2>1, <2>2, <2>3
<1>3. ~Has(hits, h.index)
  BY <1>1, HitsOfMore DEF Has
<1>4. /\ h.score = score[n] /\ h.index = n
  OBVIOUS
<1>5. CASE Len(hits) = Keep /\ score[n] >= hits[Keep].score
  <2>1. Offer(hits, score[n], n) = hits
    BY <1>5 DEF Offer
  <2> QED
    BY <1>1, <1>2, <1>5, <2>1 DEF IsBest
<1>6. CASE ~(Len(hits) = Keep /\ score[n] >= hits[Keep].score)
  <2>1. Offer(hits, score[n], n) = Cut(s)
    BY <1>6 DEF Offer
  <2>2. /\ s \in Seq(Hits(W)) /\ Len(s) = Len(hits) + 1
        /\ Ordered(s)
        /\ \A m \in DOMAIN s : s[m] = h \/ \E i \in DOMAIN hits : s[m] = hits[i]
        /\ \E m \in DOMAIN s : s[m] = h
        /\ \A i \in DOMAIN hits : s[i] = hits[i] \/ s[i + 1] = hits[i]
        /\ hits # <<>> /\ Before(h, hits[Len(hits)]) => s[Len(s)] = hits[Len(hits)]
    <3> HIDE DEF h, W
    <3> QED
      BY <1>1, <1>2, <1>3, SortedStays
  <2> HIDE DEF s
  <2>3. DOMAIN hits = 1..Len(hits) /\ DOMAIN s = 1..Len(s)
    BY <1>1, <2>2
  <2>4. \A m \in DOMAIN s : s[m].score = score[s[m].index] /\ s[m] \in Hits(W)
    BY <1>1, <1>4, <2>2, <2>3
  <2>5. \A m \in W : Has(hits, m) \/ m = n => Has(s, m)
    <3>1. Has(s, n)
      BY <1>4, <2>2 DEF Has
    <3>2. ASSUME NEW m \in W, Has(hits, m) PROVE Has(s, m)
      <4>1. PICK i \in DOMAIN hits : hits[i].index = m
        BY <3>2 DEF Has
      <4>2. i \in DOMAIN s /\ i + 1 \in DOMAIN s
        BY <1>1, <2>2, <2>3
      <4> QED
        BY <2>2, <4>1, <4>2 DEF Has
    <3> QED
      BY <3>1, <3>2
  <2> DEFINE c == Cut(s)
  <2>6. /\ c \in Seq(Hits(W)) /\ Len(c) = IF Len(s) > Keep THEN Keep ELSE Len(s)
        /\ \A i \in 1..Len(c) : c[i] = s[i]
    <3> HIDE DEF W, h
    <3>1. Len(s) <= Keep + 1
      BY <1>1, <1>2, <2>2
    <3> QED
      BY <2>2, <3>1, CutHits
  <2> HIDE DEF c
  <2>7. Len(c) <= Keep /\ DOMAIN c = 1..Len(c) /\ DOMAIN c \subseteq DOMAIN s
    <3> HIDE DEF W, h
    <3>1. DOMAIN c = 1..Len(c) /\ Len(c) \in Nat
      BY <2>6
    <3>2. Len(s) \in Nat
      BY <2>2
    <3>3. Len(c) <= Keep /\ Len(c) <= Len(s)
      BY <1>2, <2>6, <3>1, <3>2
    <3> QED
      BY <2>3, <3>1, <3>2, <3>3
  <2>8. \A i \in DOMAIN c : c[i].score = score[c[i].index]
    BY <2>4, <2>6, <2>7
  <2>9. Ordered(c)
    BY <2>2, <2>6, <2>7 DEF Ordered
  <2>10. ASSUME NEW m \in W
         PROVE  Has(c, m) \/ (Len(c) = Keep /\ score[m] >= c[Keep].score)
    <3>1. CASE Len(hits) < Keep
      <4>1. Has(hits, m) \/ m = n
        BY <1>1, <3>1
      <4>2. Len(c) = Len(s) /\ DOMAIN c = DOMAIN s
        <5>1. Len(s) \in Nat /\ Len(s) <= Keep
          BY <1>1, <1>2, <2>2, <3>1
        <5>2. Len(c) = Len(s)
          BY <1>2, <2>6, <5>1
        <5> QED
          BY <2>3, <2>7, <5>2
      <4> QED
        BY <2>5, <2>6, <2>7, <4>1, <4>2 DEF Has
    <3>2. CASE Len(hits) = Keep
      <4>1. Len(c) = Keep /\ c[Keep] = s[Keep] /\ Len(s) = Keep + 1
        BY <1>1, <1>2, <2>2, <2>6, <3>2
      <4>2. hits[Keep] \in Hits(S) /\ hits # <<>>
        BY <1>1, <1>2, <3>2
      <4>3. Before(h, hits[Keep])
        BY <1>2, <1>4, <1>6, <3>2, <4>2 DEF Before, Hits
      <4>4. s[Keep + 1] = hits[Keep]
        BY <2>2, <3>2, <4>1, <4>2, <4>3
      <4>5. s[Keep].score <= hits[Keep].score
        <5>1. Keep \in DOMAIN s /\ Keep + 1 \in DOMAIN s
          BY <1>2, <2>3, <4>1
        <5>2. Before(s[Keep], s[Keep + 1])
          BY <1>2, <2>2, <5>1 DEF Ordered
        <5> QED
          BY <1>2, <2>4, <4>4, <5>1, <5>2, BeforeIsOrder
      <4>6. CASE Has(s, m)
        <5>1. PICK i \in DOMAIN s : s[i].index = m
          BY <4>6 DEF Has
        <5>2. CASE i <= Keep
          BY <2>3, <2>6, <2>7, <4>1, <5>1, <5>2 DEF Has
        <5>3. CASE i > Keep
          <6>1. i = Keep + 1
            BY <1>2, <2>3, <4>1, <5>1, <5>3
          <6>2. score[m] = hits[Keep].score
            BY <2>4, <4>4, <5>1, <6>1
          <6>3. score[m] \in Nat /\ s[Keep].score \in Nat
            BY <1>2, <2>3, <2>4, <4>1 DEF Hits
          <6> QED
            BY <4>1, <4>5, <6>2, <6>3
        <5> QED
          BY <1>2, <2>3, <4>1, <5>1, <5>2, <5>3
      <4>7. CASE ~Has(s, m)
        <5>1. m \in S /\ ~Has(hits, m)
          BY <2>5, <4>7
        <5>2. score[m] >= hits[Keep].score /\ score[m] \in Nat
          BY <1>1, <5>1
        <5>3. s[Keep].score \in Nat /\ hits[Keep].score \in Nat
          BY <1>2, <2>3, <2>4, <4>1, <4>2 DEF Hits
        <5> QED
          BY <4>1, <4>5, <5>2, <5>3
      <4> QED
        BY <4>6, <4>7
    <3> QED
      BY <1>1, <1>2, <3>1, <3>2
  <2>11. IsBest(c, W, score)
    BY <2>6, <2>7, <2>8, <2>9, <2>10 DEF IsBest
  <2> QED
    BY <2>1, <2>11 DEF c
<1> QED
  BY <1>5, <1>6

\* How the hits of another list are offered, one after the other.
LEMMA OfferedSteps ==
  ASSUME NEW hits, NEW other, Len(other) \in Nat
  PROVE  /\ Offered(hits, other)[0] = hits
         /\ \A n \in 1..Len(other) :
              Offered(hits, other)[n] =
                Offer(Offered(hits, other)[n - 1], other[n].score, other[n].index)
<1> DEFINE Is(f, n) == f = [i \in 0..n |->
                             IF i = 0 THEN hits
                             ELSE Offer(f[i - 1], other[i].score, other[i].index)]
           T == {n \in Nat : \E f : Is(f, n)}
<1>1. T = Nat
  <2>1. 0 \in T
    <3> DEFINE f == [i \in 0..0 |-> hits]
    <3>1. Is(f, 0)
      OBVIOUS
    <3> QED
      BY <3>1
  <2>2. ASSUME NEW n \in T PROVE n + 1 \in T
    <3>1. PICK f : Is(f, n)
      OBVIOUS
    <3> DEFINE g == [i \in 0..(n + 1) |->
                      IF i = n + 1 THEN Offer(f[n], other[i].score, other[i].index)
                      ELSE f[i]]
    <3>2. ASSUME NEW i \in 0..(n + 1)
          PROVE  g[i] = IF i = 0 THEN hits
                        ELSE Offer(g[i - 1], other[i].score, other[i].index)
      <4>1. CASE i = n + 1
        BY <4>1
      <4>2. CASE i \in 0..n
        <5>1. g[i] = f[i] /\ (i # 0 => g[i - 1] = f[i - 1])
          BY <4>2
        <5>2. f[i] = IF i = 0 THEN hits ELSE Offer(f[i - 1], other[i].score, other[i].index)
          BY <3>1, <4>2
        <5> QED
          BY <5>1, <5>2
      <4> QED
        BY <4>1, <4>2
    <3>3. Is(g, n + 1)
      BY <3>2
    <3>4. \E e : Is(e, n + 1)
      BY <3>3
    <3> HIDE DEF Is
    <3> QED
      BY <3>4
  <2> QED
    BY <2>1, <2>2, Induct
<1>2. \E f : Is(f, Len(other))
  BY <1>1
<1>3. Offered(hits, other) = CHOOSE f : Is(f, Len(other))
  BY DEF Offered
<1>4. Is(Offered(hits, other), Len(other))
  BY <1>2, <1>3
<1> QED
  BY <1>4

\* Two entries of a list that is in order are of different candidates.
LEMMA NoneTwice ==
  ASSUME NEW U \in SUBSET Nat, NEW score, NEW S \in SUBSET U,
         NEW hits, IsBest(hits, S, score), NEW i \in DOMAIN hits, NEW j \in DOMAIN hits,
         i # j
  PROVE  hits[i].index # hits[j].index
<1> SUFFICES ASSUME hits[i].index = hits[j].index PROVE FALSE
  OBVIOUS
<1>1. hits \in Seq(Hits(S)) /\ S \in SUBSET Nat
  BY DEF IsBest
<1>2. hits[i] \in Hits(S) /\ hits[j] \in Hits(S) /\ i \in Nat /\ j \in Nat
  BY <1>1, HitsOfMore
<1>3. hits[i].score = hits[j].score
  BY DEF IsBest
<1>4. hits[i].score \in Nat /\ hits[i].index \in Nat
  BY <1>1, <1>2 DEF Hits
<1>5. ~Before(hits[i], hits[j]) /\ ~Before(hits[j], hits[i])
  BY <1>3, <1>4 DEF Before
<1> QED
  BY <1>2, <1>5 DEF IsBest, Ordered

\* Two lists of the lowest scores of different candidates, merged.
LEMMA MergeBest ==
  ASSUME NEW U \in SUBSET Nat, NEW score \in [U -> Nat],
         NEW S \in SUBSET U, NEW R \in SUBSET U, S \cap R = {},
         NEW hits, IsBest(hits, S, score), NEW other, IsBest(other, R, score)
  PROVE  IsBest(Merge(hits, other), S \cup R, score)
<1> DEFINE L == Len(other)
           kept == Offered(hits, other)
           Taken(n) == {other[i].index : i \in 1..n}
           T == {n \in Nat : n <= L => IsBest(kept[n], S \cup Taken(n), score)}
<1>1. /\ L \in Nat /\ L <= Keep /\ DOMAIN other = 1..L
      /\ \A i \in 1..L : /\ other[i].index \in R /\ other[i] \in Hits(R)
                        /\ other[i].score = score[other[i].index]
                        /\ other[i].score \in Nat
      /\ Keep \in Nat \ {0}
      /\ \A i, j \in 1..L : i # j => other[i].index # other[j].index
      /\ Ordered(other)
  <2>1. other \in Seq(Hits(R))
    BY DEF IsBest
  <2>2. /\ L \in Nat /\ DOMAIN other = 1..L
        /\ \A i \in 1..L : /\ other[i].index \in R /\ other[i] \in Hits(R)
                          /\ other[i].score \in Nat
    BY <2>1, HitsOfMore
  <2>3. \A i, j \in DOMAIN other : i # j => other[i].index # other[j].index
    BY NoneTwice
  <2> QED
    BY <2>2, <2>3, GrindAssumption DEF IsBest
<1>2. /\ kept[0] = hits
      /\ \A n \in 1..L : kept[n] = Offer(kept[n - 1], other[n].score, other[n].index)
  BY <1>1, OfferedSteps
<1> HIDE DEF L, kept
<1>3. T = Nat
  <2>1. 0 \in T
    <3>1. Taken(0) = {}
      OBVIOUS
    <3> QED
      BY <1>2, <3>1
  <2>2. ASSUME NEW n \in T PROVE n + 1 \in T
    <3> SUFFICES ASSUME n + 1 <= L
                 PROVE  IsBest(kept[n + 1], S \cup Taken(n + 1), score)
      OBVIOUS
    <3> DEFINE m == other[n + 1].index
    <3>1. IsBest(kept[n], S \cup Taken(n), score)
      <4>1. n <= L
        BY <1>1
      <4> HIDE DEF Taken
      <4> QED
        BY <4>1
    <3>2. m \in R /\ other[n + 1].score = score[m] /\ Taken(n) \subseteq R
      BY <1>1
    <3>3. m \notin Taken(n)
      BY <1>1
    <3>4. Taken(n + 1) = Taken(n) \cup {m}
      OBVIOUS
    <3>5. kept[n + 1] = Offer(kept[n], score[m], m)
      BY <1>1, <1>2, <3>2
    <3> HIDE DEF Taken, m
    <3>6. /\ S \cup Taken(n) \in SUBSET U
          /\ m \in U \ (S \cup Taken(n))
      BY <3>2, <3>3
    <3>7. IsBest(Offer(kept[n], score[m], m), (S \cup Taken(n)) \cup {m}, score)
      BY <3>1, <3>6, OfferBest
    <3>8. S \cup Taken(n + 1) = (S \cup Taken(n)) \cup {m}
      BY <3>4
    <3> QED
      BY <3>5, <3>7, <3>8
  <2> HIDE DEF T
  <2> QED
    BY <2>1, <2>2, Induct DEF T
<1> DEFINE c == kept[L]
<1>4. IsBest(c, S \cup Taken(L), score)
  <2>1. L \in T
    BY <1>1, <1>3
  <2> QED
    BY <2>1
<1> HIDE DEF T
<1>5. Merge(hits, other) = c
  BY DEF Merge, L, kept
<1>6. Taken(L) \subseteq R /\ Taken(L) = {other[i].index : i \in 1..L}
  BY <1>1
<1> HIDE DEF c, Taken
<1>7. /\ c \in Seq(Hits(S \cup Taken(L))) /\ Len(c) <= Keep
      /\ \A i \in DOMAIN c : c[i].score = score[c[i].index]
      /\ Ordered(c)
      /\ \A n \in S \cup Taken(L) : Has(c, n) \/ (Len(c) = Keep /\ score[n] >= c[Keep].score)
  BY <1>4 DEF IsBest
<1>8. /\ c \in Seq(Hits(S \cup R)) /\ Len(c) \in Nat /\ DOMAIN c = 1..Len(c)
      /\ \A i \in DOMAIN c : c[i] \in Hits(S \cup Taken(L))
                             /\ c[i].index \in S \cup Taken(L) /\ c[i].score \in Nat
  BY <1>6, <1>7, HitsOfMore
<1>9. ASSUME NEW n \in R, n \notin Taken(L)
      PROVE  Len(c) = Keep /\ score[n] >= c[Keep].score
  <2>1. L = Keep /\ score[n] >= other[Keep].score
    BY ZenonT(60), <1>1, <1>6, <1>9 DEF IsBest, Has, L
  <2>2. \A i \in 1..L : other[i].score <= other[L].score
    <3>1. ASSUME NEW i \in 1..L, i < L PROVE other[i].score <= other[L].score
      <4>1. L \in 1..L
        BY <1>1, <2>1
      <4>2. Before(other[i], other[L])
        BY <1>1, <3>1, <4>1 DEF Ordered
      <4> QED
        BY <1>1, <4>1, <4>2, BeforeIsOrder
    <3>2. other[L].score \in Nat
      BY <1>1, <2>1
    <3> QED
      BY <1>1, <3>1, <3>2
  <2> DEFINE C == Len(c)
  <2>0. C \in Nat /\ C <= Keep /\ DOMAIN c = 1..C
    BY <1>7, <1>8
  <2> HIDE DEF C
  <2>3. CASE \E i \in 1..L : ~Has(c, other[i].index)
    <3>1. PICK i \in 1..L : ~Has(c, other[i].index)
      BY <2>3
    <3>2. Len(c) = Keep /\ score[other[i].index] >= c[Keep].score
      BY <1>6, <1>7, <3>1
    <3>3. score[other[i].index] <= other[L].score
      BY <1>1, <2>2
    <3>4. c[Keep].score \in Nat
      <4>1. Keep \in DOMAIN c
        BY <1>1, <1>8, <3>2
      <4> QED
        BY <1>8, <4>1
    <3>5. score[n] \in Nat /\ other[L].score \in Nat /\ score[other[i].index] \in Nat
      <4>1. L \in 1..L
        BY <1>1, <2>1
      <4> QED
        BY <1>1, <4>1
    <3> QED
      BY <2>1, <3>2, <3>3, <3>4, <3>5
  <2>4. CASE \A i \in 1..L : Has(c, other[i].index)
    <3>1. PICK at \in [1..L -> 1..Len(c)] : \A i \in 1..L : c[at[i]].index = other[i].index
      <4> DEFINE at == [i \in 1..L |-> CHOOSE m \in 1..Len(c) : c[m].index = other[i].index]
      <4>1. \A i \in 1..L : at[i] \in 1..Len(c) /\ c[at[i]].index = other[i].index
        BY <1>8, <2>4 DEF Has
      <4> QED
        BY <4>1
    <3>2. at \in Injection(1..L, 1..Len(c))
      <4>1. \A i, j \in 1..L : at[i] = at[j] => i = j
        BY <1>1, <3>1
      <4> QED
        BY <4>1 DEF Injection, IsInjective
    <3>3. /\ IsFiniteSet(1..L) /\ Cardinality(1..L) = Keep
          /\ IsFiniteSet(1..Len(c)) /\ Cardinality(1..Len(c)) = Len(c)
      <4>1. IsFiniteSet(1..L) /\ Cardinality(1..L) = L
        BY <1>1, <2>1, FS_Interval
      <4>2. IsFiniteSet(1..C) /\ Cardinality(1..C) = C
        BY <2>0, FS_Interval
      <4> QED
        BY <2>1, <4>1, <4>2 DEF C
    <3>4. Len(c) = Keep /\ at \in Surjection(1..L, 1..Len(c))
      <4>1. Keep <= Len(c)
        BY <3>2, <3>3, FS_Injection
      <4>2. Len(c) = Keep
        <5>1. Keep <= C
          BY <4>1 DEF C
        <5>2. C = Keep
          BY <1>1, <2>0, <5>1
        <5> QED
          BY <5>2 DEF C
      <4> QED
        BY <3>2, <3>3, <4>2, FS_Injection
    <3>5. PICK i \in 1..L : at[i] = Keep
      BY <1>1, <3>4 DEF Surjection
    <3>6. c[Keep].index = other[i].index
      BY <3>1, <3>5
    <3>7. c[Keep].score = other[i].score /\ other[i].score <= other[L].score
      <4>1. Keep \in DOMAIN c
        BY <1>1, <1>8, <3>4
      <4>2. c[Keep].score = score[c[Keep].index]
        BY <1>7, <4>1
      <4>3. other[i].score = score[other[i].index]
        BY <1>1
      <4> QED
        BY <2>2, <3>6, <4>2, <4>3
    <3>8. c[Keep].score \in Nat /\ score[n] \in Nat /\ other[L].score \in Nat
      <4>1. Keep \in DOMAIN c /\ L \in 1..L
        BY <1>1, <1>8, <2>1, <3>4
      <4> QED
        BY <1>1, <1>8, <4>1
    <3> QED
      BY <2>1, <3>4, <3>7, <3>8
  <2> QED
    BY <2>3, <2>4
<1>10. IsBest(c, S \cup R, score)
  BY <1>7, <1>8, <1>9 DEF IsBest
<1> QED
  BY <1>5, <1>10

-----------------------------------------------------------------------------
(* Scores *)

\* A score of four numbers below Base can be read again.
LEMMA SalienceReadBack ==
  ASSUME NEW e \in 0..(Base - 1), NEW c \in 0..(Base - 1), NEW f \in 0..(Base - 1),
         NEW d \in 0..(Base - 1)
  PROVE  LET s == [empty |-> e, colour |-> c, family |-> f, direction |-> d]
         IN  SalienceScore(s) \in Nat /\ SalienceOf(SalienceScore(s)) = s
<1> DEFINE B == Base
           s == [empty |-> e, colour |-> c, family |-> f, direction |-> d]
           x == e * B + c
           y == x * B + f
           v == y * B + d
<1>1. B \in Nat \ {0}
  BY GrindAssumption
<1>2. x \in Nat /\ y \in Nat /\ v \in Nat
  BY <1>1
<1>3. SalienceScore(s) = v
  BY DEF SalienceScore
<1>4. v % B = d
  BY <1>1, <1>2, Division
<1>5. v \div (B * B) = x /\ x % B = c
  <2>1. v = x * (B * B) + (f * B + d)
    BY <1>1
  <2>2. f * B + d \in 0..(B * B - 1) /\ B * B \in Nat \ {0}
    <3>1. f * B <= (B - 1) * B /\ f * B \in Nat
      BY <1>1
    <3>2. (B - 1) * B = B * B - B /\ B * B \in Nat \ {0}
      BY <1>1
    <3> QED
      BY <1>1, <3>1, <3>2
  <2>3. v \div (B * B) = x
    <3> HIDE DEF v, x
    <3> QED
      BY <1>2, <2>1, <2>2, Division
  <2>4. x % B = c
    BY <1>1, <1>2, Division
  <2> QED
    BY <2>3, <2>4
<1>6. v \div (B * B * B) = e
  <2> DEFINE r == (c * B + f) * B + d
             C == B * B * B
  <2>1. v = e * C + r
    BY <1>1
  <2>2. r \in 0..(C - 1) /\ C \in Nat \ {0}
    <3> DEFINE g == c * B + f
    <3>1. g \in 0..(B * B - 1)
      <4>1. c * B <= (B - 1) * B /\ c * B \in Nat
        BY <1>1
      <4>2. (B - 1) * B = B * B - B
        BY <1>1
      <4> QED
        BY <1>1, <4>1, <4>2
    <3>2. B * B \in Nat /\ C \in Nat \ {0}
      BY <1>1
    <3> HIDE DEF g
    <3>3. g * B <= (B * B - 1) * B /\ g * B \in Nat
      BY <1>1, <3>1, <3>2
    <3>4. (B * B - 1) * B = C - B
      BY <1>1
    <3>5. r = g * B + d
      BY DEF g
    <3> HIDE DEF r, C
    <3> QED
      BY <1>1, <3>2, <3>3, <3>4, <3>5
  <2> HIDE DEF r, C, v
  <2>3. e \in Nat
    BY <1>1
  <2>4. v \div C = e
    BY <1>2, <2>1, <2>2, <2>3, Division
  <2> QED
    BY <2>4 DEF C
<1>7. v \div B = y /\ y % B = f
  BY <1>1, <1>2, Division
<1> HIDE DEF v, x, y
<1>8. SalienceOf(v) = s
  BY <1>4, <1>5, <1>6, <1>7 DEF SalienceOf
<1> QED
  BY <1>2, <1>3, <1>8

\* The differences of two images are fewer than Base.
LEMMA ComparedTypes ==
  ASSUME NEW a, DOMAIN a = 1..CellCount, NEW b
  PROVE  \E e, c, f, d \in 0..(Base - 1) :
           CompareCells(a, b) = [empty |-> e, colour |-> c, family |-> f, direction |-> d]
<1>1. ASSUME NEW S \in SUBSET (1..CellCount) PROVE Cardinality(S) \in 0..(Base - 1)
  <2>1. /\ IsFiniteSet(1..CellCount) /\ Cardinality(1..CellCount) = CellCount
        /\ CellCount \in Nat /\ Base \in Nat /\ CellCount < Base
    BY FS_Interval, GrindAssumption
  <2>2. Cardinality(S) <= Cardinality(1..CellCount) /\ IsFiniteSet(S)
    BY <2>1, FS_Subset, Zenon
  <2>3. Cardinality(S) \in Nat
    BY <2>2, FS_CardinalityType
  <2> QED
    BY <2>1, <2>2, <2>3
<1> DEFINE F == {i \in DOMAIN a : a[i].fig # "none" /\ b[i].fig # "none"}
           E == {i \in DOMAIN a : (a[i].fig = "none") # (b[i].fig = "none")}
           C == {i \in F : a[i].colour # b[i].colour}
           G == {i \in F : FigureFamily(a[i].fig) # FigureFamily(b[i].fig)}
           D == {i \in F : a[i].fig # b[i].fig} \ G
<1>2. CompareCells(a, b) = [empty |-> Cardinality(E), colour |-> Cardinality(C),
                            family |-> Cardinality(G), direction |-> Cardinality(D)]
  BY DEF CompareCells
<1>3. /\ E \in SUBSET (1..CellCount) /\ C \in SUBSET (1..CellCount)
      /\ G \in SUBSET (1..CellCount) /\ D \in SUBSET (1..CellCount)
  OBVIOUS
<1> HIDE DEF E, C, G, D
<1> QED
  BY <1>1, <1>2, <1>3

\* The states of a cell.
LEMMA StateTypes ==
  ASSUME NEW image \in Image, NEW i \in 1..CellCount
  PROVE  CellState(image[i]) \in 0..24
<1> DEFINE c == image[i]
<1>1. c.fig \in Range(FigureNames) /\ c.colour \in 0..3
  BY DEF Image
<1> HIDE DEF c
<1>2. \E n \in 0..6 : c.fig = FigureNames[n + 1]
  <2>1. PICK n \in DOMAIN FigureNames : c.fig = FigureNames[n]
    BY <1>1 DEF Range
  <2>2. n - 1 \in 0..6 /\ n = (n - 1) + 1
    BY DEF FigureNames
  <2> QED
    BY <2>1, <2>2
<1>3. FigureNumber(c.fig) \in 0..6 /\ c.fig = FigureNames[FigureNumber(c.fig) + 1]
  BY <1>2 DEF FigureNumber
<1>4. c.fig # "none" => FigureNumber(c.fig) # 0
  BY <1>3 DEF FigureNames
<1> DEFINE n == FigureNumber(c.fig)
<1>5. CellState(c) = IF c.fig = "none" THEN 0 ELSE 1 + (n - 1) * 4 + c.colour
  BY DEF CellState
<1>6. n \in 0..6 /\ (c.fig # "none" => n # 0)
  BY <1>3, <1>4
<1> HIDE DEF n
<1>7. CellState(c) \in 0..24
  BY <1>1, <1>5, <1>6
<1> QED
  BY <1>7 DEF c

\* Distances in pixels are numbers.
LEMMA GistTypes ==
  ASSUME NEW t \in DOMAIN Targets, NEW image \in Image
  PROVE  Gist(t, image) \in Nat
<1> DEFINE a == Targets[t]
           D(i) == StateDistance(CellState(a[i]), CellState(image[i]))
           Is(f, n) == f = [i \in 0..n |-> IF i = 0 THEN 0 ELSE f[i - 1] + D(i)]
           T == {n \in Nat : n <= CellCount => \E f \in [0..n -> Nat] : Is(f, n)}
<1>1. \A i \in 1..CellCount : D(i) \in Nat
  <2>1. a \in Image
    BY GrindAssumption
  <2> QED
    BY <2>1, StateTypes, DistancesAssumption
<1> HIDE DEF D
<1>2. T = Nat
  <2>1. 0 \in T
    <3> DEFINE f == [i \in 0..0 |-> 0]
    <3>1. Is(f, 0) /\ f \in [0..0 -> Nat]
      OBVIOUS
    <3>2. \E e \in [0..0 -> Nat] : Is(e, 0)
      BY <3>1
    <3> HIDE DEF Is
    <3> QED
      BY <3>2
  <2>2. ASSUME NEW n \in T PROVE n + 1 \in T
    <3> SUFFICES ASSUME n + 1 <= CellCount
                 PROVE  \E f \in [0..(n + 1) -> Nat] : Is(f, n + 1)
      OBVIOUS
    <3>1. PICK f \in [0..n -> Nat] : Is(f, n)
      BY GrindAssumption
    <3> DEFINE g == [i \in 0..(n + 1) |-> IF i = n + 1 THEN f[n] + D(n + 1) ELSE f[i]]
    <3>2. ASSUME NEW i \in 0..(n + 1)
          PROVE  g[i] = (IF i = 0 THEN 0 ELSE g[i - 1] + D(i)) /\ g[i] \in Nat
      <4>1. CASE i = n + 1
        <5>1. g[i] = f[n] + D(n + 1) /\ g[i - 1] = f[n] /\ i # 0
          BY <4>1
        <5>2. f[n] \in Nat /\ D(n + 1) \in Nat
          BY <1>1, <3>1
        <5> QED
          BY <4>1, <5>1, <5>2
      <4>2. CASE i \in 0..n
        <5>1. g[i] = f[i] /\ (i # 0 => g[i - 1] = f[i - 1])
          BY <4>2
        <5>2. f[i] = IF i = 0 THEN 0 ELSE f[i - 1] + D(i)
          BY <3>1, <4>2
        <5> QED
          BY <4>2, <5>1, <5>2
      <4> QED
        BY <4>1, <4>2
    <3>3. Is(g, n + 1) /\ g \in [0..(n + 1) -> Nat]
      <4>1. \A i \in 0..(n + 1) : g[i] = IF i = 0 THEN 0 ELSE g[i - 1] + D(i)
        BY <3>2
      <4>2. \A i \in 0..(n + 1) : g[i] \in Nat
        BY <3>2
      <4>3. g = [i \in 0..(n + 1) |-> g[i]]
        OBVIOUS
      <4> HIDE DEF g
      <4> QED
        BY <4>1, <4>2, <4>3
    <3> HIDE DEF g, Is
    <3> QED
      BY <3>3
  <2> HIDE DEF T
  <2> QED
    BY <2>1, <2>2, Induct DEF T
<1>3. \E f \in [0..CellCount -> Nat] : Is(f, CellCount)
  <2>1. CellCount \in Nat /\ CellCount <= CellCount
    BY GrindAssumption
  <2>2. CellCount \in T
    <3> HIDE DEF T
    <3> QED
      BY <1>2, <2>1
  <2> HIDE DEF Is
  <2> QED
    BY <2>1, <2>2
<1> HIDE DEF T
<1>4. PICK f \in [0..CellCount -> Nat] : Is(f, CellCount)
  BY <1>3
<1>5. GistUpTo(a, image) = CHOOSE e : Is(e, CellCount)
  BY DEF GistUpTo, D
<1>6. Is(GistUpTo(a, image), CellCount)
  BY <1>3, <1>5
<1> DEFINE u == GistUpTo(a, image)
           V == {n \in Nat : n <= CellCount => u[n] = f[n]}
<1>7. /\ u[0] = 0 /\ f[0] = 0
      /\ \A i \in 1..CellCount : u[i] = u[i - 1] + D(i) /\ f[i] = f[i - 1] + D(i)
  BY <1>4, <1>6, GrindAssumption
<1> HIDE DEF u
<1>8. V = Nat
  <2>1. 0 \in V
    BY <1>7
  <2>2. ASSUME NEW n \in V PROVE n + 1 \in V
    <3> SUFFICES ASSUME n + 1 <= CellCount PROVE u[n + 1] = f[n + 1]
      OBVIOUS
    <3>1. n + 1 \in 1..CellCount /\ u[n] = f[n]
      BY GrindAssumption
    <3> QED
      BY <1>7, <3>1
  <2> HIDE DEF V
  <2> QED
    BY <2>1, <2>2, Induct DEF V
<1>9. u[CellCount] = f[CellCount]
  BY <1>8, GrindAssumption
<1>10. Gist(t, image) = u[CellCount]
  BY DEF Gist, u
<1> QED
  BY <1>4, <1>9, <1>10, GrindAssumption

-----------------------------------------------------------------------------
(* The inductive invariant of `grind` *)

All == 0..(count - 1)

\* A thread has left candidate j behind at target k.
Past(me, j, k) == j < me.j \/ (j = me.j /\ k < me.k)

\* The candidates thread t has offered to the lists of target k.
Tried(me, t, k) ==
  {j \in All : /\ j % threads = t
               /\ Past(me, j, k) \/ (j = me.j /\ k = me.k /\ me.at \in {"lock", "count"})}

\* The candidates whose turn at target k is over.
Over(k) == {j \in All : Past(worker[j % threads], j, k)}

\* A candidate is counted by counter n of target k.
CountedBy(n, k, j) ==
  LET s == CompareCells(Targets[k], cells[j])
  IN  /\ s.empty = 0
      /\ n >= 2 => s.colour = 0
      /\ n >= 3 => s.family = 0
      /\ n = 4 => s.direction = 0

CountedIn(S, n, k) == Cardinality({j \in S : CountedBy(n, k, j)})

Scores(l) == [j \in All |-> ScoreOf(scheme, KindOf(scheme, l), TargetOf(l), j)]

Counters == [1..4 -> Nat]
Workers == [at : {"score", "lock", "count", "end"}, j : Nat, k : 1..TargetCount,
            seen : Counters, lists : [Lists(scheme) -> Seq(Hits(All))]]

Running == grind_pc \in {"pool", "merge", "write"}

\* What was asked for, once it was.
InputOK ==
  grind_pc # "idle" =>
    /\ threads \in Nat \ {0}
    /\ \E quick \in BOOLEAN : count = Counts(quick) /\ cells \in Candidates(Counts(quick))

StateOK ==
  /\ grind_pc \in {"idle", "open", "pool", "merge", "write", "done"}
  /\ scheme \in {"hh", "blockies", "jazzicon"}
  /\ stage_counts \in [1..TargetCount -> Counters]
  /\ grind_pc \in {"idle", "open"} =>
       /\ scheme = "hh" /\ tsv = <<>>
       /\ \A k \in 1..TargetCount, n \in 1..4 : stage_counts[k][n] = 0
  /\ grind_pc # "pool" => count_mutex = -1

\* Thread t visits candidates t, t + threads and so on, and only threads of hh
\* lock, for a candidate that has the target's empty cells.
WorkerOK(me, t) ==
  /\ me \in Workers
  /\ me.j % threads = t
  /\ (me.at = "end") <=> (me.j >= count)
  /\ me.at = "end" => me.k = 1
  /\ me.at \in {"lock", "count"} => scheme = "hh" /\ Compared(me).empty = 0

WorkersOK == grind_pc = "pool" => /\ worker = [t \in Ids |-> worker[t]]
                                  /\ \A t \in Ids : WorkerOK(worker[t], t)

\* A thread that counts holds the mutex, and what it read is still so.
MutexOK ==
  grind_pc = "pool" =>
    /\ count_mutex \in Ids \cup {-1}
    /\ \A t \in Ids : /\ worker[t].at = "count" <=> count_mutex = t
                      /\ worker[t].at = "count" =>
                           worker[t].seen = stage_counts[worker[t].k]

\* The counters are the numbers of candidates that match, of those counted yet.
CountersOK ==
  Running => \A k \in 1..TargetCount, n \in 1..4 :
    stage_counts[k][n] = CountedIn(IF grind_pc = "pool" /\ scheme = "hh" THEN Over(k) ELSE All,
                                   n, k)

\* Each list has the lowest scores of those that were offered to it.
PoolLists ==
  grind_pc = "pool" =>
    \A t \in Ids, l \in Lists(scheme) :
      IsBest(worker[t].lists[l], Tried(worker[t], t, TargetOf(l)), Scores(l))

\* The lists of the first threads are merged.
MergeLists ==
  grind_pc = "merge" =>
    /\ passed \in 0..threads
    /\ \A l \in Lists(scheme) :
         /\ IsBest(best[l], {j \in All : j % threads < passed}, Scores(l))
         /\ \A t \in Ids : IsBest(worker[t].lists[l], {j \in All : j % threads = t}, Scores(l))

WriteLists ==
  grind_pc = "write" =>
    /\ passed \in {0} \cup Lists(scheme)
    /\ \A l \in Lists(scheme) : IsBest(best[l], All, Scores(l))

Labels == {<<>>} \cup [empty : Nat, colour : Nat, family : Nat, direction : Nat]
Row == [scheme : {"hh", "blockies", "jazzicon"}, kind : {"salience", "gist"},
        target : 1..TargetCount, rank : Nat, score : Nat, index : Nat,
        matches : Seq(Nat), label : Labels]

Earlier(sch) == CASE sch = "hh" -> {} [] sch = "blockies" -> {"hh"}
                  [] OTHER -> {"hh", "blockies"}

\* The rows are those of the schemes before, and of the lists written.
RowsOK ==
  /\ tsv \in Seq(Row)
  /\ grind_pc # "done" =>
       \A n \in DOMAIN tsv :
         \/ tsv[n].scheme \in Earlier(scheme)
         \/ /\ grind_pc = "write" /\ tsv[n].scheme = scheme
            /\ \E l \in 1..passed : /\ tsv[n].kind = KindOf(scheme, l)
                                    /\ tsv[n].target = TargetOf(l)

GrindIInv == /\ InputOK /\ StateOK /\ WorkersOK /\ MutexOK /\ CountersOK
             /\ PoolLists /\ MergeLists /\ WriteLists
             /\ RowsOK /\ LowestAreKept /\ CountsAreExact

-----------------------------------------------------------------------------

\* What was asked for, as the proofs use it.
LEMMA InputFacts ==
  ASSUME InputOK, grind_pc # "idle"
  PROVE  /\ threads \in Nat \ {0} /\ count \in Nat /\ Ids = 0..(threads - 1)
         /\ All = 0..(count - 1) /\ All \in SUBSET Nat
         /\ cells \in [All -> Image]
         /\ \A j \in All, k \in 1..TargetCount :
              /\ \A other \in {"blockies", "jazzicon"} : OtherGist(other, k, j) \in Nat
              /\ Gist(k, cells[j]) \in Nat
<1>1. PICK quick \in BOOLEAN : count = Counts(quick) /\ cells \in Candidates(Counts(quick))
  BY DEF InputOK
<1>2. count \in Nat /\ cells \in [All -> Image]
  BY <1>1, CandidatesAssumption DEF All
<1>3. DOMAIN Targets = 1..TargetCount
  BY GrindAssumption DEF TargetCount
<1>4. ASSUME NEW j \in All, NEW k \in 1..TargetCount
      PROVE  /\ \A other \in {"blockies", "jazzicon"} : OtherGist(other, k, j) \in Nat
             /\ Gist(k, cells[j]) \in Nat
  <2>1. \A other \in {"blockies", "jazzicon"} : OtherGist(other, k, j) \in Nat
    BY <1>1, <1>3, DistancesAssumption DEF All
  <2>2. cells[j] \in Image
    BY <1>2
  <2> QED
    BY <1>3, <2>1, <2>2, GistTypes
<1>5. threads \in Nat \ {0} /\ Ids = 0..(threads - 1) /\ All \in SUBSET Nat
  BY <1>2 DEF InputOK, Ids, All
<1> QED
  BY <1>2, <1>4, <1>5 DEF All

\* The lists of a scheme, and what they are of.
LEMMA ListFacts ==
  ASSUME NEW sch
  PROVE  /\ TargetCount \in Nat \ {0} /\ DOMAIN Targets = 1..TargetCount
         /\ \A k \in 1..TargetCount : Targets[k] \in Image /\ DOMAIN Targets[k] = 1..CellCount
         /\ Lists(sch) = 1..(IF sch = "hh" THEN 2 * TargetCount ELSE TargetCount)
         /\ \A l \in Lists(sch) :
              /\ l \in Nat \ {0} /\ TargetOf(l) \in 1..TargetCount
              /\ KindOf(sch, l) \in {"salience", "gist"}
              /\ sch # "hh" => KindOf(sch, l) = "gist" /\ TargetOf(l) = l
         /\ \A k \in 1..TargetCount :
              /\ k \in Lists(sch) /\ TargetOf(k) = k
              /\ sch = "hh" => /\ KindOf(sch, k) = "salience"
                               /\ TargetCount + k \in Lists(sch)
                               /\ TargetOf(TargetCount + k) = k
                               /\ KindOf(sch, TargetCount + k) = "gist"
                               /\ \A l \in Lists(sch) : TargetOf(l) = k => l \in {k, TargetCount + k}
              /\ sch # "hh" => \A l \in Lists(sch) : TargetOf(l) = k => l = k
<1>1. TargetCount \in Nat \ {0} /\ DOMAIN Targets = 1..TargetCount
  BY GrindAssumption DEF TargetCount
<1>2. \A k \in 1..TargetCount : Targets[k] \in Image /\ DOMAIN Targets[k] = 1..CellCount
  BY <1>1, GrindAssumption DEF Image
<1>3. CASE sch = "hh"
  BY <1>1, <1>2, <1>3 DEF Lists, TargetOf, KindOf
<1>4. CASE sch # "hh"
  BY <1>1, <1>2, <1>4 DEF Lists, TargetOf, KindOf
<1> QED
  BY <1>3, <1>4

\* How cells differ, with the labels' types.
LEMMA Salience ==
  ASSUME NEW k \in 1..TargetCount, NEW image
  PROVE  LET s == CompareCells(Targets[k], image)
         IN  /\ s \in [empty : Nat, colour : Nat, family : Nat, direction : Nat]
             /\ SalienceScore(s) \in Nat /\ SalienceOf(SalienceScore(s)) = s
<1>1. PICK e, c, f, d \in 0..(Base - 1) :
        CompareCells(Targets[k], image) =
          [empty |-> e, colour |-> c, family |-> f, direction |-> d]
  <2>1. DOMAIN Targets[k] = 1..CellCount
    BY ListFacts
  <2> QED
    BY <2>1, ComparedTypes
<1>2. Base \in Nat
  BY GrindAssumption
<1> QED
  BY <1>1, <1>2, SalienceReadBack

\* Every candidate of a running scheme has a score in every list.
LEMMA ScoresTypes ==
  ASSUME InputOK, grind_pc # "idle", scheme \in {"hh", "blockies", "jazzicon"},
         NEW l \in Lists(scheme)
  PROVE  /\ Scores(l) \in [All -> Nat]
         /\ \A j \in All : Scores(l)[j] = ScoreOf(scheme, KindOf(scheme, l), TargetOf(l), j)
<1>1. ASSUME NEW j \in All PROVE ScoreOf(scheme, KindOf(scheme, l), TargetOf(l), j) \in Nat
  <2>1. TargetOf(l) \in 1..TargetCount
    BY ListFacts
  <2>2. CASE scheme # "hh"
    BY <2>1, <2>2, InputFacts DEF ScoreOf
  <2>3. CASE scheme = "hh"
    <3>1. Gist(TargetOf(l), cells[j]) \in Nat
      BY <2>1, InputFacts
    <3>2. SalienceScore(CompareCells(Targets[TargetOf(l)], cells[j])) \in Nat
      BY <2>1, Salience
    <3> QED
      BY <2>3, <3>1, <3>2 DEF ScoreOf
  <2> QED
    BY <2>2, <2>3
<1> QED
  BY <1>1 DEF Scores

-----------------------------------------------------------------------------
(* Threads *)

\* A worker that has moved.
LEMMA WorkerMoves ==
  ASSUME NEW me \in Workers, NEW at \in {"score", "lock", "count", "end"},
         NEW j \in Nat, NEW k \in 1..TargetCount
  PROVE  /\ [me EXCEPT !.at = at, !.j = j, !.k = k] \in Workers
         /\ [me EXCEPT !.at = at, !.k = k] \in Workers
         /\ [me EXCEPT !.at = at] \in Workers
<1> DEFINE L == [Lists(scheme) -> Seq(Hits(All))]
           K == 1..TargetCount
<1>1. me \in [at : {"score", "lock", "count", "end"}, j : Nat, k : K, seen : Counters, lists : L]
  BY DEF Workers
<1> HIDE DEF L, K
<1>2. /\ [me EXCEPT !.at = at, !.j = j, !.k = k] \in
           [at : {"score", "lock", "count", "end"}, j : Nat, k : K, seen : Counters, lists : L]
      /\ [me EXCEPT !.at = at, !.k = k] \in
           [at : {"score", "lock", "count", "end"}, j : Nat, k : K, seen : Counters, lists : L]
      /\ [me EXCEPT !.at = at] \in
           [at : {"score", "lock", "count", "end"}, j : Nat, k : K, seen : Counters, lists : L]
  BY <1>1 DEF K
<1> QED
  BY <1>2 DEF Workers, L, K

\* What a thread has tried and left behind when it goes on.
LEMMA Advance ==
  ASSUME InputOK, grind_pc # "idle", NEW t \in Ids, NEW me \in Workers,
         me.j % threads = t, me.j < count, NEW you, you = Advanced(me)
  PROVE  /\ you \in Workers /\ you.lists = me.lists /\ you.seen = me.seen
         /\ you.at \in {"score", "end"} /\ you.j % threads = t
         /\ you.at = "end" <=> you.j >= count
         /\ you.at = "end" => you.k = 1
         /\ \A k \in 1..TargetCount :
              Tried(you, t, k) =
                {j \in All : j % threads = t /\ (Past(me, j, k) \/ (j = me.j /\ k = me.k))}
         /\ \A k \in 1..TargetCount, j \in All :
              j % threads = t =>
                (Past(you, j, k) <=> Past(me, j, k) \/ (j = me.j /\ k = me.k))
<1>1. /\ threads \in Nat \ {0} /\ count \in Nat /\ TargetCount \in Nat \ {0}
      /\ me.j \in Nat /\ me.k \in 1..TargetCount /\ All = 0..(count - 1)
      /\ me.seen \in Counters /\ me.lists \in [Lists(scheme) -> Seq(Hits(All))]
  BY SMTT(60), InputFacts, ListFacts DEF Workers
<1>0. ASSUME NEW at \in {"score", "end"}, NEW j \in Nat, NEW k \in 1..TargetCount
      PROVE  /\ [me EXCEPT !.at = at, !.j = j, !.k = k] \in Workers
             /\ [me EXCEPT !.at = at, !.k = k] \in Workers
  BY WorkerMoves
<1>2. CASE me.k < TargetCount
  <2>1. you = [me EXCEPT !.at = "score", !.k = @ + 1]
    BY <1>2 DEF Advanced
  <2>2. /\ you.at = "score" /\ you.k = me.k + 1 /\ you.j = me.j
        /\ you.lists = me.lists /\ you.seen = me.seen
    BY <2>1 DEF Workers
  <2>3. you \in Workers
    <3>1. me.k + 1 \in 1..TargetCount
      BY <1>1, <1>2
    <3> QED
      BY <1>0, <2>1, <3>1
  <2>4. \A k \in 1..TargetCount, j \in All :
          Past(you, j, k) <=> Past(me, j, k) \/ (j = me.j /\ k = me.k)
    BY <1>1, <1>2, <2>2 DEF Past
  <2>5. \A k \in 1..TargetCount :
          Tried(you, t, k) =
            {j \in All : j % threads = t /\ (Past(me, j, k) \/ (j = me.j /\ k = me.k))}
    BY <2>2, <2>4 DEF Tried
  <2> QED
    BY SMTT(60), <1>1, <2>2, <2>3, <2>4, <2>5
<1>3. CASE me.k = TargetCount
  <2>1. you = [me EXCEPT !.at = IF me.j + threads < count THEN "score" ELSE "end",
                         !.j = @ + threads, !.k = 1]
    BY <1>3, <1>1 DEF Advanced
  <2>2. /\ you.at = (IF me.j + threads < count THEN "score" ELSE "end")
        /\ you.k = 1 /\ you.j = me.j + threads
        /\ you.lists = me.lists /\ you.seen = me.seen
    BY <2>1 DEF Workers
  <2>3. you \in Workers
    <3> DEFINE at == IF me.j + threads < count THEN "score" ELSE "end"
    <3>1. me.j + threads \in Nat /\ 1 \in 1..TargetCount /\ at \in {"score", "end"}
      BY <1>1
    <3>2. you = [me EXCEPT !.at = at, !.j = me.j + threads, !.k = 1]
      BY <2>1
    <3> DEFINE j == me.j + threads
    <3> HIDE DEF at, j
    <3>3. j \in Nat
      BY SMTT(60), <3>1 DEF j
    <3>4. [me EXCEPT !.at = at, !.j = j, !.k = 1] \in Workers
      BY <1>0, <3>1, <3>3
    <3> QED
      BY <3>2, <3>4 DEF j
  <2>4. /\ (me.j + threads) % threads = t
        /\ \A j \in Nat : me.j < j /\ j < me.j + threads => j % threads # t
    BY <1>1, Turns
  <2>5. \A k \in 1..TargetCount, j \in All :
          j % threads = t => (Past(you, j, k) <=> Past(me, j, k) \/ (j = me.j /\ k = me.k))
    <3> SUFFICES ASSUME NEW k \in 1..TargetCount, NEW j \in All, j % threads = t
                 PROVE  Past(you, j, k) <=> Past(me, j, k) \/ (j = me.j /\ k = me.k)
      OBVIOUS
    <3>1. j \in Nat /\ (me.j < j => j >= me.j + threads)
      <4>1. j \in Nat
        BY <1>1
      <4> QED
        BY <1>1, <2>4, <4>1
    <3>2. Past(you, j, k) <=> j < me.j + threads
      BY <1>1, <2>2, <3>1 DEF Past
    <3>3. Past(me, j, k) \/ (j = me.j /\ k = me.k) <=> j <= me.j
      BY <1>1, <1>3, <3>1 DEF Past
    <3> QED
      BY <1>1, <3>1, <3>2, <3>3
  <2>6. \A k \in 1..TargetCount :
          Tried(you, t, k) =
            {j \in All : j % threads = t /\ (Past(me, j, k) \/ (j = me.j /\ k = me.k))}
    BY <2>2, <2>5 DEF Tried
  <2>7. /\ you.at \in {"score", "end"} /\ you.j % threads = t
        /\ (you.at = "end") <=> (you.j >= count)
        /\ you.at = "end" => you.k = 1
    <3>1. CASE me.j + threads < count
      BY <1>1, <2>2, <2>4, <3>1
    <3>2. CASE me.j + threads >= count
      BY <1>1, <2>2, <2>4, <3>2
    <3> QED
      BY <1>1, <3>1, <3>2
  <2> QED
    BY <2>2, <2>3, <2>5, <2>6, <2>7
<1> QED
  BY <1>1, <1>2, <1>3

\* A thread that begins has tried nothing.
LEMMA Begin ==
  ASSUME InputOK, grind_pc # "idle", NEW t \in Ids
  PROVE  /\ t \in Nat /\ t % threads = t
         /\ \A k \in 1..TargetCount, j \in All :
              j % threads = t => ~(j < t \/ (j = t /\ k < 1))
<1>1. /\ threads \in Nat \ {0} /\ Ids = 0..(threads - 1) /\ All \in SUBSET Nat
      /\ TargetCount \in Nat
  BY InputFacts, ListFacts
<1>2. t \in Nat /\ t % threads = t
  <2>1. t \in Nat /\ t < threads
    BY <1>1
  <2> QED
    BY <1>1, <2>1, Turns
<1>3. ASSUME NEW j \in All, j < t PROVE j % threads # t
  <2>1. j % threads = j
    <3>1. j \in Nat /\ j < threads
      BY <1>1, <1>3
    <3> QED
      BY <1>1, <3>1, Turns
  <2> QED
    BY <1>1, <1>2, <1>3, <2>1
<1> QED
  BY <1>1, <1>2, <1>3

\* Nothing was offered to an empty list.
LEMMA EmptyBest ==
  ASSUME NEW score
  PROVE  IsBest(<<>>, {}, score)
<1>1. Keep \in Nat \ {0}
  BY GrindAssumption
<1> QED
  BY <1>1 DEF IsBest, Ordered, Hits

\* A thread of a new pool.
Beginner(sch, t) ==
  [at |-> IF t < count THEN "score" ELSE "end", j |-> t, k |-> 1,
   seen |-> <<0, 0, 0, 0>>, lists |-> NoHits(sch)]

\* A new thread has tried nothing, and its lists are empty.
LEMMA NewPoolStarts ==
  ASSUME InputOK, grind_pc # "idle", NEW sch, NEW t \in Ids, NEW me, me = Beginner(sch, t)
  PROVE  /\ me \in [at : {"score", "lock", "count", "end"}, j : Nat,
                    k : 1..TargetCount, seen : Counters,
                    lists : [Lists(sch) -> Seq(Hits(All))]]
         /\ me.j = t /\ me.k = 1 /\ me.at \in {"score", "end"}
         /\ (me.at = "end") <=> (me.j >= count)
         /\ \A l \in Lists(sch) : me.lists[l] = <<>>
         /\ \A k \in 1..TargetCount : Tried(me, t, k) = {}
         /\ \A k \in 1..TargetCount, j \in All : j % threads = t => ~Past(me, j, k)
<1>1. me = [at |-> IF t < count THEN "score" ELSE "end", j |-> t, k |-> 1,
            seen |-> <<0, 0, 0, 0>>, lists |-> NoHits(sch)]
  BY DEF Beginner
<1>2. t \in Nat /\ count \in Nat /\ 1 \in 1..TargetCount
  <2>1. TargetCount \in Nat \ {0}
    BY ListFacts
  <2> QED
    BY <2>1, Begin, InputFacts
<1>3. /\ me.j = t /\ me.k = 1 /\ me.at \in {"score", "end"}
      /\ (me.at = "end") <=> (me.j >= count)
      /\ \A l \in Lists(sch) : me.lists[l] = <<>>
  BY <1>1, <1>2 DEF NoHits
<1>4. me \in [at : {"score", "lock", "count", "end"}, j : Nat,
              k : 1..TargetCount, seen : Counters,
              lists : [Lists(sch) -> Seq(Hits(All))]]
  <2>1. <<0, 0, 0, 0>> \in Counters
    BY DEF Counters
  <2>2. NoHits(sch) \in [Lists(sch) -> Seq(Hits(All))]
    BY DEF NoHits
  <2> QED
    BY <1>1, <1>2, <2>1, <2>2
<1>5. \A k \in 1..TargetCount, j \in All : j % threads = t => ~Past(me, j, k)
  <2> SUFFICES ASSUME NEW k \in 1..TargetCount, NEW j \in All, j % threads = t
               PROVE  ~(j < t \/ (j = t /\ k < 1))
    BY <1>3 DEF Past
  <2> QED
    BY Begin
<1>6. \A k \in 1..TargetCount : Tried(me, t, k) = {}
  <2> SUFFICES ASSUME NEW k \in 1..TargetCount, NEW j \in Tried(me, t, k) PROVE FALSE
    OBVIOUS
  <2>1. j \in All /\ j % threads = t /\ Past(me, j, k)
    BY <1>3 DEF Tried
  <2> QED
    BY <1>5, <2>1
<1> QED
  BY <1>3, <1>4, <1>5, <1>6

-----------------------------------------------------------------------------
(* What steps of a pool leave alone *)

\* What is scored depends on what was asked for and on the scheme alone.
LEMMA SameInput ==
  ASSUME UNCHANGED <<grind_input, scheme>>
  PROVE  /\ threads' = threads /\ count' = count /\ cells' = cells /\ scheme' = scheme
         /\ All' = All /\ Ids' = Ids
         /\ \A l : Scores(l)' = Scores(l)
         /\ Workers' = Workers
         /\ \A S, n, k : CountedIn(S, n, k)' = CountedIn(S, n, k)
<1>1. threads' = threads /\ count' = count /\ cells' = cells /\ scheme' = scheme
  BY DEF grind_input
<1>2. All' = All /\ Ids' = Ids
  BY <1>1 DEF All, Ids
<1>3. \A l : Scores(l)' = Scores(l)
  BY <1>1, <1>2 DEF Scores, ScoreOf
<1>4. Workers' = Workers
  BY <1>1, <1>2 DEF Workers
<1>5. \A S, n, k : CountedIn(S, n, k)' = CountedIn(S, n, k)
  BY <1>1 DEF CountedIn, CountedBy
<1> QED
  BY <1>1, <1>2, <1>3, <1>4, <1>5

\* The rows written stay true.
LEMMA SameRows ==
  ASSUME LowestAreKept, CountsAreExact, UNCHANGED <<tsv, count, cells>>
  PROVE  LowestAreKept' /\ CountsAreExact'
<1>1. LowestAreKept'
  BY DEF LowestAreKept, SameList, ScoreOf
<1>2. CountsAreExact'
  BY DEF CountsAreExact, Matching
<1> QED
  BY <1>1, <1>2

\* A turn of a thread touches the counters, the mutex and its own lists.
LEMMA PoolFrame ==
  ASSUME GrindIInv, grind_pc = "pool",
         UNCHANGED <<grind_pc, grind_input, scheme, grind_main>>
  PROVE  /\ InputOK' /\ MergeLists' /\ WriteLists' /\ RowsOK'
         /\ LowestAreKept' /\ CountsAreExact'
<1>1. /\ threads' = threads /\ count' = count /\ cells' = cells /\ scheme' = scheme
      /\ grind_pc' = "pool" /\ tsv' = tsv
  BY DEF grind_input, grind_main
<1>2. InputOK'
  BY <1>1 DEF GrindIInv, InputOK
<1>3. MergeLists' /\ WriteLists'
  BY <1>1 DEF MergeLists, WriteLists
<1>4. RowsOK'
  BY <1>1 DEF GrindIInv, RowsOK
<1>5. LowestAreKept' /\ CountsAreExact'
  BY <1>1, SameRows DEF GrindIInv
<1> QED
  BY <1>2, <1>3, <1>4, <1>5

\* A thread that becomes `you`.
LEMMA WorkersUpdate ==
  ASSUME GrindIInv, grind_pc = "pool", UNCHANGED <<grind_pc, grind_input, scheme>>,
         NEW t \in Ids, NEW you, WorkerOK(you, t), worker' = [worker EXCEPT ![t] = you]
  PROVE  /\ WorkersOK'
         /\ worker'[t] = you /\ \A u \in Ids : u # t => worker'[u] = worker[u]
<1>1. worker = [u \in Ids |-> worker[u]] /\ \A u \in Ids : WorkerOK(worker[u], u)
  BY DEF GrindIInv, WorkersOK
<1>2. worker' = [u \in Ids |-> worker'[u]]
  BY <1>1
<1>3. worker'[t] = you /\ \A u \in Ids : u # t => worker'[u] = worker[u]
  BY <1>1
<1>4. \A u \in Ids : WorkerOK(worker'[u], u)
  BY <1>1, <1>3
<1>5. /\ threads' = threads /\ count' = count /\ cells' = cells /\ scheme' = scheme
      /\ Workers' = Workers /\ Ids' = Ids
  BY SameInput
<1>6. \A u \in Ids : WorkerOK(worker[u], u)'
  BY <1>4, <1>5 DEF WorkerOK, Compared
<1> QED
  BY <1>2, <1>3, <1>5, <1>6 DEF WorkersOK

\* And its lists.
LEMMA ListsUpdate ==
  ASSUME GrindIInv, grind_pc = "pool", UNCHANGED <<grind_pc, grind_input, scheme>>,
         NEW t \in Ids, NEW you, WorkerOK(you, t), worker' = [worker EXCEPT ![t] = you],
         \A l \in Lists(scheme) : IsBest(you.lists[l], Tried(you, t, TargetOf(l)), Scores(l))
  PROVE  PoolLists'
<1>1. worker'[t] = you /\ \A u \in Ids : u # t => worker'[u] = worker[u]
  BY WorkersUpdate
<1>2. \A u \in Ids, l \in Lists(scheme) :
        IsBest(worker'[u].lists[l], Tried(worker'[u], u, TargetOf(l)), Scores(l))
  BY <1>1 DEF GrindIInv, PoolLists
<1>3. /\ threads' = threads /\ scheme' = scheme /\ Ids' = Ids /\ All' = All
      /\ \A l : Scores(l)' = Scores(l)
  BY SameInput
<1>4. \A u, k : Tried(worker[u], u, k)' = Tried(worker'[u], u, k)
  BY <1>3 DEF Tried
<1>5. \A u \in Ids, l \in Lists(scheme) :
        IsBest(worker'[u].lists[l], Tried(worker[u], u, TargetOf(l))', Scores(l)')
  <2> SUFFICES ASSUME NEW u \in Ids, NEW l \in Lists(scheme)
               PROVE  IsBest(worker'[u].lists[l], Tried(worker[u], u, TargetOf(l))', Scores(l)')
    OBVIOUS
  <2>1. Tried(worker[u], u, TargetOf(l))' = Tried(worker'[u], u, TargetOf(l))
    BY <1>4
  <2>2. Scores(l)' = Scores(l)
    BY <1>3
  <2> QED
    BY <1>2, <2>1, <2>2
<1> QED
  BY <1>3, <1>5 DEF PoolLists

-----------------------------------------------------------------------------
(* A turn that ends, and what is counted *)

\* A thread at work.
LEMMA TurnFacts ==
  ASSUME GrindIInv, grind_pc = "pool", NEW t \in Ids, worker[t].at # "end"
  PROVE  /\ WorkerOK(worker[t], t)
         /\ worker[t] \in Workers /\ worker[t].at \in {"score", "lock", "count"}
         /\ worker[t].j \in All /\ worker[t].j < count /\ worker[t].k \in 1..TargetCount
         /\ worker[t].j % threads = t
         /\ worker[t].lists \in [Lists(scheme) -> Seq(Hits(All))]
         /\ cells[worker[t].j] \in Image
<1>1. WorkerOK(worker[t], t) /\ worker[t] \in Workers
  BY DEF GrindIInv, WorkersOK, WorkerOK
<1>2. /\ worker[t].at \in {"score", "lock", "count"} /\ worker[t].j \in Nat
      /\ worker[t].k \in 1..TargetCount
      /\ worker[t].lists \in [Lists(scheme) -> Seq(Hits(All))]
  BY <1>1 DEF Workers
<1>3. worker[t].j < count /\ worker[t].j % threads = t
  <2>1. count \in Nat
    BY InputFacts DEF GrindIInv
  <2>2. ~(worker[t].j >= count)
    BY <1>1 DEF WorkerOK
  <2> QED
    BY <1>1, <1>2, <2>1, <2>2 DEF WorkerOK
<1>4. worker[t].j \in All /\ cells[worker[t].j] \in Image
  <2>1. count \in Nat /\ All = 0..(count - 1) /\ cells \in [All -> Image]
    BY InputFacts DEF GrindIInv
  <2> QED
    BY <1>2, <1>3, <2>1
<1> QED
  BY <1>1, <1>2, <1>3, <1>4

\* The turns that are over, after one that is and one that is not.
LEMMA OverUpdate ==
  ASSUME GrindIInv, grind_pc = "pool", UNCHANGED <<grind_pc, grind_input, scheme>>,
         NEW t \in Ids, NEW you, WorkerOK(you, t), worker' = [worker EXCEPT ![t] = you]
  PROVE  /\ you.j = worker[t].j /\ you.k = worker[t].k =>
              \A k : Over(k)' = Over(k)
         /\ (\A k \in 1..TargetCount, j \in All :
               j % threads = t =>
                 (Past(you, j, k) <=>
                    Past(worker[t], j, k) \/ (j = worker[t].j /\ k = worker[t].k)))
            /\ worker[t].j \in All /\ worker[t].j % threads = t =>
              \A k \in 1..TargetCount :
                Over(k)' = Over(k) \cup (IF k = worker[t].k THEN {worker[t].j} ELSE {})
<1>1. worker'[t] = you /\ \A u \in Ids : u # t => worker'[u] = worker[u]
  BY WorkersUpdate
<1>2. threads' = threads /\ All' = All
  BY SameInput
<1>3. \A j \in All : j % threads \in Ids
  BY InputFacts, Turns DEF GrindIInv
<1>4. \A k : Over(k)' = {j \in All : Past(worker'[j % threads], j, k)}
  BY <1>2 DEF Over, Past
<1>5. \A j \in All : \A k : j % threads # t =>
        (Past(worker'[j % threads], j, k) <=> Past(worker[j % threads], j, k))
  BY <1>1, <1>3
<1>6. ASSUME you.j = worker[t].j, you.k = worker[t].k, NEW k PROVE Over(k)' = Over(k)
  <2>1. \A j \in All : Past(worker'[j % threads], j, k) <=> Past(worker[j % threads], j, k)
    BY <1>1, <1>5, <1>6 DEF Past
  <2> QED
    BY <1>4, <2>1 DEF Over
<1>7. ASSUME \A k \in 1..TargetCount, j \in All :
               j % threads = t =>
                 (Past(you, j, k) <=>
                    Past(worker[t], j, k) \/ (j = worker[t].j /\ k = worker[t].k)),
             worker[t].j \in All, worker[t].j % threads = t, NEW k \in 1..TargetCount
      PROVE  Over(k)' = Over(k) \cup (IF k = worker[t].k THEN {worker[t].j} ELSE {})
  <2>1. \A j \in All :
          Past(worker'[j % threads], j, k) <=>
            Past(worker[j % threads], j, k) \/ (j = worker[t].j /\ k = worker[t].k)
    BY <1>1, <1>5, <1>7
  <2>2. CASE k = worker[t].k
    BY <1>4, <1>7, <2>1, <2>2 DEF Over
  <2>3. CASE k # worker[t].k
    BY <1>4, <1>7, <2>1, <2>3 DEF Over
  <2> QED
    BY <2>2, <2>3
<1> QED
  BY <1>6, <1>7

\* One candidate more is counted, if it matches.
LEMMA CountedMore ==
  ASSUME InputOK, grind_pc # "idle", NEW S \in SUBSET All, NEW j \in All \ S,
         NEW n, NEW k
  PROVE  /\ CountedIn(S, n, k) \in Nat
         /\ CountedBy(n, k, j) => CountedIn(S \cup {j}, n, k) = CountedIn(S, n, k) + 1
         /\ ~CountedBy(n, k, j) => CountedIn(S \cup {j}, n, k) = CountedIn(S, n, k)
<1> DEFINE C == {i \in S : CountedBy(n, k, i)}
<1>1. IsFiniteSet(C)
  <2>1. All = 0..(count - 1) /\ count \in Nat
    BY InputFacts
  <2>2. IsFiniteSet(All)
    BY <2>1, FS_Interval
  <2> QED
    BY <2>2, FS_Subset, C \subseteq All
<1>2. CountedIn(S, n, k) = Cardinality(C) /\ Cardinality(C) \in Nat
  BY <1>1, FS_CardinalityType DEF CountedIn
<1>3. ASSUME CountedBy(n, k, j) PROVE CountedIn(S \cup {j}, n, k) = CountedIn(S, n, k) + 1
  <2>1. {i \in S \cup {j} : CountedBy(n, k, i)} = C \cup {j}
    BY <1>3
  <2>2. j \notin C
    OBVIOUS
  <2> HIDE DEF C
  <2>3. Cardinality(C \cup {j}) = Cardinality(C) + 1
    BY <1>1, <2>2, FS_AddElement
  <2> QED
    BY <1>2, <2>1, <2>3 DEF CountedIn
<1>4. ASSUME ~CountedBy(n, k, j) PROVE CountedIn(S \cup {j}, n, k) = CountedIn(S, n, k)
  <2>1. {i \in S \cup {j} : CountedBy(n, k, i)} = C
    BY <1>4
  <2> QED
    BY <1>2, <2>1 DEF CountedIn
<1> QED
  BY <1>2, <1>3, <1>4

\* A turn is not over before it is.
LEMMA NotOver ==
  ASSUME GrindIInv, grind_pc = "pool", NEW t \in Ids, worker[t].at # "end"
  PROVE  /\ worker[t].j \notin Over(worker[t].k)
         /\ worker[t].at = "score" => worker[t].j \notin Tried(worker[t], t, worker[t].k)
         /\ \A k : Over(k) \subseteq All /\ Tried(worker[t], t, k) \subseteq All
<1>1. /\ worker[t].j \in Nat /\ worker[t].k \in Nat
      /\ worker[t].j % threads = t
  <2>1. All \in SUBSET Nat /\ TargetCount \in Nat
    BY InputFacts, ListFacts DEF GrindIInv
  <2>2. /\ worker[t].j \in All /\ worker[t].k \in 1..TargetCount
        /\ worker[t].j % threads = t
    BY TurnFacts
  <2>3. worker[t].j \in Nat
    BY <2>1, <2>2
  <2>4. worker[t].k \in Nat
    BY <2>1, <2>2
  <2> QED
    BY <2>2, <2>3, <2>4
<1>2. ~Past(worker[t], worker[t].j, worker[t].k)
  BY <1>1 DEF Past
<1> QED
  BY <1>1, <1>2 DEF Over, Tried

\* Whether a candidate is counted.
LEMMA CountedFacts ==
  ASSUME NEW n \in 1..4, NEW me, NEW c
  PROVE  /\ CountedBy(n, me.k, me.j) => Compared(me).empty = 0
         /\ Compared(me).empty = 0 /\ c \in Counters =>
              /\ Counted(c, Compared(me)) \in Counters
              /\ CountedBy(n, me.k, me.j) => Counted(c, Compared(me))[n] = c[n] + 1
              /\ ~CountedBy(n, me.k, me.j) => Counted(c, Compared(me))[n] = c[n]
<1> DEFINE s == Compared(me)
<1>1. CountedBy(n, me.k, me.j) <=>
        /\ s.empty = 0
        /\ n >= 2 => s.colour = 0
        /\ n >= 3 => s.family = 0
        /\ n = 4 => s.direction = 0
  BY DEF CountedBy, Compared
<1> HIDE DEF s
<1>2. ASSUME c \in Counters PROVE Counted(c, s) \in Counters
  BY <1>2 DEF Counted, Counters
<1>3. ASSUME s.empty = 0, CountedBy(n, me.k, me.j) PROVE Counted(c, s)[n] = c[n] + 1
  BY <1>1, <1>3 DEF Counted
<1>4. ASSUME s.empty = 0, ~CountedBy(n, me.k, me.j) PROVE Counted(c, s)[n] = c[n]
  BY <1>1, <1>4 DEF Counted
<1> QED
  BY <1>1, <1>2, <1>3, <1>4 DEF s

\* Lists of a target were offered what the thread tried there, and others not.
LEMMA OfferedHh ==
  ASSUME GrindIInv, grind_pc = "pool", scheme = "hh", NEW t \in Ids, worker[t].at = "score",
         NEW lists,
         lists = [worker[t].lists EXCEPT
                    ![worker[t].k] = Offer(@, SalienceScore(Compared(worker[t])), worker[t].j),
                    ![TargetCount + worker[t].k] =
                       Offer(@, Gist(worker[t].k, cells[worker[t].j]), worker[t].j)]
  PROVE  /\ lists \in [Lists(scheme) -> Seq(Hits(All))]
         /\ \A l \in Lists(scheme) :
              IsBest(lists[l],
                     Tried(worker[t], t, TargetOf(l))
                       \cup (IF TargetOf(l) = worker[t].k THEN {worker[t].j} ELSE {}),
                     Scores(l))
<1> DEFINE me == worker[t]
           S(l) == Tried(me, t, TargetOf(l))
<1>1. /\ me \in Workers /\ me.j \in All /\ me.k \in 1..TargetCount
      /\ me.lists \in [Lists(scheme) -> Seq(Hits(All))] /\ All \in SUBSET Nat
      /\ InputOK
  BY TurnFacts, InputFacts DEF GrindIInv
<1>2. \A l \in Lists(scheme) : /\ S(l) \subseteq All /\ IsBest(me.lists[l], S(l), Scores(l))
                               /\ Scores(l) \in [All -> Nat]
                               /\ TargetOf(l) = me.k => me.j \notin S(l)
  BY <1>1, NotOver, ScoresTypes DEF GrindIInv, PoolLists, StateOK
<1>3. /\ TargetCount \in Nat \ {0} /\ me.k \in Lists(scheme) /\ TargetCount + me.k \in Lists(scheme)
      /\ TargetOf(me.k) = me.k /\ TargetOf(TargetCount + me.k) = me.k
      /\ KindOf(scheme, me.k) = "salience" /\ KindOf(scheme, TargetCount + me.k) = "gist"
      /\ \A l \in Lists(scheme) : TargetOf(l) = me.k => l \in {me.k, TargetCount + me.k}
  <2> HIDE DEF me
  <2> QED
    BY <1>1, ListFacts
<1>4. me.k # TargetCount + me.k
  BY <1>1, <1>3
<1>5. /\ Scores(me.k)[me.j] = SalienceScore(Compared(me))
      /\ Scores(TargetCount + me.k)[me.j] = Gist(me.k, cells[me.j])
  BY <1>1, <1>3 DEF Scores, ScoreOf, Compared
<1>6. /\ lists[me.k] = Offer(me.lists[me.k], Scores(me.k)[me.j], me.j)
      /\ lists[TargetCount + me.k] =
           Offer(me.lists[TargetCount + me.k], Scores(TargetCount + me.k)[me.j], me.j)
      /\ \A l \in Lists(scheme) : l \notin {me.k, TargetCount + me.k} => lists[l] = me.lists[l]
      /\ DOMAIN lists = Lists(scheme) /\ lists = [l \in DOMAIN lists |-> lists[l]]
  BY <1>1, <1>3, <1>4, <1>5
<1> HIDE DEF S, me
<1>7. ASSUME NEW l \in Lists(scheme)
      PROVE  IsBest(lists[l], S(l) \cup (IF TargetOf(l) = me.k THEN {me.j} ELSE {}), Scores(l))
  <2>1. CASE TargetOf(l) = me.k
    <3>1. lists[l] = Offer(me.lists[l], Scores(l)[me.j], me.j)
      BY <1>3, <1>6, <2>1
    <3>2. me.j \in All \ S(l)
      BY <1>1, <1>2, <2>1
    <3>3. IsBest(Offer(me.lists[l], Scores(l)[me.j], me.j), S(l) \cup {me.j}, Scores(l))
      BY <1>1, <1>2, <3>2, OfferBest
    <3> QED
      BY <2>1, <3>1, <3>3
  <2>2. CASE TargetOf(l) # me.k
    <3>1. lists[l] = me.lists[l]
      BY <1>3, <1>6, <2>2
    <3>2. S(l) \cup {} = S(l)
      OBVIOUS
    <3> QED
      BY <1>2, <2>2, <3>1, <3>2
  <2> QED
    BY <2>1, <2>2
<1>8. \A l \in Lists(scheme) : lists[l] \in Seq(Hits(All))
  <2> SUFFICES ASSUME NEW l \in Lists(scheme) PROVE lists[l] \in Seq(Hits(All))
    OBVIOUS
  <2> DEFINE R == S(l) \cup (IF TargetOf(l) = me.k THEN {me.j} ELSE {})
  <2>1. R \subseteq All
    BY <1>1, <1>2
  <2>2. lists[l] \in Seq(Hits(R))
    BY <1>7 DEF IsBest
  <2> HIDE DEF R
  <2> QED
    BY <2>1, <2>2, HitsOfMore
<1>9. lists \in [Lists(scheme) -> Seq(Hits(All))]
  BY <1>6, <1>8
<1> QED
  BY <1>7, <1>9 DEF me, S

\* And of the other schemes.
LEMMA OfferedOther ==
  ASSUME GrindIInv, grind_pc = "pool", scheme # "hh", NEW t \in Ids, worker[t].at = "score",
         NEW lists,
         lists = [worker[t].lists EXCEPT
                    ![worker[t].k] =
                       Offer(@, OtherGist(scheme, worker[t].k, worker[t].j), worker[t].j)]
  PROVE  /\ lists \in [Lists(scheme) -> Seq(Hits(All))]
         /\ \A l \in Lists(scheme) :
              IsBest(lists[l],
                     Tried(worker[t], t, TargetOf(l))
                       \cup (IF TargetOf(l) = worker[t].k THEN {worker[t].j} ELSE {}),
                     Scores(l))
<1> DEFINE me == worker[t]
           S(l) == Tried(me, t, TargetOf(l))
<1>1. /\ me \in Workers /\ me.j \in All /\ me.k \in 1..TargetCount
      /\ me.lists \in [Lists(scheme) -> Seq(Hits(All))] /\ All \in SUBSET Nat
      /\ InputOK
  BY TurnFacts, InputFacts DEF GrindIInv
<1>2. \A l \in Lists(scheme) : /\ S(l) \subseteq All /\ IsBest(me.lists[l], S(l), Scores(l))
                               /\ Scores(l) \in [All -> Nat]
                               /\ TargetOf(l) = me.k => me.j \notin S(l)
  BY <1>1, NotOver, ScoresTypes DEF GrindIInv, PoolLists, StateOK
<1>3. /\ me.k \in Lists(scheme) /\ TargetOf(me.k) = me.k
      /\ \A l \in Lists(scheme) : TargetOf(l) = me.k => l = me.k
  BY <1>1, ListFacts
<1>5. Scores(me.k)[me.j] = OtherGist(scheme, me.k, me.j)
  BY <1>1, <1>3 DEF Scores, ScoreOf
<1>6. /\ lists[me.k] = Offer(me.lists[me.k], Scores(me.k)[me.j], me.j)
      /\ \A l \in Lists(scheme) : l # me.k => lists[l] = me.lists[l]
      /\ DOMAIN lists = Lists(scheme) /\ lists = [l \in DOMAIN lists |-> lists[l]]
  BY <1>1, <1>3, <1>5
<1> HIDE DEF S, me
<1>7. ASSUME NEW l \in Lists(scheme)
      PROVE  IsBest(lists[l], S(l) \cup (IF TargetOf(l) = me.k THEN {me.j} ELSE {}), Scores(l))
  <2>1. CASE TargetOf(l) = me.k
    <3>1. lists[l] = Offer(me.lists[l], Scores(l)[me.j], me.j)
      BY <1>3, <1>6, <2>1
    <3>2. me.j \in All \ S(l)
      BY <1>1, <1>2, <2>1
    <3>3. IsBest(Offer(me.lists[l], Scores(l)[me.j], me.j), S(l) \cup {me.j}, Scores(l))
      BY <1>1, <1>2, <3>2, OfferBest
    <3> QED
      BY <2>1, <3>1, <3>3
  <2>2. CASE TargetOf(l) # me.k
    <3>1. lists[l] = me.lists[l]
      BY <1>3, <1>6, <2>2
    <3>2. S(l) \cup {} = S(l)
      OBVIOUS
    <3> QED
      BY <1>2, <2>2, <3>1, <3>2
  <2> QED
    BY <2>1, <2>2
<1>8. \A l \in Lists(scheme) : lists[l] \in Seq(Hits(All))
  <2> SUFFICES ASSUME NEW l \in Lists(scheme) PROVE lists[l] \in Seq(Hits(All))
    OBVIOUS
  <2> DEFINE R == S(l) \cup (IF TargetOf(l) = me.k THEN {me.j} ELSE {})
  <2>1. R \subseteq All
    BY <1>1, <1>2
  <2>2. lists[l] \in Seq(Hits(R))
    BY <1>7 DEF IsBest
  <2> HIDE DEF R
  <2> QED
    BY <2>1, <2>2, HitsOfMore
<1>9. lists \in [Lists(scheme) -> Seq(Hits(All))]
  BY <1>6, <1>8
<1> QED
  BY <1>7, <1>9 DEF me, S

-----------------------------------------------------------------------------
(* The steps of a thread *)

\* A turn that ends.
LEMMA TurnEnds ==
  ASSUME GrindIInv, grind_pc = "pool", UNCHANGED <<grind_pc, grind_input, scheme>>,
         NEW t \in Ids, worker[t].at # "end",
         NEW off \in Workers, off.j = worker[t].j, off.k = worker[t].k,
         \A l \in Lists(scheme) :
           IsBest(off.lists[l],
                  Tried(worker[t], t, TargetOf(l))
                    \cup (IF TargetOf(l) = worker[t].k THEN {worker[t].j} ELSE {}),
                  Scores(l)),
         worker' = [worker EXCEPT ![t] = Advanced(off)]
  PROVE  /\ WorkersOK' /\ PoolLists'
         /\ worker'[t].at \in {"score", "end"}
         /\ \A u \in Ids : u # t => worker'[u] = worker[u]
         /\ \A k \in 1..TargetCount :
              Over(k)' = Over(k) \cup (IF k = worker[t].k THEN {worker[t].j} ELSE {})
<1>1. PICK you : you = Advanced(off)
  OBVIOUS
<1>2. /\ worker[t].j \in All /\ worker[t].j < count /\ worker[t].k \in 1..TargetCount
      /\ worker[t].j % threads = t /\ InputOK
  BY TurnFacts DEF GrindIInv
<1>3. /\ you \in Workers /\ you.lists = off.lists
      /\ you.at \in {"score", "end"} /\ you.j % threads = t
      /\ you.at = "end" <=> you.j >= count
      /\ you.at = "end" => you.k = 1
      /\ \A k \in 1..TargetCount :
           Tried(you, t, k) =
             {j \in All : j % threads = t /\ (Past(off, j, k) \/ (j = off.j /\ k = off.k))}
      /\ \A k \in 1..TargetCount, j \in All :
           j % threads = t =>
             (Past(you, j, k) <=> Past(off, j, k) \/ (j = off.j /\ k = off.k))
  BY <1>1, <1>2, Advance
<1>4. WorkerOK(you, t)
  BY <1>3 DEF WorkerOK
<1>5. \A k \in 1..TargetCount :
        Tried(you, t, k) =
          Tried(worker[t], t, k) \cup (IF k = worker[t].k THEN {worker[t].j} ELSE {})
  <2> SUFFICES ASSUME NEW k \in 1..TargetCount
               PROVE  Tried(you, t, k) = Tried(worker[t], t, k)
                        \cup (IF k = worker[t].k THEN {worker[t].j} ELSE {})
    OBVIOUS
  <2>1. Tried(you, t, k) =
          {j \in All : j % threads = t
                       /\ (Past(worker[t], j, k) \/ (j = worker[t].j /\ k = worker[t].k))}
    BY <1>3 DEF Past
  <2>2. CASE k = worker[t].k
    BY <1>2, <2>1, <2>2 DEF Tried
  <2>3. CASE k # worker[t].k
    BY <2>1, <2>3 DEF Tried
  <2> QED
    BY <2>2, <2>3
<1>6. \A l \in Lists(scheme) : TargetOf(l) \in 1..TargetCount
  BY ListFacts
<1>7. \A l \in Lists(scheme) : IsBest(you.lists[l], Tried(you, t, TargetOf(l)), Scores(l))
  BY <1>3, <1>5, <1>6
<1>8. worker' = [worker EXCEPT ![t] = you]
  BY <1>1
<1>9. PoolLists'
  BY <1>4, <1>7, <1>8, ListsUpdate
<1>10. /\ WorkersOK'
       /\ worker'[t] = you /\ \A u \in Ids : u # t => worker'[u] = worker[u]
  BY <1>4, <1>8, WorkersUpdate
<1>11. \A k \in 1..TargetCount :
         Over(k)' = Over(k) \cup (IF k = worker[t].k THEN {worker[t].j} ELSE {})
  <2>1. \A k \in 1..TargetCount, j \in All :
          j % threads = t =>
            (Past(you, j, k) <=> Past(worker[t], j, k) \/ (j = worker[t].j /\ k = worker[t].k))
    BY <1>3 DEF Past
  <2> QED
    BY <1>2, <1>4, <1>8, <2>1, OverUpdate
<1> QED
  BY <1>3, <1>9, <1>10, <1>11

\* The counters stay where they are, if no candidate that matches is left behind.
LEMMA CountersStay ==
  ASSUME GrindIInv, grind_pc = "pool",
         UNCHANGED <<grind_pc, grind_input, scheme, stage_counts>>,
         scheme = "hh" => \A k \in 1..TargetCount, n \in 1..4 :
                            CountedIn(Over(k)', n, k) = CountedIn(Over(k), n, k)
  PROVE  CountersOK' /\ StateOK'
<1>1. /\ scheme' = scheme /\ grind_pc' = "pool" /\ stage_counts' = stage_counts /\ All' = All
      /\ \A S, n, k : CountedIn(S, n, k)' = CountedIn(S, n, k)
  BY SameInput
<1>2. \A k \in 1..TargetCount, n \in 1..4 :
        stage_counts[k][n] = CountedIn(IF scheme = "hh" THEN Over(k) ELSE All, n, k)
  BY DEF GrindIInv, CountersOK, Running
<1>3. ASSUME scheme = "hh" PROVE CountersOK'
  <2>1. \A k \in 1..TargetCount, n \in 1..4 : stage_counts[k][n] = CountedIn(Over(k)', n, k)
    BY <1>2, <1>3
  <2>2. \A k \in 1..TargetCount, n \in 1..4 : CountedIn(Over(k), n, k)' = CountedIn(Over(k)', n, k)
    BY <1>1 DEF CountedIn, CountedBy, grind_input
  <2> QED
    BY <1>1, <1>3, <2>1, <2>2 DEF CountersOK, Running
<1>4. ASSUME scheme # "hh" PROVE CountersOK'
  <2>1. \A k \in 1..TargetCount, n \in 1..4 : stage_counts[k][n] = CountedIn(All, n, k)
    BY <1>2, <1>4
  <2>2. \A k, n : CountedIn(All, n, k)' = CountedIn(All, n, k)
    BY <1>1 DEF CountedIn, CountedBy, grind_input
  <2> QED
    BY <1>1, <1>4, <2>1, <2>2 DEF CountersOK, Running
<1>5. StateOK'
  BY <1>1 DEF GrindIInv, StateOK
<1> QED
  BY <1>3, <1>4, <1>5

\* The mutex is not touched by a thread that neither takes nor holds it.
LEMMA MutexStays ==
  ASSUME GrindIInv, grind_pc = "pool",
         UNCHANGED <<grind_pc, grind_input, scheme, stage_counts, count_mutex>>,
         NEW t \in Ids, worker[t].at # "count", worker'[t].at # "count",
         \A u \in Ids : u # t => worker'[u] = worker[u]
  PROVE  MutexOK'
<1>1. Ids' = Ids /\ grind_pc' = "pool"
  BY SameInput
<1>2. /\ count_mutex \in Ids \cup {-1}
      /\ \A u \in Ids : /\ worker[u].at = "count" <=> count_mutex = u
                        /\ worker[u].at = "count" =>
                             worker[u].seen = stage_counts[worker[u].k]
  BY DEF GrindIInv, MutexOK
<1>3. \A u \in Ids : /\ worker'[u].at = "count" <=> count_mutex' = u
                     /\ worker'[u].at = "count" =>
                          worker'[u].seen = stage_counts'[worker'[u].k]
  BY <1>2
<1> QED
  BY <1>1, <1>2, <1>3 DEF MutexOK

-----------------------------------------------------------------------------
(* The steps of a thread *)

\* A turn of Blockies or Jazzicon ends with its offer.
LEMMA ScoreOtherStep ==
  ASSUME GrindIInv, grind_pc = "pool", NEW t \in Ids, ScoreOther(t)
  PROVE  GrindIInv'
<1> DEFINE me == worker[t]
           lists == [me.lists EXCEPT ![me.k] = Offer(@, OtherGist(scheme, me.k, me.j), me.j)]
           off == [me EXCEPT !.lists[me.k] = Offer(@, OtherGist(scheme, me.k, me.j), me.j)]
<1>1. /\ scheme # "hh" /\ me.at = "score"
      /\ worker' = [worker EXCEPT ![t] = Advanced(off)]
      /\ UNCHANGED <<grind_pc, grind_input, scheme, count_mutex, stage_counts, grind_main>>
  BY DEF ScoreOther
<1>2. /\ lists \in [Lists(scheme) -> Seq(Hits(All))]
      /\ \A l \in Lists(scheme) :
           IsBest(lists[l],
                  Tried(me, t, TargetOf(l)) \cup (IF TargetOf(l) = me.k THEN {me.j} ELSE {}),
                  Scores(l))
  BY <1>1, OfferedOther
<1>3. off \in Workers /\ off.j = me.j /\ off.k = me.k /\ off.lists = lists
  <2>1. me \in Workers
    BY <1>1, TurnFacts
  <2>2. off = [me EXCEPT !.lists = lists]
    BY <2>1 DEF Workers
  <2> HIDE DEF me, lists, off
  <2> QED
    BY <1>2, <2>1, <2>2 DEF Workers
<1>4. /\ WorkersOK' /\ PoolLists'
      /\ worker'[t].at \in {"score", "end"}
      /\ \A u \in Ids : u # t => worker'[u] = worker[u]
  <2>1. PICK o : o = off
    OBVIOUS
  <2> HIDE DEF off, lists
  <2> QED
    BY <1>1, <1>2, <1>3, <2>1, TurnEnds
<1>5. CountersOK' /\ StateOK'
  BY <1>1, CountersStay
<1>6. MutexOK'
  BY <1>1, <1>4, MutexStays
<1> QED
  BY <1>1, <1>4, <1>5, <1>6, PoolFrame DEF GrindIInv

\* A turn of hh ends with its offers, or waits for the lock.
LEMMA ScoreHhStep ==
  ASSUME GrindIInv, grind_pc = "pool", NEW t \in Ids, ScoreHh(t)
  PROVE  GrindIInv'
<1> DEFINE me == worker[t]
           s == Compared(me)
           lists == [me.lists EXCEPT ![me.k] = Offer(@, SalienceScore(s), me.j),
                       ![TargetCount + me.k] = Offer(@, Gist(me.k, cells[me.j]), me.j)]
           off == [me EXCEPT !.lists[me.k] = Offer(@, SalienceScore(s), me.j),
                     !.lists[TargetCount + me.k] = Offer(@, Gist(me.k, cells[me.j]), me.j)]
<1>1. /\ scheme = "hh" /\ me.at = "score"
      /\ worker' = [worker EXCEPT ![t] =
           IF s.empty = 0 THEN [off EXCEPT !.at = "lock"] ELSE Advanced(off)]
      /\ UNCHANGED <<grind_pc, grind_input, scheme, count_mutex, stage_counts, grind_main>>
  BY DEF ScoreHh
<1>2. /\ lists \in [Lists(scheme) -> Seq(Hits(All))]
      /\ \A l \in Lists(scheme) :
           IsBest(lists[l],
                  Tried(me, t, TargetOf(l)) \cup (IF TargetOf(l) = me.k THEN {me.j} ELSE {}),
                  Scores(l))
  BY <1>1, OfferedHh
<1>3. off \in Workers /\ off.j = me.j /\ off.k = me.k /\ off.lists = lists
  <2>1. me \in Workers
    BY <1>1, TurnFacts
  <2>2. off = [me EXCEPT !.lists = lists]
    BY <2>1 DEF Workers
  <2> HIDE DEF me, lists, off
  <2> QED
    BY <1>2, <2>1, <2>2 DEF Workers
<1>4. /\ WorkerOK(me, t) /\ me.j \in All /\ me.j < count /\ me.k \in 1..TargetCount
      /\ me.j % threads = t /\ InputOK
  BY <1>1, TurnFacts DEF GrindIInv
<1>5. PICK o : o = off
  OBVIOUS
<1> HIDE DEF off, lists
<1>6. ASSUME s.empty = 0
      PROVE  WorkersOK' /\ PoolLists' /\ MutexOK' /\ CountersOK' /\ StateOK'
  <2>1. PICK you : you = [o EXCEPT !.at = "lock"]
    OBVIOUS
  <2>2. /\ you \in Workers /\ you.at = "lock" /\ you.j = me.j /\ you.k = me.k
        /\ you.lists = lists
    <3>1. [o EXCEPT !.at = "lock"] \in Workers
      BY <1>3, <1>4, <1>5, WorkerMoves
    <3> QED
      BY <1>3, <1>5, <2>1, <3>1 DEF Workers
  <2>3. worker' = [worker EXCEPT ![t] = you]
    BY <1>1, <1>5, <1>6, <2>1
  <2>4. WorkerOK(you, t)
    <3>1. Compared(you) = s
      BY <2>2 DEF Compared
    <3>2. ~(me.j >= count)
      <4>1. count \in Nat /\ All = 0..(count - 1)
        BY <1>1, <1>4, InputFacts
      <4> QED
        BY <1>4, <4>1
    <3> QED
      BY <1>1, <1>4, <1>6, <2>2, <3>1, <3>2 DEF WorkerOK
  <2>5. \A l \in Lists(scheme) : IsBest(you.lists[l], Tried(you, t, TargetOf(l)), Scores(l))
    <3> SUFFICES ASSUME NEW l \in Lists(scheme)
                 PROVE  IsBest(you.lists[l], Tried(you, t, TargetOf(l)), Scores(l))
      OBVIOUS
    <3> DEFINE k == TargetOf(l)
    <3>1. Tried(you, t, k) = Tried(me, t, k) \cup (IF k = me.k THEN {me.j} ELSE {})
      <4>1. CASE k = me.k
        BY <1>1, <1>4, <2>2, <4>1 DEF Tried, Past
      <4>2. CASE k # me.k
        BY <1>1, <1>4, <2>2, <4>2 DEF Tried, Past
      <4> QED
        BY <4>1, <4>2
    <3> QED
      BY <1>2, <2>2, <3>1
  <2>6. WorkersOK' /\ PoolLists'
    BY <1>1, <2>3, <2>4, <2>5, WorkersUpdate, ListsUpdate
  <2>7. worker'[t] = you /\ \A u \in Ids : u # t => worker'[u] = worker[u]
    BY <1>1, <2>3, <2>4, WorkersUpdate
  <2>8. MutexOK'
    BY <1>1, <2>2, <2>7, MutexStays
  <2>9. \A k : Over(k)' = Over(k)
    BY <1>1, <2>2, <2>3, <2>4, OverUpdate
  <2>10. CountersOK' /\ StateOK'
    BY <1>1, <2>9, CountersStay
  <2> QED
    BY <2>6, <2>8, <2>10
<1>7. ASSUME s.empty # 0
      PROVE  WorkersOK' /\ PoolLists' /\ MutexOK' /\ CountersOK' /\ StateOK'
  <2>1. worker' = [worker EXCEPT ![t] = Advanced(o)]
    BY <1>1, <1>5, <1>7
  <2>2. /\ WorkersOK' /\ PoolLists'
        /\ worker'[t].at \in {"score", "end"}
        /\ \A u \in Ids : u # t => worker'[u] = worker[u]
        /\ \A k \in 1..TargetCount :
              Over(k)' = Over(k) \cup (IF k = me.k THEN {me.j} ELSE {})
    BY <1>1, <1>2, <1>3, <1>5, <2>1, TurnEnds
  <2>3. MutexOK'
    BY <1>1, <2>2, MutexStays
  <2>4. ASSUME NEW k \in 1..TargetCount, NEW n \in 1..4
        PROVE  CountedIn(Over(k)', n, k) = CountedIn(Over(k), n, k)
    <3>1. CASE k = me.k
      <4>1. me.j \notin Over(k) /\ Over(k) \subseteq All
        BY <1>1, <3>1, NotOver
      <4>2. ~CountedBy(n, k, me.j)
        BY <1>7, <3>1, CountedFacts
      <4>3. Over(k)' = Over(k) \cup {me.j}
        BY <2>2, <3>1
      <4> QED
        BY <1>1, <1>4, <4>1, <4>2, <4>3, CountedMore
    <3>2. CASE k # me.k
      <4>1. Over(k)' = Over(k)
        BY <2>2, <3>2
      <4> QED
        BY <4>1
    <3> QED
      BY <3>1, <3>2
  <2>5. CountersOK' /\ StateOK'
    BY <1>1, <2>4, CountersStay
  <2> QED
    BY <2>2, <2>3, <2>5
<1> QED
  BY <1>1, <1>6, <1>7, PoolFrame DEF GrindIInv

\* The counters read under the mutex are those of the turns that are over.
LEMMA LockStep ==
  ASSUME GrindIInv, grind_pc = "pool", NEW t \in Ids, Lock(t)
  PROVE  GrindIInv'
<1> DEFINE me == worker[t]
<1>1. /\ me.at = "lock" /\ count_mutex = -1 /\ count_mutex' = t
      /\ UNCHANGED <<grind_pc, grind_input, scheme, stage_counts, grind_main>>
  BY DEF Lock
<1>2. PICK seen : seen = stage_counts[me.k]
  OBVIOUS
<1>3. /\ WorkerOK(me, t) /\ me.j \in All /\ me.j < count /\ me.k \in 1..TargetCount
      /\ me.j % threads = t /\ me \in Workers
  BY <1>1, TurnFacts
<1>4. PICK you : you = [me EXCEPT !.at = "count", !.seen = seen]
  OBVIOUS
<1>5. /\ you \in Workers /\ you.at = "count" /\ you.j = me.j /\ you.k = me.k
      /\ you.lists = me.lists /\ you.seen = seen
  <2>1. seen \in Counters
    BY <1>2, <1>3 DEF GrindIInv, StateOK
  <2> HIDE DEF me
  <2> QED
    BY <1>3, <1>4, <2>1 DEF Workers
<1>6. worker' = [worker EXCEPT ![t] = you]
  <2>1. worker = [u \in Ids |-> worker[u]]
    BY DEF GrindIInv, WorkersOK
  <2>2. worker' = [worker EXCEPT ![t].at = "count", ![t].seen = seen]
    BY <1>2 DEF Lock
  <2> QED
    BY <1>4, <2>1, <2>2
<1>7. WorkerOK(you, t)
  <2>1. Compared(you) = Compared(me)
    BY <1>5 DEF Compared
  <2> QED
    BY <1>1, <1>3, <1>5, <2>1 DEF WorkerOK
<1>8. \A l \in Lists(scheme) : IsBest(you.lists[l], Tried(you, t, TargetOf(l)), Scores(l))
  <2>1. \A k : Tried(you, t, k) = Tried(me, t, k)
    BY <1>1, <1>5 DEF Tried, Past
  <2> QED
    BY <1>5, <2>1 DEF GrindIInv, PoolLists
<1>9. WorkersOK' /\ PoolLists'
  BY <1>1, <1>6, <1>7, <1>8, WorkersUpdate, ListsUpdate
<1>10. worker'[t] = you /\ \A u \in Ids : u # t => worker'[u] = worker[u]
  BY <1>1, <1>6, <1>7, WorkersUpdate
<1>11. MutexOK'
  <2>1. Ids' = Ids /\ grind_pc' = "pool" /\ stage_counts' = stage_counts
    BY <1>1, SameInput
  <2>2. -1 \notin Ids
    BY InputFacts DEF GrindIInv
  <2>3. \A u \in Ids : worker[u].at # "count"
    BY <1>1, <2>2 DEF GrindIInv, MutexOK
  <2>4. \A u \in Ids : /\ worker'[u].at = "count" <=> count_mutex' = u
                       /\ worker'[u].at = "count" =>
                            worker'[u].seen = stage_counts'[worker'[u].k]
    BY <1>1, <1>2, <1>5, <1>10, <2>1, <2>3
  <2> QED
    BY <1>1, <2>1, <2>4 DEF MutexOK
<1>12. CountersOK' /\ StateOK'
  <2>1. \A k : Over(k)' = Over(k)
    BY <1>1, <1>5, <1>6, <1>7, OverUpdate
  <2> QED
    BY <1>1, <2>1, CountersStay
<1> QED
  BY <1>1, <1>9, <1>11, <1>12, PoolFrame DEF GrindIInv

\* What a thread read under the mutex is still so when it writes it back, one
\* candidate more.
LEMMA CountMatchStep ==
  ASSUME GrindIInv, grind_pc = "pool", NEW t \in Ids, CountMatch(t)
  PROVE  GrindIInv'
<1> DEFINE me == worker[t]
           s == Compared(me)
<1>1. /\ me.at = "count"
      /\ stage_counts' = [stage_counts EXCEPT ![me.k] = Counted(me.seen, s)]
      /\ count_mutex' = -1
      /\ worker' = [worker EXCEPT ![t] = Advanced(me)]
      /\ UNCHANGED <<grind_pc, grind_input, scheme, grind_main>>
  BY DEF CountMatch
<1>2. /\ WorkerOK(me, t) /\ me.j \in All /\ me.j < count /\ me.k \in 1..TargetCount
      /\ me.j % threads = t /\ me \in Workers
  BY <1>1, TurnFacts
<1>3. /\ scheme = "hh" /\ s.empty = 0
      /\ me.seen = stage_counts[me.k] /\ count_mutex = t /\ InputOK
  BY <1>1, <1>2 DEF WorkerOK, GrindIInv, MutexOK
<1>4. /\ WorkersOK' /\ PoolLists'
      /\ worker'[t].at \in {"score", "end"}
      /\ \A u \in Ids : u # t => worker'[u] = worker[u]
      /\ \A k \in 1..TargetCount :
            Over(k)' = Over(k) \cup (IF k = me.k THEN {me.j} ELSE {})
  <2>1. \A l \in Lists(scheme) :
          IsBest(me.lists[l],
                 Tried(me, t, TargetOf(l)) \cup (IF TargetOf(l) = me.k THEN {me.j} ELSE {}),
                 Scores(l))
    <3> SUFFICES ASSUME NEW l \in Lists(scheme)
                 PROVE  IsBest(me.lists[l],
                               Tried(me, t, TargetOf(l))
                                 \cup (IF TargetOf(l) = me.k THEN {me.j} ELSE {}),
                               Scores(l))
      OBVIOUS
    <3>1. IsBest(me.lists[l], Tried(me, t, TargetOf(l)), Scores(l))
      BY DEF GrindIInv, PoolLists
    <3>2. TargetOf(l) = me.k => me.j \in Tried(me, t, TargetOf(l))
      BY <1>1, <1>2 DEF Tried
    <3>3. Tried(me, t, TargetOf(l)) \cup (IF TargetOf(l) = me.k THEN {me.j} ELSE {})
            = Tried(me, t, TargetOf(l))
      <4>1. CASE TargetOf(l) = me.k
        BY <3>2, <4>1
      <4>2. CASE TargetOf(l) # me.k
        BY <4>2
      <4> QED
        BY <4>1, <4>2
    <3> QED
      BY <3>1, <3>3
  <2>2. PICK off : off = me
    OBVIOUS
  <2> QED
    BY <1>1, <1>2, <2>1, <2>2, TurnEnds
<1>5. /\ stage_counts \in [1..TargetCount -> Counters] /\ me.seen \in Counters
      /\ Counted(me.seen, s) \in Counters
  <2>1. stage_counts \in [1..TargetCount -> Counters] /\ me.seen \in Counters
    BY <1>2 DEF GrindIInv, StateOK, Workers
  <2>2. 1 \in 1..4
    OBVIOUS
  <2> QED
    BY <1>3, <2>1, <2>2, CountedFacts
<1> HIDE DEF s
<1>6. StateOK'
  <2>1. stage_counts' \in [1..TargetCount -> Counters]
    BY <1>1, <1>5
  <2>2. grind_pc' = "pool" /\ scheme' = scheme
    BY <1>1
  <2> QED
    BY <2>1, <2>2 DEF GrindIInv, StateOK
<1>7. MutexOK'
  <2>1. Ids' = Ids /\ grind_pc' = "pool"
    BY <1>1, SameInput
  <2>2. -1 \notin Ids
    BY <1>3, InputFacts
  <2>3. \A u \in Ids : u # t => worker[u].at # "count"
    BY <1>3 DEF GrindIInv, MutexOK
  <2>4. \A u \in Ids : worker'[u].at # "count"
    BY <1>4, <2>3
  <2> QED
    BY <1>1, <2>1, <2>2, <2>4 DEF MutexOK
<1>8. ASSUME NEW k \in 1..TargetCount, NEW n \in 1..4
      PROVE  stage_counts'[k][n] = CountedIn(Over(k)', n, k)
  <2>1. stage_counts[k][n] = CountedIn(Over(k), n, k)
    BY <1>3 DEF GrindIInv, CountersOK, Running
  <2>2. CASE k = me.k
    <3>1. stage_counts'[k][n] = Counted(me.seen, s)[n]
      BY <1>1, <1>5, <2>2
    <3>2. /\ CountedBy(n, k, me.j) => Counted(me.seen, s)[n] = me.seen[n] + 1
          /\ ~CountedBy(n, k, me.j) => Counted(me.seen, s)[n] = me.seen[n]
      BY <1>3, <1>5, <2>2, CountedFacts DEF s
    <3>3. me.j \in All \ Over(k) /\ Over(k) \in SUBSET All
      BY <1>1, <1>2, <2>2, NotOver
    <3>4. /\ CountedBy(n, k, me.j) =>
               CountedIn(Over(k) \cup {me.j}, n, k) = CountedIn(Over(k), n, k) + 1
          /\ ~CountedBy(n, k, me.j) =>
               CountedIn(Over(k) \cup {me.j}, n, k) = CountedIn(Over(k), n, k)
      BY <1>3, <3>3, CountedMore
    <3>5. Over(k)' = Over(k) \cup {me.j}
      BY <1>4, <2>2
    <3>6. me.seen[n] = CountedIn(Over(k), n, k)
      BY <1>3, <2>1, <2>2
    <3> QED
      BY <3>1, <3>2, <3>4, <3>5, <3>6
  <2>3. CASE k # me.k
    <3>1. stage_counts'[k] = stage_counts[k] /\ Over(k)' = Over(k)
      BY <1>1, <1>4, <1>5, <2>3
    <3> QED
      BY <2>1, <3>1
  <2> QED
    BY <2>2, <2>3
<1>9. CountersOK'
  <2>1. scheme' = "hh" /\ grind_pc' = "pool" /\ cells' = cells
    BY <1>1, <1>3 DEF grind_input
  <2>2. \A k, n : CountedIn(Over(k), n, k)' = CountedIn(Over(k)', n, k)
    BY <2>1 DEF CountedIn, CountedBy
  <2> QED
    BY <1>8, <2>1, <2>2 DEF CountersOK
<1> QED
  BY <1>1, <1>4, <1>6, <1>7, <1>9, PoolFrame DEF GrindIInv

-----------------------------------------------------------------------------
(* The steps of the main thread *)

-----------------------------------------------------------------------------
(* The steps of the main thread *)

\* What is asked for is of the kind the assumptions speak of.
LEMMA StartGrindingStep ==
  ASSUME GrindIInv, NEW n \in Nat \ {0}, NEW quick \in BOOLEAN, StartGrinding(n, quick)
  PROVE  GrindIInv'
<1>1. /\ grind_pc = "idle" /\ grind_pc' = "open"
      /\ threads' = n /\ count' = Counts(quick) /\ cells' \in Candidates(Counts(quick))
      /\ UNCHANGED <<scheme, worker, count_mutex, stage_counts, grind_main>>
  BY DEF StartGrinding
<1>2. /\ tsv' = <<>> /\ scheme' = "hh" /\ count_mutex' = -1
      /\ stage_counts' \in [1..TargetCount -> Counters]
      /\ \A k \in 1..TargetCount, m \in 1..4 : stage_counts'[k][m] = 0
  BY <1>1 DEF GrindIInv, StateOK, grind_main
<1>3. InputOK'
  BY <1>1 DEF InputOK
<1>4. StateOK'
  BY <1>1, <1>2 DEF StateOK
<1>5. /\ WorkersOK' /\ MutexOK' /\ CountersOK' /\ PoolLists' /\ MergeLists' /\ WriteLists'
  BY <1>1 DEF WorkersOK, MutexOK, CountersOK, PoolLists, MergeLists, WriteLists, Running
<1>6. RowsOK' /\ LowestAreKept' /\ CountsAreExact'
  BY <1>2 DEF RowsOK, LowestAreKept, CountsAreExact
<1> QED
  BY <1>3, <1>4, <1>5, <1>6 DEF GrindIInv

\* A pool that starts.
LEMMA PoolStarts ==
  ASSUME InputOK, grind_pc # "idle", UNCHANGED grind_input, grind_pc' = "pool",
         worker' = NewPool(scheme'), count_mutex' = -1
  PROVE  /\ WorkersOK' /\ MutexOK' /\ PoolLists'
         /\ \A k \in 1..TargetCount : Over(k)' = {}
<1>1. PICK sch : sch = scheme'
  OBVIOUS
<1>2. /\ threads' = threads /\ count' = count /\ Ids' = Ids /\ All' = All
      /\ Workers' = [at : {"score", "lock", "count", "end"}, j : Nat,
                     k : 1..TargetCount, seen : Counters,
                     lists : [Lists(sch) -> Seq(Hits(All))]]
  BY <1>1 DEF grind_input, Ids, All, Workers
<1>3. /\ worker' = [t \in Ids |-> worker'[t]]
      /\ \A t \in Ids :
           /\ worker'[t] \in Workers'
           /\ worker'[t].j = t /\ worker'[t].k = 1 /\ worker'[t].at \in {"score", "end"}
           /\ worker'[t].at = "end" <=> worker'[t].j >= count
           /\ \A l \in Lists(sch) : worker'[t].lists[l] = <<>>
           /\ \A k \in 1..TargetCount : Tried(worker'[t], t, k) = {}
           /\ \A k \in 1..TargetCount, j \in All :
                j % threads = t => ~Past(worker'[t], j, k)
  <2>1. ASSUME NEW t \in Ids
        PROVE  /\ worker'[t] \in Workers'
               /\ worker'[t].j = t /\ worker'[t].k = 1 /\ worker'[t].at \in {"score", "end"}
               /\ (worker'[t].at = "end") <=> (worker'[t].j >= count)
               /\ \A l \in Lists(sch) : worker'[t].lists[l] = <<>>
               /\ \A k \in 1..TargetCount : Tried(worker'[t], t, k) = {}
               /\ \A k \in 1..TargetCount, j \in All :
                    j % threads = t => ~Past(worker'[t], j, k)
    <3>1. PICK me : me = Beginner(sch, t)
      OBVIOUS
    <3>2. worker'[t] = me
      BY <1>1, <3>1 DEF NewPool, Beginner
    <3>3. /\ me \in Workers'
          /\ me.j = t /\ me.k = 1 /\ me.at \in {"score", "end"}
          /\ (me.at = "end") <=> (me.j >= count)
          /\ \A l \in Lists(sch) : me.lists[l] = <<>>
          /\ \A k \in 1..TargetCount : Tried(me, t, k) = {}
          /\ \A k \in 1..TargetCount, j \in All : j % threads = t => ~Past(me, j, k)
      BY <1>2, <3>1, NewPoolStarts
    <3> QED
      BY <3>2, <3>3
  <2>2. worker' = [t \in Ids |-> worker'[t]]
    BY DEF NewPool
  <2> QED
    BY <2>1, <2>2
<1>4. WorkersOK'
  <2>1. \A t \in Ids : t % threads = t
    BY Begin
  <2>2. \A t \in Ids : WorkerOK(worker[t], t)'
    BY <1>2, <1>3, <2>1 DEF WorkerOK
  <2> QED
    BY <1>2, <1>3, <2>2 DEF WorkersOK
<1>5. MutexOK'
  <2>1. -1 \notin Ids
    BY InputFacts
  <2> QED
    BY <1>2, <1>3, <2>1 DEF MutexOK
<1>6. PoolLists'
  <2> SUFFICES ASSUME NEW t \in Ids, NEW l \in Lists(sch)
               PROVE  IsBest(worker'[t].lists[l], Tried(worker[t], t, TargetOf(l))', Scores(l)')
    BY <1>1, <1>2 DEF PoolLists
  <2>1. TargetOf(l) \in 1..TargetCount
    BY ListFacts
  <2>2. Tried(worker[t], t, TargetOf(l))' = Tried(worker'[t], t, TargetOf(l))
    BY <1>2 DEF Tried
  <2>3. worker'[t].lists[l] = <<>> /\ Tried(worker[t], t, TargetOf(l))' = {}
    BY <1>3, <2>1, <2>2
  <2>4. PICK score : score = Scores(l)'
    OBVIOUS
  <2>5. IsBest(<<>>, {}, score)
    BY EmptyBest
  <2> QED
    BY <2>3, <2>4, <2>5
<1>7. ASSUME NEW k \in 1..TargetCount PROVE Over(k)' = {}
  <2>1. \A j \in All : j % threads \in Ids
    BY InputFacts, Turns
  <2>2. \A j \in All : ~Past(worker'[j % threads], j, k)
    BY <1>3, <2>1
  <2> QED
    BY <1>2, <2>2 DEF Over, Past
<1> QED
  BY <1>4, <1>5, <1>6, <1>7

\* The first pool begins, or there is no table.
LEMMA OpenTableStep ==
  ASSUME GrindIInv, OpenTable
  PROVE  GrindIInv'
<1>1. /\ grind_pc = "open" /\ grind_pc' \in {"pool", "done"}
      /\ grind_pc' = "pool" => worker' = NewPool("hh")
      /\ UNCHANGED <<grind_input, scheme, count_mutex, stage_counts, tsv>>
      /\ threads' = threads /\ count' = count /\ cells' = cells
  BY DEF OpenTable, grind_input
<1>2. /\ scheme = "hh" /\ tsv = <<>> /\ count_mutex = -1 /\ InputOK
      /\ stage_counts \in [1..TargetCount -> Counters]
      /\ \A k \in 1..TargetCount, n \in 1..4 : stage_counts[k][n] = 0
  BY <1>1 DEF GrindIInv, StateOK
<1>3. InputOK'
  BY <1>1 DEF GrindIInv, InputOK
<1>4. StateOK'
  BY <1>1, <1>2 DEF StateOK
<1>5. MergeLists' /\ WriteLists'
  BY <1>1 DEF MergeLists, WriteLists
<1>6. RowsOK' /\ LowestAreKept' /\ CountsAreExact'
  BY <1>1, <1>2 DEF RowsOK, LowestAreKept, CountsAreExact
<1>7. WorkersOK' /\ MutexOK' /\ PoolLists' /\ CountersOK'
  <2>1. CASE grind_pc' = "pool"
    <3>1. /\ WorkersOK' /\ MutexOK' /\ PoolLists'
          /\ \A k \in 1..TargetCount : Over(k)' = {}
      BY <1>1, <1>2, <2>1, PoolStarts
    <3>2. \A k, n : CountedIn({}, n, k)' = 0
      BY FS_EmptySet DEF CountedIn
    <3>3. \A k \in 1..TargetCount, n \in 1..4 : CountedIn(Over(k), n, k)' = 0
      <4>1. \A k \in 1..TargetCount : \A n : CountedIn(Over(k), n, k)' = CountedIn({}, n, k)'
        BY <3>1 DEF CountedIn
      <4> QED
        BY <3>2, <4>1
    <3>4. CountersOK'
      BY <1>1, <1>2, <2>1, <3>3 DEF CountersOK
    <3> QED
      BY <3>1, <3>4
  <2>2. CASE grind_pc' = "done"
    BY <2>2 DEF WorkersOK, MutexOK, PoolLists, CountersOK, Running
  <2> QED
    BY <1>1, <2>1, <2>2
<1> QED
  BY <1>3, <1>4, <1>5, <1>6, <1>7 DEF GrindIInv

\* When all threads have ended, every candidate was tried and counted.
LEMMA JoinStep ==
  ASSUME GrindIInv, Join
  PROVE  GrindIInv'
<1>1. /\ grind_pc = "pool" /\ \A t \in Ids : worker[t].at = "end"
      /\ grind_pc' = "merge" /\ best' = NoHits(scheme) /\ passed' = 0
      /\ UNCHANGED <<grind_input, scheme, worker, count_mutex, stage_counts, tsv>>
      /\ tsv' = tsv /\ worker' = worker
  BY DEF Join, Ended
<1>2. /\ threads' = threads /\ count' = count /\ cells' = cells /\ scheme' = scheme
      /\ All' = All /\ Ids' = Ids
      /\ \A l : Scores(l)' = Scores(l)
      /\ \A S, n, k : CountedIn(S, n, k)' = CountedIn(S, n, k)
  BY <1>1, SameInput
<1>3. /\ threads \in Nat \ {0} /\ count \in Nat /\ Ids = 0..(threads - 1)
      /\ All = 0..(count - 1)
  BY <1>1, InputFacts DEF GrindIInv
<1>4. \A t \in Ids : worker[t].j \in Nat /\ worker[t].j >= count /\ worker[t].k \in Nat
  <2>1. TargetCount \in Nat
    BY ListFacts
  <2>2. \A t \in Ids : WorkerOK(worker[t], t)
    BY <1>1 DEF GrindIInv, WorkersOK
  <2>3. \A t \in Ids : worker[t].k \in 1..TargetCount
    BY <2>2 DEF WorkerOK, Workers
  <2>4. \A t \in Ids : worker[t].j \in Nat /\ worker[t].j >= count
    BY <1>1, <2>2 DEF WorkerOK, Workers
  <2> QED
    BY <2>1, <2>3, <2>4
<1>5. \A j \in All : j % threads \in Ids
  BY <1>3, Turns
<1>6. ASSUME NEW j \in All, NEW k PROVE Past(worker[j % threads], j, k)
  <2>1. PICK u \in Ids : u = j % threads
    BY <1>5
  <2>2. j < worker[u].j
    <3>1. worker[u].j \in Nat /\ worker[u].j >= count
      BY <1>4
    <3> QED
      BY <1>3, <3>1
  <2> QED
    BY <2>1, <2>2 DEF Past
<1>7. InputOK'
  BY <1>1, <1>2 DEF GrindIInv, InputOK
<1>8. StateOK'
  <2>1. \A t \in Ids : count_mutex # t
    BY <1>1 DEF GrindIInv, MutexOK
  <2>2. count_mutex = -1
    BY <1>1, <2>1 DEF GrindIInv, MutexOK
  <2> QED
    BY <1>1, <2>2 DEF GrindIInv, StateOK
<1>9. WorkersOK' /\ MutexOK' /\ PoolLists' /\ WriteLists'
  BY <1>1 DEF WorkersOK, MutexOK, PoolLists, WriteLists
<1>10. CountersOK'
  <2>1. \A k : Over(k) = All
    BY <1>6 DEF Over
  <2>2. \A k \in 1..TargetCount, n \in 1..4 : stage_counts[k][n] = CountedIn(All, n, k)
    BY <1>1, <2>1 DEF GrindIInv, CountersOK, Running
  <2>3. \A k, n : CountedIn(All, n, k)' = CountedIn(All, n, k)
    BY <1>2 DEF CountedIn, CountedBy
  <2> QED
    BY <1>1, <2>2, <2>3 DEF CountersOK
<1>11. MergeLists'
  <2>1. passed' \in 0..threads
    BY <1>1, <1>3
  <2>2. ASSUME NEW l \in Lists(scheme)
        PROVE  IsBest(best'[l], {j \in All : j % threads < passed'}, Scores(l))
    <3>1. best'[l] = <<>>
      BY <1>1 DEF NoHits
    <3>2. {j \in All : j % threads < passed'} = {}
      BY <1>1, <1>3, <1>5
    <3> QED
      BY <3>1, <3>2, EmptyBest
  <2>3. ASSUME NEW l \in Lists(scheme), NEW t \in Ids
        PROVE  IsBest(worker[t].lists[l], {j \in All : j % threads = t}, Scores(l))
    <3>1. IsBest(worker[t].lists[l], Tried(worker[t], t, TargetOf(l)), Scores(l))
      BY <1>1 DEF GrindIInv, PoolLists
    <3>2. Tried(worker[t], t, TargetOf(l)) = {j \in All : j % threads = t}
      BY <1>6 DEF Tried
    <3> QED
      BY <3>1, <3>2
  <2>4. \A l \in Lists(scheme) :
          /\ IsBest(best'[l], {j \in All : j % threads < passed'}, Scores(l)')
          /\ \A t \in Ids : IsBest(worker'[t].lists[l], {j \in All : j % threads = t}, Scores(l)')
    <3> SUFFICES ASSUME NEW l \in Lists(scheme)
                 PROVE  /\ IsBest(best'[l], {j \in All : j % threads < passed'}, Scores(l)')
                        /\ \A t \in Ids :
                             IsBest(worker'[t].lists[l], {j \in All : j % threads = t}, Scores(l)')
      OBVIOUS
    <3>1. Scores(l)' = Scores(l)
      BY <1>2
    <3> QED
      BY <1>1, <2>2, <2>3, <3>1
  <2> QED
    BY <1>2, <2>1, <2>4 DEF MergeLists
<1>12. RowsOK'
  BY <1>1 DEF GrindIInv, RowsOK
<1>13. LowestAreKept' /\ CountsAreExact'
  BY <1>1, <1>2, SameRows DEF GrindIInv
<1> QED
  BY <1>7, <1>8, <1>9, <1>10, <1>11, <1>12, <1>13 DEF GrindIInv

\* Merging a thread's list adds the candidates of that thread.
LEMMA MergeThreadStep ==
  ASSUME GrindIInv, MergeThread
  PROVE  GrindIInv'
<1>1. /\ grind_pc = "merge" /\ grind_pc' \in {"merge", "write"}
      /\ UNCHANGED <<grind_input, scheme, worker, count_mutex, stage_counts, tsv>>
      /\ tsv' = tsv /\ worker' = worker
      /\ threads' = threads /\ count' = count /\ cells' = cells /\ scheme' = scheme
  BY DEF MergeThread, grind_input
<1>2. /\ All' = All /\ Ids' = Ids
      /\ \A l : Scores(l)' = Scores(l)
      /\ \A S, n, k : CountedIn(S, n, k)' = CountedIn(S, n, k)
  BY <1>1, SameInput
<1>3. /\ threads \in Nat \ {0} /\ count \in Nat /\ Ids = 0..(threads - 1)
      /\ All = 0..(count - 1) /\ All \in SUBSET Nat
      /\ \A j \in All : j % threads \in Ids
  <2>1. /\ threads \in Nat \ {0} /\ count \in Nat /\ Ids = 0..(threads - 1)
        /\ All = 0..(count - 1) /\ All \in SUBSET Nat
    BY <1>1, InputFacts DEF GrindIInv
  <2>2. \A j \in All : j % threads \in Ids
    BY <2>1, Turns
  <2> QED
    BY <2>1, <2>2
<1>4. InputOK' /\ StateOK'
  BY <1>1, <1>2 DEF GrindIInv, InputOK, StateOK
<1>5. WorkersOK' /\ MutexOK' /\ PoolLists'
  BY <1>1 DEF WorkersOK, MutexOK, PoolLists
<1>6. CountersOK'
  <2>1. \A k \in 1..TargetCount, n \in 1..4 : stage_counts[k][n] = CountedIn(All, n, k)
    BY <1>1 DEF GrindIInv, CountersOK, Running
  <2>2. \A k, n : CountedIn(All, n, k)' = CountedIn(All, n, k)
    BY <1>1, <1>2 DEF CountedIn, CountedBy
  <2> QED
    BY <1>1, <2>1, <2>2 DEF CountersOK
<1>7. /\ passed \in 0..threads
      /\ \A l \in Lists(scheme) :
           /\ IsBest(best[l], {j \in All : j % threads < passed}, Scores(l))
           /\ \A t \in Ids : IsBest(worker[t].lists[l], {j \in All : j % threads = t}, Scores(l))
  BY <1>1 DEF GrindIInv, MergeLists
<1>8. MergeLists' /\ WriteLists'
  <2>1. CASE passed < threads
    <3>1. /\ best' = [l \in Lists(scheme) |-> Merge(best[l], worker[passed].lists[l])]
          /\ passed' = passed + 1 /\ grind_pc' = "merge"
      BY <1>1, <2>1 DEF MergeThread
    <3>2. passed \in Ids /\ passed' \in 0..threads
      BY <1>3, <1>7, <2>1, <3>1
    <3>3. ASSUME NEW l \in Lists(scheme)
          PROVE  IsBest(best'[l], {j \in All : j % threads < passed'}, Scores(l))
      <4> DEFINE S == {j \in All : j % threads < passed}
                 R == {j \in All : j % threads = passed}
      <4>1. IsBest(best[l], S, Scores(l)) /\ IsBest(worker[passed].lists[l], R, Scores(l))
        BY <1>7, <3>2
      <4>2. S \cap R = {} /\ S \in SUBSET All /\ R \in SUBSET All
        BY <1>3, <3>2
      <4>3. S \cup R = {j \in All : j % threads < passed'}
        BY <1>3, <3>1, <3>2
      <4>4. Scores(l) \in [All -> Nat]
        BY <1>1, ScoresTypes DEF GrindIInv, StateOK
      <4> HIDE DEF S, R
      <4>5. IsBest(Merge(best[l], worker[passed].lists[l]), S \cup R, Scores(l))
        BY <1>3, <4>1, <4>2, <4>4, MergeBest
      <4> QED
        BY <3>1, <4>3, <4>5
    <3>4. \A l \in Lists(scheme) :
            /\ IsBest(best'[l], {j \in All : j % threads < passed'}, Scores(l)')
            /\ \A t \in Ids : IsBest(worker'[t].lists[l], {j \in All : j % threads = t}, Scores(l)')
      <4> SUFFICES ASSUME NEW l \in Lists(scheme)
                   PROVE  /\ IsBest(best'[l], {j \in All : j % threads < passed'}, Scores(l)')
                          /\ \A t \in Ids :
                               IsBest(worker'[t].lists[l], {j \in All : j % threads = t}, Scores(l)')
        OBVIOUS
      <4>1. Scores(l)' = Scores(l)
        BY <1>2
      <4> QED
        BY <1>1, <1>7, <3>3, <4>1
    <3> QED
      BY <1>1, <1>2, <3>1, <3>2, <3>4 DEF MergeLists, WriteLists
  <2>2. CASE ~(passed < threads)
    <3>1. grind_pc' = "write" /\ passed' = 0 /\ best' = best
      BY <1>1, <2>2 DEF MergeThread
    <3>2. {j \in All : j % threads < passed} = All
      BY <1>3, <1>7, <2>2
    <3>3. \A l \in Lists(scheme) : IsBest(best'[l], All, Scores(l)')
      <4> SUFFICES ASSUME NEW l \in Lists(scheme) PROVE IsBest(best'[l], All, Scores(l)')
        OBVIOUS
      <4>1. Scores(l)' = Scores(l)
        BY <1>2
      <4> QED
        BY <1>7, <3>1, <3>2, <4>1
    <3> QED
      BY <1>1, <1>2, <3>1, <3>3 DEF MergeLists, WriteLists
  <2> QED
    BY <2>1, <2>2
<1>9. RowsOK'
  BY <1>1, <1>8 DEF GrindIInv, RowsOK
<1>10. LowestAreKept' /\ CountsAreExact'
  BY <1>1, SameRows DEF GrindIInv
<1> QED
  BY <1>4, <1>5, <1>6, <1>8, <1>9, <1>10 DEF GrindIInv

\* The next scheme's pool begins, and the rows are of schemes before it.
LEMMA EndSchemeStep ==
  ASSUME GrindIInv, EndScheme
  PROVE  GrindIInv'
<1>1. /\ grind_pc = "write" /\ passed + 1 \notin Lists(scheme)
      /\ UNCHANGED <<grind_input, count_mutex, stage_counts, grind_main>>
      /\ tsv' = tsv /\ threads' = threads /\ count' = count /\ cells' = cells
      /\ count_mutex' = count_mutex /\ stage_counts' = stage_counts
      /\ IF scheme = "jazzicon"
         THEN grind_pc' = "done" /\ UNCHANGED <<scheme, worker>>
         ELSE /\ grind_pc' = "pool"
              /\ scheme' = (IF scheme = "hh" THEN "blockies" ELSE "jazzicon")
              /\ worker' = NewPool(scheme')
  BY DEF EndScheme, grind_input, grind_main
<1>2. count_mutex = -1 /\ InputOK /\ scheme \in {"hh", "blockies", "jazzicon"}
  BY <1>1 DEF GrindIInv, StateOK
<1>3. LowestAreKept' /\ CountsAreExact'
  BY <1>1, SameRows DEF GrindIInv
<1>4. InputOK' /\ StateOK'
  BY <1>1, <1>2 DEF GrindIInv, InputOK, StateOK
<1>5. MergeLists' /\ WriteLists'
  BY <1>1 DEF MergeLists, WriteLists
<1>6. CASE scheme = "jazzicon"
  <2>1. grind_pc' = "done" /\ scheme' = scheme
    BY <1>1, <1>6
  <2>2. WorkersOK' /\ MutexOK' /\ PoolLists' /\ CountersOK'
    BY <2>1 DEF WorkersOK, MutexOK, PoolLists, CountersOK, Running
  <2>3. RowsOK'
    BY <1>1, <2>1 DEF GrindIInv, RowsOK
  <2> QED
    BY <1>3, <1>4, <1>5, <2>2, <2>3 DEF GrindIInv
<1>7. CASE scheme # "jazzicon"
  <2>1. /\ grind_pc' = "pool" /\ worker' = NewPool(scheme') /\ scheme' # "hh"
        /\ scheme' = (IF scheme = "hh" THEN "blockies" ELSE "jazzicon")
    BY <1>1, <1>7
  <2>2. WorkersOK' /\ MutexOK' /\ PoolLists'
    BY <1>1, <1>2, <2>1, PoolStarts
  <2>3. CountersOK'
    <3>1. \A k \in 1..TargetCount, n \in 1..4 : stage_counts[k][n] = CountedIn(All, n, k)
      BY <1>1 DEF GrindIInv, CountersOK, Running
    <3>2. \A k, n : CountedIn(All, n, k)' = CountedIn(All, n, k)
      BY <1>1 DEF CountedIn, CountedBy, All
    <3> QED
      BY <1>1, <2>1, <3>1, <3>2 DEF CountersOK
  <2>4. RowsOK'
    <3>1. tsv \in Seq(Row) /\ \A n \in DOMAIN tsv :
            tsv[n].scheme \in Earlier(scheme) \/ tsv[n].scheme = scheme
      BY <1>1 DEF GrindIInv, RowsOK
    <3>2. Earlier(scheme) \cup {scheme} \subseteq Earlier(scheme')
      BY <1>2, <1>7, <2>1 DEF Earlier
    <3> QED
      BY <1>1, <3>1, <3>2 DEF RowsOK
  <2> QED
    BY <1>3, <1>4, <1>5, <2>2, <2>3, <2>4 DEF GrindIInv
<1> QED
  BY <1>6, <1>7

-----------------------------------------------------------------------------
(* The rows of a list *)

\* A list of all candidates is as long as a list may be.
LEMMA BestLength ==
  ASSUME InputOK, grind_pc # "idle", NEW score, NEW hits, IsBest(hits, All, score)
  PROVE  Len(hits) = IF count < Keep THEN count ELSE Keep
<1> DEFINE L == Len(hits)
<1>1. /\ All = 0..(count - 1) /\ All \in SUBSET Nat /\ count \in Nat /\ Keep \in Nat \ {0}
  BY InputFacts, GrindAssumption
<1>2. /\ L \in Nat /\ L <= Keep /\ DOMAIN hits = 1..L
      /\ \A i \in 1..L : hits[i].index \in All
  <2>1. hits \in Seq(Hits(All)) /\ L <= Keep
    BY DEF IsBest
  <2> QED
    BY <2>1, HitsOfMore
<1>3. \A i, j \in 1..L : i # j => hits[i].index # hits[j].index
  BY <1>1, <1>2, NoneTwice
<1> HIDE DEF L
<1>4. PICK at \in [1..L -> All] : \A i \in 1..L : at[i] = hits[i].index
  <2> DEFINE at == [i \in 1..L |-> hits[i].index]
  <2>1. at \in [1..L -> All] /\ \A i \in 1..L : at[i] = hits[i].index
    BY <1>2
  <2> QED
    BY <2>1
<1>5. at \in Injection(1..L, All)
  BY <1>3, <1>4 DEF Injection, IsInjective
<1>6. /\ IsFiniteSet(1..L) /\ Cardinality(1..L) = L
      /\ IsFiniteSet(All) /\ Cardinality(All) = count
  <2>1. IsFiniteSet(1..L) /\ Cardinality(1..L) = L
    BY <1>2, FS_Interval
  <2>2. IsFiniteSet(All) /\ Cardinality(All) = count
    BY <1>1, FS_Interval
  <2> QED
    BY <2>1, <2>2
<1>7. L <= count
  BY <1>5, <1>6, FS_Injection
<1>8. L < Keep => L = count
  <2> SUFFICES ASSUME L < Keep PROVE L = count
    OBVIOUS
  <2>1. ASSUME NEW n \in All PROVE \E i \in 1..L : hits[i].index = n
    <3>1. Has(hits, n) \/ L = Keep
      BY DEF IsBest, L
    <3>2. L # Keep
      BY <1>1, <1>2
    <3> QED
      BY <1>2, <3>1, <3>2 DEF Has
  <2>2. at \in Surjection(1..L, All)
    BY <1>4, <2>1 DEF Surjection
  <2>3. count <= L
    BY <1>6, <2>2, FS_Surjection
  <2> QED
    BY <1>1, <1>2, <1>7, <2>3
<1>9. L = IF count < Keep THEN count ELSE Keep
  BY <1>1, <1>2, <1>7, <1>8
<1> QED
  BY <1>9 DEF L

\* Two lists differ in their kind or their target.
LEMMA ListsDiffer ==
  ASSUME NEW sch, NEW l \in Lists(sch), NEW m \in Lists(sch), l # m
  PROVE  KindOf(sch, l) # KindOf(sch, m) \/ TargetOf(l) # TargetOf(m)
<1>1. TargetCount \in Nat
  BY ListFacts
<1>2. CASE sch = "hh"
  BY <1>1, <1>2 DEF Lists, KindOf, TargetOf
<1>3. CASE sch # "hh"
  BY <1>1, <1>3 DEF Lists, KindOf, TargetOf
<1> QED
  BY <1>2, <1>3

\* What LowestAreKept says of one row.
RowIsTrue(t, n) ==
  LET r        == t[n]
      rows     == {m \in DOMAIN t : /\ t[m].scheme = r.scheme /\ t[m].kind = r.kind
                                    /\ t[m].target = r.target}
      Score(i) == ScoreOf(r.scheme, r.kind, r.target, i)
  IN  /\ {t[m].rank : m \in rows} = 1..(IF count < Keep THEN count ELSE Keep)
      /\ r.index \in 0..(count - 1) /\ r.score = Score(r.index)
      /\ \A m \in rows : m < n => /\ t[m].rank < r.rank
                                  /\ t[m].score <= r.score
                                  /\ t[m].index # r.index
      /\ \A i \in 0..(count - 1) :
           (\A m \in rows : t[m].index # i) => Score(i) >= r.score
      /\ r.scheme = "hh" =>
           r.label = CompareCells(Targets[r.target], cells[r.index])

\* The property of the lists, row by row.
LEMMA RowsAreTrue ==
  /\ LowestAreKept <=> \A n \in DOMAIN tsv : RowIsTrue(tsv, n)
  /\ UNCHANGED <<count, cells>> =>
       (LowestAreKept' <=> \A n \in DOMAIN tsv' : RowIsTrue(tsv', n))
<1>1. LowestAreKept <=> \A n \in DOMAIN tsv : RowIsTrue(tsv, n)
  BY DEF LowestAreKept, SameList, RowIsTrue
<1>2. ASSUME UNCHANGED <<count, cells>>
      PROVE  LowestAreKept' <=> \A n \in DOMAIN tsv' : RowIsTrue(tsv', n)
  <2>1. \A sch, kind, target, n :
          ScoreOf(sch, kind, target, n)' = ScoreOf(sch, kind, target, n)
    BY <1>2 DEF ScoreOf
  <2> QED
    BY <1>2 DEF LowestAreKept, SameList, RowIsTrue, ScoreOf
<1> QED
  BY <1>1, <1>2

\* What CountsAreExact says of one row.
RowIsExact(t, n) ==
  t[n].kind = "salience" =>
    t[n].matches = <<Cardinality(Matching(t[n].target, FALSE)),
                     Cardinality(Matching(t[n].target, TRUE))>>

\* The property of the counters, row by row.
LEMMA RowsAreExact ==
  /\ CountsAreExact <=> \A n \in DOMAIN tsv : RowIsExact(tsv, n)
  /\ UNCHANGED <<count, cells>> =>
       (CountsAreExact' <=> \A n \in DOMAIN tsv' : RowIsExact(tsv', n))
<1>1. CountsAreExact <=> \A n \in DOMAIN tsv : RowIsExact(tsv, n)
  BY DEF CountsAreExact, RowIsExact
<1>2. ASSUME UNCHANGED <<count, cells>>
      PROVE  CountsAreExact' <=> \A n \in DOMAIN tsv' : RowIsExact(tsv', n)
  BY <1>2 DEF CountsAreExact, RowIsExact, Matching
<1> QED
  BY <1>1, <1>2

\* What place i of list l says.
RowSays(r, l, i) ==
  /\ r.scheme = scheme /\ r.kind = KindOf(scheme, l) /\ r.target = TargetOf(l)
  /\ r.rank = i /\ r.score = best[l][i].score /\ r.index = best[l][i].index
  /\ r.index \in All
  /\ r.score = ScoreOf(r.scheme, r.kind, r.target, r.index)
  /\ r.scheme = "hh" => r.label = CompareCells(Targets[r.target], cells[r.index])
  /\ r.kind = "salience" =>
       scheme = "hh" /\ r.matches = SubSeq(stage_counts[r.target], 1, 2)
  /\ r \in Row

\* A row of a list of the lowest scores.
LEMMA RowFacts ==
  ASSUME GrindIInv, grind_pc = "write", NEW l \in Lists(scheme), NEW i \in DOMAIN best[l],
         NEW r, r = RowOf(l, i, best[l][i])
  PROVE  RowSays(r, l, i)
<1> DEFINE h == best[l][i]
           k == TargetOf(l)
           kind == KindOf(scheme, l)
<1>1. /\ InputOK /\ scheme \in {"hh", "blockies", "jazzicon"} /\ All \in SUBSET Nat
      /\ IsBest(best[l], All, Scores(l))
      /\ stage_counts \in [1..TargetCount -> Counters]
  BY InputFacts DEF GrindIInv, WriteLists, StateOK
<1>2. /\ h.index \in All /\ h.score = Scores(l)[h.index] /\ h.score \in Nat /\ i \in Nat
      /\ h.index \in Nat
  <2>1. best[l] \in Seq(Hits(All))
    BY <1>1 DEF IsBest
  <2>2. h \in Hits(All) /\ h.index \in All /\ h.score \in Nat /\ i \in Nat
    BY <2>1, HitsOfMore
  <2> QED
    BY <1>1, <2>2 DEF IsBest
<1>3. /\ k \in 1..TargetCount /\ kind \in {"salience", "gist"}
      /\ scheme # "hh" => kind = "gist"
  BY ListFacts
<1>4. h.score = ScoreOf(scheme, kind, k, h.index)
  BY <1>1, <1>2, ScoresTypes
<1>5. CompareCells(Targets[k], cells[h.index]) \in Labels
  <2>1. CompareCells(Targets[k], cells[h.index]) \in
          [empty : Nat, colour : Nat, family : Nat, direction : Nat]
    BY <1>3, Salience
  <2> QED
    BY <2>1 DEF Labels
<1> DEFINE matches == IF kind = "salience" THEN SubSeq(stage_counts[k], 1, 2) ELSE <<>>
           label == IF kind = "salience" THEN SalienceOf(h.score)
                    ELSE IF scheme = "hh" THEN CompareCells(Targets[k], cells[h.index])
                    ELSE <<>>
<1>6. r = [scheme |-> scheme, kind |-> kind, target |-> k, rank |-> i,
           score |-> h.score, index |-> h.index, matches |-> matches, label |-> label]
  BY DEF RowOf
<1>7. scheme = "hh" => label = CompareCells(Targets[k], cells[h.index])
  <2>1. CASE scheme = "hh" /\ kind = "salience"
    <3>1. h.score = SalienceScore(CompareCells(Targets[k], cells[h.index]))
      BY <1>4, <2>1 DEF ScoreOf
    <3>2. SalienceOf(SalienceScore(CompareCells(Targets[k], cells[h.index])))
            = CompareCells(Targets[k], cells[h.index])
      BY <1>3, Salience
    <3> QED
      BY <2>1, <3>1, <3>2
  <2>2. CASE scheme = "hh" /\ kind # "salience"
    BY <2>2
  <2> QED
    BY <2>1, <2>2
<1>8. label \in Labels
  <2>1. CASE scheme = "hh"
    BY <1>5, <1>7, <2>1
  <2>2. CASE scheme # "hh"
    BY <1>3, <2>2 DEF Labels
  <2> QED
    BY <2>1, <2>2
<1>9. matches \in Seq(Nat)
  <2>1. stage_counts[k] \in Counters
    BY <1>1, <1>3
  <2>2. SubSeq(stage_counts[k], 1, 2) \in Seq(Nat)
    BY <2>1 DEF Counters
  <2> QED
    BY <2>2
<1> HIDE DEF h, k, kind, matches, label
<1>10. r \in Row
  BY <1>1, <1>2, <1>3, <1>6, <1>8, <1>9 DEF Row
<1>11. r.kind = "salience" =>
         scheme = "hh" /\ r.matches = SubSeq(stage_counts[r.target], 1, 2)
  BY <1>3, <1>6 DEF matches
<1>12. /\ r.scheme = scheme /\ r.kind = kind /\ r.target = k
       /\ r.rank = i /\ r.score = h.score /\ r.index = h.index
       /\ r.index \in All
       /\ r.score = ScoreOf(r.scheme, r.kind, r.target, r.index)
       /\ r.scheme = "hh" => r.label = CompareCells(Targets[r.target], cells[r.index])
  BY <1>2, <1>4, <1>6, <1>7
<1> QED
  BY <1>10, <1>11, <1>12 DEF RowSays, h, k, kind

\* Two sequences joined.
LEMMA TwoJoined ==
  ASSUME NEW S, NEW s \in Seq(S), NEW t \in Seq(S)
  PROVE  /\ s \o t \in Seq(S) /\ Len(s \o t) = Len(s) + Len(t)
         /\ \A n \in 1..Len(s) : (s \o t)[n] = s[n]
         /\ \A n \in (Len(s) + 1)..(Len(s) + Len(t)) : (s \o t)[n] = t[n - Len(s)]
OBVIOUS

\* A function on 1..n is a sequence.
LEMMA IsSequence ==
  ASSUME NEW S, NEW n \in Nat, NEW c \in [1..n -> S]
  PROVE  c \in Seq(S) /\ Len(c) = n
OBVIOUS

\* The first elements of a sequence.
LEMMA FirstOnes ==
  ASSUME NEW S, NEW c \in Seq(S), NEW n \in Nat \ {0}, n <= Len(c)
  PROVE  /\ SubSeq(c, 1, n) \in Seq(S) /\ Len(SubSeq(c, 1, n)) = n
         /\ \A i \in 1..n : SubSeq(c, 1, n)[i] = c[i]
<1>1. SubSeq(c, 1, n) \in Seq(S) /\ Len(SubSeq(c, 1, n)) = n
  OBVIOUS
<1>2. \A i \in 1..n : SubSeq(c, 1, n)[i] = c[i]
  OBVIOUS
<1> QED
  BY <1>1, <1>2

\* A row reports the first two of the four counters.
LEMMA FirstTwo ==
  ASSUME NEW c \in Seq(Nat), Len(c) = 4
  PROVE  SubSeq(c, 1, 2) = <<c[1], c[2]>>
<1>1. 2 \in Nat \ {0} /\ 2 <= Len(c)
  OBVIOUS
<1>2. PICK d : d = SubSeq(c, 1, 2)
  OBVIOUS
<1>3. d \in Seq(Nat) /\ Len(d) = 2 /\ \A i \in 1..2 : d[i] = c[i]
  BY <1>1, <1>2, FirstOnes
<1>4. d[1] = c[1] /\ d[2] = c[2]
  BY <1>3
<1>5. d = <<c[1], c[2]>>
  BY <1>3, <1>4
<1> QED
  BY <1>2, <1>5

\* A list that is written has no rows yet, and its rows are the list.
LEMMA WriteListStep ==
  ASSUME GrindIInv, WriteList
  PROVE  GrindIInv'
<1> DEFINE l == passed + 1
           N == Len(tsv)
           L == Len(best[l])
<1>1. /\ grind_pc = "write" /\ grind_pc' = "write" /\ l \in Lists(scheme) /\ passed' = l
      /\ tsv' = tsv \o [rank \in DOMAIN best[l] |-> RowOf(l, rank, best[l][rank])]
      /\ UNCHANGED <<grind_input, scheme, worker, count_mutex, stage_counts, best>>
      /\ threads' = threads /\ count' = count /\ cells' = cells /\ scheme' = scheme
      /\ stage_counts' = stage_counts /\ best' = best
  BY DEF WriteList, grind_input
<1>2. /\ All' = All
      /\ \A m : Scores(m)' = Scores(m)
      /\ \A S, n, k : CountedIn(S, n, k)' = CountedIn(S, n, k)
  BY <1>1, SameInput
<1>3. /\ InputOK /\ IsBest(best[l], All, Scores(l)) /\ passed \in {0} \cup Lists(scheme)
      /\ tsv \in Seq(Row) /\ scheme \in {"hh", "blockies", "jazzicon"}
      /\ stage_counts \in [1..TargetCount -> Counters]
      /\ All = 0..(count - 1) /\ All \in SUBSET Nat /\ count \in Nat /\ Keep \in Nat \ {0}
  BY <1>1, InputFacts, GrindAssumption DEF GrindIInv, WriteLists, StateOK, RowsOK
<1>4. /\ L = (IF count < Keep THEN count ELSE Keep) /\ L \in Nat /\ DOMAIN best[l] = 1..L
      /\ N \in Nat /\ DOMAIN tsv = 1..N
      /\ Lists(scheme) = 1..(IF scheme = "hh" THEN 2 * TargetCount ELSE TargetCount)
      /\ TargetCount \in Nat \ {0} /\ passed \in Nat
  <2>1. L = IF count < Keep THEN count ELSE Keep
    BY <1>1, <1>3, BestLength
  <2>2. best[l] \in Seq(Hits(All))
    BY <1>3 DEF IsBest
  <2>3. /\ Lists(scheme) = 1..(IF scheme = "hh" THEN 2 * TargetCount ELSE TargetCount)
        /\ TargetCount \in Nat \ {0}
    BY ListFacts
  <2>4. L \in Nat /\ DOMAIN best[l] = 1..L
    BY <2>2, HitsOfMore
  <2>5. passed \in Nat
    BY <1>3, <2>3
  <2> HIDE DEF l
  <2> QED
    BY <1>3, <2>1, <2>3, <2>4, <2>5
<1> DEFINE new == [rank \in DOMAIN best[l] |-> RowOf(l, rank, best[l][rank])]
<1>5. ASSUME NEW i \in 1..L PROVE RowSays(new[i], l, i)
  <2>1. i \in DOMAIN best[l]
    BY <1>4
  <2>2. PICK r : r = RowOf(l, i, best[l][i])
    OBVIOUS
  <2>3. new[i] = r
    BY <2>1, <2>2
  <2> HIDE DEF l, new
  <2> QED
    BY <1>1, <2>1, <2>2, <2>3, RowFacts
<1>6. /\ new \in Seq(Row) /\ Len(new) = L
      /\ tsv' \in Seq(Row) /\ DOMAIN tsv' = 1..(N + L)
      /\ \A m \in 1..N : tsv'[m] = tsv[m]
      /\ \A m \in (N + 1)..(N + L) : tsv'[m] = new[m - N]
  <2>1. new \in [1..L -> Row]
    BY <1>4, <1>5 DEF RowSays
  <2>2. tsv' = tsv \o new
    BY <1>1
  <2>3. new \in Seq(Row) /\ Len(new) = L
    <3> HIDE DEF new, L
    <3> QED
      BY <1>4, <2>1
  <2> HIDE DEF new, L
  <2>4. tsv' \in Seq(Row) /\ Len(tsv') = N + L
    BY <1>3, <2>2, <2>3, TwoJoined
  <2>5. DOMAIN tsv' = 1..(N + L)
    BY <1>4, <2>4
  <2>6. \A m \in 1..N : tsv'[m] = tsv[m]
    BY <1>3, <1>4, <2>2, <2>3
  <2>7. \A m \in (N + 1)..(N + L) : tsv'[m] = new[m - N]
    BY <1>3, <1>4, <2>2, <2>3
  <2> QED
    BY <2>3, <2>4, <2>5, <2>6, <2>7
<1> HIDE DEF new, L, N, l
<1>15. ASSUME NEW m \in (N + 1)..(N + L)
       PROVE  tsv'[m] = new[m - N] /\ m - N \in 1..L /\ RowSays(tsv'[m], l, m - N)
  <2>1. tsv'[m] = new[m - N]
    BY <1>6
  <2>2. m - N \in 1..L
    <3>1. N \in Nat /\ L \in Nat
      BY <1>4
    <3> QED
      BY <3>1
  <2> QED
    BY <1>5, <2>1, <2>2
<1>7. ASSUME NEW m \in 1..N
      PROVE  tsv[m].scheme # scheme \/ tsv[m].kind # KindOf(scheme, l) \/ tsv[m].target # TargetOf(l)
  <2>1. \/ tsv[m].scheme \in Earlier(scheme)
        \/ \E p \in 1..passed : tsv[m].kind = KindOf(scheme, p) /\ tsv[m].target = TargetOf(p)
    BY <1>1, <1>4 DEF GrindIInv, RowsOK
  <2>2. scheme \notin Earlier(scheme)
    BY <1>3 DEF Earlier
  <2>3. ASSUME NEW p \in 1..passed
        PROVE  KindOf(scheme, p) # KindOf(scheme, l) \/ TargetOf(p) # TargetOf(l)
    <3>1. p \in Lists(scheme) /\ p # l
      BY <1>1, <1>3, <1>4 DEF l
    <3> QED
      BY <1>1, <3>1, ListsDiffer
  <2> QED
    BY <2>1, <2>2, <2>3
<1>8. InputOK' /\ StateOK'
  <2>1. InputOK'
    BY <1>1 DEF GrindIInv, InputOK
  <2>2. StateOK'
    BY <1>1 DEF GrindIInv, StateOK
  <2> QED
    BY <2>1, <2>2
<1>9. WorkersOK' /\ MutexOK' /\ PoolLists' /\ MergeLists'
  BY <1>1 DEF WorkersOK, MutexOK, PoolLists, MergeLists
<1>10. CountersOK'
  <2>1. \A k \in 1..TargetCount, n \in 1..4 : stage_counts[k][n] = CountedIn(All, n, k)
    BY <1>1 DEF GrindIInv, CountersOK, Running
  <2>2. \A k, n : CountedIn(All, n, k)' = CountedIn(All, n, k)
    BY <1>1, <1>2 DEF CountedIn, CountedBy
  <2> QED
    BY <1>1, <2>1, <2>2 DEF CountersOK
<1>11. WriteLists'
  <2>1. \A m \in Lists(scheme) : IsBest(best[m], All, Scores(m)')
    <3> SUFFICES ASSUME NEW m \in Lists(scheme) PROVE IsBest(best[m], All, Scores(m)')
      OBVIOUS
    <3>1. Scores(m)' = Scores(m)
      BY <1>2
    <3> QED
      BY <1>1, <3>1 DEF GrindIInv, WriteLists
  <2> QED
    BY <1>1, <1>2, <2>1 DEF WriteLists
<1>12. RowsOK'
  <2> SUFFICES ASSUME NEW n \in 1..(N + L)
               PROVE  \/ tsv'[n].scheme \in Earlier(scheme)
                      \/ /\ tsv'[n].scheme = scheme
                         /\ \E p \in 1..l : /\ tsv'[n].kind = KindOf(scheme, p)
                                            /\ tsv'[n].target = TargetOf(p)
    BY ZenonT(60), <1>1, <1>6 DEF RowsOK
  <2>1. CASE n \in 1..N
    <3>1. tsv'[n] = tsv[n] /\ n \in DOMAIN tsv
      BY <1>4, <1>6, <2>1
    <3>2. \/ tsv[n].scheme \in Earlier(scheme)
          \/ /\ tsv[n].scheme = scheme
             /\ \E p \in 1..passed : /\ tsv[n].kind = KindOf(scheme, p)
                                     /\ tsv[n].target = TargetOf(p)
      BY <1>1, <3>1 DEF GrindIInv, RowsOK
    <3>3. 1..passed \subseteq 1..l
      BY <1>4 DEF l
    <3> QED
      BY <3>1, <3>2, <3>3
  <2>2. CASE n \in (N + 1)..(N + L)
    <3>1. l \in 1..l
      BY <1>4 DEF l
    <3>2. /\ tsv'[n].scheme = scheme /\ tsv'[n].kind = KindOf(scheme, l)
          /\ tsv'[n].target = TargetOf(l)
      BY <1>15, <2>2 DEF RowSays
    <3> QED
      BY <3>1, <3>2
  <2> QED
    BY <1>4, <2>1, <2>2
<1>13. LowestAreKept'
  <2> SUFFICES ASSUME NEW n \in 1..(N + L) PROVE RowIsTrue(tsv', n)
    BY <1>1, <1>6, RowsAreTrue
  <2> DEFINE r == tsv'[n]
             rows == {m \in DOMAIN tsv' : /\ tsv'[m].scheme = r.scheme /\ tsv'[m].kind = r.kind
                                          /\ tsv'[m].target = r.target}
  <2>1. CASE n \in 1..N
    <3>1. r = tsv[n] /\ n \in DOMAIN tsv /\ RowIsTrue(tsv, n)
      BY <1>4, <1>6, <2>1, RowsAreTrue DEF GrindIInv
    <3>2. ASSUME NEW m \in (N + 1)..(N + L) PROVE m \notin rows
      <4>2. /\ tsv'[m].scheme = scheme /\ tsv'[m].kind = KindOf(scheme, l)
            /\ tsv'[m].target = TargetOf(l)
        BY <1>15 DEF RowSays
      <4> QED
        BY <1>7, <2>1, <3>1, <4>2
    <3>3. \A m \in 1..(N + L) : m \in 1..N \/ m \in (N + 1)..(N + L)
      BY <1>4
    <3>4. rows = {m \in DOMAIN tsv : /\ tsv[m].scheme = tsv[n].scheme /\ tsv[m].kind = tsv[n].kind
                                     /\ tsv[m].target = tsv[n].target}
      <4>1. \A m \in 1..N : tsv'[m] = tsv[m] /\ m \in 1..(N + L)
        BY <1>4, <1>6
      <4> QED
        BY <1>4, <1>6, <3>1, <3>2, <3>3, <4>1
    <3>5. \A m \in rows : tsv'[m] = tsv[m]
      BY <1>4, <1>6, <3>4
    <3>6. {tsv'[m].rank : m \in rows} = {tsv[m].rank : m \in rows}
      BY <3>5
    <3> HIDE DEF rows, r
    <3> QED
      BY <3>1, <3>4, <3>5, <3>6 DEF RowIsTrue, rows, r
  <2>2. CASE n \in (N + 1)..(N + L)
    <3> DEFINE i == n - N
    <3>1. i \in 1..L /\ RowSays(r, l, i)
      BY <1>15, <2>2
    <3>2. /\ r.scheme = scheme /\ r.kind = KindOf(scheme, l) /\ r.target = TargetOf(l)
          /\ r.rank = i /\ r.score = best[l][i].score /\ r.index = best[l][i].index
          /\ r.index \in All
          /\ r.score = ScoreOf(r.scheme, r.kind, r.target, r.index)
          /\ r.scheme = "hh" => r.label = CompareCells(Targets[r.target], cells[r.index])
      <4> HIDE DEF r, i
      <4> QED
        BY <3>1 DEF RowSays
    <3>3. ASSUME NEW m \in (N + 1)..(N + L)
          PROVE  /\ m - N \in 1..L /\ tsv'[m].scheme = scheme
                 /\ tsv'[m].kind = KindOf(scheme, l) /\ tsv'[m].target = TargetOf(l)
                 /\ tsv'[m].rank = m - N /\ tsv'[m].score = best[l][m - N].score
                 /\ tsv'[m].index = best[l][m - N].index
      BY <1>15 DEF RowSays
    <3> HIDE DEF r
    <3>4. rows = (N + 1)..(N + L)
      <4>1. \A m \in (N + 1)..(N + L) : m \in rows
        <5>1. \A m \in (N + 1)..(N + L) : m \in DOMAIN tsv'
          BY <1>4, <1>6
        <5> QED
          BY <3>2, <3>3, <5>1
      <4>2. \A m \in 1..N : m \notin rows
        <5>1. \A m \in 1..N : tsv'[m] = tsv[m]
          BY <1>6
        <5> QED
          BY <1>7, <3>2, <5>1
      <4>3. \A m \in 1..(N + L) : m \in 1..N \/ m \in (N + 1)..(N + L)
        BY <1>4
      <4> QED
        BY <1>6, <4>1, <4>2, <4>3
    <3> HIDE DEF rows
    <3>5. {tsv'[m].rank : m \in rows} = 1..(IF count < Keep THEN count ELSE Keep)
      <4>1. \A m \in rows : tsv'[m].rank \in 1..L
        BY <3>3, <3>4
      <4>2. ASSUME NEW q \in 1..L PROVE q \in {tsv'[m].rank : m \in rows}
        <5>1. N + q \in (N + 1)..(N + L) /\ (N + q) - N = q
          BY <1>4
        <5>2. tsv'[N + q].rank = q /\ N + q \in rows
          BY <3>3, <3>4, <5>1
        <5> QED
          BY <5>2
      <4>3. {tsv'[m].rank : m \in rows} = 1..L
        BY <4>1, <4>2
      <4> QED
        BY <1>4, <4>3
    <3>6. /\ best[l] \in Seq(Hits(All)) /\ Ordered(best[l])
          /\ \A m \in All : Has(best[l], m) \/ (L = Keep /\ Scores(l)[m] >= best[l][Keep].score)
      BY <1>3 DEF IsBest, L
    <3>7. \A m \in 1..L : best[l][m] \in Hits(All) /\ best[l][m].score \in Nat
      BY <1>4, <3>6, HitsOfMore
    <3>8. ASSUME NEW m \in rows, m < n
          PROVE  /\ tsv'[m].rank < r.rank /\ tsv'[m].score <= r.score
                 /\ tsv'[m].index # r.index
      <4>1. m - N \in 1..L /\ m - N < i
        BY <1>4, <3>3, <3>4, <3>8, <2>2
      <4>2. Before(best[l][m - N], best[l][i])
        BY <1>4, <3>1, <3>6, <4>1 DEF Ordered
      <4>3. best[l][m - N].score <= best[l][i].score
        BY <1>3, <3>1, <3>7, <4>1, <4>2, BeforeIsOrder
      <4>4. best[l][m - N].index # best[l][i].index
        <5>1. m - N \in DOMAIN best[l] /\ i \in DOMAIN best[l]
          BY <1>4, <3>1, <4>1
        <5>2. m - N # i
          BY <3>1, <4>1
        <5> QED
          BY <1>3, <5>1, <5>2, NoneTwice
      <4> QED
        BY <3>2, <3>3, <3>4, <3>8, <4>1, <4>3, <4>4
    <3>9. ASSUME NEW c \in 0..(count - 1), \A m \in rows : tsv'[m].index # c
          PROVE  ScoreOf(r.scheme, r.kind, r.target, c) >= r.score
      <4>1. ~Has(best[l], c)
        <5> SUFFICES ASSUME NEW q \in 1..L, best[l][q].index = c PROVE FALSE
          BY <1>4 DEF Has
        <5>1. N + q \in (N + 1)..(N + L) /\ (N + q) - N = q
          BY <1>4
        <5>2. tsv'[N + q].index = c /\ N + q \in rows
          BY <3>3, <3>4, <5>1
        <5> QED
          BY <3>9, <5>2
      <4>2. L = Keep /\ Scores(l)[c] >= best[l][Keep].score /\ c \in All
        BY <1>3, <3>6, <4>1
      <4>3. Scores(l)[c] = ScoreOf(scheme, KindOf(scheme, l), TargetOf(l), c) /\ Scores(l)[c] \in Nat
        BY <1>1, <1>3, <4>2, ScoresTypes
      <4>4. best[l][i].score <= best[l][Keep].score
        <5>1. CASE i = Keep
          BY <3>1, <3>7, <5>1
        <5>2. CASE i # Keep
          <6>1. i < Keep /\ i \in 1..L /\ Keep \in 1..L
            BY <1>3, <3>1, <4>2, <5>2
          <6>2. Before(best[l][i], best[l][Keep])
            BY <1>4, <3>6, <6>1 DEF Ordered
          <6> QED
            BY <1>3, <3>7, <6>1, <6>2, BeforeIsOrder
        <5> QED
          BY <5>1, <5>2
      <4>5. best[l][i].score \in Nat /\ best[l][Keep].score \in Nat
        BY <1>3, <3>1, <3>7, <4>2
      <4> QED
        BY <3>2, <4>2, <4>3, <4>4, <4>5
    <3>10. r.index \in 0..(count - 1) /\ (r.scheme = "hh" =>
             r.label = CompareCells(Targets[r.target], cells[r.index]))
      BY <1>3, <3>2
    <3> HIDE DEF i
    <3> QED
      BY <3>2, <3>5, <3>8, <3>9, <3>10 DEF RowIsTrue, rows, r
  <2> QED
    BY <1>4, <2>1, <2>2
<1>14. CountsAreExact'
  <2> SUFFICES ASSUME NEW n \in 1..(N + L), tsv'[n].kind = "salience"
               PROVE  tsv'[n].matches = <<Cardinality(Matching(tsv'[n].target, FALSE)),
                                          Cardinality(Matching(tsv'[n].target, TRUE))>>
    BY <1>1, <1>6, RowsAreExact DEF RowIsExact
  <2>1. CASE n \in 1..N
    <3>1. RowIsExact(tsv, n) /\ tsv'[n] = tsv[n]
      BY <1>4, <1>6, <2>1, RowsAreExact DEF GrindIInv
    <3> QED
      BY <3>1 DEF RowIsExact
  <2>2. CASE n \in (N + 1)..(N + L)
    <3>1. PICK k : k = TargetOf(l)
      OBVIOUS
    <3>2. tsv'[n].target = k /\ tsv'[n].matches = SubSeq(stage_counts[k], 1, 2)
      BY <1>15, <2>2, <3>1 DEF RowSays
    <3>3. k \in 1..TargetCount
      BY <1>1, <3>1, ListFacts
    <3>4. stage_counts[k] \in Counters /\ \A q \in 1..4 : stage_counts[k][q] = CountedIn(All, q, k)
      BY <1>1, <1>3, <3>3 DEF GrindIInv, CountersOK, Running
    <3>5. SubSeq(stage_counts[k], 1, 2) = <<stage_counts[k][1], stage_counts[k][2]>>
      <4>1. PICK c \in [1..4 -> Nat] : c = stage_counts[k]
        BY <3>4 DEF Counters
      <4>2. SubSeq(c, 1, 2) = <<c[1], c[2]>>
        <5>1. 4 \in Nat
          OBVIOUS
        <5>2. c \in Seq(Nat) /\ Len(c) = 4
          BY <5>1, IsSequence
        <5> QED
          BY <5>2, FirstTwo
      <4> QED
        BY <4>1, <4>2
    <3>6. CountedIn(All, 1, k) = Cardinality(Matching(k, FALSE))
      <4>1. {j \in All : CountedBy(1, k, j)} = Matching(k, FALSE)
        BY <1>3 DEF CountedBy, Matching
      <4> QED
        BY <4>1 DEF CountedIn
    <3>7. CountedIn(All, 2, k) = Cardinality(Matching(k, TRUE))
      <4>1. {j \in All : CountedBy(2, k, j)} = Matching(k, TRUE)
        BY <1>3 DEF CountedBy, Matching
      <4> QED
        BY <4>1 DEF CountedIn
    <3>8. /\ stage_counts[k][1] = Cardinality(Matching(k, FALSE))
          /\ stage_counts[k][2] = Cardinality(Matching(k, TRUE))
      <4>1. 1 \in 1..4 /\ 2 \in 1..4
        OBVIOUS
      <4> QED
        BY <3>4, <3>6, <3>7, <4>1
    <3> QED
      BY <3>2, <3>5, <3>8
  <2>3. n \in 1..N \/ n \in (N + 1)..(N + L)
    BY <1>4
  <2> QED
    BY <2>1, <2>2, <2>3
<1> QED
  BY <1>8, <1>9, <1>10, <1>11, <1>12, <1>13, <1>14 DEF GrindIInv

-----------------------------------------------------------------------------
(* The grinding of the tool *)

\* What of the tool's own state the grinding depends on.
Options == [threads : Nat, quick : BOOLEAN]
ToolOK == opt \in Options /\ args \in Seq(Words)

\* A scheme's threads, one at a time.
LEMMA ThreadStep ==
  ASSUME GrindIInv, NEW t \in Ids, Thread(t)
  PROVE  GrindIInv'
<1>1. grind_pc = "pool"
  BY DEF Thread
<1>2. CASE ScoreHh(t)
  BY <1>1, <1>2, ScoreHhStep
<1>3. CASE Lock(t)
  BY <1>1, <1>3, LockStep
<1>4. CASE CountMatch(t)
  BY <1>1, <1>4, CountMatchStep
<1>5. CASE ScoreOther(t)
  BY <1>1, <1>5, ScoreOtherStep
<1> QED
  BY <1>2, <1>3, <1>4, <1>5 DEF Thread

\* Every step of the command.
LEMMA GrindStep ==
  ASSUME GrindIInv, GrindNext
  PROVE  GrindIInv'
<1>1. CASE OpenTable
  BY <1>1, OpenTableStep
<1>2. CASE Join
  BY <1>2, JoinStep
<1>3. CASE MergeThread
  BY <1>3, MergeThreadStep
<1>4. CASE WriteList
  BY <1>4, WriteListStep
<1>5. CASE EndScheme
  BY <1>5, EndSchemeStep
<1>6. CASE \E t \in Ids : Thread(t)
  BY <1>6, ThreadStep
<1> QED
  BY <1>1, <1>2, <1>3, <1>4, <1>5, <1>6 DEF GrindNext

\* What the invariant says depends on the variables of the command alone.
LEMMA GrindStutters ==
  ASSUME GrindIInv, UNCHANGED grind_vars
  PROVE  GrindIInv'
<1>1. /\ grind_pc' = grind_pc /\ UNCHANGED grind_input /\ scheme' = scheme
      /\ worker' = worker /\ count_mutex' = count_mutex /\ stage_counts' = stage_counts
      /\ best' = best /\ passed' = passed /\ tsv' = tsv
      /\ threads' = threads /\ count' = count /\ cells' = cells
  BY DEF grind_vars, grind_input
<1>2. /\ All' = All /\ Ids' = Ids
      /\ \A l : Scores(l)' = Scores(l)
      /\ \A S, n, k : CountedIn(S, n, k)' = CountedIn(S, n, k)
      /\ \A me, t, k : Tried(me, t, k)' = Tried(me, t, k)
      /\ \A k : Over(k)' = Over(k)
  BY <1>1, SameInput DEF Ids, Tried, Past, All, Over
<1>3. InputOK' /\ StateOK'
  BY <1>1 DEF GrindIInv, InputOK, StateOK
<1>4. WorkersOK'
  <2> SUFFICES ASSUME grind_pc = "pool"
               PROVE  /\ worker = [t \in Ids |-> worker[t]]
                      /\ \A t \in Ids : WorkerOK(worker[t], t)'
    BY <1>1, <1>2 DEF WorkersOK
  <2>1. Workers' = Workers
    BY <1>1, <1>2 DEF Workers, Counters
  <2> QED
    BY <1>1, <2>1 DEF GrindIInv, WorkersOK, WorkerOK, Compared
<1>5. MutexOK'
  BY <1>1, <1>2 DEF GrindIInv, MutexOK
<1>6. CountersOK'
  BY <1>1, <1>2 DEF GrindIInv, CountersOK, Running
<1>7. PoolLists'
  BY <1>1, <1>2 DEF GrindIInv, PoolLists
<1>8. MergeLists'
  BY <1>1, <1>2 DEF GrindIInv, MergeLists
<1>9. WriteLists'
  BY <1>1, <1>2 DEF GrindIInv, WriteLists
<1>10. RowsOK'
  BY <1>1 DEF GrindIInv, RowsOK
<1>11. LowestAreKept' /\ CountsAreExact'
  BY <1>1, SameRows DEF GrindIInv
<1> QED
  BY <1>3, <1>4, <1>5, <1>6, <1>7, <1>8, <1>9, <1>10, <1>11 DEF GrindIInv

\* Before anything was asked for.
LEMMA GrindBegins ==
  ASSUME GrindIdle
  PROVE  GrindIInv
<1>1. /\ grind_pc = "idle" /\ scheme = "hh" /\ tsv = <<>> /\ count_mutex = -1
      /\ stage_counts = [t \in DOMAIN Targets |-> <<0, 0, 0, 0>>]
  BY DEF GrindIdle
<1>2. DOMAIN Targets = 1..TargetCount
  BY GrindAssumption DEF TargetCount
<1>3. <<0, 0, 0, 0>> \in Counters /\ \A n \in 1..4 : <<0, 0, 0, 0>>[n] = 0
  BY DEF Counters
<1>4. StateOK
  BY <1>1, <1>2, <1>3 DEF StateOK
<1>5. RowsOK /\ LowestAreKept /\ CountsAreExact
  BY <1>1 DEF RowsOK, LowestAreKept, CountsAreExact
<1> QED
  BY <1>1, <1>4, <1>5 DEF GrindIInv, InputOK, WorkersOK, MutexOK, CountersOK, Running,
                          PoolLists, MergeLists, WriteLists

\* A pool has at least one thread.
LEMMA ThreadCounts ==
  ASSUME ToolOK
  PROVE  ThreadCount \subseteq Nat \ {0}
BY ArgumentsAssumption DEF ToolOK, Options, ThreadCount

\* The command line is one of those that are tried.
LEMMA ToolBegins ==
  ASSUME Init
  PROVE  ToolOK
BY ArgumentsAssumption DEF Init, ToolOK, Options

\* What is left of a sequence without its first element.
LEMMA TailIs ==
  ASSUME NEW S, NEW s \in Seq(S), Len(s) >= 1
  PROVE  Tail(s) \in Seq(S) /\ Len(Tail(s)) = Len(s) - 1
<1>1. Len(s) \in Nat
  OBVIOUS
<1>2. s # <<>>
  OBVIOUS
<1> QED
  BY <1>1, <1>2

\* An option and its value are read.
LEMMA OptionRead ==
  ASSUME NEW line \in Seq(Words), Len(line) >= 3
  PROVE  Tail(Tail(line)) \in Seq(Words) /\ line[3] \in Words
<1>1. Len(line) \in Nat /\ Len(line) >= 1
  OBVIOUS
<1>2. Tail(line) \in Seq(Words) /\ Len(Tail(line)) = Len(line) - 1
  BY <1>1, TailIs
<1>3. Len(Tail(line)) >= 1
  BY <1>1, <1>2
<1>4. Tail(Tail(line)) \in Seq(Words)
  BY <1>2, <1>3, TailIs
<1>5. line[3] \in Words
  OBVIOUS
<1> QED
  BY <1>4, <1>5

\* Options are read from words, and not changed after.
LEMMA ToolStep ==
  ASSUME ToolOK, [Next]_vars
  PROVE  ToolOK'
<1>1. CASE ReadOption
  <2>1. CASE UNCHANGED <<args, opt>>
    BY <2>1 DEF ToolOK
  <2>2. CASE /\ Len(args) >= 2
             /\ opt' = [opt EXCEPT !.quick = TRUE] /\ args' = Tail(args)
    <3>1. args' \in Seq(Words)
      BY <2>2 DEF ToolOK
    <3>2. opt' \in Options
      BY <2>2, Zenon DEF ToolOK, Options
    <3> QED
      BY <3>1, <3>2 DEF ToolOK
  <2>3. CASE Len(args) >= 3 /\ args' = Tail(Tail(args)) /\ UNCHANGED opt
    BY <2>3, OptionRead DEF ToolOK
  <2>4. CASE /\ Len(args) >= 3 /\ args' = Tail(Tail(args))
             /\ Number(args[3]) # -1 /\ opt' = [opt EXCEPT !.threads = Number(args[3])]
    <3>1. args' \in Seq(Words) /\ args[3] \in Words
      BY <2>4, OptionRead DEF ToolOK
    <3>2. Number(args[3]) \in Nat
      BY <2>4, <3>1, ArgumentsAssumption
    <3>3. opt' \in Options
      BY <2>4, <3>2 DEF ToolOK, Options
    <3> QED
      BY <3>1, <3>3 DEF ToolOK
  <2> QED
    BY <1>1, <2>1, <2>2, <2>3, <2>4 DEF ReadOption
<1>2. CASE UNCHANGED <<args, opt>>
  BY <1>2 DEF ToolOK
<1>3. ReadOption \/ UNCHANGED <<args, opt>>
  BY DEF Next, Main, MakeDirs, Skip, Run, Return, Exit, vars, lab_vars
<1> QED
  BY <1>1, <1>2, <1>3

\* Whatever the tool does next.
LEMMA LabStep ==
  ASSUME ToolOK, GrindIInv, [Next]_vars
  PROVE  GrindIInv'
<1>1. CASE UNCHANGED grind_vars
  BY <1>1, GrindStutters
<1>2. CASE GrindNext
  BY <1>2, GrindStep
<1>3. CASE Run
  <2>1. PICK n \in ThreadCount :
          \/ StartGrinding(n, opt.quick)
          \/ UNCHANGED grind_vars
    BY <1>3 DEF Run, parts
  <2>2. n \in Nat \ {0} /\ opt.quick \in BOOLEAN
    BY ThreadCounts DEF ToolOK, Options
  <2> QED
    BY <1>1, <2>1, <2>2, StartGrindingStep
<1>4. Run \/ GrindNext \/ UNCHANGED grind_vars
  BY DEF Next, Main, ReadOption, MakeDirs, Skip, Return, Exit, vars, parts
<1> QED
  BY <1>1, <1>2, <1>3, <1>4

\* Both properties of `grind`, from one inductive invariant.
THEOREM ListsAndCounts == Spec => [](LowestAreKept /\ CountsAreExact)
<1>1. Init => ToolOK /\ GrindIInv
  BY ToolBegins, GrindBegins DEF Init
<1>2. ToolOK /\ GrindIInv /\ [Next]_vars => (ToolOK /\ GrindIInv)'
  BY ToolStep, LabStep
<1>3. GrindIInv => LowestAreKept /\ CountsAreExact
  BY DEF GrindIInv
<1> QED
  BY <1>1, <1>2, <1>3, PTL DEF Spec

\* The rows of a target hold the lowest scores of all candidates, in order, with
\* the candidates that have them and labels that are true (grinding.cpp:45-71,
\* 97-119), for any number of threads, candidates and targets and any list length.
THEOREM LowestScoresAreKept == Spec => []LowestAreKept
BY ListsAndCounts, PTL

\* No increment of a counter is lost between threads (grinding.cpp:339-366), for
\* any number of threads, candidates and targets.
THEOREM MatchesAreCounted == Spec => []CountsAreExact
BY ListsAndCounts, PTL

-----------------------------------------------------------------------------
(* The inductive invariant of `palette` *)

Search == [start : Palette, it : Nat, p : Palette,
           views : [1..PaletteSize -> [1..Conditions -> Int]],
           current : Nat, best : [score : Nat, colours : Palette]]

TrueViews(p) == [i \in 1..PaletteSize |-> ViewsOf(p[i])]

\* The colours of p that have moved keep to what they have to.
MovedRight(st, p, start) ==
  \A i \in 1..PaletteSize : p[i] # start[i] => Keeps(st, p[i], start[i])

Consistent(st, s) ==
  /\ s \in Search
  /\ s.views = TrueViews(s.p) /\ s.current = Objective(s.views)
  /\ s.best.score = Objective(TrueViews(s.best.colours)) /\ s.best.score >= s.current
  /\ MovedRight(st, s.p, s.start) /\ MovedRight(st, s.best.colours, s.start)

\* What was asked for, once it was.
PaletteInputOK ==
  palette_pc # "idle" =>
    /\ pool \in Nat \ {0} /\ picked \in Picks /\ draws \in Draws
    /\ \E quick \in BOOLEAN : iterations = Iterations(quick)

\* The palette in the band is whole before the first stage.
Bands == [n : Nat, lo : Nat, hi : Nat, best : {<<>>} \cup {<<q>> : q \in Channel}]
BandOK ==
  /\ palette_pc \in {"idle", "band", "stage", "pool", "done"}
  /\ band \in Bands
  /\ banded \in Seq(Channel) /\ Len(banded) <= PaletteSize
  /\ palette_pc \in {"stage", "pool"} => Len(banded) = PaletteSize

StageOK ==
  /\ stage \in Nat \ {0}
  /\ palette_pc = "pool" => stage \in DOMAIN Stages
  /\ palette_pc # "pool" => next_mutex = -1

\* Who holds the mutex has read the counter; a job that is searched was taken, and
\* its search is where it would be alone.
SearcherOK(t) ==
  LET me == searcher[t]
  IN  /\ me \in [at : {"lock", "take", "anneal", "end"}, job : Nat,
                 search : Search \cup {NoSearch}]
      /\ (me.at = "take") <=> (next_mutex = t)
      /\ me.at = "take" => me.job = next
      /\ me.at = "end" => next >= Jobs
      /\ me.at = "anneal" => /\ me.job \in 0..(Jobs - 1) /\ me.job < next
                             /\ me.search.it \in 0..iterations
                             /\ me.search = After(me.job)[me.search.it]
                             /\ Consistent(St, me.search)

SearchersOK ==
  palette_pc = "pool" =>
    /\ next \in Nat /\ next_mutex \in Searchers \cup {-1}
    /\ searcher = [t \in Searchers |-> searcher[t]]
    /\ \A t \in Searchers : SearcherOK(t)

\* A job that was taken is searched by one thread, or has its result.
JobsOK ==
  palette_pc = "pool" =>
    /\ DOMAIN results = 0..(Jobs - 1)
    /\ \A t, u \in Searchers :
         searcher[t].at = "anneal" /\ searcher[u].at = "anneal" /\ t # u =>
           searcher[t].job # searcher[u].job
    /\ \A job \in 0..(Jobs - 1) :
         job < next => \/ \E t \in Searchers : searcher[t].at = "anneal" /\ searcher[t].job = job
                       \/ results[job] = Alone(job)

PaletteIInv == PaletteInputOK /\ BandOK /\ StageOK /\ SearchersOK /\ JobsOK

-----------------------------------------------------------------------------
(* The values of a search *)

\* A set of natural numbers has a lowest.
LEMMA LowestIs ==
  ASSUME NEW S \in SUBSET Nat, S # {}
  PROVE  Lowest(S) \in S
<1>1. \E x \in S : \A y \in S : x <= y
  BY Least
<1> QED
  BY <1>1 DEF Lowest

\* The distance of two colours that are seen.
LEMMA ObjectiveIs ==
  ASSUME NEW views \in [1..PaletteSize -> [1..Conditions -> Int]]
  PROVE  Objective(views) \in Nat
<1> DEFINE S == {Distance(views[q[1]][n], views[q[2]][n]) :
                   q \in PairsOf(views), n \in 1..Conditions}
<1>1. \A q \in PairsOf(views) : q[1] \in 1..PaletteSize /\ q[2] \in 1..PaletteSize
  BY DEF PairsOf
<1>2. ASSUME NEW q \in PairsOf(views), NEW n \in 1..Conditions
      PROVE  Distance(views[q[1]][n], views[q[2]][n]) \in Nat
  <2>1. views[q[1]][n] \in Int /\ views[q[2]][n] \in Int
    BY <1>1
  <2> QED
    BY <2>1 DEF Distance
<1>3. <<1, 2>> \in PairsOf(views) /\ 1 \in 1..Conditions
  BY PaletteAssumption DEF PairsOf
<1>4. S \in SUBSET Nat
  BY <1>2
<1>5. S # {}
  <2>1. PICK q \in PairsOf(views), n \in 1..Conditions : TRUE
    BY <1>3
  <2>2. Distance(views[q[1]][n], views[q[2]][n]) \in S
    BY <2>1
  <2> HIDE DEF S
  <2> QED
    BY <2>2
<1>6. Objective(views) = Lowest(S)
  BY DEF Objective
<1> HIDE DEF S
<1> QED
  BY <1>4, <1>5, <1>6, LowestIs

\* The views of a palette's colours, and their smallest distance.
LEMMA ViewsAre ==
  ASSUME NEW p \in Palette
  PROVE  /\ TrueViews(p) \in [1..PaletteSize -> [1..Conditions -> Int]]
         /\ TrueViews(p) = [i \in DOMAIN p |-> ViewsOf(p[i])]
         /\ Objective(TrueViews(p)) \in Nat
<1>1. \A c \in Channel : ViewsOf(c) \in [1..Conditions -> Int]
  BY PaletteAssumption DEF ViewsOf
<1>2. DOMAIN p = 1..PaletteSize /\ \A i \in 1..PaletteSize : p[i] \in Channel
  BY DEF Palette
<1>3. TrueViews(p) \in [1..PaletteSize -> [1..Conditions -> Int]]
  BY <1>1, <1>2 DEF TrueViews
<1> QED
  BY <1>2, <1>3, ObjectiveIs DEF TrueViews

\* A search begins with what it was given.
LEMMA SearchBegins ==
  ASSUME NEW st, NEW start \in Palette
  PROVE  Consistent(st, NewSearch(start)) /\ NewSearch(start).it = 0
<1> DEFINE s == NewSearch(start)
<1>1. s = [start |-> start, it |-> 0, p |-> start, views |-> TrueViews(start),
           current |-> Objective(TrueViews(start)),
           best |-> [score |-> Objective(TrueViews(start)), colours |-> start]]
  BY ViewsAre DEF NewSearch
<1>2. /\ TrueViews(start) \in [1..PaletteSize -> [1..Conditions -> Int]]
      /\ Objective(TrueViews(start)) \in Nat
  BY ViewsAre
<1> HIDE DEF s
<1>3. s \in Search
  BY <1>1, <1>2 DEF Search
<1>4. /\ s.views = TrueViews(s.p) /\ s.current = Objective(s.views)
      /\ s.best.score = Objective(TrueViews(s.best.colours)) /\ s.best.score >= s.current
      /\ s.p = s.start /\ s.best.colours = s.start
  BY <1>1, <1>2
<1>5. MovedRight(st, s.p, s.start) /\ MovedRight(st, s.best.colours, s.start)
  BY <1>4 DEF MovedRight
<1> QED
  BY <1>1, <1>3, <1>4, <1>5 DEF Consistent, s

\* A colour that is moved stays a colour.
LEMMA MovedInRange ==
  ASSUME NEW st, st.step \in Nat, NEW s \in Search, NEW draw \in Move,
         iterations \in Nat, s.it < iterations
  PROVE  Moved(st, s, draw) \in Channel
<1>1. StepAt(st, s.it) \in Nat \ {0}
  <2> DEFINE v == (st.step * (iterations - s.it)) \div iterations
  <2>1. s.it \in Nat /\ iterations \in Nat \ {0} /\ iterations - s.it \in Nat
    BY DEF Search
  <2>2. v \in Int
    BY <2>1
  <2>3. StepAt(st, s.it) = IF v < 1 THEN 1 ELSE v
    BY DEF StepAt
  <2> HIDE DEF v
  <2> QED
    BY <2>2, <2>3
<1>2. s.p[draw.slot] \in Int /\ draw.raw \in Nat
  <2>1. s.p \in Palette /\ draw.slot \in 1..PaletteSize /\ draw.raw \in Nat
    BY DEF Search, Move
  <2>2. s.p[draw.slot] \in Channel
    BY <2>1 DEF Palette
  <2>3. \A v \in Channel : v \in Int
    BY DEF Channel
  <2>4. s.p[draw.slot] \in Int
    BY <2>2, <2>3
  <2> QED
    BY <2>1, <2>4
<1> DEFINE e == StepAt(st, s.it)
           v == s.p[draw.slot] + (draw.raw % (2 * e + 1)) - e
<1>3. v \in Int
  <2> HIDE DEF e
  <2>1. e \in Nat
    BY <1>1 DEF e
  <2>2. draw.raw % (2 * e + 1) \in Int
    BY <1>2, <2>1
  <2> QED
    BY <1>2, <2>1, <2>2
<1>4. Moved(st, s, draw) = Clamped(v)
  BY DEF Moved
<1> HIDE DEF v
<1> QED
  BY <1>3, <1>4 DEF Clamped, Channel

\* An iteration keeps the search consistent, and counts itself.
LEMMA IterateKeeps ==
  ASSUME NEW st, st.step \in Nat, NEW s, Consistent(st, s), NEW draw \in Move,
         iterations \in Nat, s.it < iterations
  PROVE  Consistent(st, Iterate(st, s, draw)) /\ Iterate(st, s, draw).it = s.it + 1
<1> DEFINE c     == Moved(st, s, draw)
           i     == draw.slot
           views == [s.views EXCEPT ![i] = ViewsOf(c)]
           score == Objective(views)
           p     == [s.p EXCEPT ![i] = c]
           r     == Iterate(st, s, draw)
<1>1. /\ s \in Search /\ s.views = TrueViews(s.p) /\ s.current = Objective(s.views)
      /\ s.best.score = Objective(TrueViews(s.best.colours)) /\ s.best.score >= s.current
      /\ MovedRight(st, s.p, s.start) /\ MovedRight(st, s.best.colours, s.start)
  BY DEF Consistent
<1>2. /\ s.start \in Palette /\ s.it \in Nat /\ s.p \in Palette /\ s.current \in Nat
      /\ s.views \in [1..PaletteSize -> [1..Conditions -> Int]]
      /\ s.best \in [score : Nat, colours : Palette]
  BY <1>1 DEF Search
<1>3. c \in Channel /\ i \in 1..PaletteSize
  BY <1>1, MovedInRange DEF Move
<1>4. \/ r = [s EXCEPT !.it = @ + 1]
      \/ Keeps(st, c, s.start[i]) /\ r = Accepted(s, p, views, score)
  BY DEF Iterate, Rejected
<1> HIDE DEF c, i, r
<1>5. CASE r = [s EXCEPT !.it = @ + 1]
  <2>1. /\ r.start = s.start /\ r.it = s.it + 1 /\ r.p = s.p /\ r.views = s.views
        /\ r.current = s.current /\ r.best = s.best
    BY <1>1, <1>5 DEF Search
  <2>2. r \in Search
    BY <1>1, <1>2, <1>5 DEF Search
  <2> QED
    BY <1>1, <2>1, <2>2 DEF Consistent, r
<1>6. CASE Keeps(st, c, s.start[i]) /\ r = Accepted(s, p, views, score)
  <2>1. p \in Palette /\ \A k \in 1..PaletteSize : p[k] = IF k = i THEN c ELSE s.p[k]
    BY <1>2, <1>3 DEF Palette
  <2>2. views = TrueViews(p)
    BY <1>1, <1>2, <1>3 DEF Palette, TrueViews
  <2>3. /\ views \in [1..PaletteSize -> [1..Conditions -> Int]] /\ score \in Nat
        /\ score = Objective(TrueViews(p))
    BY <2>1, <2>2, ViewsAre
  <2>4. MovedRight(st, p, s.start)
    BY <1>1, <1>6, <2>1 DEF MovedRight
  <2> DEFINE higher == IF score > s.best.score THEN [score |-> score, colours |-> p] ELSE s.best
  <2>5. /\ higher \in [score : Nat, colours : Palette]
        /\ higher.score = Objective(TrueViews(higher.colours)) /\ higher.score >= score
        /\ MovedRight(st, higher.colours, s.start)
    <3> HIDE DEF p, views, score
    <3>1. CASE score > s.best.score
      <4>1. higher = [score |-> score, colours |-> p]
        BY <3>1
      <4> HIDE DEF higher
      <4> QED
        BY <2>1, <2>3, <2>4, <4>1
    <3>2. CASE ~(score > s.best.score)
      <4>1. higher = s.best
        BY <3>2
      <4> HIDE DEF higher
      <4> QED
        BY <1>1, <1>2, <2>3, <3>2, <4>1
    <3> QED
      BY <3>1, <3>2
  <2>6. r = [s EXCEPT !.it = @ + 1, !.p = p, !.views = views, !.current = score, !.best = higher]
    BY <1>6 DEF Accepted
  <2> HIDE DEF p, views, score, higher
  <2>7. /\ r.start = s.start /\ r.it = s.it + 1 /\ r.p = p /\ r.views = views
        /\ r.current = score /\ r.best = higher
    BY <1>1, <2>6 DEF Search
  <2>8. r \in Search
    <3>1. /\ p \in Palette /\ score \in Nat /\ higher \in [score : Nat, colours : Palette]
          /\ views \in [1..PaletteSize -> [1..Conditions -> Int]] /\ s.it + 1 \in Nat
      BY <1>2, <2>1, <2>3, <2>5
    <3>2. r = [start |-> s.start, it |-> s.it + 1, p |-> p, views |-> views,
               current |-> score, best |-> higher]
      BY <1>1, <2>6 DEF Search
    <3> QED
      BY <1>2, <3>1, <3>2 DEF Search
  <2>9. r.current = Objective(r.views) /\ r.views = TrueViews(r.p)
    BY <2>2, <2>7 DEF score
  <2> QED
    BY <2>4, <2>5, <2>7, <2>8, <2>9 DEF Consistent, r
<1> QED
  BY <1>4, <1>5, <1>6

\* The search of a job, iteration by iteration.
LEMMA AfterSteps ==
  ASSUME NEW job, iterations \in Nat
  PROVE  /\ After(job)[0] = NewSearch(StartOf(job))
         /\ \A n \in 1..iterations :
              After(job)[n] = Iterate(St, After(job)[n - 1], DrawsOf(job).moves[n])
<1> DEFINE Step(s, n) == Iterate(St, s, DrawsOf(job).moves[n])
           Is(f, n) == f = [i \in 0..n |-> IF i = 0 THEN NewSearch(StartOf(job))
                                           ELSE Step(f[i - 1], i)]
           T == {n \in Nat : \E f : Is(f, n)}
<1>0. After(job) = CHOOSE f : Is(f, iterations)
  BY DEF After
<1> HIDE DEF Step
<1>1. T = Nat
  <2>1. 0 \in T
    <3> DEFINE f == [i \in 0..0 |-> NewSearch(StartOf(job))]
    <3>1. Is(f, 0)
      OBVIOUS
    <3> QED
      BY <3>1
  <2>2. ASSUME NEW n \in T PROVE n + 1 \in T
    <3>1. PICK f : Is(f, n)
      OBVIOUS
    <3> DEFINE g == [i \in 0..(n + 1) |-> IF i = n + 1 THEN Step(f[n], i) ELSE f[i]]
    <3>2. ASSUME NEW i \in 0..(n + 1)
          PROVE  g[i] = IF i = 0 THEN NewSearch(StartOf(job)) ELSE Step(g[i - 1], i)
      <4>1. CASE i = n + 1
        BY <4>1
      <4>2. CASE i \in 0..n
        <5>1. g[i] = f[i] /\ (i # 0 => g[i - 1] = f[i - 1])
          BY <4>2
        <5>2. f[i] = IF i = 0 THEN NewSearch(StartOf(job)) ELSE Step(f[i - 1], i)
          BY <3>1, <4>2
        <5> QED
          BY <5>1, <5>2
      <4> QED
        BY <4>1, <4>2
    <3>3. Is(g, n + 1)
      BY <3>2
    <3>4. \E e : Is(e, n + 1)
      BY <3>3
    <3> HIDE DEF Is
    <3> QED
      BY <3>4
  <2> QED
    BY <2>1, <2>2, Induct
<1>2. \E f : Is(f, iterations)
  BY <1>1
<1>3. Is(After(job), iterations)
  BY <1>0, <1>2
<1> QED
  BY <1>3 DEF Step

\* The searches of a stage depend on its input alone.
LEMMA SameSearches ==
  ASSUME UNCHANGED <<palette_job, banded, stage>>
  PROVE  /\ St' = St /\ Searchers' = Searchers
         /\ \A job : After(job)' = After(job)
         /\ \A job : Alone(job)' = Alone(job)
<1>1. pool' = pool /\ iterations' = iterations /\ draws' = draws /\ banded' = banded /\ stage' = stage
  BY DEF palette_job
<1>2. \A job : After(job)' = After(job)
  BY <1>1 DEF After, St, StartOf, DrawsOf, Iterate, Moved, StepAt
<1> QED
  BY <1>1, <1>2 DEF Alone, St, Searchers

-----------------------------------------------------------------------------
(* The steps of the main thread of `palette` *)

\* What a stage is run with.
LEMMA StageFacts ==
  ASSUME PaletteInputOK, BandOK, StageOK, palette_pc = "pool"
  PROVE  /\ iterations \in Nat /\ pool \in Nat \ {0} /\ Searchers = 0..(pool - 1)
         /\ St.step \in Nat
         /\ \A job \in 0..(Jobs - 1) :
              /\ StartOf(job) \in Palette
              /\ \A n \in 1..iterations : DrawsOf(job).moves[n] \in Move
<1>1. PICK quick \in BOOLEAN : iterations = Iterations(quick)
  BY DEF PaletteInputOK
<1>2. /\ iterations \in Nat /\ pool \in Nat \ {0} /\ Searchers = 0..(pool - 1) /\ draws \in Draws
  BY <1>1, PaletteAssumption DEF PaletteInputOK, Searchers
<1>3. stage \in DOMAIN Stages
  BY DEF StageOK
<1>4. /\ St \in [start : {"picked", "random"}, frame : BOOLEAN, step : Nat,
                 radius : Nat, hue : BOOLEAN, count : Nat]
      /\ St = Stages[stage]
  <2> DEFINE T == [start : {"picked", "random"}, frame : BOOLEAN, step : Nat,
                   radius : Nat, hue : BOOLEAN, count : Nat]
  <2>1. Stages \in Seq(T)
    BY PaletteAssumption
  <2> HIDE DEF T
  <2>2. Stages[stage] \in T
    BY <1>3, <2>1
  <2> QED
    BY <2>2 DEF St, T
<1>5. banded \in Palette
  <2>1. PaletteSize \in Nat /\ banded \in Seq(Channel) /\ Len(banded) = PaletteSize
    BY PaletteAssumption DEF BandOK
  <2> QED
    BY <2>1 DEF Palette
<1>6. ASSUME NEW job \in 0..(Jobs - 1)
      PROVE  /\ StartOf(job) \in Palette
             /\ \A n \in 1..iterations : DrawsOf(job).moves[n] \in Move
  <2>1. DrawsOf(job) = draws[stage][job]
    BY DEF DrawsOf
  <2>2. \A n \in 1..iterations : DrawsOf(job).moves[n] \in Move
    BY <1>1, <1>2, <1>3, <2>1, DrawsAssumption
  <2>3. CASE St.start = "picked"
    BY <1>5, <2>2, <2>3 DEF StartOf
  <2>4. CASE St.start = "random"
    <3>1. RandomAllowed(St, DrawsOf(job).numbers) \in Palette
      BY <1>2, <1>3, <1>4, <2>1, <2>4, DrawsAssumption
    <3> QED
      BY <2>2, <2>4, <3>1 DEF StartOf
  <2> QED
    BY <1>4, <2>3, <2>4
<1> QED
  BY <1>2, <1>4, <1>6

\* What is asked for is of the kind the assumptions speak of.
LEMMA StartPaletteStep ==
  ASSUME PaletteIInv, NEW n \in Nat \ {0}, NEW quick \in BOOLEAN, StartPalette(n, quick)
  PROVE  PaletteIInv'
<1>1. /\ palette_pc = "idle" /\ palette_pc' = "band"
      /\ pool' = n /\ iterations' = Iterations(quick) /\ draws' \in Draws /\ picked' \in Picks
      /\ banded' = banded /\ band' = band /\ stage' = stage /\ next_mutex' = next_mutex
  BY DEF StartPalette, band_vars
<1>2. PaletteInputOK'
  BY <1>1 DEF PaletteInputOK
<1>3. BandOK' /\ StageOK'
  BY <1>1 DEF PaletteIInv, BandOK, StageOK
<1> QED
  BY <1>1, <1>2, <1>3 DEF PaletteIInv, SearchersOK, JobsOK

\* A palette of the band is one of the palettes that were picked.
LEMMA PickedFacts ==
  ASSUME PaletteIInv, palette_pc = "band"
  PROVE  /\ Len(picked) = PaletteSize /\ PaletteSize \in Nat /\ Len(banded) \in Nat
         /\ Len(banded) < Len(picked) => Colour \in Channel
<1>1. picked \in Palette /\ PaletteSize \in Nat
  BY PaletteAssumption DEF PaletteIInv, PaletteInputOK
<1>2. picked \in Seq(Channel) /\ Len(picked) = PaletteSize
  BY <1>1, IsSequence DEF Palette
<1>3. Len(banded) \in Nat
  BY DEF PaletteIInv, BandOK
<1> QED
  BY <1>1, <1>2, <1>3 DEF Colour

\* A colour that is scaled stays a colour.
LEMMA ScaledInRange ==
  ASSUME NEW c \in Channel, NEW t \in Nat
  PROVE  Scaled(c, t) \in Channel
<1> DEFINE D == 2 ^ BandSteps
           v == IF ~Contrasts(c, 1000) THEN (c * t) \div D ELSE 1000 - ((1000 - c) * t) \div D
<1>1. D \in Nat \ {0}
  BY PaletteAssumption
<1>2. v \in Int
  <2> HIDE DEF D
  <2>1. c \in Int /\ c * t \in Int /\ (1000 - c) * t \in Int
    BY DEF Channel
  <2>2. (c * t) \div D \in Int /\ ((1000 - c) * t) \div D \in Int
    BY <1>1, <2>1
  <2> QED
    BY <2>2
<1>3. Scaled(c, t) = Clamped(v)
  BY DEF Scaled
<1> HIDE DEF v
<1> QED
  BY <1>2, <1>3 DEF Clamped, Channel

\* A step of the bisection finds a colour or none.
LEMMA BisectStep ==
  ASSUME PaletteIInv, Bisect
  PROVE  PaletteIInv'
<1> DEFINE t == (band.lo + band.hi) \div 2
           q == Scaled(Colour, t)
<1>1. /\ palette_pc = "band" /\ palette_pc' = "band" /\ Len(banded) < Len(picked)
      /\ \/ band' = [band EXCEPT !.n = @ + 1, !.lo = t, !.best = <<q>>]
         \/ band' = [band EXCEPT !.n = @ + 1, !.hi = t]
      /\ banded' = banded /\ UNCHANGED palette_job /\ stage' = stage /\ next_mutex' = next_mutex
  BY DEF Bisect
<1>2. band \in Bands /\ band.lo \in Nat /\ band.hi \in Nat /\ band.n \in Nat
  BY DEF PaletteIInv, BandOK, Bands
<1>3. t \in Nat
  BY <1>2
<1> HIDE DEF t
<1>4. q \in Channel
  BY <1>1, <1>3, PickedFacts, ScaledInRange
<1> HIDE DEF q
<1>5. band' \in Bands
  <2>1. <<q>> \in {<<c>> : c \in Channel} /\ band.n + 1 \in Nat
    BY <1>2, <1>4
  <2>2. CASE band' = [band EXCEPT !.n = @ + 1, !.lo = t, !.best = <<q>>]
    BY <1>2, <1>3, <2>1, <2>2 DEF Bands
  <2>3. CASE band' = [band EXCEPT !.n = @ + 1, !.hi = t]
    BY <1>2, <1>3, <2>1, <2>3 DEF Bands
  <2> QED
    BY <1>1, <2>2, <2>3
<1>6. PaletteInputOK' /\ StageOK'
  BY <1>1 DEF PaletteIInv, PaletteInputOK, StageOK, palette_job
<1>7. BandOK'
  BY <1>1, <1>5 DEF PaletteIInv, BandOK
<1> QED
  BY <1>1, <1>6, <1>7 DEF PaletteIInv, SearchersOK, JobsOK

\* The palette in the band grows by a colour.
LEMMA BandedStep ==
  ASSUME PaletteIInv, Banded
  PROVE  PaletteIInv'
<1> DEFINE c == IF band.best = <<>> THEN Colour ELSE band.best[1]
<1>1. /\ palette_pc = "band" /\ palette_pc' = "band" /\ Len(banded) < Len(picked)
      /\ banded' = Append(banded, c) /\ band' = NoBand
      /\ UNCHANGED palette_job /\ stage' = stage /\ next_mutex' = next_mutex
  BY DEF Banded
<1>2. c \in Channel
  <2>1. Colour \in Channel
    BY <1>1, PickedFacts
  <2>2. band.best = <<>> \/ \E q \in Channel : band.best = <<q>>
    BY DEF PaletteIInv, BandOK, Bands
  <2> QED
    BY <2>1, <2>2
<1> HIDE DEF c
<1>3. banded' \in Seq(Channel) /\ Len(banded') <= PaletteSize
  <2>1. banded \in Seq(Channel) /\ Len(banded) < PaletteSize /\ PaletteSize \in Nat
    BY <1>1, PickedFacts DEF PaletteIInv, BandOK
  <2> QED
    BY <1>1, <1>2, <2>1
<1>4. NoBand \in Bands
  BY PaletteAssumption DEF NoBand, Bands
<1>5. PaletteInputOK' /\ StageOK'
  BY <1>1 DEF PaletteIInv, PaletteInputOK, StageOK, palette_job
<1>6. BandOK'
  BY <1>1, <1>3, <1>4 DEF BandOK
<1> QED
  BY <1>1, <1>5, <1>6 DEF PaletteIInv, SearchersOK, JobsOK

\* The palette in the band is whole.
LEMMA ReportBandStep ==
  ASSUME PaletteIInv, ReportBand
  PROVE  PaletteIInv'
<1>1. /\ palette_pc = "band" /\ palette_pc' = "stage" /\ Len(banded) = Len(picked)
      /\ UNCHANGED palette_job /\ stage' = stage /\ next_mutex' = next_mutex
      /\ banded' = banded /\ band' = band
  BY DEF ReportBand, band_vars
<1>2. PaletteInputOK' /\ StageOK'
  BY <1>1 DEF PaletteIInv, PaletteInputOK, StageOK, palette_job
<1>3. BandOK'
  BY <1>1, PickedFacts DEF PaletteIInv, BandOK
<1> QED
  BY <1>1, <1>2, <1>3 DEF PaletteIInv, SearchersOK, JobsOK

\* The command ends.
LEMMA WriteTablesStep ==
  ASSUME PaletteIInv, WriteTables
  PROVE  PaletteIInv'
<1>1. /\ palette_pc = "stage" /\ palette_pc' = "done"
      /\ UNCHANGED palette_job /\ stage' = stage /\ next_mutex' = next_mutex
      /\ banded' = banded /\ band' = band
  BY DEF WriteTables, band_vars
<1> QED
  BY <1>1 DEF PaletteIInv, PaletteInputOK, StageOK, palette_job, BandOK, SearchersOK, JobsOK

\* The threads are made, and no job is taken.
LEMMA StartJobsStep ==
  ASSUME PaletteIInv, StartJobs
  PROVE  PaletteIInv'
<1>1. /\ palette_pc = "stage" /\ palette_pc' = "pool" /\ stage <= Len(Stages)
      /\ next' = 0 /\ results' = [job \in 0..(Jobs - 1) |-> NoResult]
      /\ searcher' = [t \in Searchers |-> [at |-> "lock", job |-> 0, search |-> NoSearch]]
      /\ UNCHANGED palette_job /\ stage' = stage /\ next_mutex' = next_mutex
      /\ banded' = banded /\ band' = band /\ pool' = pool
  BY DEF StartJobs, band_vars, palette_job
<1>2. PaletteInputOK' /\ BandOK'
  BY <1>1 DEF PaletteIInv, PaletteInputOK, BandOK, palette_job
<1>3. stage \in DOMAIN Stages
  BY <1>1, PaletteAssumption DEF PaletteIInv, StageOK
<1>4. StageOK' /\ next_mutex' = -1
  BY <1>1, <1>3 DEF PaletteIInv, StageOK
<1>5. Searchers' = Searchers /\ Searchers = 0..(pool - 1) /\ pool \in Nat
  BY <1>1 DEF PaletteIInv, PaletteInputOK, Searchers
<1>6. \A t \in Searchers' : SearcherOK(t)'
  <2> SUFFICES ASSUME NEW t \in Searchers PROVE SearcherOK(t)'
    BY <1>5
  <2>1. searcher'[t] = [at |-> "lock", job |-> 0, search |-> NoSearch] /\ next_mutex' # t
    BY <1>1, <1>4, <1>5
  <2> QED
    BY <2>1 DEF SearcherOK
<1>7. SearchersOK'
  BY <1>1, <1>4, <1>5, <1>6 DEF SearchersOK
<1>8. JobsOK'
  BY <1>1, <1>5 DEF JobsOK
<1> QED
  BY <1>2, <1>4, <1>7, <1>8 DEF PaletteIInv

\* When the threads have been joined, nobody holds the mutex.
LEMMA JoinJobsStep ==
  ASSUME PaletteIInv, JoinJobs
  PROVE  PaletteIInv'
<1>1. /\ palette_pc = "pool" /\ palette_pc' = "stage" /\ stage' = stage + 1
      /\ \A t \in Searchers : searcher[t].at = "end"
      /\ UNCHANGED palette_job /\ next_mutex' = next_mutex
      /\ banded' = banded /\ band' = band
  BY DEF JoinJobs, band_vars, AllEnded
<1>2. next_mutex = -1
  BY <1>1 DEF PaletteIInv, SearchersOK, SearcherOK
<1>3. PaletteInputOK' /\ BandOK'
  BY <1>1 DEF PaletteIInv, PaletteInputOK, BandOK, palette_job
<1>4. StageOK'
  BY <1>1, <1>2 DEF PaletteIInv, StageOK
<1> QED
  BY <1>1, <1>3, <1>4 DEF PaletteIInv, SearchersOK, JobsOK

-----------------------------------------------------------------------------
(* The steps of a thread of `palette` *)

\* What a step of thread t of the pool changes.
LEMMA PoolStep ==
  ASSUME PaletteIInv, NEW t \in Searchers, Searcher(t)
  PROVE  /\ palette_pc = "pool" /\ palette_pc' = "pool"
         /\ PaletteInputOK' /\ BandOK' /\ StageOK'
         /\ St' = St /\ Searchers' = Searchers
         /\ \A job : After(job)' = After(job) /\ Alone(job)' = Alone(job)
         /\ iterations' = iterations
<1>1. /\ palette_pc = "pool" /\ palette_pc' = "pool"
      /\ UNCHANGED palette_job /\ stage' = stage /\ banded' = banded /\ band' = band
  BY DEF Searcher, LockCounter, TakeJob, Anneal, band_vars
<1>2. PaletteInputOK' /\ BandOK' /\ StageOK'
  BY <1>1 DEF PaletteIInv, PaletteInputOK, BandOK, StageOK, palette_job
<1> QED
  BY <1>1, <1>2, SameSearches DEF palette_job

\* A thread that is as it was still is as it has to be, unless somebody counted.
LEMMA OthersStay ==
  ASSUME PaletteIInv, NEW t \in Searchers, Searcher(t), NEW u \in Searchers,
         searcher'[u] = searcher[u], next \in Nat, next' \in Nat, next <= next',
         (next_mutex = u) <=> (next_mutex' = u),
         next_mutex = u => next' = next
  PROVE  SearcherOK(u)'
<1>1. SearcherOK(u) /\ palette_pc = "pool"
  BY PoolStep DEF PaletteIInv, SearchersOK
<1>2. St' = St /\ iterations' = iterations /\ \A job : After(job)' = After(job)
  BY PoolStep
<1> DEFINE me == searcher[u]
<1>3. /\ me \in [at : {"lock", "take", "anneal", "end"}, job : Nat,
                 search : Search \cup {NoSearch}]
      /\ (me.at = "take") <=> (next_mutex = u)
      /\ me.at = "take" => me.job = next
      /\ me.at = "end" => next >= Jobs
      /\ me.at = "anneal" => /\ me.job \in 0..(Jobs - 1) /\ me.job < next
                             /\ me.search.it \in 0..iterations
                             /\ me.search = After(me.job)[me.search.it]
                             /\ Consistent(St, me.search)
  BY <1>1 DEF SearcherOK
<1> HIDE DEF me
<1>4. me.job \in Nat /\ Jobs \in Nat
  BY <1>3, PaletteAssumption
<1>5. /\ (me.at = "take") <=> (next_mutex' = u)
      /\ me.at = "take" => me.job = next'
      /\ me.at = "end" => next' >= Jobs
      /\ me.at = "anneal" => me.job < next'
  BY <1>3, <1>4
<1>6. searcher'[u] = me
  BY DEF me
<1> QED
  BY <1>2, <1>3, <1>5, <1>6 DEF SearcherOK

\* The jobs that are searched, and those that have results, are as they were.
LEMMA JobsStay ==
  ASSUME JobsOK, palette_pc = "pool", Searchers' = Searchers,
         \A job : Alone(job)' = Alone(job), next' = next, results' = results,
         \A u \in Searchers : /\ (searcher'[u].at = "anneal") <=> (searcher[u].at = "anneal")
                              /\ searcher[u].at = "anneal" => searcher'[u].job = searcher[u].job
  PROVE  JobsOK'
<1>1. /\ DOMAIN results = 0..(Jobs - 1)
      /\ \A v, u \in Searchers :
           searcher[v].at = "anneal" /\ searcher[u].at = "anneal" /\ v # u =>
             searcher[v].job # searcher[u].job
      /\ \A job \in 0..(Jobs - 1) :
           job < next => \/ \E v \in Searchers : searcher[v].at = "anneal" /\ searcher[v].job = job
                         \/ results[job] = Alone(job)
  BY DEF JobsOK
<1>2. \A v, u \in Searchers :
        searcher'[v].at = "anneal" /\ searcher'[u].at = "anneal" /\ v # u =>
          searcher'[v].job # searcher'[u].job
  BY <1>1
<1>3. \A job \in 0..(Jobs - 1) :
        job < next => \/ \E v \in Searchers : searcher'[v].at = "anneal" /\ searcher'[v].job = job
                      \/ results[job] = Alone(job)
  BY <1>1
<1> QED
  BY <1>1, <1>2, <1>3 DEF JobsOK

\* Who locks the counter has read it.
LEMMA LockCounterStep ==
  ASSUME PaletteIInv, NEW t \in Searchers, Searcher(t), LockCounter(t)
  PROVE  PaletteIInv'
<1>1. /\ searcher[t].at = "lock" /\ next_mutex = -1 /\ next_mutex' = t
      /\ searcher' = [searcher EXCEPT ![t].at = "take", ![t].job = next]
      /\ next' = next /\ results' = results
  BY DEF LockCounter
<1>2. /\ palette_pc = "pool" /\ palette_pc' = "pool"
      /\ Searchers' = Searchers /\ Searchers = 0..(pool - 1) /\ pool \in Nat
      /\ \A job : Alone(job)' = Alone(job)
  BY PoolStep DEF PaletteIInv, PaletteInputOK, Searchers
<1>3. /\ searcher = [u \in Searchers |-> searcher[u]] /\ next \in Nat
      /\ SearcherOK(t)
  BY <1>2 DEF PaletteIInv, SearchersOK
<1>4. /\ searcher[t] \in [at : {"lock", "take", "anneal", "end"}, job : Nat,
                          search : Search \cup {NoSearch}]
  BY <1>3 DEF SearcherOK
<1>5. /\ searcher'[t] = [searcher[t] EXCEPT !.at = "take", !.job = next]
      /\ \A u \in Searchers : u # t => searcher'[u] = searcher[u]
      /\ searcher' = [u \in Searchers |-> searcher'[u]]
  BY <1>1, <1>3
<1>6. /\ searcher'[t].at = "take" /\ searcher'[t].job = next
      /\ searcher'[t] \in [at : {"lock", "take", "anneal", "end"}, job : Nat,
                           search : Search \cup {NoSearch}]
  BY <1>3, <1>4, <1>5
<1>7. SearcherOK(t)'
  BY <1>1, <1>6 DEF SearcherOK
<1>8. ASSUME NEW u \in Searchers, u # t PROVE SearcherOK(u)'
  <2>1. (next_mutex = u) <=> (next_mutex' = u)
    BY <1>1, <1>2, <1>8
  <2>2. searcher'[u] = searcher[u] /\ next <= next' /\ next' \in Nat
    BY <1>1, <1>3, <1>5, <1>8
  <2> QED
    BY <1>1, <1>3, <2>1, <2>2, OthersStay
<1>9. SearchersOK'
  BY <1>1, <1>2, <1>3, <1>5, <1>7, <1>8 DEF SearchersOK
<1>10. JobsOK'
  <2>1. \A u \in Searchers : /\ (searcher'[u].at = "anneal") <=> (searcher[u].at = "anneal")
                             /\ searcher[u].at = "anneal" => searcher'[u].job = searcher[u].job
    BY <1>1, <1>5, <1>6
  <2> QED
    BY <1>1, <1>2, <2>1, JobsStay DEF PaletteIInv
<1> QED
  BY <1>9, <1>10, PoolStep DEF PaletteIInv

\* The job that is taken was nobody's, and its search begins as it would alone.
LEMMA TakeJobStep ==
  ASSUME PaletteIInv, NEW t \in Searchers, Searcher(t), TakeJob(t)
  PROVE  PaletteIInv'
<1> DEFINE job == searcher[t].job
           Types == [at : {"lock", "take", "anneal", "end"}, job : Nat,
                     search : Search \cup {NoSearch}]
<1>1. /\ searcher[t].at = "take" /\ next_mutex' = -1 /\ results' = results
      /\ \/ /\ job >= Jobs
            /\ searcher' = [searcher EXCEPT ![t].at = "end"] /\ next' = next
         \/ /\ ~(job >= Jobs) /\ next' = job + 1
            /\ searcher' = [searcher EXCEPT ![t].at = "anneal",
                                            ![t].search = NewSearch(StartOf(job))]
  BY DEF TakeJob
<1>2. /\ palette_pc = "pool" /\ palette_pc' = "pool"
      /\ Searchers' = Searchers /\ Searchers = 0..(pool - 1) /\ pool \in Nat \ {0}
      /\ \A n : Alone(n)' = Alone(n)
      /\ \A n : After(n)' = After(n)
      /\ St' = St /\ iterations' = iterations
  BY PoolStep DEF PaletteIInv, PaletteInputOK, Searchers
<1>3. /\ searcher = [u \in Searchers |-> searcher[u]] /\ next \in Nat
      /\ SearcherOK(t) /\ \A u \in Searchers : SearcherOK(u)
  BY <1>2 DEF PaletteIInv, SearchersOK
<1>4. searcher[t] \in Types /\ job = next /\ next_mutex = t /\ Jobs \in Nat
  BY <1>1, <1>3, PaletteAssumption DEF SearcherOK
<1>5. /\ \A u \in Searchers : u # t => searcher'[u] = searcher[u]
      /\ searcher' = [u \in Searchers |-> searcher'[u]]
  BY <1>1, <1>3
<1>6. next' \in Nat /\ next <= next' /\ (job >= Jobs => next' = next)
  BY <1>1, <1>3, <1>4
<1>7. ASSUME job >= Jobs
      PROVE  searcher'[t].at = "end" /\ searcher'[t] \in Types
  <2>1. searcher'[t] = [searcher[t] EXCEPT !.at = "end"]
    BY <1>1, <1>3, <1>7
  <2> QED
    BY <1>4, <2>1
<1>8. ASSUME ~(job >= Jobs)
      PROVE  /\ searcher'[t].at = "anneal" /\ searcher'[t] \in Types /\ searcher'[t].job = job
             /\ searcher'[t].search = NewSearch(StartOf(job))
             /\ Consistent(St, NewSearch(StartOf(job))) /\ NewSearch(StartOf(job)).it = 0
             /\ job \in 0..(Jobs - 1) /\ job < next' /\ next' = job + 1
             /\ NewSearch(StartOf(job)) = After(job)[0] /\ 0 \in 0..iterations
  <2>1. searcher'[t] = [searcher[t] EXCEPT !.at = "anneal", !.search = NewSearch(StartOf(job))]
    BY <1>1, <1>3, <1>8
  <2>2. job \in 0..(Jobs - 1) /\ next' = job + 1 /\ job < next'
    BY <1>1, <1>3, <1>4, <1>8
  <2>3. StartOf(job) \in Palette /\ iterations \in Nat
    BY <1>2, <2>2, StageFacts DEF PaletteIInv
  <2>4. Consistent(St, NewSearch(StartOf(job))) /\ NewSearch(StartOf(job)).it = 0
    BY <2>3, SearchBegins
  <2>5. NewSearch(StartOf(job)) \in Search
    BY <2>4 DEF Consistent
  <2>6. NewSearch(StartOf(job)) = After(job)[0]
    BY <2>3, AfterSteps
  <2>7. searcher'[t] \in Types
    BY <1>4, <2>1, <2>5
  <2>8. /\ searcher'[t].at = "anneal" /\ searcher'[t].job = job
        /\ searcher'[t].search = NewSearch(StartOf(job))
    BY <1>4, <2>1
  <2> QED
    BY <2>2, <2>3, <2>4, <2>6, <2>7, <2>8
<1> HIDE DEF job, Types
<1>9. SearcherOK(t)'
  <2>1. next_mutex' # t
    BY <1>1, <1>2
  <2>2. CASE job >= Jobs
    BY <1>4, <1>6, <1>7, <2>1, <2>2 DEF SearcherOK, Types
  <2>3. CASE ~(job >= Jobs)
    BY <1>2, <1>8, <2>1, <2>3 DEF SearcherOK, Types
  <2> QED
    BY <2>2, <2>3
<1>10. ASSUME NEW u \in Searchers, u # t PROVE SearcherOK(u)'
  <2>1. next_mutex # u /\ next_mutex' # u
    BY <1>1, <1>2, <1>4, <1>10
  <2>2. searcher'[u] = searcher[u]
    BY <1>5, <1>10
  <2> QED
    BY <1>3, <1>6, <2>1, <2>2, OthersStay
<1>11. SearchersOK'
  BY <1>1, <1>2, <1>5, <1>6, <1>9, <1>10 DEF SearchersOK
<1>12. JobsOK'
  <2>1. /\ DOMAIN results = 0..(Jobs - 1)
        /\ \A v, u \in Searchers :
             searcher[v].at = "anneal" /\ searcher[u].at = "anneal" /\ v # u =>
               searcher[v].job # searcher[u].job
        /\ \A n \in 0..(Jobs - 1) :
             n < next => \/ \E v \in Searchers : searcher[v].at = "anneal" /\ searcher[v].job = n
                         \/ results[n] = Alone(n)
    BY <1>2 DEF PaletteIInv, JobsOK
  <2>2. \A u \in Searchers : searcher[u].at = "anneal" =>
          /\ u # t /\ searcher[u].job < next
          /\ searcher'[u].at = "anneal" /\ searcher'[u].job = searcher[u].job
    BY <1>1, <1>3, <1>5 DEF SearcherOK
  <2>3. CASE job >= Jobs
    <3>1. \A u \in Searchers : /\ (searcher'[u].at = "anneal") <=> (searcher[u].at = "anneal")
                               /\ searcher[u].at = "anneal" => searcher'[u].job = searcher[u].job
      BY <1>1, <1>5, <1>7, <2>3
    <3> QED
      BY <1>1, <1>2, <1>6, <2>3, <3>1, JobsStay DEF PaletteIInv
  <2>4. CASE ~(job >= Jobs)
    <3>1. ASSUME NEW v \in Searchers, NEW u \in Searchers, v # u,
                 searcher'[v].at = "anneal", searcher'[u].at = "anneal"
          PROVE  searcher'[v].job # searcher'[u].job
      <4>1. \A w \in Searchers : w # t /\ searcher'[w].at = "anneal" =>
              /\ searcher[w].at = "anneal" /\ searcher'[w].job = searcher[w].job
              /\ searcher[w].job \in Nat /\ searcher[w].job < next
        BY <1>3, <1>5 DEF SearcherOK
      <4>2. searcher'[t].job = next
        BY <1>4, <1>8, <2>4
      <4>3. CASE v = t
        BY <1>3, <3>1, <4>1, <4>2, <4>3
      <4>4. CASE u = t
        BY <1>3, <3>1, <4>1, <4>2, <4>4
      <4>5. CASE v # t /\ u # t
        BY <2>1, <3>1, <4>1, <4>5
      <4> QED
        BY <4>3, <4>4, <4>5
    <3>2. ASSUME NEW n \in 0..(Jobs - 1), n < next'
          PROVE  \/ \E v \in Searchers : searcher'[v].at = "anneal" /\ searcher'[v].job = n
                 \/ results[n] = Alone(n)
      <4>1. CASE n = job
        BY <1>8, <2>4, <4>1
      <4>2. CASE n # job
        <5>1. n < next
          BY <1>3, <1>4, <1>8, <2>4, <3>2, <4>2
        <5> QED
          BY <2>1, <2>2, <5>1
      <4> QED
        BY <4>1, <4>2
    <3> QED
      BY <1>1, <1>2, <2>1, <3>1, <3>2 DEF JobsOK
  <2> QED
    BY <2>3, <2>4
<1> QED
  BY <1>11, <1>12, PoolStep DEF PaletteIInv

\* An iteration goes on as it would alone; a search that has made them all has
\* found what it finds alone.
LEMMA AnnealStep ==
  ASSUME PaletteIInv, NEW t \in Searchers, Searcher(t), Anneal(t)
  PROVE  PaletteIInv'
<1> DEFINE me == searcher[t]
           s == me.search
           draw == DrawsOf(me.job).moves[s.it + 1]
           Types == [at : {"lock", "take", "anneal", "end"}, job : Nat,
                     search : Search \cup {NoSearch}]
<1>1. /\ me.at = "anneal" /\ next' = next /\ next_mutex' = next_mutex
      /\ \/ /\ s.it < iterations /\ results' = results
            /\ searcher' = [searcher EXCEPT ![t].search = Iterate(St, s, draw)]
         \/ /\ ~(s.it < iterations)
            /\ results' = [results EXCEPT ![me.job] = Found(s)]
            /\ searcher' = [searcher EXCEPT ![t].at = "lock", ![t].search = NoSearch]
  BY DEF Anneal
<1>2. /\ palette_pc = "pool" /\ palette_pc' = "pool"
      /\ Searchers' = Searchers /\ Searchers = 0..(pool - 1) /\ pool \in Nat \ {0}
      /\ \A n : Alone(n)' = Alone(n)
      /\ \A n : After(n)' = After(n)
      /\ St' = St /\ iterations' = iterations
  BY PoolStep DEF PaletteIInv, PaletteInputOK, Searchers
<1>3. /\ searcher = [u \in Searchers |-> searcher[u]] /\ next \in Nat
      /\ SearcherOK(t) /\ \A u \in Searchers : SearcherOK(u)
  BY <1>2 DEF PaletteIInv, SearchersOK
<1>4. /\ me \in Types /\ me.job \in 0..(Jobs - 1) /\ me.job < next
      /\ s.it \in 0..iterations /\ s = After(me.job)[s.it] /\ Consistent(St, s)
      /\ next_mutex # t
  BY <1>1, <1>3 DEF SearcherOK
<1>5. iterations \in Nat /\ St.step \in Nat /\ (s.it < iterations => draw \in Move)
  <2>1. /\ iterations \in Nat /\ St.step \in Nat
        /\ \A n \in 1..iterations : DrawsOf(me.job).moves[n] \in Move
    BY <1>2, <1>4, StageFacts DEF PaletteIInv
  <2>2. s.it < iterations => s.it + 1 \in 1..iterations
    BY <1>4, <2>1
  <2> QED
    BY <2>1, <2>2
<1>6. /\ \A u \in Searchers : u # t => searcher'[u] = searcher[u]
      /\ searcher' = [u \in Searchers |-> searcher'[u]]
  BY <1>1, <1>3
<1>7. ASSUME NEW u \in Searchers, u # t PROVE SearcherOK(u)'
  <2>1. searcher'[u] = searcher[u] /\ next <= next'
    BY <1>1, <1>3, <1>6, <1>7
  <2> QED
    BY <1>1, <1>3, <2>1, OthersStay
<1>8. /\ DOMAIN results = 0..(Jobs - 1)
      /\ \A v, u \in Searchers :
           searcher[v].at = "anneal" /\ searcher[u].at = "anneal" /\ v # u =>
             searcher[v].job # searcher[u].job
      /\ \A n \in 0..(Jobs - 1) :
           n < next => \/ \E v \in Searchers : searcher[v].at = "anneal" /\ searcher[v].job = n
                       \/ results[n] = Alone(n)
  BY <1>2 DEF PaletteIInv, JobsOK
<1> DEFINE r == Iterate(St, s, draw)
<1>9. CASE s.it < iterations
  <2>1. searcher'[t] = [me EXCEPT !.search = r] /\ results' = results
    BY <1>1, <1>3, <1>9
  <2>2. Consistent(St, r) /\ r.it = s.it + 1
    BY <1>4, <1>5, <1>9, IterateKeeps
  <2>3. s.it + 1 \in 1..iterations /\ (s.it + 1) - 1 = s.it
    BY <1>4, <1>5, <1>9
  <2>4. r = After(me.job)[s.it + 1]
    BY SMTT(60), <1>4, <1>5, <2>3, AfterSteps
  <2>5. r \in Search
    BY <2>2 DEF Consistent
  <2> HIDE DEF r, me
  <2>6. searcher'[t] \in Types
    BY <1>4, <2>1, <2>5
  <2>7. searcher'[t].at = "anneal" /\ searcher'[t].job = me.job /\ searcher'[t].search = r
    BY <1>1, <1>4, <2>1
  <2>8. SearcherOK(t)'
    <3>1. r.it \in 0..iterations /\ r = After(me.job)[r.it]
      BY <1>5, <2>2, <2>3, <2>4
    <3> QED
      BY <1>1, <1>2, <1>4, <2>2, <2>6, <2>7, <3>1 DEF SearcherOK
  <2>9. SearchersOK'
    BY <1>1, <1>2, <1>3, <1>6, <1>7, <2>8 DEF PaletteIInv, SearchersOK
  <2>10. JobsOK'
    <3>1. \A u \in Searchers : /\ (searcher'[u].at = "anneal") <=> (searcher[u].at = "anneal")
                               /\ searcher[u].at = "anneal" => searcher'[u].job = searcher[u].job
      BY <1>1, <1>6, <2>7 DEF me
    <3> QED
      BY <1>1, <1>2, <2>1, <3>1, JobsStay DEF PaletteIInv
  <2> QED
    BY <2>9, <2>10, PoolStep DEF PaletteIInv
<1>10. CASE ~(s.it < iterations)
  <2>1. /\ searcher'[t] = [me EXCEPT !.at = "lock", !.search = NoSearch]
        /\ results' = [results EXCEPT ![me.job] = Found(s)]
    BY <1>1, <1>3, <1>10
  <2>2. Found(s) = Alone(me.job)
    <3>1. s.it = iterations
      BY <1>4, <1>5, <1>10
    <3> QED
      BY <1>4, <3>1 DEF Alone
  <2>3. searcher'[t] \in Types /\ searcher'[t].at = "lock"
    BY <1>4, <2>1
  <2>4. SearcherOK(t)'
    BY <1>1, <1>4, <2>3 DEF SearcherOK
  <2>5. SearchersOK'
    BY <1>1, <1>2, <1>3, <1>6, <1>7, <2>4 DEF PaletteIInv, SearchersOK
  <2>6. \A v, u \in Searchers :
          searcher'[v].at = "anneal" /\ searcher'[u].at = "anneal" /\ v # u =>
            searcher'[v].job # searcher'[u].job
    BY <1>6, <1>8, <2>3
  <2>7. ASSUME NEW n \in 0..(Jobs - 1), n < next
        PROVE  \/ \E v \in Searchers : searcher'[v].at = "anneal" /\ searcher'[v].job = n
               \/ results'[n] = Alone(n)
    <3>1. CASE n = me.job
      BY <1>8, <2>1, <2>2, <3>1
    <3>2. CASE n # me.job
      <4>1. results'[n] = results[n]
        BY <1>8, <2>1, <3>2
      <4>2. \A v \in Searchers : searcher[v].at = "anneal" /\ searcher[v].job = n =>
              v # t /\ searcher'[v] = searcher[v]
        BY <1>6, <3>2
      <4> QED
        BY <1>8, <2>7, <4>1, <4>2
    <3> QED
      BY <3>1, <3>2
  <2>8. DOMAIN results' = 0..(Jobs - 1)
    BY <1>8, <2>1
  <2>9. JobsOK'
    BY <1>1, <1>2, <2>6, <2>7, <2>8 DEF JobsOK
  <2> QED
    BY <2>5, <2>9, PoolStep DEF PaletteIInv
<1> QED
  BY <1>9, <1>10

\* Every step of the command.
LEMMA PaletteStep ==
  ASSUME PaletteIInv, PaletteNext
  PROVE  PaletteIInv'
<1>1. CASE Bisect
  BY <1>1, BisectStep
<1>2. CASE Banded
  BY <1>2, BandedStep
<1>3. CASE ReportBand
  BY <1>3, ReportBandStep
<1>4. CASE StartJobs
  BY <1>4, StartJobsStep
<1>5. CASE JoinJobs
  BY <1>5, JoinJobsStep
<1>6. CASE WriteTables
  BY <1>6, WriteTablesStep
<1>7. ASSUME NEW t \in Searchers, Searcher(t) PROVE PaletteIInv'
  <2>1. CASE LockCounter(t)
    BY <1>7, <2>1, LockCounterStep
  <2>2. CASE TakeJob(t)
    BY <1>7, <2>2, TakeJobStep
  <2>3. CASE Anneal(t)
    BY <1>7, <2>3, AnnealStep
  <2> QED
    BY <1>7, <2>1, <2>2, <2>3 DEF Searcher
<1> QED
  BY <1>1, <1>2, <1>3, <1>4, <1>5, <1>6, <1>7 DEF PaletteNext

\* What the invariant says depends on the variables of the command alone.
LEMMA PaletteStutters ==
  ASSUME PaletteIInv, UNCHANGED palette_vars
  PROVE  PaletteIInv'
<1>1. /\ palette_pc' = palette_pc /\ UNCHANGED <<palette_job, banded, stage>>
      /\ pool' = pool /\ iterations' = iterations /\ draws' = draws /\ picked' = picked
      /\ banded' = banded /\ band' = band /\ stage' = stage /\ searcher' = searcher
      /\ next' = next /\ next_mutex' = next_mutex /\ results' = results
  BY DEF palette_vars, palette_job, band_vars
<1>2. /\ St' = St /\ Searchers' = Searchers
      /\ \A job : After(job)' = After(job)
      /\ \A job : Alone(job)' = Alone(job)
  BY <1>1, SameSearches
<1>3. PaletteInputOK' /\ BandOK' /\ StageOK'
  BY <1>1 DEF PaletteIInv, PaletteInputOK, BandOK, StageOK
<1>4. SearchersOK'
  BY <1>1, <1>2 DEF PaletteIInv, SearchersOK, SearcherOK
<1>5. JobsOK'
  BY <1>1, <1>2 DEF PaletteIInv, JobsOK
<1> QED
  BY <1>3, <1>4, <1>5 DEF PaletteIInv

\* Before anything was asked for.
LEMMA PaletteBegins ==
  ASSUME PaletteIdle
  PROVE  PaletteIInv
<1>1. /\ palette_pc = "idle" /\ banded = <<>> /\ band = NoBand /\ stage = 1 /\ next_mutex = -1
  BY DEF PaletteIdle
<1>2. NoBand \in Bands
  BY PaletteAssumption DEF NoBand, Bands
<1>3. BandOK
  BY <1>1, <1>2, PaletteAssumption DEF BandOK
<1> QED
  BY <1>1, <1>3 DEF PaletteIInv, PaletteInputOK, StageOK, SearchersOK, JobsOK

\* Whatever the tool does next.
LEMMA LabPaletteStep ==
  ASSUME ToolOK, PaletteIInv, [Next]_vars
  PROVE  PaletteIInv'
<1>1. CASE UNCHANGED palette_vars
  BY <1>1, PaletteStutters
<1>2. CASE PaletteNext
  BY <1>2, PaletteStep
<1>3. CASE Run
  <2>1. PICK n \in ThreadCount :
          \/ StartPalette(n, opt.quick)
          \/ UNCHANGED palette_vars
    BY <1>3 DEF Run, parts
  <2>2. n \in Nat \ {0} /\ opt.quick \in BOOLEAN
    BY ThreadCounts DEF ToolOK, Options
  <2> QED
    BY <1>1, <2>1, <2>2, StartPaletteStep
<1>4. Run \/ PaletteNext \/ UNCHANGED palette_vars
  BY DEF Next, Main, ReadOption, MakeDirs, Skip, Return, Exit, vars, parts
<1> QED
  BY <1>1, <1>2, <1>3, <1>4

\* What the invariant says of the searches that run.
LEMMA ConsistentSearches ==
  ASSUME PaletteIInv
  PROVE  SearchIsConsistent
<1> SUFFICES ASSUME palette_pc = "pool", NEW t \in Searchers, searcher[t].at = "anneal"
             PROVE  LET s == searcher[t].search
                        TrueScore(p) == Objective([i \in DOMAIN p |-> ViewsOf(p[i])])
                    IN  /\ \A i \in DOMAIN s.p : s.views[i] = ViewsOf(s.p[i])
                        /\ s.current = TrueScore(s.p)
                        /\ s.best.score = TrueScore(s.best.colours)
                        /\ s.best.score >= s.current
                        /\ \A p \in {s.p, s.best.colours} : \A i \in DOMAIN p :
                             p[i] # s.start[i] => Keeps(St, p[i], s.start[i])
  BY DEF SearchIsConsistent
<1> DEFINE s == searcher[t].search
<1>1. Consistent(St, s)
  BY DEF PaletteIInv, SearchersOK, SearcherOK
<1> HIDE DEF s
<1>2. s.p \in Palette /\ s.best.colours \in Palette
  BY <1>1 DEF Consistent, Search
<1>3. DOMAIN s.p = 1..PaletteSize /\ DOMAIN s.best.colours = 1..PaletteSize
  BY <1>2 DEF Palette
<1>4. /\ TrueViews(s.p) = [i \in DOMAIN s.p |-> ViewsOf(s.p[i])]
      /\ TrueViews(s.best.colours) = [i \in DOMAIN s.best.colours |-> ViewsOf(s.best.colours[i])]
  BY <1>2, ViewsAre
<1>5. \A i \in DOMAIN s.p : s.views[i] = ViewsOf(s.p[i])
  BY <1>1, <1>4 DEF Consistent
<1>6. /\ s.current = Objective([i \in DOMAIN s.p |-> ViewsOf(s.p[i])])
      /\ s.best.score = Objective([i \in DOMAIN s.best.colours |-> ViewsOf(s.best.colours[i])])
      /\ s.best.score >= s.current
  BY <1>1, <1>4 DEF Consistent
<1>7. \A p \in {s.p, s.best.colours} : \A i \in DOMAIN p :
        p[i] # s.start[i] => Keeps(St, p[i], s.start[i])
  BY <1>1, <1>3 DEF Consistent, MovedRight
<1> QED
  BY <1>5, <1>6, <1>7 DEF s

\* When every thread has ended every job was taken, and nobody searches it.
LEMMA IndependentJobs ==
  ASSUME PaletteIInv
  PROVE  JobsAreIndependent
<1> SUFFICES ASSUME palette_pc = "pool"
             PROVE  /\ \A t, t2 \in Searchers :
                         searcher[t].at = "anneal" /\ searcher[t2].at = "anneal" /\ t # t2 =>
                           searcher[t].job # searcher[t2].job
                    /\ AllEnded => \A job \in 0..(Jobs - 1) : results[job] = Alone(job)
  BY DEF JobsAreIndependent
<1>1. JobsOK /\ Jobs \in Nat
  BY PaletteAssumption DEF PaletteIInv
<1>2. ASSUME AllEnded, NEW job \in 0..(Jobs - 1) PROVE results[job] = Alone(job)
  <2>1. 0 \in Searchers
    BY DEF PaletteIInv, PaletteInputOK, Searchers
  <2>2. next \in Nat /\ next >= Jobs
    BY <1>2, <2>1 DEF PaletteIInv, SearchersOK, SearcherOK, AllEnded
  <2>3. job < next
    BY <1>1, <2>2
  <2>4. \A t \in Searchers : searcher[t].at # "anneal"
    BY <1>2 DEF AllEnded
  <2> QED
    BY <1>1, <2>3, <2>4 DEF JobsOK
<1> QED
  BY <1>1, <1>2 DEF JobsOK

\* Both properties of `palette`, from one inductive invariant.
THEOREM SearchesAndJobs == Spec => [](SearchIsConsistent /\ JobsAreIndependent)
<1>1. Init => ToolOK /\ PaletteIInv
  BY ToolBegins, PaletteBegins DEF Init
<1>2. ToolOK /\ PaletteIInv /\ [Next]_vars => (ToolOK /\ PaletteIInv)'
  BY ToolStep, LabPaletteStep
<1>3. PaletteIInv => SearchIsConsistent /\ JobsAreIndependent
  BY ConsistentSearches, IndependentJobs
<1> QED
  BY <1>1, <1>2, <1>3, PTL DEF Spec

\* The views a search keeps are those of its colours, its best palette is as good
\* as it says, and its colours keep to the constraints (palette_gate.cpp:245-284),
\* for any number of threads, jobs, iterations and colours.
THEOREM SearchesAreConsistent == Spec => []SearchIsConsistent
BY SearchesAndJobs, PTL

\* No job is searched twice or left out, and each finds what it finds alone
\* (palette_gate.cpp:409-431), for any number of threads and jobs.
THEOREM JobsAreAlone == Spec => []JobsAreIndependent
BY SearchesAndJobs, PTL
=============================================================================
