-------------------------- MODULE Chunking_proofs --------------------------
(***************************************************************************)
(* The chunkers lose nothing and keep to their budget, for texts of any    *)
(* length, blocks and headings of any size, and any budget and overlap.    *)
(*                                                                         *)
(* UnitsUpTo is a recursive function: that it exists and grows is proved   *)
(* by induction first, then how windows cut a stretch of units, then the   *)
(* invariant, step by step.                                                *)
(***************************************************************************)
EXTENDS Chunking, FiniteSetTheorems, SequenceTheorems, WellFoundedInduction, TLAPS

\* A set of numbers has a least one.
LEMMA Least ==
    ASSUME NEW S \in SUBSET Nat, S # {}
    PROVE  \E k \in S : \A n \in S : k <= n
<1> DEFINE Smaller == {s \in Nat \X Nat : s[1] < s[2]}
<1>1. IsWellFoundedOn(Smaller, Nat) BY NatLessThanWellFounded DEF OpToRel
<1>2. PICK k \in S : \A n \in S : ~(<<n, k>> \in Smaller)
  <2> HIDE DEF Smaller
  <2> QED BY <1>1, WFMin, Zenon
<1>3. \A n \in S : n \in Nat /\ k \in Nat /\ ~(n < k) BY <1>2
<1> QED BY <1>3

\* Induction, of a set.
LEMMA Induction ==
    ASSUME NEW S, 0 \in S, \A n \in Nat : n \in S => n + 1 \in S
    PROVE  \A n \in Nat : n \in S
<1> DEFINE T == Nat \ S
<1> SUFFICES ASSUME T # {} PROVE FALSE OBVIOUS
<1>1. PICK k \in T : \A n \in T : k <= n BY Least
<1>2. k \in Nat /\ k # 0 BY <1>1
<1>3. k - 1 \in Nat /\ k - 1 \notin T BY <1>1, <1>2
<1>4. (k - 1) + 1 \in S BY <1>3
<1>5. k \in S BY <1>2, <1>4
<1> QED BY <1>1, <1>5

-----------------------------------------------------------------------------
\* The count of units, of one block more; a count up to block n, and of all.
Recurrence(g, i) == IF i = 0 THEN 0 ELSE g[i - 1] + Length(text[i])
CountsUpTo(g, n) == g = [i \in 0..n |-> Recurrence(g, i)]
CountsUnits(f) == f = [i \in Nat |-> IF i = 0 THEN 0 ELSE f[i - 1] + Length(text[i])]

\* However far, the units can be counted.
LEMMA CountsExist == \A n \in Nat : \E g : CountsUpTo(g, n)
<1> DEFINE S == {n \in Nat : \E g : CountsUpTo(g, n)}
<1>1. 0 \in S
  <2> DEFINE g == [i \in 0..0 |-> 0]
  <2>1. \A i \in 0..0 : g[i] = Recurrence(g, i) BY DEF Recurrence
  <2>2. CountsUpTo(g, 0) BY <2>1 DEF CountsUpTo
  <2> QED BY <2>2
<1>2. ASSUME NEW n \in Nat, n \in S PROVE n + 1 \in S
  <2>1. PICK g : CountsUpTo(g, n) BY <1>2
  <2> DEFINE h == [i \in 0..n + 1 |-> IF i <= n THEN g[i] ELSE g[n] + Length(text[n + 1])]
  <2>2. ASSUME NEW i \in 0..n + 1 PROVE h[i] = Recurrence(h, i)
    <3>1. CASE i <= n
      <4>1. i \in 0..n /\ h[i] = g[i] BY <3>1
      <4>2. g[i] = Recurrence(g, i) BY <2>1, <4>1 DEF CountsUpTo
      <4>3. i # 0 => i - 1 \in 0..n + 1 /\ i - 1 <= n /\ h[i - 1] = g[i - 1] BY <4>1
      <4> QED BY <4>1, <4>2, <4>3 DEF Recurrence
    <3>2. CASE i = n + 1
      <4>1. h[i] = g[n] + Length(text[n + 1]) /\ i - 1 = n /\ h[n] = g[n] BY <3>2
      <4> HIDE DEF h
      <4> QED BY <3>2, <4>1 DEF Recurrence
    <3> QED BY <3>1, <3>2
  <2>3. CountsUpTo(h, n + 1) BY <2>2 DEF CountsUpTo
  <2> QED BY <2>3
<1> HIDE DEF S
<1>3. \A n \in Nat : n \in S BY <1>1, <1>2, Induction
<1> QED BY <1>3 DEF S

\* Two counts agree as far as both go.
LEMMA CountsAgree ==
    ASSUME NEW g, NEW h, NEW m \in Nat, NEW n \in Nat, CountsUpTo(g, m), CountsUpTo(h, n)
    PROVE  \A i \in Nat : i <= m /\ i <= n => g[i] = h[i]
<1> DEFINE S == {i \in Nat : i <= m /\ i <= n => g[i] = h[i]}
<1>1. 0 \in S BY DEF CountsUpTo, Recurrence
<1>2. ASSUME NEW i \in Nat, i \in S PROVE i + 1 \in S
  <2> SUFFICES ASSUME i + 1 <= m, i + 1 <= n PROVE g[i + 1] = h[i + 1] OBVIOUS
  <2>1. g[i] = h[i] BY <1>2
  <2>2. i + 1 \in 0..m /\ i + 1 \in 0..n /\ i + 1 # 0 /\ (i + 1) - 1 = i OBVIOUS
  <2>3. g[i + 1] = Recurrence(g, i + 1) BY <2>2 DEF CountsUpTo
  <2>4. h[i + 1] = Recurrence(h, i + 1) BY <2>2 DEF CountsUpTo
  <2> QED BY <2>1, <2>2, <2>3, <2>4 DEF Recurrence
<1> HIDE DEF S
<1>3. \A i \in Nat : i \in S BY <1>1, <1>2, Induction
<1> QED BY <1>3 DEF S

\* UnitsUpTo is the function its equation describes.
LEMMA UnitsDefined == CountsUnits(UnitsUpTo)
<1> DEFINE F == [n \in Nat |-> (CHOOSE g : CountsUpTo(g, n))[n]]
<1>1. \A n \in Nat : CountsUpTo(CHOOSE g : CountsUpTo(g, n), n) BY CountsExist, Zenon
<1>2. ASSUME NEW n \in Nat PROVE F[n] = IF n = 0 THEN 0 ELSE F[n - 1] + Length(text[n])
  <2> DEFINE g == CHOOSE g : CountsUpTo(g, n)
             h == CHOOSE h : CountsUpTo(h, n - 1)
  <2>1. CountsUpTo(g, n) BY <1>1
  <2>2. F[n] = g[n] OBVIOUS
  <2>3. n # 0 => n - 1 \in Nat OBVIOUS
  <2>4. n # 0 => CountsUpTo(h, n - 1) BY <1>1, <2>3
  <2>5. n # 0 => F[n - 1] = h[n - 1] BY <2>3
  <2> HIDE DEF F, g, h
  <2>6. g[n] = Recurrence(g, n) BY <2>1 DEF CountsUpTo
  <2>7. n # 0 => g[n - 1] = h[n - 1] BY <2>1, <2>3, <2>4, CountsAgree
  <2> QED BY <2>2, <2>5, <2>6, <2>7 DEF Recurrence
<1>3. CountsUnits(F)
  <2>1. F = [n \in Nat |-> F[n]] OBVIOUS
  <2> HIDE DEF F
  <2> QED BY <1>2, <2>1 DEF CountsUnits
<1>4. UnitsUpTo = CHOOSE f : CountsUnits(f) BY DEF UnitsUpTo, CountsUnits
<1> HIDE DEF F
<1> QED BY <1>3, <1>4, Zenon

\* Only the text decides the units up to a block.
LEMMA UnitsStay == text' = text => UnitsUpTo' = UnitsUpTo
BY DEF UnitsUpTo

\* Block by block the units add up.
LEMMA Units0 ==
    /\ UnitsUpTo[0] = 0
    /\ \A i \in Nat \ {0} : UnitsUpTo[i] = UnitsUpTo[i - 1] + Length(text[i])
<1> DEFINE F == UnitsUpTo
<1>1. F = [i \in Nat |-> IF i = 0 THEN 0 ELSE F[i - 1] + Length(text[i])]
  BY UnitsDefined DEF CountsUnits
<1> HIDE DEF F
<1>2. /\ F[0] = 0
      /\ \A i \in Nat \ {0} : F[i] = F[i - 1] + Length(text[i])
  BY <1>1
<1> QED BY <1>2 DEF F

\* A text as TextOf leaves it, of any length.
TextOk == \E n \in Nat \ {0} : /\ text \in [1..n -> [head : Nat, body : Nat]]
                               /\ \A i \in 1..n : Length(text[i]) > 0

\* A function from 1..n is a sequence.
LEMMA FunctionsAreSequences ==
    ASSUME NEW S, NEW n \in Nat, NEW f \in [1..n -> S]
    PROVE  f \in Seq(S) /\ Len(f) = n /\ DOMAIN f = 1..n
OBVIOUS

\* A text is a sequence of blocks with something in each.
LEMMA TextShape ==
    ASSUME TextOk
    PROVE  /\ text \in Seq([head : Nat, body : Nat])
           /\ Len(text) \in Nat \ {0} /\ DOMAIN text = 1..Len(text)
           /\ \A i \in 1..Len(text) : /\ text[i].head \in Nat /\ text[i].body \in Nat
                                      /\ Length(text[i]) \in Nat /\ Length(text[i]) > 0
                                      /\ Length(text[i]) = text[i].head + text[i].body
<1>1. PICK n \in Nat \ {0} : /\ text \in [1..n -> [head : Nat, body : Nat]]
                             /\ \A i \in 1..n : Length(text[i]) > 0
  BY DEF TextOk
<1>2. text \in Seq([head : Nat, body : Nat]) /\ Len(text) = n /\ DOMAIN text = 1..n
  BY <1>1, FunctionsAreSequences
<1>3. \A i \in 1..n : text[i] \in [head : Nat, body : Nat] BY <1>1
<1> QED BY <1>1, <1>2, <1>3 DEF Length

\* The later the block, the more units there are up to it.
LEMMA UnitsGrow ==
    ASSUME TextOk
    PROVE  /\ UnitsUpTo[0] = 0
           /\ \A i \in 0..Len(text) : UnitsUpTo[i] \in Nat
           /\ \A i \in 1..Len(text) : UnitsUpTo[i] = UnitsUpTo[i - 1] + Length(text[i])
           /\ \A i, j \in 0..Len(text) : i <= j => UnitsUpTo[i] <= UnitsUpTo[j]
<1> DEFINE S == {n \in Nat : n <= Len(text) =>
                    UnitsUpTo[n] \in Nat
                    /\ \A i \in 0..n : UnitsUpTo[i] \in Nat /\ UnitsUpTo[i] <= UnitsUpTo[n]}
<1>0. Len(text) \in Nat /\ \A i \in 1..Len(text) : Length(text[i]) \in Nat
  BY TextShape
<1>1. \A i \in 1..Len(text) : UnitsUpTo[i] = UnitsUpTo[i - 1] + Length(text[i])
  BY <1>0, Units0
<1>2. 0 \in S BY Units0
<1>3. ASSUME NEW n \in Nat, n \in S PROVE n + 1 \in S
  <2> SUFFICES ASSUME n + 1 <= Len(text)
               PROVE  /\ UnitsUpTo[n + 1] \in Nat
                      /\ \A i \in 0..n + 1 : /\ UnitsUpTo[i] \in Nat
                                             /\ UnitsUpTo[i] <= UnitsUpTo[n + 1]
    OBVIOUS
  <2>1. n <= Len(text) /\ n + 1 \in 1..Len(text) /\ (n + 1) - 1 = n BY <1>0
  <2>2. UnitsUpTo[n + 1] = UnitsUpTo[n] + Length(text[n + 1]) BY <1>1, <2>1
  <2>3. /\ UnitsUpTo[n] \in Nat
        /\ \A i \in 0..n : UnitsUpTo[i] \in Nat /\ UnitsUpTo[i] <= UnitsUpTo[n]
    BY <1>3, <2>1
  <2>4. Length(text[n + 1]) \in Nat BY <1>0, <2>1
  <2>5. ASSUME NEW i \in 0..n + 1 
        PROVE  UnitsUpTo[i] \in Nat /\ UnitsUpTo[i] <= UnitsUpTo[n + 1]
    <3>1. CASE i = n + 1 BY <2>2, <2>3, <2>4, <3>1
    <3>2. CASE i # n + 1
      <4>1. i \in 0..n BY <3>2
      <4>2. UnitsUpTo[i] \in Nat /\ UnitsUpTo[i] <= UnitsUpTo[n] BY <2>3, <4>1
      <4> QED BY <2>2, <2>3, <2>4, <4>2
    <3> QED BY <3>1, <3>2
  <2> QED BY <2>2, <2>3, <2>4, <2>5
<1> HIDE DEF S
<1>4. \A n \in Nat : n \in S BY <1>2, <1>3, Induction
<1>5. \A n \in 0..Len(text) : UnitsUpTo[n] \in Nat /\ \A i \in 0..n : UnitsUpTo[i] <= UnitsUpTo[n]
  BY <1>0, <1>4 DEF S
<1>6. \A i, j \in 0..Len(text) : i <= j => UnitsUpTo[i] <= UnitsUpTo[j]
  BY <1>0, <1>5
<1> QED BY <1>1, <1>5, <1>6, Units0
-----------------------------------------------------------------------------
\* Min and Max of two numbers.
LEMMA Min2 == ASSUME NEW a \in Int, NEW b \in Int
              PROVE  Min({a, b}) = IF a <= b THEN a ELSE b
<1>1. \E x \in {a, b} : \A y \in {a, b} : x <= y OBVIOUS
<1> DEFINE m == CHOOSE x \in {a, b} : \A y \in {a, b} : x <= y
<1>2. m \in {a, b} /\ \A y \in {a, b} : m <= y BY <1>1
<1>3. Min({a, b}) = m BY DEF Min
<1> HIDE DEF m
<1> QED BY <1>2, <1>3
LEMMA Max2 == ASSUME NEW a \in Int, NEW b \in Int
              PROVE  Max({a, b}) = IF a >= b THEN a ELSE b
<1>1. \E x \in {a, b} : \A y \in {a, b} : x >= y OBVIOUS
<1> DEFINE m == CHOOSE x \in {a, b} : \A y \in {a, b} : x >= y
<1>2. m \in {a, b} /\ \A y \in {a, b} : m >= y BY <1>1
<1>3. Max({a, b}) = m BY DEF Max
<1> HIDE DEF m
<1> QED BY <1>2, <1>3

\* What is left of a division is smaller than the divisor.
LEMMA Division ==
    ASSUME NEW a \in Nat, NEW d \in Nat \ {0}
    PROVE  /\ a \div d \in Nat
           /\ (a \div d) * d <= a /\ a < (a \div d) * d + d
<1> QED OBVIOUS

\* Products, where the solver needs them spelled out.
LEMMA Distr == ASSUME NEW a \in Int, NEW d \in Int PROVE (a + 1) * d = a * d + d
OBVIOUS
LEMMA Products ==
    ASSUME NEW a \in Int, NEW b \in Int, NEW d \in Nat
    PROVE  /\ a * d \in Int /\ b * d \in Int
           /\ a <= b => a * d <= b * d
OBVIOUS
LEMMA Quotients ==
    ASSUME NEW a \in Int, NEW b \in Int, NEW d \in Nat, a * d < b * d
    PROVE  a < b
<1> SUFFICES ASSUME b <= a PROVE FALSE OBVIOUS
<1>1. b * d <= a * d /\ a * d \in Int /\ b * d \in Int BY Products
<1> QED BY <1>1

\* Chunks, by their type.
ChunkRecord == [first : Nat, last : Nat, context : Nat]

\* The fields of a chunk.
LEMMA ChunkFields ==
    ASSUME NEW a \in Nat, NEW b \in Nat, NEW c \in Nat
    PROVE  /\ Chunk(a, b, c) \in ChunkRecord
           /\ Chunk(a, b, c).first = a /\ Chunk(a, b, c).last = b
           /\ Chunk(a, b, c).context = c
BY DEF Chunk, ChunkRecord

\* Window k begins (k - 1) steps in: none of them after the last unit, and
\* every unit within a step of one.
LEMMA WindowCount ==
    ASSUME NEW first \in Nat, NEW last \in Nat, NEW step \in Nat \ {0}, first <= last + 1
    PROVE  LET n == (last - first + step) \div step IN
           /\ n \in Nat
           /\ \A k \in Int : k <= n => first + (k - 1) * step <= last
           /\ \A k \in Int : k >= 1 => first <= first + (k - 1) * step
           /\ \A u \in first..last : \E k \in 1..n :
                /\ first + (k - 1) * step <= u /\ u < first + (k - 1) * step + step
<1> DEFINE n == (last - first + step) \div step
<1>1. last - first + step \in Nat OBVIOUS
<1>2. n \in Nat /\ n * step <= last - first + step /\ last - first + step < n * step + step
  BY <1>1, Division
<1> HIDE DEF n
<1>3. \A k \in Int : (k - 1) * step \in Int /\ (k - 1) * step + step = k * step
  <2> TAKE k \in Int
  <2>1. k - 1 \in Int /\ (k - 1) + 1 = k OBVIOUS
  <2>2. ((k - 1) + 1) * step = (k - 1) * step + step BY <2>1, Distr
  <2> QED BY <2>1, <2>2, Products
<1>4. ASSUME NEW k \in Int, k <= n PROVE first + (k - 1) * step <= last
  <2>1. k * step <= n * step /\ k * step \in Int /\ n * step \in Int
    BY <1>2, <1>4, Products
  <2>2. (k - 1) * step \in Int /\ (k - 1) * step + step = k * step BY <1>3
  <2> QED BY <1>2, <2>1, <2>2
<1>5. ASSUME NEW k \in Int, k >= 1 PROVE first <= first + (k - 1) * step
  <2>1. 0 <= k - 1 /\ k - 1 \in Int BY <1>5
  <2>2. 0 * step <= (k - 1) * step /\ (k - 1) * step \in Int BY <2>1, Products
  <2> QED BY <2>2
<1>6. ASSUME NEW u \in first..last
      PROVE  \E k \in 1..n : /\ first + (k - 1) * step <= u
                             /\ u < first + (k - 1) * step + step
  <2> DEFINE q == (u - first) \div step
  <2>1. u - first \in Nat OBVIOUS
  <2>2. q \in Nat /\ q * step <= u - first /\ u - first < q * step + step
    BY <2>1, Division
  <2> HIDE DEF q
  <2>3. q * step \in Int /\ n * step \in Int BY <1>2, <2>2, Products
  <2>4. u - first <= last - first OBVIOUS
  <2>5. q * step < n * step BY <1>2, <2>2, <2>3, <2>4
  <2>6. q < n BY <1>2, <2>2, <2>5, Quotients
  <2>7. q + 1 \in 1..n /\ (q + 1) - 1 = q BY <1>2, <2>2, <2>6
  <2>8. first + q * step <= u /\ u < first + q * step + step BY <2>2, <2>3
  <2>9. /\ first + ((q + 1) - 1) * step <= u
        /\ u < first + ((q + 1) - 1) * step + step
    BY <2>7, <2>8
  <2> QED BY <2>7, <2>9
<1> QED BY <1>2, <1>4, <1>5, <1>6 DEF n

\* w cuts the units from first to last.
AreWindows(w, first, last, size, step, context) ==
    /\ w \in Seq(ChunkRecord)
    /\ \A k \in DOMAIN w :
         /\ w[k].context = context /\ w[k].first = first + (k - 1) * step
         /\ w[k].last = IF w[k].first + size - 1 <= last THEN w[k].first + size - 1
                        ELSE last
         /\ first <= w[k].first /\ w[k].first <= w[k].last /\ w[k].last <= last
         /\ k > 1 => w[k].first = w[k - 1].first + step
    /\ \A u \in first..last : \E k \in DOMAIN w : u \in Units(w[k])

\* Windowed cuts the units so when the step is no longer than a window.
LEMMA Windows ==
    ASSUME NEW first \in Nat, NEW last \in Nat, NEW size \in Nat \ {0}, first <= last + 1,
           NEW step \in 1..size, NEW context \in Nat
    PROVE  AreWindows(Windowed(first, last, size, step, context),
                      first, last, size, step, context)
<1> DEFINE w == Windowed(first, last, size, step, context)
           n == (last - first + step) \div step
           at(k) == first + (k - 1) * step
<1>0. step \in Nat \ {0} OBVIOUS
<1>1. /\ n \in Nat
      /\ \A k \in Int : k <= n => at(k) <= last
      /\ \A k \in Int : k >= 1 => first <= at(k)
      /\ \A u \in first..last : \E k \in 1..n : at(k) <= u /\ u < at(k) + step
  BY <1>0, WindowCount
<1>2. \A k \in Int : at(k) \in Int BY <1>0, Products
<1>3. w = [k \in 1..n |-> Chunk(at(k), Min({at(k) + size - 1, last}), context)]
  BY <1>0 DEF Windowed
<1> HIDE DEF w, n
<1>4. ASSUME NEW k \in 1..n
      PROVE  /\ w[k] \in ChunkRecord /\ w[k].context = context /\ w[k].first = at(k)
             /\ w[k].last = IF at(k) + size - 1 <= last THEN at(k) + size - 1 ELSE last
             /\ first <= w[k].first /\ w[k].first <= w[k].last /\ w[k].last <= last
             /\ at(k) \in Nat
  <2>1. k \in Int /\ k <= n /\ k >= 1 BY <1>1
  <2>2. at(k) \in Int /\ first <= at(k) /\ at(k) <= last BY <1>1, <1>2, <2>1
  <2> DEFINE to == Min({at(k) + size - 1, last})
  <2> HIDE DEF at
  <2>3. to = IF at(k) + size - 1 <= last THEN at(k) + size - 1 ELSE last
    BY <2>2, Min2
  <2>4. w[k] = Chunk(at(k), to, context) BY <1>3
  <2>5. at(k) \in Nat /\ to \in Nat /\ at(k) <= to /\ to <= last BY <2>2, <2>3
  <2> HIDE DEF to
  <2>6. /\ Chunk(at(k), to, context) \in ChunkRecord
        /\ Chunk(at(k), to, context).first = at(k)
        /\ Chunk(at(k), to, context).last = to
        /\ Chunk(at(k), to, context).context = context
    BY <2>5, ChunkFields
  <2>7. /\ w[k] \in ChunkRecord /\ w[k].first = at(k) /\ w[k].last = to
        /\ w[k].context = context
    BY <2>4, <2>6
  <2> QED BY <2>2, <2>3, <2>5, <2>7
<1>5. w \in Seq(ChunkRecord) /\ DOMAIN w = 1..n
  <2>1. w \in [1..n -> ChunkRecord] BY <1>3, <1>4
  <2> QED BY <1>1, <2>1, FunctionsAreSequences
<1>6. ASSUME NEW k \in 1..n, k > 1 PROVE w[k].first = w[k - 1].first + step
  <2>1. k - 1 \in 1..n /\ k - 2 \in Int /\ (k - 1) - 1 = k - 2 /\ (k - 2) + 1 = k - 1
    BY <1>1, <1>6
  <2>2. w[k].first = at(k) /\ w[k - 1].first = at(k - 1) BY <1>4, <2>1
  <2>3. ((k - 2) + 1) * step = (k - 2) * step + step BY <1>0, <2>1, Distr
  <2>4. (k - 2) * step \in Int BY <1>0, <2>1, Products
  <2>5. at(k) = first + (k - 1) * step /\ at(k - 1) = first + (k - 2) * step BY <2>1
  <2> HIDE DEF at
  <2> QED BY <2>1, <2>2, <2>3, <2>4, <2>5
<1>7. ASSUME NEW u \in first..last PROVE \E k \in 1..n : u \in Units(w[k])
  <2>1. PICK k \in 1..n : at(k) <= u /\ u < at(k) + step BY <1>1
  <2>2. /\ w[k].first = at(k) /\ at(k) \in Nat
        /\ w[k].last = IF at(k) + size - 1 <= last THEN at(k) + size - 1 ELSE last
    BY <1>4
  <2> HIDE DEF at
  <2>3. w[k].first <= u /\ u <= w[k].last /\ w[k].first \in Int /\ w[k].last \in Int
    BY <2>1, <2>2
  <2> QED BY <2>3 DEF Units
<1>8. \A k \in DOMAIN w :
        /\ w[k].context = context /\ w[k].first = first + (k - 1) * step
        /\ w[k].last = IF w[k].first + size - 1 <= last THEN w[k].first + size - 1
                       ELSE last
        /\ first <= w[k].first /\ w[k].first <= w[k].last /\ w[k].last <= last
        /\ k > 1 => w[k].first = w[k - 1].first + step
  BY <1>4, <1>5, <1>6
<1>9. AreWindows(w, first, last, size, step, context) BY <1>5, <1>7, <1>8 DEF AreWindows
<1> QED BY <1>9 DEF w

\* Every chunk begins after the one before it.
InOrder(c) == \A n \in DOMAIN c : n > 1 => c[n - 1].first < c[n].first
\* Unit u of block i is in one of the chunks, or in the heading before one.
In(c, i, u) ==
    \E n \in DOMAIN c : \/ u \in Units(c[n])
                        \/ c[n].context = FirstUnit(i) /\ u < FirstUnit(i) + text[i].head

\* The elements of a sequence of chunks.
LEMMA ChunkTypes ==
    ASSUME NEW c \in Seq(ChunkRecord)
    PROVE  /\ Len(c) \in Nat /\ DOMAIN c = 1..Len(c)
           /\ \A n \in DOMAIN c : /\ c[n] \in ChunkRecord /\ c[n].first \in Nat
                                  /\ c[n].last \in Nat /\ c[n].context \in Nat
<1>1. Len(c) \in Nat /\ DOMAIN c = 1..Len(c) /\ c \in [1..Len(c) -> ChunkRecord]
  BY LenProperties
<1>2. \A n \in DOMAIN c : c[n] \in ChunkRecord BY <1>1
<1> QED BY <1>1, <1>2 DEF ChunkRecord

\* The chunks of c \o w are those of c, and after them those of w.
LEMMA Joined ==
    ASSUME NEW c \in Seq(ChunkRecord), NEW w \in Seq(ChunkRecord)
    PROVE  /\ c \o w \in Seq(ChunkRecord) /\ Len(c \o w) = Len(c) + Len(w)
           /\ \A n \in DOMAIN c : n \in DOMAIN (c \o w) /\ (c \o w)[n] = c[n]
           /\ \A k \in DOMAIN w : /\ Len(c) + k \in DOMAIN (c \o w)
                                  /\ (c \o w)[Len(c) + k] = w[k]
           /\ \A n \in DOMAIN (c \o w) :
                n \in DOMAIN c \/ (n > Len(c) /\ n - Len(c) \in DOMAIN w)
<1> DEFINE j == c \o w
<1>1. /\ j \in Seq(ChunkRecord) /\ Len(j) = Len(c) + Len(w)
      /\ \A i \in 1..Len(c) + Len(w) : j[i] = IF i <= Len(c) THEN c[i] ELSE w[i - Len(c)]
  BY ConcatProperties
<1> HIDE DEF j
<1>2. /\ Len(c) \in Nat /\ DOMAIN c = 1..Len(c) /\ Len(w) \in Nat /\ DOMAIN w = 1..Len(w)
      /\ DOMAIN j = 1..Len(j)
  BY <1>1, ChunkTypes
<1>3. ASSUME NEW n \in DOMAIN c PROVE n \in DOMAIN j /\ j[n] = c[n]
  BY <1>1, <1>2
<1>4. ASSUME NEW k \in DOMAIN w PROVE Len(c) + k \in DOMAIN j /\ j[Len(c) + k] = w[k]
  <2>1. Len(c) + k \in 1..Len(c) + Len(w) /\ ~(Len(c) + k <= Len(c))
        /\ (Len(c) + k) - Len(c) = k
    BY <1>2
  <2> QED BY <1>1, <1>2, <2>1
<1>5. ASSUME NEW n \in DOMAIN j
      PROVE  n \in DOMAIN c \/ (n > Len(c) /\ n - Len(c) \in DOMAIN w)
  BY <1>1, <1>2
<1> QED BY <1>1, <1>3, <1>4, <1>5 DEF j

\* Two sequences in order, one before the other, are in order.
LEMMA JoinedInOrder ==
    ASSUME NEW c \in Seq(ChunkRecord), NEW w \in Seq(ChunkRecord), InOrder(c), InOrder(w),
           \A n \in DOMAIN c, k \in DOMAIN w : c[n].first < w[k].first
    PROVE  InOrder(c \o w)
<1> DEFINE j == c \o w
<1>1. /\ j \in Seq(ChunkRecord) /\ Len(j) = Len(c) + Len(w)
      /\ \A n \in DOMAIN c : n \in DOMAIN j /\ j[n] = c[n]
      /\ \A k \in DOMAIN w : Len(c) + k \in DOMAIN j /\ j[Len(c) + k] = w[k]
      /\ \A n \in DOMAIN j : n \in DOMAIN c \/ (n > Len(c) /\ n - Len(c) \in DOMAIN w)
  BY Joined
<1> HIDE DEF j
<1>2. /\ Len(c) \in Nat /\ DOMAIN c = 1..Len(c) /\ Len(w) \in Nat /\ DOMAIN w = 1..Len(w)
      /\ DOMAIN j = 1..Len(j)
  BY <1>1, ChunkTypes
<1>3. ASSUME NEW n \in DOMAIN j, n > 1 PROVE j[n - 1].first < j[n].first
  <2>1. n \in Nat /\ n - 1 \in Nat BY <1>2, <1>3
  <2>2. CASE n \in DOMAIN c
    <3>1. n - 1 \in DOMAIN c BY <1>2, <1>3, <2>2
    <3> QED BY <1>1, <1>3, <2>2, <3>1 DEF InOrder
  <2>3. CASE n > Len(c) /\ n - Len(c) \in DOMAIN w
    <3> DEFINE k == n - Len(c)
    <3>1. k \in DOMAIN w /\ Len(c) + k = n BY <1>2, <2>1, <2>3
    <3>2. j[n] = w[k] BY <1>1, <3>1
    <3>3. CASE k = 1
      <4>0. n = Len(c) + 1 BY <1>2, <2>1, <3>1, <3>3
      <4>1. n - 1 = Len(c) /\ n - 1 \in DOMAIN c BY <1>2, <1>3, <4>0
      <4>2. j[n - 1] = c[n - 1] BY <1>1, <4>1
      <4> HIDE DEF k
      <4> QED BY <3>1, <3>2, <4>1, <4>2
    <3>4. CASE k # 1
      <4>1. k - 1 \in DOMAIN w /\ k > 1 /\ Len(c) + (k - 1) = n - 1 BY <1>2, <2>1, <3>1, <3>4
      <4>2. j[n - 1] = w[k - 1]
        <5>1. j[Len(c) + (k - 1)] = w[k - 1] BY <1>1, <4>1
        <5> QED BY <4>1, <5>1
      <4> HIDE DEF k
      <4> QED BY <3>1, <3>2, <4>1, <4>2 DEF InOrder
    <3> QED BY <3>3, <3>4
  <2> QED BY <1>1, <2>2, <2>3
<1> QED BY <1>3 DEF j, InOrder

\* What one of two sequences has, both together have.
LEMMA JoinedIn ==
    ASSUME NEW c \in Seq(ChunkRecord), NEW w \in Seq(ChunkRecord), NEW i, NEW u,
           In(c, i, u) \/ In(w, i, u)
    PROVE  In(c \o w, i, u)
<1> DEFINE j == c \o w
<1>1. /\ \A n \in DOMAIN c : n \in DOMAIN j /\ j[n] = c[n]
      /\ \A k \in DOMAIN w : Len(c) + k \in DOMAIN j /\ j[Len(c) + k] = w[k]
  BY Joined
<1> HIDE DEF j
<1>2. CASE In(c, i, u)
  <2>1. PICK n \in DOMAIN c : \/ u \in Units(c[n])
                              \/ c[n].context = FirstUnit(i) /\ u < FirstUnit(i) + text[i].head
    BY <1>2 DEF In
  <2>2. n \in DOMAIN j /\ j[n] = c[n] BY <1>1
  <2> QED BY <2>1, <2>2 DEF In, j
<1>3. CASE In(w, i, u)
  <2>1. PICK n \in DOMAIN w : \/ u \in Units(w[n])
                              \/ w[n].context = FirstUnit(i) /\ u < FirstUnit(i) + text[i].head
    BY <1>3 DEF In
  <2>2. Len(c) + n \in DOMAIN j /\ j[Len(c) + n] = w[n] BY <1>1
  <2> QED BY <2>1, <2>2 DEF In, j
<1> QED BY <1>2, <1>3

-----------------------------------------------------------------------------
\* Headings are where TextOf puts them.
HeadsOk ==
    \A i \in 1..Len(text) :
        /\ strategy = "markdown" /\ i > 1 => text[i].head > 0
        /\ strategy = "sheet_rows" => text[i].head = 1
        /\ strategy \in {"paragraph", "slide"} => text[i].head = 0

\* Types, and what the loop has packed: nothing when it is through, nothing
\* in markdown and tables.
CHTypes ==
    /\ strategy \in Strategies /\ TextOk /\ HeadsOk
    /\ words \in Nat /\ overlap \in Nat /\ overlap < words
    /\ block \in 1..Len(text) + 1 /\ packed \in 0..UnitsUpTo[block - 1]
    /\ chunks \in Seq(ChunkRecord) /\ done \in BOOLEAN
    /\ strategy \in {"markdown", "sheet_rows"} \/ done => packed = 0
    /\ done => block = Len(text) + 1
\* No chunk begins in what waits to be packed, or after it.
Behind == ~done => \A n \in DOMAIN chunks : chunks[n].first <= UnitsUpTo[block - 1] - packed

\* The inductive invariant: without Behind the next chunk could begin before the
\* last one.
CHInv == CHTypes /\ Behind /\ NothingLost

\* NothingLost with its parts named.
LEMMA LostAs ==
    NothingLost <=>
        /\ \A i \in Through : ~Swallowed(i) => \A u \in FirstUnit(i)..LastUnit(i) :
             u > LastUnit(block - 1) - packed \/ In(chunks, i, u)
        /\ InOrder(chunks)
BY DEF NothingLost, In, InOrder

\* The first state.
LEMMA CHInitInv == CHInit => CHInv
<1> SUFFICES ASSUME CHInit PROVE CHInv OBVIOUS
<1>1. /\ strategy \in Strategies /\ text \in TextOf(strategy) /\ words \in 1..MaxWords
      /\ overlap \in 0..words - 1 /\ block = 1 /\ packed = 0 /\ chunks = <<>>
      /\ done = FALSE
  BY DEF CHInit
<1>2. PICK n \in 1..MaxBlocks : text \in [1..n -> Blocks] BY <1>1 DEF TextOf
<1>3. \A i \in DOMAIN text :
            /\ Length(text[i]) > 0
            /\ CASE strategy = "markdown" -> i > 1 => text[i].head > 0
                 [] strategy = "sheet_rows" -> text[i].head = 1
                 [] OTHER -> text[i].head = 0
  BY <1>1 DEF TextOf
<1>4. n \in Nat \ {0} /\ text \in [1..n -> [head : Nat, body : Nat]] /\ DOMAIN text = 1..n
  BY <1>2, ChunkingAssumption
<1>5. TextOk BY <1>3, <1>4 DEF TextOk
<1>6. HeadsOk
  <2>1. DOMAIN text = 1..Len(text) BY <1>5, TextShape
  <2> QED BY <1>1, <1>3, <2>1 DEF HeadsOk, Strategies
<1>7. words \in Nat /\ overlap \in Nat /\ overlap < words BY <1>1, ChunkingAssumption
<1>8. UnitsUpTo[0] = 0 /\ Len(text) \in Nat BY <1>5, UnitsGrow, TextShape
<1>9. block \in 1..Len(text) + 1 /\ packed \in 0..UnitsUpTo[block - 1] BY <1>1, <1>8
<1>10. chunks \in Seq(ChunkRecord) /\ DOMAIN chunks = {} BY <1>1
<1>11. Through = {} BY <1>1, <1>4 DEF Through
<1> QED BY <1>1, <1>5, <1>6, <1>7, <1>9, <1>10, <1>11
        DEF CHInv, CHTypes, Behind, NothingLost

\* What is known of the numbers of units.
LEMMA Bounds ==
    ASSUME CHTypes
    PROVE  /\ Len(text) \in Nat \ {0} /\ DOMAIN text = 1..Len(text) /\ block \in Nat
           /\ \A i \in 1..Len(text) :
                /\ FirstUnit(i) = UnitsUpTo[i - 1] + 1 /\ LastUnit(i) = UnitsUpTo[i]
                /\ UnitsUpTo[i - 1] \in Nat /\ UnitsUpTo[i] \in Nat
                /\ text[i].head \in Nat /\ text[i].body \in Nat
                /\ Length(text[i]) = text[i].head + text[i].body
                /\ Length(text[i]) \in Nat /\ Length(text[i]) > 0
                /\ UnitsUpTo[i] = UnitsUpTo[i - 1] + Length(text[i])
           /\ UnitsUpTo[block - 1] \in Nat /\ packed \in Nat
           /\ packed <= UnitsUpTo[block - 1] /\ LastUnit(block - 1) = UnitsUpTo[block - 1]
           /\ \A i \in Through : i \in 1..Len(text) /\ UnitsUpTo[i] <= UnitsUpTo[block - 1]
<1>1. /\ Len(text) \in Nat \ {0} /\ DOMAIN text = 1..Len(text)
      /\ \A i \in 1..Len(text) : /\ text[i].head \in Nat /\ text[i].body \in Nat
                                 /\ Length(text[i]) \in Nat /\ Length(text[i]) > 0
                                 /\ Length(text[i]) = text[i].head + text[i].body
  BY TextShape DEF CHTypes
<1>2. /\ \A i \in 0..Len(text) : UnitsUpTo[i] \in Nat
      /\ \A i \in 1..Len(text) : UnitsUpTo[i] = UnitsUpTo[i - 1] + Length(text[i])
      /\ \A i, j \in 0..Len(text) : i <= j => UnitsUpTo[i] <= UnitsUpTo[j]
  BY UnitsGrow DEF CHTypes
<1>3. block \in 1..Len(text) + 1 /\ packed \in 0..UnitsUpTo[block - 1] BY DEF CHTypes
<1>4. block - 1 \in 0..Len(text) /\ block \in Nat BY <1>1, <1>3
<1>5. UnitsUpTo[block - 1] \in Nat BY <1>2, <1>4
<1>6. packed \in Nat /\ packed <= UnitsUpTo[block - 1] BY <1>3, <1>5
<1>7. ASSUME NEW i \in 1..Len(text)
      PROVE  UnitsUpTo[i - 1] \in Nat /\ UnitsUpTo[i] \in Nat
  <2>1. i \in 0..Len(text) /\ i - 1 \in 0..Len(text) BY <1>1
  <2> QED BY <1>2, <2>1
<1>8. ASSUME NEW i \in Through
      PROVE  i \in 1..Len(text) /\ UnitsUpTo[i] <= UnitsUpTo[block - 1]
  <2>1. i \in 1..Len(text) /\ i < block BY <1>1 DEF Through
  <2>2. i \in 0..Len(text) /\ i <= block - 1 BY <1>1, <1>4, <2>1
  <2> QED BY <1>2, <1>4, <2>1, <2>2
<1> QED BY <1>1, <1>2, <1>4, <1>5, <1>6, <1>7, <1>8 DEF FirstUnit, LastUnit

\* After a flush every block that is through is in the chunks.
LEMMA FlushedOk ==
    ASSUME CHInv, ~done
    PROVE  /\ Flushed \in Seq(ChunkRecord) /\ InOrder(Flushed)
           /\ \A n \in DOMAIN Flushed : Flushed[n].first <= UnitsUpTo[block - 1]
           /\ \A i \in Through : ~Swallowed(i) =>
                \A u \in FirstUnit(i)..LastUnit(i) : In(Flushed, i, u)
<1> DEFINE L == UnitsUpTo[block - 1]
           last == Chunk(L - packed + 1, L, 0)
           w == <<last>>
<1>1. /\ L \in Nat /\ packed \in Nat /\ packed <= L /\ LastUnit(block - 1) = L
      /\ \A i \in 1..Len(text) : /\ FirstUnit(i) \in Nat /\ LastUnit(i) \in Nat
                                 /\ LastUnit(i) = UnitsUpTo[i] /\ FirstUnit(i) >= 1
      /\ \A i \in Through : i \in 1..Len(text) /\ UnitsUpTo[i] <= L
  BY Bounds DEF CHInv
<1>2. /\ chunks \in Seq(ChunkRecord) /\ InOrder(chunks)
      /\ \A n \in DOMAIN chunks : chunks[n].first <= L - packed
      /\ \A i \in Through : ~Swallowed(i) => \A u \in FirstUnit(i)..LastUnit(i) :
             u > L - packed \/ In(chunks, i, u)
  BY <1>1, LostAs DEF CHInv, CHTypes, Behind
<1>3. \A n \in DOMAIN chunks : chunks[n].first \in Nat BY <1>2, ChunkTypes
<1>4. CASE packed = 0
  <2>1. Flushed = chunks /\ L - packed = L BY <1>1, <1>4 DEF Flushed
  <2>2. ASSUME NEW i \in Through, ~Swallowed(i), NEW u \in FirstUnit(i)..LastUnit(i)
        PROVE  In(chunks, i, u)
    <3>1. u <= L /\ u \in Nat BY <1>1
    <3> QED BY <1>1, <1>2, <2>1, <2>2, <3>1
  <2> QED BY <1>2, <2>1, <2>2
<1>5. CASE packed # 0
  <2>1. Flushed = chunks \o w
    <3>1. Flushed = Append(chunks, last) BY <1>1, <1>5 DEF Flushed
    <3> QED BY <1>2, <3>1
  <2>2. /\ last \in ChunkRecord /\ last.first = L - packed + 1 /\ last.last = L
        /\ L - packed + 1 \in Nat
    <3> DEFINE n == L - packed + 1
    <3>1. L \in Nat /\ packed \in Nat /\ packed <= L BY <1>1
    <3>2. n \in Nat /\ 0 \in Nat
      <4> HIDE DEF L
      <4> QED BY <3>1
    <3>3. last = Chunk(n, L, 0) OBVIOUS
    <3> HIDE DEF n, L, last
    <3>4. last \in ChunkRecord /\ last.first = n /\ last.last = L
      BY <3>1, <3>2, <3>3, ChunkFields
    <3> QED BY <3>2, <3>4 DEF n
  <2> HIDE DEF last
  <2>3. w \in Seq(ChunkRecord) /\ DOMAIN w = {1} /\ w[1] = last BY <2>2
  <2> HIDE DEF w
  <2>4. InOrder(w) BY <2>3 DEF InOrder
  <2>5. \A n \in DOMAIN chunks, k \in DOMAIN w : chunks[n].first < w[k].first
    BY <1>1, <1>2, <1>3, <2>2, <2>3
  <2>6. InOrder(chunks \o w) BY <1>2, <2>3, <2>4, <2>5, JoinedInOrder
  <2>7. ASSUME NEW n \in DOMAIN (chunks \o w) PROVE (chunks \o w)[n].first <= L
    <3>1. \/ n \in DOMAIN chunks /\ (chunks \o w)[n] = chunks[n]
          \/ (chunks \o w)[n] = w[1]
      <4>1. /\ \A m \in DOMAIN chunks : (chunks \o w)[m] = chunks[m]
            /\ \A k \in DOMAIN w : (chunks \o w)[Len(chunks) + k] = w[k]
            /\ n \in DOMAIN chunks \/ n - Len(chunks) \in DOMAIN w
            /\ DOMAIN (chunks \o w) \subseteq Nat /\ Len(chunks) \in Nat
        BY <1>2, <2>3, Joined, ChunkTypes
      <4>2. CASE n \in DOMAIN chunks BY <4>1, <4>2
      <4>3. CASE n - Len(chunks) = 1
        <5>1. Len(chunks) + 1 = n BY <4>1, <4>3
        <5> QED BY <2>3, <4>1, <5>1
      <4> QED BY <2>3, <4>1, <4>2, <4>3
    <3> QED BY <1>1, <1>2, <1>3, <1>5, <2>2, <2>3, <3>1
  <2>8. ASSUME NEW i \in Through, ~Swallowed(i), NEW u \in FirstUnit(i)..LastUnit(i)
        PROVE  In(chunks \o w, i, u)
    <3>1. u <= L /\ u \in Nat BY <1>1
    <3>2. CASE u > L - packed
      <4>1. u \in Units(w[1]) BY <1>1, <2>2, <2>3, <3>1, <3>2 DEF Units
      <4>2. In(w, i, u) BY <2>3, <4>1 DEF In
      <4> QED BY <1>2, <2>3, <4>2, JoinedIn
    <3>3. CASE In(chunks, i, u) BY <1>2, <2>3, <3>3, JoinedIn
    <3> QED BY <1>2, <2>8, <3>2, <3>3
  <2>9. chunks \o w \in Seq(ChunkRecord) BY <1>2, <2>3, Joined
  <2> QED BY <2>1, <2>6, <2>7, <2>8, <2>9
<1> QED BY <1>4, <1>5

\* c has what the step leaves of the chunks before the next block, w what it
\* makes of the block, and p units are left to pack.
BlockEnds(c, w, p) ==
    /\ c \in Seq(ChunkRecord) /\ w \in Seq(ChunkRecord) /\ InOrder(c) /\ InOrder(w)
    /\ p \in Nat /\ p <= UnitsUpTo[block]
    /\ strategy \in {"markdown", "sheet_rows"} => p = 0
    /\ \A n \in DOMAIN c : c[n].first <= UnitsUpTo[block] - p
    /\ \A k \in DOMAIN w : w[k].first <= UnitsUpTo[block] - p
    /\ \A n \in DOMAIN c, k \in DOMAIN w : c[n].first < w[k].first
    /\ \A i \in Through : ~Swallowed(i) => \A u \in FirstUnit(i)..LastUnit(i) :
         u > UnitsUpTo[block] - p \/ In(c, i, u)
    /\ ~Swallowed(block) => \A u \in FirstUnit(block)..LastUnit(block) :
         u > UnitsUpTo[block] - p \/ In(w, block, u)

\* A step that ends a block so keeps the invariant.
LEMMA BlockDone ==
    ASSUME CHInv, ~done, block <= Len(text), NextBlock, NEW c, NEW w, NEW p,
           BlockEnds(c, w, p), chunks' = c \o w, packed' = p
    PROVE  CHInv'
<1>0. /\ c \in Seq(ChunkRecord) /\ w \in Seq(ChunkRecord) /\ InOrder(c) /\ InOrder(w)
      /\ p \in Nat /\ p <= UnitsUpTo[block]
      /\ strategy \in {"markdown", "sheet_rows"} => p = 0
      /\ \A n \in DOMAIN c : c[n].first <= UnitsUpTo[block] - p
      /\ \A k \in DOMAIN w : w[k].first <= UnitsUpTo[block] - p
      /\ \A n \in DOMAIN c, k \in DOMAIN w : c[n].first < w[k].first
  BY DEF BlockEnds
<1>1. /\ block' = block + 1 /\ strategy' = strategy /\ words' = words
      /\ overlap' = overlap /\ text' = text /\ done' = done
  BY DEF NextBlock
<1>2. UnitsUpTo' = UnitsUpTo BY <1>1, UnitsStay
<1>3. /\ Len(text) \in Nat \ {0} /\ DOMAIN text = 1..Len(text) /\ block \in 1..Len(text)
      /\ block - 1 + 1 = block /\ (block + 1) - 1 = block
      /\ UnitsUpTo[block] \in Nat
  BY Bounds DEF CHInv, CHTypes
<1>4. CHTypes'
  <2>1. TextOk' /\ HeadsOk' BY <1>1 DEF CHInv, CHTypes, TextOk, HeadsOk, Length
  <2>2. block' \in 1..Len(text') + 1 /\ packed' \in 0..UnitsUpTo'[block' - 1]
    BY <1>0, <1>1, <1>2, <1>3
  <2>3. chunks' \in Seq(ChunkRecord) BY <1>0, Joined
  <2> QED BY <1>0, <1>1, <2>1, <2>2, <2>3 DEF CHInv, CHTypes, ChunkRecord
<1>5. /\ chunks' \in Seq(ChunkRecord) /\ InOrder(chunks')
      /\ \A n \in DOMAIN chunks' : chunks'[n].first <= UnitsUpTo[block] - p
  <2>1. InOrder(c \o w) BY <1>0, JoinedInOrder
  <2> DEFINE j == c \o w
  <2>2. /\ j \in Seq(ChunkRecord) /\ Len(c) \in Nat /\ DOMAIN j \subseteq Nat
        /\ \A n \in DOMAIN c : j[n] = c[n]
        /\ \A k \in DOMAIN w : j[Len(c) + k] = w[k]
        /\ \A n \in DOMAIN j : n \in DOMAIN c \/ n - Len(c) \in DOMAIN w
    BY <1>0, Joined, ChunkTypes
  <2> HIDE DEF j
  <2>3. ASSUME NEW n \in DOMAIN j PROVE j[n].first <= UnitsUpTo[block] - p
    <3>1. CASE n \in DOMAIN c BY <1>0, <2>2, <3>1
    <3>2. CASE n - Len(c) \in DOMAIN w
      <4>1. Len(c) + (n - Len(c)) = n BY <2>2
      <4>2. j[n] = w[n - Len(c)] BY <2>2, <3>2, <4>1
      <4> QED BY <1>0, <3>2, <4>2
    <3> QED BY <2>2, <3>1, <3>2
  <2> QED BY <2>1, <2>2, <2>3 DEF j
<1>6. Behind'
  BY <1>1, <1>2, <1>3, <1>5 DEF Behind
<1>7. ASSUME NEW i \in Through', ~Swallowed(i)', NEW u \in (FirstUnit(i)..LastUnit(i))'
      PROVE  u > UnitsUpTo[block] - p \/ In(chunks', i, u)
  <2>1. /\ ~Swallowed(i) /\ u \in FirstUnit(i)..LastUnit(i)
    BY <1>1, <1>2, <1>7 DEF Swallowed, FirstUnit, LastUnit
  <2>2. i \in Through \/ i = block BY <1>1, <1>3 DEF Through
  <2>3. u > UnitsUpTo[block] - p \/ In(c, i, u) \/ In(w, i, u)
    BY <2>1, <2>2 DEF BlockEnds
  <2>4. In(c, i, u) \/ In(w, i, u) => In(c \o w, i, u) BY <1>0, JoinedIn
  <2> QED BY <2>3, <2>4
<1>8. NothingLost'
  <2>1. \A i, u : In(chunks', i, u) => In(chunks, i, u)'
    BY <1>1, <1>2 DEF In, FirstUnit, Units
  <2>2. LastUnit(block - 1)' = UnitsUpTo[block] BY <1>1, <1>2, <1>3 DEF LastUnit
  <2>3. InOrder(chunks)' BY <1>5 DEF InOrder
  <2>4. \A i \in Through' : ~Swallowed(i)' => \A u \in (FirstUnit(i)..LastUnit(i))' :
             u > LastUnit(block - 1)' - packed' \/ In(chunks, i, u)'
    BY <1>7, <2>1, <2>2
  <2> QED BY <2>3, <2>4 DEF NothingLost, In, InOrder
<1> QED BY <1>4, <1>6, <1>8 DEF CHInv

\* What is known of the chunks before the next step.
LEMMA Before ==
    ASSUME CHInv, ~done
    PROVE  /\ chunks \in Seq(ChunkRecord) /\ InOrder(chunks)
           /\ \A n \in DOMAIN chunks : /\ chunks[n].first \in Nat
                                       /\ chunks[n].first <= UnitsUpTo[block - 1] - packed
           /\ \A i \in Through : ~Swallowed(i) => \A u \in FirstUnit(i)..LastUnit(i) :
                  u > UnitsUpTo[block - 1] - packed \/ In(chunks, i, u)
<1>1. LastUnit(block - 1) = UnitsUpTo[block - 1] BY Bounds DEF CHInv
<1>2. chunks \in Seq(ChunkRecord) BY DEF CHInv, CHTypes
<1>3. \A n \in DOMAIN chunks : chunks[n].first \in Nat BY <1>2, ChunkTypes
<1> QED BY <1>1, <1>2, <1>3, LostAs DEF CHInv, Behind

\* A paragraph or slide is packed with those before it, or after a flush.
LEMMA PackInv ==
    ASSUME CHInv, ~done, block <= Len(text), strategy \in {"paragraph", "slide"},
           Pack, NextBlock
    PROVE  CHInv'
<1> DEFINE full == packed + Length(text[block]) > words
           L == UnitsUpTo[block - 1]
<1>0. CHTypes /\ block \in 1..Len(text)
  <2>1. CHTypes BY DEF CHInv
  <2>2. block \in 1..Len(text) + 1 /\ Len(text) \in Nat BY <2>1, Bounds DEF CHTypes
  <2> QED BY <2>1, <2>2
<1>1. /\ L \in Nat /\ packed \in Nat /\ packed <= L /\ Length(text[block]) \in Nat
      /\ UnitsUpTo[block] = L + Length(text[block])
  BY <1>0, Bounds
<1>2. \A u \in FirstUnit(block)..LastUnit(block) : u > L BY <1>0, Bounds
<1>3. <<>> \in Seq(ChunkRecord) /\ InOrder(<<>>) /\ DOMAIN <<>> = {} BY DEF InOrder
<1>4. ~(strategy \in {"markdown", "sheet_rows"}) OBVIOUS
<1>5. CASE full
  <2>1. chunks' = Flushed /\ packed' = 0 + Length(text[block]) BY <1>5 DEF Pack
  <2>2. packed' = Length(text[block]) /\ UnitsUpTo[block] - Length(text[block]) = L
    BY <1>1, <2>1
  <2>3. /\ Flushed \in Seq(ChunkRecord) /\ InOrder(Flushed)
        /\ \A n \in DOMAIN Flushed : Flushed[n].first <= L
        /\ \A i \in Through : ~Swallowed(i) =>
             \A u \in FirstUnit(i)..LastUnit(i) : In(Flushed, i, u)
    BY FlushedOk
  <2>4. chunks' = Flushed \o <<>> BY <2>1, <2>3, ConcatEmptySeq
  <2>5. BlockEnds(Flushed, <<>>, packed')
    BY <1>1, <1>2, <1>3, <1>4, <2>2, <2>3 DEF BlockEnds
  <2> QED BY <2>4, <2>5, BlockDone
<1>6. CASE ~full
  <2>1. chunks' = chunks /\ packed' = packed + Length(text[block]) BY <1>6 DEF Pack
  <2>2. UnitsUpTo[block] - packed' = L - packed /\ packed' \in Nat
        /\ packed' <= UnitsUpTo[block] /\ L - packed <= L
    BY <1>1, <2>1
  <2>3. /\ chunks \in Seq(ChunkRecord) /\ InOrder(chunks)
        /\ \A n \in DOMAIN chunks : /\ chunks[n].first \in Nat
                                    /\ chunks[n].first <= L - packed
        /\ \A i \in Through : ~Swallowed(i) => \A u \in FirstUnit(i)..LastUnit(i) :
               u > L - packed \/ In(chunks, i, u)
    BY Before
  <2>4. chunks' = chunks \o <<>> BY <2>1, <2>3, ConcatEmptySeq
  <2>5. \A u \in FirstUnit(block)..LastUnit(block) : u > L - packed
    BY <1>0, <1>1, <1>2, Bounds
  <2>6. BlockEnds(chunks, <<>>, packed')
    BY <1>3, <1>4, <2>2, <2>3, <2>5 DEF BlockEnds
  <2> QED BY <2>4, <2>6, BlockDone
<1> QED BY <1>5, <1>6

\* A step that emits w for the next block after what c has of those before.
LEMMA EmitInv ==
    ASSUME CHInv, ~done, block <= Len(text), NextBlock, packed' = 0,
           NEW c, c = Flushed \/ (packed = 0 /\ c = chunks),
           NEW w \in Seq(ChunkRecord), chunks' = c \o w, InOrder(w),
           \A k \in DOMAIN w : /\ UnitsUpTo[block - 1] < w[k].first
                               /\ w[k].first <= UnitsUpTo[block],
           ~Swallowed(block) =>
             \A u \in FirstUnit(block)..LastUnit(block) : In(w, block, u)
    PROVE  CHInv'
<1> DEFINE L == UnitsUpTo[block - 1]
<1>0. CHTypes /\ block \in 1..Len(text)
  <2>1. CHTypes BY DEF CHInv
  <2>2. block \in 1..Len(text) + 1 /\ Len(text) \in Nat BY <2>1, Bounds DEF CHTypes
  <2> QED BY <2>1, <2>2
<1>1. /\ L \in Nat /\ L - 0 = L /\ UnitsUpTo[block] \in Nat /\ L <= UnitsUpTo[block]
      /\ UnitsUpTo[block] - 0 = UnitsUpTo[block]
  BY <1>0, Bounds
<1>2. Flushed = chunks \/ c = Flushed
  BY DEF Flushed
<1>3. c = Flushed BY <1>2 DEF Flushed
<1>4. /\ c \in Seq(ChunkRecord) /\ InOrder(c)
      /\ \A n \in DOMAIN c : c[n].first <= L
      /\ \A i \in Through : ~Swallowed(i) =>
             \A u \in FirstUnit(i)..LastUnit(i) : In(c, i, u)
  BY <1>3, FlushedOk
<1>5. \A n \in DOMAIN c : c[n].first \in Nat BY <1>4, ChunkTypes
<1>6. \A k \in DOMAIN w : w[k].first \in Nat BY ChunkTypes
<1>7. \A n \in DOMAIN c, k \in DOMAIN w : c[n].first < w[k].first
  BY <1>1, <1>4, <1>5, <1>6
<1>8. \A n \in DOMAIN c : c[n].first <= UnitsUpTo[block] BY <1>1, <1>4, <1>5
<1>9. BlockEnds(c, w, 0) BY <1>1, <1>4, <1>7, <1>8 DEF BlockEnds
<1> QED BY <1>9, BlockDone

\* The windows of the next block, from unit first of it on.
LEMMA WindowsInOrder ==
    ASSUME NEW w \in Seq(ChunkRecord), NEW step \in Nat \ {0},
           \A k \in DOMAIN w : k > 1 => w[k].first = w[k - 1].first + step
    PROVE  InOrder(w)
<1>1. Len(w) \in Nat /\ DOMAIN w = 1..Len(w) /\ \A k \in DOMAIN w : w[k].first \in Nat
  BY ChunkTypes
<1>2. ASSUME NEW k \in DOMAIN w, k > 1 PROVE w[k - 1].first < w[k].first
  <2>1. k - 1 \in DOMAIN w BY <1>1, <1>2
  <2>2. w[k - 1].first \in Nat /\ w[k].first = w[k - 1].first + step BY <1>1, <1>2, <2>1
  <2> QED BY <2>2
<1> QED BY <1>2 DEF InOrder

\* A paragraph that is too long: what waits goes out, then its windows.
LEMMA WindowParagraphInv == ASSUME CHInv, WindowParagraph PROVE CHInv'
<1>0. /\ CHTypes /\ block \in 1..Len(text) /\ strategy = "paragraph"
      /\ block <= Len(text) /\ NextBlock /\ packed' = 0
  <2>1. CHTypes /\ block <= Len(text) /\ strategy = "paragraph" /\ NextBlock /\ packed' = 0
    BY DEF CHInv, WindowParagraph, Working
  <2>2. block \in 1..Len(text) + 1 /\ Len(text) \in Nat BY <2>1, Bounds DEF CHTypes
  <2> QED BY <2>1, <2>2
<1>1. ~done BY <1>0 DEF CHTypes
<1> DEFINE first == FirstUnit(block)
           last == LastUnit(block)
           step == Max({1, words - overlap})
           w == Windowed(first, last, words, step, 0)
<1>2. /\ first = UnitsUpTo[block - 1] + 1 /\ last = UnitsUpTo[block]
      /\ UnitsUpTo[block - 1] \in Nat /\ last \in Nat /\ first <= last + 1
  BY <1>0, Bounds
<1>3. words \in Nat \ {0} /\ step \in 1..words /\ first \in Nat
  <2>1. words \in Nat /\ overlap \in Nat /\ overlap < words BY <1>0 DEF CHTypes
  <2>2. step = IF 1 >= words - overlap THEN 1 ELSE words - overlap BY <2>1, Max2
  <2> QED BY <1>2, <2>1, <2>2
<1>4. chunks' = Flushed \o w BY DEF WindowParagraph
<1> HIDE DEF step
<1>10. AreWindows(w, first, last, words, step, 0)
  <2> HIDE DEF first, last
  <2> QED BY <1>2, <1>3, Windows
<1> HIDE DEF w
<1>5. /\ w \in Seq(ChunkRecord)
      /\ \A k \in DOMAIN w :
           /\ first <= w[k].first /\ w[k].first <= w[k].last /\ w[k].last <= last
           /\ k > 1 => w[k].first = w[k - 1].first + step
      /\ \A u \in first..last : \E k \in DOMAIN w : u \in Units(w[k])
  BY <1>10 DEF AreWindows
<1>6. InOrder(w)
  <2>1. step \in Nat \ {0} BY <1>3
  <2> QED BY <1>5, <2>1, WindowsInOrder
<1>7. \A k \in DOMAIN w : w[k].first \in Nat /\ w[k].last \in Nat BY <1>5, ChunkTypes
<1>8. \A k \in DOMAIN w : UnitsUpTo[block - 1] < w[k].first /\ w[k].first <= UnitsUpTo[block]
  BY <1>2, <1>5, <1>7
<1>9. \A u \in FirstUnit(block)..LastUnit(block) : In(w, block, u) BY <1>5 DEF In
<1> HIDE DEF first, last
<1> QED BY <1>0, <1>1, <1>4, <1>5, <1>6, <1>8, <1>9, EmitInv

\* A sequence of one chunk.
LEMMA OneChunk ==
    ASSUME NEW a \in Nat, NEW b \in Nat, NEW d \in Nat, NEW w, w = <<Chunk(a, b, d)>>
    PROVE  /\ w \in Seq(ChunkRecord) /\ InOrder(w) /\ DOMAIN w = {1}
           /\ w[1].first = a /\ w[1].last = b /\ w[1].context = d
<1> DEFINE x == Chunk(a, b, d)
<1>1. x \in ChunkRecord /\ x.first = a /\ x.last = b /\ x.context = d BY ChunkFields
<1> HIDE DEF x
<1>2. <<x>> \in Seq(ChunkRecord) /\ DOMAIN <<x>> = {1} /\ <<x>>[1] = x BY <1>1
<1>3. InOrder(<<x>>) BY <1>2 DEF InOrder
<1> QED BY <1>1, <1>2, <1>3 DEF x

\* A section that fits.
LEMMA KeepSectionInv == ASSUME CHInv, KeepSection PROVE CHInv'
<1>0. /\ CHTypes /\ block \in 1..Len(text) /\ block <= Len(text) /\ NextBlock
      /\ packed = 0 /\ packed' = 0
  <2>1. /\ CHTypes /\ block <= Len(text) /\ strategy = "markdown" /\ NextBlock
        /\ packed' = packed
    BY DEF CHInv, KeepSection, Working
  <2>2. block \in 1..Len(text) + 1 /\ Len(text) \in Nat BY <2>1, Bounds DEF CHTypes
  <2> QED BY <2>1, <2>2 DEF CHTypes
<1>1. ~done BY <1>0 DEF CHTypes
<1> DEFINE first == FirstUnit(block)
           last == LastUnit(block)
           x == Chunk(first, last, 0)
           w == <<x>>
<1>2. /\ first = UnitsUpTo[block - 1] + 1 /\ last = UnitsUpTo[block]
      /\ UnitsUpTo[block - 1] \in Nat /\ last \in Nat /\ first <= last /\ first \in Nat
  BY <1>0, Bounds
<1>3. chunks \in Seq(ChunkRecord) BY <1>0 DEF CHTypes
<1>4. /\ w \in Seq(ChunkRecord) /\ InOrder(w) /\ DOMAIN w = {1}
      /\ w[1].first = first /\ w[1].last = last
  BY <1>2, OneChunk
<1>5. chunks' = chunks \o w
  <2>1. chunks' = Append(chunks, x) BY DEF KeepSection
  <2> QED BY <1>3, <2>1
<1> HIDE DEF w
<1>6. \A k \in DOMAIN w : UnitsUpTo[block - 1] < w[k].first /\ w[k].first <= UnitsUpTo[block]
  BY <1>2, <1>4
<1>7. \A u \in FirstUnit(block)..LastUnit(block) : In(w, block, u)
  BY <1>2, <1>4 DEF In, Units
<1> HIDE DEF first, last
<1> QED BY <1>0, <1>1, <1>4, <1>5, <1>6, <1>7, EmitInv

\* The numbers of the next block.
LEMMA AtBlock ==
    ASSUME CHTypes, block <= Len(text)
    PROVE  /\ block \in 1..Len(text) /\ ~done
           /\ FirstUnit(block) = UnitsUpTo[block - 1] + 1 /\ LastUnit(block) = UnitsUpTo[block]
           /\ UnitsUpTo[block - 1] \in Nat /\ UnitsUpTo[block] \in Nat
           /\ FirstUnit(block) \in Nat /\ LastUnit(block) \in Nat
           /\ text[block].head \in Nat /\ text[block].body \in Nat
           /\ Length(text[block]) = text[block].head + text[block].body
           /\ Length(text[block]) > 0
           /\ LastUnit(block) = UnitsUpTo[block - 1] + text[block].head + text[block].body
           /\ FirstUnit(block) + text[block].head <= LastUnit(block) + 1
           /\ FirstUnit(block) <= LastUnit(block)
<1>1. block \in 1..Len(text) + 1 /\ Len(text) \in Nat BY Bounds DEF CHTypes
<1>2. block \in 1..Len(text) /\ ~done BY <1>1 DEF CHTypes
<1> DEFINE L == UnitsUpTo[block - 1]
           M == UnitsUpTo[block]
           h == text[block].head
           b == text[block].body
<1>3. /\ FirstUnit(block) = L + 1 /\ LastUnit(block) = M /\ L \in Nat /\ M \in Nat
      /\ h \in Nat /\ b \in Nat /\ Length(text[block]) = h + b /\ Length(text[block]) > 0
      /\ M = L + Length(text[block])
  BY <1>2, Bounds, Zenon
<1> HIDE DEF L, M, h, b
<1>4. /\ FirstUnit(block) \in Nat /\ LastUnit(block) = L + h + b
      /\ FirstUnit(block) + h <= LastUnit(block) + 1 /\ FirstUnit(block) <= LastUnit(block)
  BY <1>3
<1> QED BY <1>2, <1>3, <1>4 DEF L, M, h, b

\* Windows of the units of a block after its first lie in it.
LEMMA WindowsInside ==
    ASSUME NEW w \in Seq(ChunkRecord), NEW l \in Nat, NEW first \in Nat, NEW last \in Nat,
           l < first,
           \A k \in DOMAIN w : first <= w[k].first /\ w[k].first <= w[k].last /\ w[k].last <= last
    PROVE  \A k \in DOMAIN w : l < w[k].first /\ w[k].first <= last
<1>1. \A k \in DOMAIN w : w[k].first \in Nat /\ w[k].last \in Nat BY ChunkTypes
<1> TAKE k \in DOMAIN w
<1>2. w[k].first \in Nat /\ w[k].last \in Nat /\ first <= w[k].first
      /\ w[k].first <= w[k].last /\ w[k].last <= last
  BY <1>1
<1> QED BY <1>2

\* The body of a long section in windows, each under the heading.
LEMMA WindowSectionInv == ASSUME CHInv, WindowSection PROVE CHInv'
<1>0. /\ CHTypes /\ block \in 1..Len(text) /\ strategy = "markdown"
      /\ block <= Len(text) /\ NextBlock /\ packed = 0 /\ packed' = 0
      /\ Length(text[block]) > words
  <2>1. /\ CHTypes /\ block <= Len(text) /\ strategy = "markdown" /\ NextBlock
        /\ packed' = packed /\ Length(text[block]) > words
    BY DEF CHInv, WindowSection, Working
  <2>2. block \in 1..Len(text) + 1 /\ Len(text) \in Nat BY <2>1, Bounds DEF CHTypes
  <2> QED BY <2>1, <2>2 DEF CHTypes
<1>1. ~done BY <1>0 DEF CHTypes
<1> DEFINE head == text[block].head
           from == FirstUnit(block)
           first == from + head
           last == LastUnit(block)
           size == Max({1, words - head})
           step == SectionStep(head)
           context == IF head = 0 THEN 0 ELSE from
           w == Windowed(first, last, size, step, context)
<1>2. /\ from = UnitsUpTo[block - 1] + 1 /\ last = UnitsUpTo[block]
      /\ UnitsUpTo[block - 1] \in Nat /\ last \in Nat /\ first <= last + 1
      /\ head \in Nat /\ from \in Nat /\ first \in Nat /\ context \in Nat
      /\ text[block].body \in Nat /\ last = UnitsUpTo[block - 1] + head + text[block].body
      /\ head + text[block].body > words
  <2>1. /\ from = UnitsUpTo[block - 1] + 1 /\ last = UnitsUpTo[block]
        /\ UnitsUpTo[block - 1] \in Nat /\ last \in Nat /\ from + head <= last + 1
        /\ head \in Nat /\ from \in Nat
        /\ text[block].body \in Nat /\ last = UnitsUpTo[block - 1] + head + text[block].body
        /\ head + text[block].body = Length(text[block])
    BY <1>0, AtBlock
  <2> HIDE DEF from, last, head
  <2>2. first \in Nat /\ context \in Nat BY <2>1
  <2>3. head + text[block].body > words BY <1>0, <2>1
  <2> QED BY <2>1, <2>2, <2>3
<1>3. size \in Nat \ {0} /\ step \in 1..size
  <2>1. words \in Nat /\ overlap \in Nat /\ overlap < words BY <1>0 DEF CHTypes
  <2>2. size = IF 1 >= words - head THEN 1 ELSE words - head BY <1>2, <2>1, Max2
  <2>3. size \in Nat \ {0} BY <1>2, <2>1, <2>2
  <2>4. step = Max({1, size - overlap}) BY DEF SectionStep
  <2> HIDE DEF size
  <2>5. step = IF 1 >= size - overlap THEN 1 ELSE size - overlap
    BY <2>1, <2>3, <2>4, Max2
  <2> QED BY <2>1, <2>3, <2>5
<1>4. chunks' = chunks \o w BY DEF WindowSection
<1> HIDE DEF step, size
<1>5. AreWindows(w, first, last, size, step, context)
  <2> HIDE DEF first, last, context
  <2> QED BY <1>2, <1>3, Windows
<1> HIDE DEF w
<1>6. /\ w \in Seq(ChunkRecord)
      /\ \A k \in DOMAIN w :
           /\ w[k].context = context
           /\ first <= w[k].first /\ w[k].first <= w[k].last /\ w[k].last <= last
           /\ k > 1 => w[k].first = w[k - 1].first + step
      /\ \A u \in first..last : \E k \in DOMAIN w : u \in Units(w[k])
  BY <1>5 DEF AreWindows
<1>7. InOrder(w)
  <2>1. step \in Nat \ {0} BY <1>3
  <2> QED BY <1>6, <2>1, WindowsInOrder
<1>9. \A k \in DOMAIN w : UnitsUpTo[block - 1] < w[k].first /\ w[k].first <= UnitsUpTo[block]
  <2> HIDE DEF from, last, head
  <2>1. UnitsUpTo[block - 1] < first BY <1>2
  <2>2. \A k \in DOMAIN w : UnitsUpTo[block - 1] < w[k].first /\ w[k].first <= last
    <3> HIDE DEF first
    <3> QED BY <1>2, <1>6, <2>1, WindowsInside
  <2> QED BY <1>2, <2>2
<1>10. ASSUME ~Swallowed(block), NEW u \in FirstUnit(block)..LastUnit(block)
       PROVE  In(w, block, u)
  <2>1. text[block].body > 0 BY <1>0, <1>2, <1>10 DEF Swallowed
  <2>2. last \in first..last BY <1>2, <2>1
  <2>3. u \in Int /\ from <= u /\ u <= last BY <1>2
  <2>4. CASE first <= u
    <3>1. u \in first..last BY <1>2, <2>3, <2>4
    <3> QED BY <1>6, <3>1 DEF In
  <2>5. CASE u < first
    <3>1. head # 0 BY <1>2, <2>3, <2>5
    <3>2. PICK k \in DOMAIN w : w[k].context = context BY <1>6, <2>2
    <3>3. w[k].context = FirstUnit(block) BY <3>1, <3>2
    <3> QED BY <2>5, <3>3 DEF In
  <2> QED BY <1>2, <2>3, <2>4, <2>5
<1> HIDE DEF first, last, head, from, context
<1> QED BY <1>0, <1>1, <1>4, <1>6, <1>7, <1>9, <1>10, EmitInv

\* The rows of a table in groups, each under the header row.
LEMMA GroupRowsInv == ASSUME CHInv, GroupRows PROVE CHInv'
<1>0. /\ CHTypes /\ block \in 1..Len(text) /\ block <= Len(text) /\ NextBlock
      /\ packed = 0 /\ packed' = 0 /\ text[block].head = 1
  <2>1. /\ CHTypes /\ block <= Len(text) /\ strategy = "sheet_rows" /\ NextBlock
        /\ packed' = packed
    BY DEF CHInv, GroupRows, Working
  <2>2. block \in 1..Len(text) + 1 /\ Len(text) \in Nat BY <2>1, Bounds DEF CHTypes
  <2> QED BY <2>1, <2>2 DEF CHTypes, HeadsOk
<1>1. ~done BY <1>0 DEF CHTypes
<1> DEFINE from == FirstUnit(block)
           first == from + 1
           last == LastUnit(block)
<1>2. /\ from = UnitsUpTo[block - 1] + 1 /\ last = UnitsUpTo[block]
      /\ UnitsUpTo[block - 1] \in Nat /\ last \in Nat /\ first <= last + 1
      /\ from \in Nat /\ first \in Nat /\ from <= last
      /\ text[block].body \in Nat /\ last = UnitsUpTo[block - 1] + 1 + text[block].body
  <2>1. /\ from = UnitsUpTo[block - 1] + 1 /\ last = UnitsUpTo[block]
        /\ UnitsUpTo[block - 1] \in Nat /\ last \in Nat /\ from + text[block].head <= last + 1
        /\ from \in Nat /\ from <= last /\ text[block].body \in Nat
        /\ last = UnitsUpTo[block - 1] + text[block].head + text[block].body
    BY <1>0, AtBlock
  <2> HIDE DEF from, last
  <2> QED BY <1>0, <2>1
<1>3. words \in Nat \ {0} /\ words \in 1..words BY <1>0 DEF CHTypes
<1>4. chunks \in Seq(ChunkRecord) BY <1>0 DEF CHTypes
<1>5. CASE text[block].body = 0
  <2> DEFINE w == <<Chunk(from, last, 0)>>
  <2>1. chunks' = chunks \o w BY <1>5 DEF GroupRows
  <2>2. /\ w \in Seq(ChunkRecord) /\ InOrder(w) /\ DOMAIN w = {1}
        /\ w[1].first = from /\ w[1].last = last
    <3> HIDE DEF from, last
    <3>1. from \in Nat /\ last \in Nat /\ 0 \in Nat BY <1>2
    <3> QED BY <3>1, OneChunk
  <2> HIDE DEF w
  <2>3. \A k \in DOMAIN w : UnitsUpTo[block - 1] < w[k].first /\ w[k].first <= UnitsUpTo[block]
    BY <1>2, <2>2
  <2>4. \A u \in FirstUnit(block)..LastUnit(block) : In(w, block, u)
    BY <1>2, <2>2 DEF In, Units
  <2> HIDE DEF from, first, last
  <2> QED BY <1>0, <1>1, <2>1, <2>2, <2>3, <2>4, EmitInv
<1>6. CASE text[block].body # 0
  <2> DEFINE w == Windowed(first, last, words, words, from)
  <2>1. chunks' = chunks \o w BY <1>6 DEF GroupRows
  <2>2. AreWindows(w, first, last, words, words, from)
    <3> HIDE DEF first, last, from
    <3> QED BY <1>2, <1>3, Windows
  <2> HIDE DEF w
  <2>3. /\ w \in Seq(ChunkRecord)
        /\ \A k \in DOMAIN w :
             /\ w[k].context = from
             /\ first <= w[k].first /\ w[k].first <= w[k].last /\ w[k].last <= last
             /\ k > 1 => w[k].first = w[k - 1].first + words
        /\ \A u \in first..last : \E k \in DOMAIN w : u \in Units(w[k])
    BY <2>2 DEF AreWindows
  <2>4. InOrder(w) BY <1>3, <2>3, WindowsInOrder
  <2>6. \A k \in DOMAIN w : UnitsUpTo[block - 1] < w[k].first /\ w[k].first <= UnitsUpTo[block]
    <3> HIDE DEF from, last
    <3>1. UnitsUpTo[block - 1] < first BY <1>2
    <3>2. \A k \in DOMAIN w : UnitsUpTo[block - 1] < w[k].first /\ w[k].first <= last
      <4> HIDE DEF first
      <4> QED BY <1>2, <2>3, <3>1, WindowsInside
    <3> QED BY <1>2, <3>2
  <2>7. ASSUME NEW u \in FirstUnit(block)..LastUnit(block) PROVE In(w, block, u)
    <3>1. last \in first..last BY <1>2, <1>6
    <3>2. u \in Int /\ from <= u /\ u <= last BY <1>2
    <3>3. CASE first <= u
      <4>1. u \in first..last BY <1>2, <3>2, <3>3
      <4> QED BY <2>3, <4>1 DEF In
    <3>4. CASE u < first
      <4>1. PICK k \in DOMAIN w : w[k].context = from BY <2>3, <3>1
      <4>2. u < FirstUnit(block) + text[block].head BY <1>0, <3>4
      <4> QED BY <4>1, <4>2 DEF In
    <3> QED BY <1>2, <3>2, <3>3, <3>4
  <2> HIDE DEF from, first, last
  <2> QED BY <1>0, <1>1, <2>1, <2>3, <2>4, <2>6, <2>7, EmitInv
<1> QED BY <1>5, <1>6

\* A text is over: what is packed goes out, or the whole text is windowed.
LEMMA ReturnInv == ASSUME CHInv, Return PROVE CHInv'
<1>0. /\ CHTypes /\ block = Len(text) + 1 /\ ~done /\ done' = TRUE /\ packed' = 0
      /\ UNCHANGED <<strategy, words, overlap, text, block>>
      /\ chunks' = IF strategy = "markdown" /\ chunks = <<>>
                 THEN Windowed(1, LastUnit(block - 1), words, Max({1, words - overlap}), 0)
                 ELSE Flushed
  BY DEF CHInv, Return
<1> DEFINE last == LastUnit(block - 1)
<1>1. UnitsUpTo' = UnitsUpTo BY <1>0, UnitsStay
<1>2. /\ last \in Nat /\ UnitsUpTo[block - 1] = last
      /\ \A i \in 1..Len(text) : FirstUnit(i) >= 1 /\ FirstUnit(i) \in Nat /\ LastUnit(i) \in Nat
      /\ \A i \in Through : i \in 1..Len(text) /\ LastUnit(i) <= last
  <2>1. /\ last \in Nat /\ UnitsUpTo[block - 1] = last
        /\ \A i \in Through : i \in 1..Len(text) /\ UnitsUpTo[i] <= last
    BY <1>0, Bounds
  <2>2. ASSUME NEW i \in 1..Len(text)
        PROVE  FirstUnit(i) >= 1 /\ FirstUnit(i) \in Nat /\ LastUnit(i) \in Nat
               /\ LastUnit(i) = UnitsUpTo[i]
    <3>1. /\ FirstUnit(i) = UnitsUpTo[i - 1] + 1 /\ LastUnit(i) = UnitsUpTo[i]
          /\ UnitsUpTo[i - 1] \in Nat /\ UnitsUpTo[i] \in Nat
      BY <1>0, Bounds
    <3> QED BY <3>1
  <2> HIDE DEF last
  <2> QED BY <2>1, <2>2
<1>3. /\ chunks' \in Seq(ChunkRecord) /\ InOrder(chunks')
      /\ \A i \in Through : ~Swallowed(i) =>
           \A u \in FirstUnit(i)..LastUnit(i) : In(chunks', i, u)
  <2>1. CASE strategy = "markdown" /\ chunks = <<>>
    <3> DEFINE step == Max({1, words - overlap})
               w == Windowed(1, last, words, step, 0)
    <3>1. chunks' = w BY <1>0, <2>1
    <3>2. words \in Nat \ {0} /\ step \in Nat \ {0} /\ step \in 1..words
      <4>1. words \in Nat /\ overlap \in Nat /\ overlap < words BY <1>0 DEF CHTypes
      <4>2. step = IF 1 >= words - overlap THEN 1 ELSE words - overlap BY <4>1, Max2
      <4> QED BY <4>1, <4>2
    <3> HIDE DEF step
    <3>3. AreWindows(w, 1, last, words, step, 0)
      <4>1. 1 \in Nat /\ 0 \in Nat /\ 1 <= last + 1 BY <1>2
      <4> HIDE DEF last
      <4> QED BY <1>2, <3>2, <4>1, Windows
    <3> HIDE DEF w
    <3>4. /\ w \in Seq(ChunkRecord)
          /\ \A k \in DOMAIN w : k > 1 => w[k].first = w[k - 1].first + step
          /\ \A u \in 1..last : \E k \in DOMAIN w : u \in Units(w[k])
      BY <3>3 DEF AreWindows
    <3>5. InOrder(w) BY <3>2, <3>4, WindowsInOrder
    <3>6. ASSUME NEW i \in Through, NEW u \in FirstUnit(i)..LastUnit(i) PROVE In(w, i, u)
      <4>1. FirstUnit(i) >= 1 /\ FirstUnit(i) \in Nat /\ LastUnit(i) \in Nat /\ LastUnit(i) <= last
        BY <1>2
      <4>2. u \in 1..last BY <1>2, <4>1
      <4> QED BY <3>4, <4>2 DEF In
    <3> QED BY <3>1, <3>4, <3>5, <3>6
  <2>2. CASE ~(strategy = "markdown" /\ chunks = <<>>)
    <3>1. chunks' = Flushed BY <1>0, <2>2
    <3> QED BY <1>0, <3>1, FlushedOk
  <2> QED BY <2>1, <2>2
<1>4. CHTypes'
  <2>1. TextOk' /\ HeadsOk' BY <1>0 DEF CHTypes, TextOk, HeadsOk, Length
  <2>2. packed' \in 0..UnitsUpTo'[block' - 1] BY <1>0, <1>1, <1>2
  <2> QED BY <1>0, <1>1, <1>3, <2>1, <2>2 DEF CHTypes, ChunkRecord
<1>5. Behind' BY <1>0 DEF Behind
<1>6. NothingLost'
  <2>1. \A i, u : In(chunks', i, u) => In(chunks, i, u)'
    BY <1>0, <1>1 DEF In, FirstUnit, Units
  <2>2. InOrder(chunks)' BY <1>3 DEF InOrder
  <2>3. ASSUME NEW i \in Through', ~Swallowed(i)', NEW u \in (FirstUnit(i)..LastUnit(i))'
        PROVE  In(chunks', i, u)
    <3>1. i \in Through /\ ~Swallowed(i) /\ u \in FirstUnit(i)..LastUnit(i)
      BY <1>0, <1>1, <2>3 DEF Through, Swallowed, FirstUnit, LastUnit
    <3> QED BY <1>3, <3>1
  <2> QED BY <2>1, <2>2, <2>3 DEF NothingLost, In, InOrder
<1> QED BY <1>4, <1>5, <1>6 DEF CHInv

\* Every step keeps the invariant.
LEMMA CHNextInv == CHInv /\ [CHNext]_chVars => CHInv'
<1> SUFFICES ASSUME CHInv, [CHNext]_chVars PROVE CHInv' OBVIOUS
<1>1. ASSUME strategy \in {"paragraph", "slide"}, block <= Len(text), Pack, NextBlock
      PROVE  CHInv'
  <2>1. /\ block \in 1..Len(text) + 1 /\ Len(text) \in Nat /\ done \in BOOLEAN
        /\ done => block = Len(text) + 1
    BY Bounds DEF CHInv, CHTypes
  <2>2. ~done BY <1>1, <2>1
  <2> QED BY <1>1, <2>2, PackInv
<1>2. CASE PackParagraph BY <1>1, <1>2 DEF PackParagraph, Working
<1>3. CASE PackSlide BY <1>1, <1>3 DEF PackSlide, Working
<1>4. CASE UNCHANGED chVars
  <2>1. UnitsUpTo' = UnitsUpTo BY <1>4, UnitsStay DEF chVars
  <2>2. UNCHANGED <<strategy, words, overlap, text, block, packed, chunks, done>>
    BY <1>4 DEF chVars
  <2>3. CHTypes'
    BY <2>1, <2>2 DEF CHInv, CHTypes, TextOk, HeadsOk, Length, ChunkRecord
  <2>4. Behind' BY <2>1, <2>2 DEF CHInv, Behind
  <2>5. NothingLost'
    <3>1. \A i, u : In(chunks, i, u) => In(chunks, i, u)'
      BY <2>1, <2>2 DEF In, FirstUnit, Units
    <3>2. InOrder(chunks)' BY <2>2, LostAs DEF CHInv, InOrder
    <3>3. ASSUME NEW i \in Through', ~Swallowed(i)', NEW u \in (FirstUnit(i)..LastUnit(i))'
          PROVE  u > LastUnit(block - 1)' - packed' \/ In(chunks, i, u)'
      <4>1. i \in Through /\ ~Swallowed(i) /\ u \in FirstUnit(i)..LastUnit(i)
        BY <2>1, <2>2, <3>3 DEF Through, Swallowed, FirstUnit, LastUnit
      <4>2. u > LastUnit(block - 1) - packed \/ In(chunks, i, u) BY <4>1, LostAs DEF CHInv
      <4>3. LastUnit(block - 1)' = LastUnit(block - 1) /\ packed' = packed
        BY <2>1, <2>2 DEF LastUnit
      <4> QED BY <3>1, <4>2, <4>3
    <3> QED BY <3>2, <3>3 DEF NothingLost, In, InOrder
  <2> QED BY <2>3, <2>4, <2>5 DEF CHInv
<1> QED BY <1>2, <1>3, <1>4, WindowParagraphInv, KeepSectionInv, WindowSectionInv,
           GroupRowsInv, ReturnInv DEF CHNext

(* No word and no row of a text is lost, and chunks come in reading order, *)
(* for any text, budget and overlap (markdown.py:47-54,                    *)
(* paragraph.py:10-14, sheet.py:41-48).                                    *)
THEOREM NothingIsLost == CHSpec => []NothingLost
<1>1. CHInv => NothingLost BY DEF CHInv
<1> QED BY CHInitInv, CHNextInv, <1>1, PTL DEF CHSpec

-----------------------------------------------------------------------------
(* ChunksFit.  Its operators again, of a record of what no step changes,   *)
(* so that their values carry over from a state to the next.               *)
View == [strategy |-> strategy, words |-> words, overlap |-> overlap, text |-> text,
         units |-> UnitsUpTo]

\* BlockOf, ChunkSize, Budget and Whole.
Home(v, u) == CHOOSE i \in DOMAIN v.text : v.units[i - 1] + 1 <= u /\ u <= v.units[i]
Size(v, c) ==
    Cardinality(Units(c)) + IF c.context = 0 THEN 0 ELSE v.text[Home(v, c.first)].head
Limit(v, b) == CASE v.strategy = "markdown" -> Max({v.words, v.text[b].head + 1})
                 [] v.strategy = "sheet_rows" -> v.words + 1
                 [] OTHER -> v.words
Entire(v, c) == /\ v.units[Home(v, c.first) - 1] + 1 = c.first
                /\ v.units[Home(v, c.last)] = c.last

\* The parts of BudgetIsKept and CutsKeepContext, of a chunk c that begins in
\* block b and the chunk a before it.
Fits(v, c) == \/ Size(v, c) <= Limit(v, Home(v, c.first))
              \/ v.strategy = "slide" /\ Home(v, c.first) = Home(v, c.last)
Headed(v, c, b) ==
    c.first > v.units[b - 1] + 1 /\ v.text[b].head > 0 => c.context = v.units[b - 1] + 1
Cut(v, c, b) == v.strategy # "sheet_rows" /\ c.first > v.units[b - 1] + 1 + v.text[b].head
Repeats(v, a, c, b) ==
    /\ Home(v, a.first) = b
    /\ a.last < v.units[b] =>
         a.last - c.first + 1 = Min({v.overlap, Max({1, v.words - v.text[b].head}) - 1})
Packable(v) == v.strategy \in {"paragraph", "slide"}
Tight(v, a, c) ==
    Packable(v) /\ Entire(v, a) /\ Entire(v, c) =>
        Size(v, a) + Length(v.text[Home(v, c.first)]) > v.words

\* A sequence of chunks fits: each its budget, each cut with its context.
AllFit(v, s) ==
    \A n \in DOMAIN s :
        /\ Fits(v, s[n]) /\ Headed(v, s[n], Home(v, s[n].first))
        /\ Cut(v, s[n], Home(v, s[n].first)) =>
             n > 1 /\ Repeats(v, s[n - 1], s[n], Home(v, s[n].first))
        /\ n > 1 => Tight(v, s[n - 1], s[n])

\* What is known of the blocks of a text and of the options.
Shape(v) ==
    /\ v.strategy \in Strategies
    /\ v.words \in Nat \ {0} /\ v.overlap \in Nat /\ v.overlap < v.words
    /\ Len(v.text) \in Nat \ {0} /\ DOMAIN v.text = 1..Len(v.text)
    /\ v.units[0] = 0
    /\ \A i \in 0..Len(v.text) : v.units[i] \in Nat
    /\ \A i, j \in 0..Len(v.text) : i <= j => v.units[i] <= v.units[j]
    /\ \A i \in 1..Len(v.text) :
         /\ v.units[i - 1] \in Nat /\ v.units[i] = v.units[i - 1] + Length(v.text[i])
         /\ v.text[i].head \in Nat /\ v.text[i].body \in Nat
         /\ Length(v.text[i]) = v.text[i].head + v.text[i].body
         /\ Length(v.text[i]) \in Nat /\ Length(v.text[i]) > 0
         /\ Packable(v) => v.text[i].head = 0
         /\ v.strategy = "sheet_rows" => v.text[i].head = 1

\* The fields of View, and what is known of them.
LEMMA ViewFields ==
    /\ View.strategy = strategy /\ View.words = words /\ View.overlap = overlap
    /\ View.text = text /\ View.units = UnitsUpTo
BY DEF View

\* A well-typed state has a view of that shape.
LEMMA ViewShape == ASSUME CHTypes PROVE Shape(View)
<1>1. /\ strategy \in Strategies /\ words \in Nat \ {0} /\ overlap \in Nat /\ overlap < words
      /\ TextOk /\ HeadsOk
  BY DEF CHTypes
<1>2. /\ Len(text) \in Nat \ {0} /\ DOMAIN text = 1..Len(text)
      /\ UnitsUpTo[0] = 0
      /\ \A i \in 0..Len(text) : UnitsUpTo[i] \in Nat
      /\ \A i, j \in 0..Len(text) : i <= j => UnitsUpTo[i] <= UnitsUpTo[j]
  BY <1>1, TextShape, UnitsGrow
<1>3. ASSUME NEW i \in 1..Len(text)
      PROVE  /\ UnitsUpTo[i - 1] \in Nat /\ UnitsUpTo[i] = UnitsUpTo[i - 1] + Length(text[i])
             /\ text[i].head \in Nat /\ text[i].body \in Nat
             /\ Length(text[i]) = text[i].head + text[i].body
             /\ Length(text[i]) \in Nat /\ Length(text[i]) > 0
             /\ strategy \in {"paragraph", "slide"} => text[i].head = 0
             /\ strategy = "sheet_rows" => text[i].head = 1
  <2>1. i - 1 \in 0..Len(text) BY <1>2
  <2>2. /\ UnitsUpTo[i] = UnitsUpTo[i - 1] + Length(text[i])
        /\ text[i].head \in Nat /\ text[i].body \in Nat
        /\ Length(text[i]) = text[i].head + text[i].body
        /\ Length(text[i]) \in Nat /\ Length(text[i]) > 0
    BY <1>1, TextShape, UnitsGrow
  <2> QED BY <1>1, <1>2, <2>1, <2>2 DEF HeadsOk
<1> QED BY <1>1, <1>2, <1>3, ViewFields DEF Shape, Packable

\* No step changes the view.
LEMMA ViewStays ==
    UNCHANGED <<strategy, words, overlap, text>> => View' = View
<1> SUFFICES ASSUME UNCHANGED <<strategy, words, overlap, text>> PROVE View' = View OBVIOUS
<1>1. UnitsUpTo' = UnitsUpTo BY UnitsStay
<1> QED BY <1>1 DEF View

\* The operators of ChunksFit are these, of the view.
LEMMA ViewSame ==
    /\ \A u : BlockOf(u) = Home(View, u)
    /\ \A c : ChunkSize(c) = Size(View, c)
    /\ \A c : Budget(c) = Limit(View, Home(View, c.first))
    /\ \A c : Whole(c) <=> Entire(View, c)
<1>1. ASSUME NEW u PROVE BlockOf(u) = Home(View, u)
  BY ViewFields DEF BlockOf, Home, FirstUnit, LastUnit
<1>2. ASSUME NEW c PROVE ChunkSize(c) = Size(View, c) BY <1>1, ViewFields DEF ChunkSize, Size
<1>3. ASSUME NEW c PROVE Budget(c) = Limit(View, Home(View, c.first))
  BY <1>1, ViewFields DEF Budget, Limit
<1>4. ASSUME NEW c PROVE Whole(c) <=> Entire(View, c)
  BY <1>1, ViewFields DEF Whole, Entire, FirstUnit, LastUnit
<1> QED BY <1>1, <1>2, <1>3, <1>4

\* So are the parts of CutsKeepContext.
LEMMA HeadedSame ==
    ASSUME NEW c, NEW b
    PROVE  Headed(View, c, b) <=>
             (c.first > FirstUnit(b) /\ text[b].head > 0 => c.context = FirstUnit(b))
BY ViewFields, Zenon DEF Headed, FirstUnit

LEMMA CutSame ==
    ASSUME NEW c, NEW b
    PROVE  Cut(View, c, b) <=>
             (strategy # "sheet_rows" /\ c.first > FirstUnit(b) + text[b].head)
BY ViewFields, Zenon DEF Cut, FirstUnit

LEMMA RepeatsSame ==
    ASSUME NEW a, NEW c, NEW b
    PROVE  Repeats(View, a, c, b) <=>
             /\ BlockOf(a.first) = b
             /\ a.last < LastUnit(b) =>
                  a.last - c.first + 1 = Min({overlap, Max({1, words - text[b].head}) - 1})
BY ViewFields, ViewSame, Zenon DEF Repeats, LastUnit

\* AllFit says all that ChunksFit does.
LEMMA BudgetFits ==
    ASSUME \A n \in DOMAIN chunks : Fits(View, chunks[n]),
           \A n \in DOMAIN chunks : n > 1 => Tight(View, chunks[n - 1], chunks[n])
    PROVE  BudgetIsKept
<1>1. \A n \in DOMAIN chunks : ChunkSize(chunks[n]) <= Budget(chunks[n])
                               \/ (strategy = "slide" /\ OneBlock(chunks[n]))
  BY ViewSame, ViewFields DEF Fits, OneBlock
<1>2. strategy \in {"paragraph", "slide"} =>
         \A n \in DOMAIN chunks : n > 1 /\ Whole(chunks[n - 1]) /\ Whole(chunks[n]) =>
             ChunkSize(chunks[n - 1]) + Length(text[BlockOf(chunks[n].first)]) > words
  BY ViewSame, ViewFields DEF Tight, Packable
<1> QED BY <1>1, <1>2 DEF BudgetIsKept

LEMMA AllFitFits == ASSUME AllFit(View, chunks) PROVE ChunksFit
<1>1. BudgetIsKept BY BudgetFits DEF AllFit
<1>2. ASSUME NEW n \in DOMAIN chunks
      PROVE LET c == chunks[n]
                b == BlockOf(c.first)
                cut == FirstUnit(b) + text[b].head
                room == Max({1, words - text[b].head})
            IN c.first > FirstUnit(b) =>
                /\ text[b].head > 0 => c.context = FirstUnit(b)
                /\ c.first > cut /\ strategy # "sheet_rows" =>
                     /\ n > 1 /\ BlockOf(chunks[n - 1].first) = b
                     /\ chunks[n - 1].last < LastUnit(b) =>
                          chunks[n - 1].last - c.first + 1 = Min({overlap, room - 1})
  <2> DEFINE c == chunks[n]
             b == BlockOf(c.first)
  <2>1. b = Home(View, c.first) BY ViewSame
  <2>2. /\ Headed(View, c, b)
        /\ Cut(View, c, b) => n > 1 /\ Repeats(View, chunks[n - 1], c, b)
    BY <2>1 DEF AllFit
  <2> HIDE DEF c, b
  <2>3. c.first > FirstUnit(b) /\ text[b].head > 0 => c.context = FirstUnit(b)
    BY <2>2, HeadedSame
  <2>4. c.first > FirstUnit(b) + text[b].head /\ strategy # "sheet_rows" =>
             /\ n > 1 /\ BlockOf(chunks[n - 1].first) = b
             /\ chunks[n - 1].last < LastUnit(b) =>
                  chunks[n - 1].last - c.first + 1
                      = Min({overlap, Max({1, words - text[b].head}) - 1})
    <3>1. Cut(View, c, b) <=>
             (strategy # "sheet_rows" /\ c.first > FirstUnit(b) + text[b].head)
      BY CutSame
    <3> DEFINE a == chunks[n - 1]
    <3>2. Repeats(View, a, c, b) <=>
             /\ BlockOf(a.first) = b
             /\ a.last < LastUnit(b) =>
                  a.last - c.first + 1 = Min({overlap, Max({1, words - text[b].head}) - 1})
      BY RepeatsSame
    <3> QED BY <2>2, <3>1, <3>2
  <2> QED BY <2>3, <2>4 DEF c, b
<1>3. CutsKeepContext BY <1>2 DEF CutsKeepContext
<1> QED BY <1>1, <1>3 DEF ChunksFit

-----------------------------------------------------------------------------
\* A unit is at home in the one block it is a unit of, and every unit has one.
LEMMA HomeIs ==
    ASSUME NEW v, Shape(v), NEW i \in 1..Len(v.text), NEW u \in Int,
           v.units[i - 1] < u, u <= v.units[i]
    PROVE  Home(v, u) = i
<1>1. Len(v.text) \in Nat /\ DOMAIN v.text = 1..Len(v.text) BY DEF Shape
<1>2. i \in DOMAIN v.text /\ v.units[i - 1] + 1 <= u /\ u <= v.units[i]
  <2>1. v.units[i - 1] \in Nat BY DEF Shape
  <2> QED BY <1>1, <2>1
<1>3. ASSUME NEW j \in DOMAIN v.text, v.units[j - 1] + 1 <= u, u <= v.units[j], j # i
      PROVE  FALSE
  <2>1. /\ j \in 1..Len(v.text) /\ i - 1 \in 0..Len(v.text) /\ j - 1 \in 0..Len(v.text)
        /\ i \in 0..Len(v.text) /\ j \in 0..Len(v.text)
    BY <1>1, <1>3
  <2>2. /\ v.units[i - 1] \in Nat /\ v.units[j - 1] \in Nat
        /\ v.units[i] \in Nat /\ v.units[j] \in Nat
    BY <2>1 DEF Shape
  <2>3. CASE j < i
    <3>1. j <= i - 1 BY <1>1, <2>1, <2>3
    <3>2. v.units[j] <= v.units[i - 1] BY <2>1, <3>1 DEF Shape
    <3> QED BY <1>2, <1>3, <2>2, <3>2
  <2>4. CASE i < j
    <3>1. i <= j - 1 BY <1>1, <2>1, <2>4
    <3>2. v.units[i] <= v.units[j - 1] BY <2>1, <3>1 DEF Shape
    <3> QED BY <1>2, <1>3, <2>2, <3>2
  <2> QED BY <1>1, <1>3, <2>1, <2>3, <2>4
<1>4. \A j \in DOMAIN v.text : v.units[j - 1] + 1 <= u /\ u <= v.units[j] => j = i
  BY <1>3
<1> QED BY <1>2, <1>4 DEF Home

LEMMA HomeExists ==
    ASSUME NEW v, Shape(v), NEW u \in Nat, 1 <= u, u <= v.units[Len(v.text)]
    PROVE  Home(v, u) \in 1..Len(v.text)
<1>1. /\ Len(v.text) \in Nat /\ v.units[0] = 0
      /\ \A i \in 0..Len(v.text) : v.units[i] \in Nat
  BY DEF Shape
<1> DEFINE S == {i \in 0..Len(v.text) : u <= v.units[i]}
<1>2. S \in SUBSET Nat /\ Len(v.text) \in S BY <1>1
<1> HIDE DEF S
<1>3. PICK i \in S : \A j \in S : i <= j
  <2>1. S # {} BY <1>2
  <2> QED BY <1>2, <2>1, Least
<1>4. i \in 1..Len(v.text) /\ i - 1 \in 0..Len(v.text) /\ u <= v.units[i]
  <2>1. i \in 0..Len(v.text) /\ u <= v.units[i] BY DEF S
  <2>2. i # 0 BY <1>1, <2>1
  <2> QED BY <1>1, <2>1, <2>2
<1>5. v.units[i - 1] < u
  <2>1. i - 1 \notin S BY <1>2, <1>3, <1>4
  <2> QED BY <1>1, <1>4, <2>1 DEF S
<1>6. Home(v, u) = i BY <1>4, <1>5, HomeIs
<1> QED BY <1>4, <1>6

\* The size of a chunk, counted.
LEMMA SizeIs ==
    ASSUME NEW v, NEW c \in ChunkRecord, c.first <= c.last
    PROVE  Size(v, c) = (c.last - c.first + 1)
                        + IF c.context = 0 THEN 0 ELSE v.text[Home(v, c.first)].head
<1>1. c.first \in Int /\ c.last \in Int BY DEF ChunkRecord
<1>2. Cardinality(c.first..c.last) = c.last - c.first + 1 BY <1>1, FS_Interval
<1> QED BY <1>2 DEF Size, Units

\* Two sequences that fit, fit together when their neighbours do.
LEMMA JoinedFit ==
    ASSUME NEW v, NEW c \in Seq(ChunkRecord), NEW w \in Seq(ChunkRecord),
           AllFit(v, c), AllFit(v, w),
           c # <<>> /\ w # <<>> => Tight(v, c[Len(c)], w[1])
    PROVE  AllFit(v, c \o w)
<1> DEFINE j == c \o w
<1>1. /\ j \in Seq(ChunkRecord) /\ Len(j) = Len(c) + Len(w)
      /\ \A n \in DOMAIN c : n \in DOMAIN j /\ j[n] = c[n]
      /\ \A k \in DOMAIN w : Len(c) + k \in DOMAIN j /\ j[Len(c) + k] = w[k]
      /\ \A n \in DOMAIN j : n \in DOMAIN c \/ (n > Len(c) /\ n - Len(c) \in DOMAIN w)
  BY Joined
<1> HIDE DEF j
<1>2. /\ Len(c) \in Nat /\ DOMAIN c = 1..Len(c) /\ Len(w) \in Nat /\ DOMAIN w = 1..Len(w)
      /\ DOMAIN j = 1..Len(j)
  BY <1>1, ChunkTypes
<1> DEFINE Good(s, n) ==
             /\ Fits(v, s[n]) /\ Headed(v, s[n], Home(v, s[n].first))
             /\ Cut(v, s[n], Home(v, s[n].first)) =>
                  n > 1 /\ Repeats(v, s[n - 1], s[n], Home(v, s[n].first))
             /\ n > 1 => Tight(v, s[n - 1], s[n])
<1>3. /\ \A n \in DOMAIN c : Good(c, n)
      /\ \A n \in DOMAIN w : Good(w, n)
  BY DEF AllFit
<1>4. ASSUME NEW n \in DOMAIN j PROVE Good(j, n)
  <2>1. n \in Nat /\ n - 1 \in Nat BY <1>1, <1>2
  <2>2. CASE n \in DOMAIN c
    <3>1. j[n] = c[n] /\ Good(c, n) BY <1>1, <1>3, <2>2
    <3>2. n > 1 => j[n - 1] = c[n - 1]
      <4>1. n > 1 => n - 1 \in DOMAIN c BY <1>2, <2>1, <2>2
      <4> QED BY <1>1, <4>1
    <3> QED BY <2>1, <3>1, <3>2
  <2>3. CASE n > Len(c) /\ n - Len(c) \in DOMAIN w
    <3> DEFINE k == n - Len(c)
    <3>1. k \in DOMAIN w /\ Len(c) + k = n /\ k \in Nat BY <1>2, <2>1, <2>3
    <3>2. j[n] = w[k] /\ Good(w, k) BY <1>1, <1>3, <3>1
    <3>3. CASE k = 1
      <4>1. n = Len(c) + 1 BY <1>2, <2>1, <3>1, <3>3
      <4>2. ~Cut(v, j[n], Home(v, j[n].first)) BY <3>2, <3>3
      <4>3. n > 1 => Tight(v, j[n - 1], j[n])
        <5> SUFFICES ASSUME n > 1 PROVE Tight(v, j[n - 1], j[n]) OBVIOUS
        <5>1. n - 1 = Len(c) /\ n - 1 \in DOMAIN c BY <1>2, <4>1
        <5>2. j[n - 1] = c[Len(c)] BY <1>1, <5>1
        <5>3. c # <<>> /\ w # <<>> BY <1>2, <3>1, <5>1
        <5>4. j[n] = w[1] BY <3>2, <3>3
        <5> QED BY <5>2, <5>3, <5>4
      <4> QED BY <3>2, <4>2, <4>3
    <3>4. CASE k # 1
      <4>1. k - 1 \in DOMAIN w /\ k > 1 /\ Len(c) + (k - 1) = n - 1 /\ n > 1
        BY <1>2, <2>1, <3>1, <3>4
      <4>2. j[n - 1] = w[k - 1]
        <5>1. j[Len(c) + (k - 1)] = w[k - 1] BY <1>1, <4>1
        <5> QED BY <4>1, <5>1
      <4> HIDE DEF k
      <4> QED BY <3>2, <4>1, <4>2
    <3> QED BY <3>3, <3>4
  <2> QED BY <1>1, <2>2, <2>3
<1>5. AllFit(v, j) BY <1>4 DEF AllFit
<1> QED BY <1>5 DEF j

\* w cuts block i behind its heading: windows of size units, each of them
\* within the budget with what is repeated before it.
CutsBlock(v, i, w, size, step, context) ==
    LET from == v.units[i - 1] + 1
        head == v.text[i].head
    IN /\ AreWindows(w, from + head, v.units[i], size, step, context)
       /\ size \in Nat \ {0} /\ step \in 1..size
       /\ context \in {0, from} /\ (head > 0 => context = from)
       /\ size + (IF context = 0 THEN 0 ELSE head) <= Limit(v, i)
       /\ v.strategy # "sheet_rows" =>
            size - step = Min({v.overlap, Max({1, v.words - head}) - 1})
       /\ Packable(v) => size < Length(v.text[i])

\* Such windows fit, and none of them is a whole paragraph.
LEMMA WindowsFit ==
    ASSUME NEW v, Shape(v), NEW i \in 1..Len(v.text), NEW w, NEW size, NEW step, NEW context,
           CutsBlock(v, i, w, size, step, context)
    PROVE  /\ AllFit(v, w)
           /\ Packable(v) => \A k \in DOMAIN w : ~Entire(v, w[k])
<1> DEFINE from == v.units[i - 1] + 1
           head == v.text[i].head
           first == from + head
           last == v.units[i]
<1>1. /\ AreWindows(w, first, last, size, step, context)
      /\ size \in Nat \ {0} /\ step \in 1..size
      /\ context \in {0, from} /\ (head > 0 => context = from)
      /\ size + (IF context = 0 THEN 0 ELSE head) <= Limit(v, i)
      /\ v.strategy # "sheet_rows" =>
            size - step = Min({v.overlap, Max({1, v.words - head}) - 1})
      /\ Packable(v) => size < Length(v.text[i])
  BY DEF CutsBlock
<1>2. /\ v.units[i - 1] \in Nat /\ last \in Nat /\ head \in Nat
      /\ Packable(v) => head = 0 /\ last = v.units[i - 1] + Length(v.text[i])
      /\ Length(v.text[i]) \in Nat
  BY DEF Shape
<1>3. from \in Nat /\ first \in Nat /\ v.units[i - 1] < first /\ from <= first
      /\ from = v.units[i - 1] + 1
  <2> DEFINE l == v.units[i - 1]
  <2>1. l \in Nat /\ head \in Nat BY <1>2
  <2> HIDE DEF l, head
  <2>2. /\ l + 1 \in Nat /\ (l + 1) + head \in Nat
        /\ l < (l + 1) + head /\ l + 1 <= (l + 1) + head
    BY <2>1
  <2> QED BY <2>2 DEF l
<1> HIDE DEF from, head, last
<1>4. first = from + head OBVIOUS
<1> HIDE DEF first
<1>5. /\ w \in Seq(ChunkRecord)
      /\ \A k \in DOMAIN w :
           /\ w[k].context = context /\ w[k].first = first + (k - 1) * step
           /\ w[k].last = IF w[k].first + size - 1 <= last THEN w[k].first + size - 1
                          ELSE last
           /\ first <= w[k].first /\ w[k].first <= w[k].last /\ w[k].last <= last
           /\ k > 1 => w[k].first = w[k - 1].first + step
  BY <1>1 DEF AreWindows
<1>6. /\ Len(w) \in Nat /\ DOMAIN w = 1..Len(w)
      /\ \A k \in DOMAIN w : w[k] \in ChunkRecord /\ w[k].first \in Nat /\ w[k].last \in Nat
  BY <1>5, ChunkTypes
<1>7. ASSUME NEW k \in DOMAIN w
      PROVE  Home(v, w[k].first) = i /\ Home(v, w[k].last) = i
  <2>1. /\ first <= w[k].first /\ w[k].first <= w[k].last /\ w[k].last <= last
        /\ w[k].first \in Nat /\ w[k].last \in Nat
    BY <1>5, <1>6
  <2>2. /\ v.units[i - 1] < w[k].first /\ w[k].first <= last
        /\ v.units[i - 1] < w[k].last /\ w[k].first \in Int /\ w[k].last \in Int
    <3> DEFINE l == v.units[i - 1]
               a == w[k].first
               z == w[k].last
    <3>1. /\ l \in Nat /\ last \in Nat /\ first \in Nat /\ l < first
          /\ first <= a /\ a <= z /\ z <= last /\ a \in Nat /\ z \in Nat
      BY <1>2, <1>3, <2>1
    <3> HIDE DEF l, a, z
    <3>2. l < a /\ a <= last /\ l < z /\ a \in Int /\ z \in Int BY <3>1
    <3> QED BY <3>2 DEF l, a, z
  <2> QED BY <2>1, <2>2, HomeIs DEF last
<1>8. ASSUME NEW k \in DOMAIN w PROVE Fits(v, w[k])
  <2>1. /\ w[k].first <= w[k].last /\ w[k].context = context
        /\ w[k].last = IF w[k].first + size - 1 <= last THEN w[k].first + size - 1 ELSE last
    BY <1>5
  <2>2. w[k].first \in Nat /\ w[k].last \in Nat /\ w[k] \in ChunkRecord BY <1>6
  <2>3. Size(v, w[k]) = (w[k].last - w[k].first + 1) + IF context = 0 THEN 0 ELSE head
    BY <1>7, <2>1, <2>2, SizeIs DEF head
  <2>4. w[k].last - w[k].first + 1 <= size BY <1>1, <1>2, <2>1, <2>2
  <2> DEFINE held == w[k].last - w[k].first + 1
             extra == IF context = 0 THEN 0 ELSE head
  <2>5. held \in Int /\ extra \in Nat /\ held <= size /\ size \in Nat BY <1>1, <1>2, <2>2, <2>4
  <2>6. Size(v, w[k]) = held + extra /\ size + extra <= Limit(v, i) BY <1>1, <2>3
  <2> HIDE DEF held, extra
  <2>7. Limit(v, i) \in Int
    <3>1. v.words + 1 \in Int /\ v.words \in Int /\ v.text[i].head + 1 \in Int
      <4> DEFINE a == v.words
                 b == v.text[i].head
      <4>1. a \in Nat /\ b \in Nat BY DEF Shape
      <4> HIDE DEF a, b
      <4>2. a + 1 \in Int /\ a \in Int /\ b + 1 \in Int BY <4>1
      <4> QED BY <4>2 DEF a, b
    <3>2. Max({v.words, v.text[i].head + 1}) \in Int
      <4> DEFINE h == v.text[i].head + 1
      <4>1. h \in Int BY <3>1
      <4> HIDE DEF h
      <4>2. Max({v.words, h}) \in Int BY <3>1, <4>1, Max2
      <4> QED BY <4>2 DEF h
    <3> QED BY <3>1, <3>2 DEF Limit
  <2>8. Size(v, w[k]) <= Limit(v, i) BY <2>5, <2>6, <2>7
  <2> QED BY <1>7, <2>8 DEF Fits
<1>9. ASSUME NEW k \in DOMAIN w PROVE Headed(v, w[k], i)
  BY <1>1, <1>5 DEF Headed, from, head
<1>10. ASSUME NEW k \in DOMAIN w, Cut(v, w[k], i)
       PROVE  k > 1 /\ Repeats(v, w[k - 1], w[k], i)
  <2>1. v.strategy # "sheet_rows" /\ w[k].first > first
    BY <1>4, <1>10 DEF Cut, from, head
  <2>2. k # 1
    <3> SUFFICES ASSUME k = 1 PROVE FALSE OBVIOUS
    <3>1. w[k].first = first + 0 * step
      <4>1. w[k].first = first + (k - 1) * step BY <1>5
      <4> QED BY <4>1
    <3> QED BY <1>1, <1>3, <2>1, <3>1
  <2>3. k > 1 /\ k - 1 \in DOMAIN w BY <1>6, <2>2
  <2> DEFINE a == w[k - 1]
  <2>4. Home(v, a.first) = i BY <1>7, <2>3
  <2>5. ASSUME a.last < last PROVE a.last - w[k].first + 1 = size - step
    <3>1. a.last = IF a.first + size - 1 <= last THEN a.first + size - 1 ELSE last
      BY <1>5, <2>3
    <3>2. w[k].first = a.first + step /\ a.first \in Nat /\ a.last \in Nat
      BY <1>5, <1>6, <2>3
    <3> HIDE DEF a
    <3> QED BY <1>1, <1>2, <2>5, <3>1, <3>2
  <2> HIDE DEF a
  <2>6. Repeats(v, a, w[k], i) BY <1>1, <2>1, <2>4, <2>5 DEF Repeats, last, head
  <2> QED BY <2>3, <2>6 DEF a
<1>11. ASSUME Packable(v), NEW k \in DOMAIN w PROVE ~Entire(v, w[k])
  <2> SUFFICES ASSUME Entire(v, w[k]) PROVE FALSE OBVIOUS
  <2>1. w[k].first = v.units[i - 1] + 1 /\ w[k].last = last BY <1>7 DEF Entire, last
  <2>2. w[k].last = IF w[k].first + size - 1 <= last THEN w[k].first + size - 1 ELSE last
    BY <1>5
  <2>3. last = v.units[i - 1] + Length(v.text[i]) /\ size < Length(v.text[i])
    BY <1>1, <1>2, <1>11
  <2> DEFINE l == v.units[i - 1]
             m == Length(v.text[i])
             f == w[k].first
  <2>4. /\ f = l + 1 /\ last = l + m /\ size < m /\ l \in Nat /\ m \in Nat /\ size \in Nat
        /\ last = IF f + size - 1 <= last THEN f + size - 1 ELSE last
    BY <1>1, <1>2, <2>1, <2>2, <2>3
  <2>5. f + size - 1 <= last /\ f + size - 1 # last
    <3> HIDE DEF l, m, f
    <3> QED BY <2>4
  <2> QED BY <2>4, <2>5
<1>12. ASSUME NEW k \in DOMAIN w, k > 1 PROVE Tight(v, w[k - 1], w[k])
  BY <1>11 DEF Tight
<1>13. AllFit(v, w) BY <1>7, <1>8, <1>9, <1>10, <1>12 DEF AllFit
<1> QED BY <1>11, <1>13

-----------------------------------------------------------------------------
\* What waits before block b is whole blocks, from q + 1 on; more than the
\* budget only as one slide, and not what the chunk before had room for.
Waits(v, b, p, s) ==
    \E q \in 0..b - 1 :
        /\ v.units[q] = v.units[b - 1] - p
        /\ p > v.words => v.strategy = "slide" /\ q = b - 2
        /\ Packable(v) /\ s # <<>> /\ Entire(v, s[Len(s)]) =>
             q < b - 1 /\ Size(v, s[Len(s)]) + Length(v.text[q + 1]) > v.words

\* What holds until the chunker returns.
Fitting(s) == AllFit(View, s) /\ Waits(View, block, packed, s)

\* The end of a text all of whose sections are swallowed.
AllSwallowed ==
    /\ done /\ strategy = "markdown" /\ \A i \in Through : Swallowed(i)
    /\ \A n \in DOMAIN chunks : Fits(View, chunks[n])

\* The inductive invariant: without Waits the next flush could break AllFit.
FitInv == CHInv /\ IF done THEN AllFit(View, chunks) \/ AllSwallowed ELSE Fitting(chunks)

\* The invariant is as strong as the property.
LEMMA FitInvFits == FitInv => ChunksFit
<1> SUFFICES ASSUME FitInv PROVE ChunksFit OBVIOUS
<1>1. CASE AllFit(View, chunks) BY <1>1, AllFitFits
<1>2. CASE AllSwallowed
  <2>1. \A n \in DOMAIN chunks : Tight(View, chunks[n - 1], chunks[n])
    BY <1>2, ViewFields DEF AllSwallowed, Tight, Packable
  <2>2. BudgetIsKept BY <1>2, <2>1, BudgetFits DEF AllSwallowed
  <2>3. CutsKeepContext BY <1>2 DEF AllSwallowed, CutsKeepContext
  <2> QED BY <2>2, <2>3 DEF ChunksFit
<1> QED BY <1>1, <1>2 DEF FitInv, Fitting

\* The first state.
LEMMA FitInit == CHInit => FitInv
<1> SUFFICES ASSUME CHInit PROVE FitInv OBVIOUS
<1>1. CHInv BY CHInitInv
<1>2. block = 1 /\ packed = 0 /\ chunks = <<>> /\ done = FALSE BY DEF CHInit
<1>3. Shape(View) BY <1>1, ViewShape DEF CHInv
<1>4. AllFit(View, chunks) BY <1>2 DEF AllFit
<1>5. 0 \in 0..block - 1 /\ View.units[0] = View.units[block - 1] - packed
      /\ ~(packed > View.words)
  BY <1>2, <1>3 DEF Shape
<1>6. Waits(View, block, packed, chunks) BY <1>2, <1>5 DEF Waits
<1> QED BY <1>1, <1>2, <1>4, <1>6 DEF FitInv, Fitting

\* The chunk a flush makes of blocks q + 1 to b - 1.
LEMMA FlushedChunk ==
    ASSUME NEW v, Shape(v), NEW b \in 2..Len(v.text) + 1, NEW q \in 0..b - 2, NEW p \in Nat,
           v.units[q] = v.units[b - 1] - p,
           p <= v.words \/ (v.strategy = "slide" /\ q = b - 2),
           v.strategy # "markdown",
           NEW x, x = Chunk(v.units[b - 1] - p + 1, v.units[b - 1], 0)
    PROVE  /\ x \in ChunkRecord /\ Size(v, x) = p
           /\ Home(v, x.first) = q + 1
           /\ AllFit(v, <<x>>)
<1>0. Len(v.text) \in Nat BY DEF Shape
<1>1. /\ q \in 0..Len(v.text) /\ b - 1 \in 1..Len(v.text) /\ q + 1 \in 1..Len(v.text)
      /\ b - 1 \in 0..Len(v.text) /\ (q + 1) - 1 = q /\ b - 2 \in 0..Len(v.text)
      /\ (b - 1) - 1 = b - 2 /\ q <= b - 2 /\ q + 1 <= b - 1 /\ q + 1 \in 0..Len(v.text)
  BY <1>0
<1> DEFINE l == v.units[q]
           m == v.units[b - 1]
<1>2. /\ l \in Nat /\ m \in Nat /\ v.units[q + 1] \in Nat /\ v.units[b - 2] \in Nat
      /\ v.units[q + 1] = l + Length(v.text[q + 1]) /\ Length(v.text[q + 1]) \in Nat
      /\ Length(v.text[q + 1]) > 0
      /\ m = v.units[b - 2] + Length(v.text[b - 1]) /\ Length(v.text[b - 1]) \in Nat
      /\ Length(v.text[b - 1]) > 0
      /\ v.units[q + 1] <= m
  BY <1>1 DEF Shape
<1>3. l = m - p OBVIOUS
<1>4. v.words \in Nat BY DEF Shape
<1> HIDE DEF l, m
<1>5. l + 1 \in Nat /\ m - p + 1 = l + 1 /\ l + 1 <= m /\ v.units[b - 2] < m
  <2> DEFINE d == Length(v.text[q + 1])
             e == Length(v.text[b - 1])
             y == v.units[q + 1]
             z == v.units[b - 2]
  <2>1. /\ l \in Nat /\ m \in Nat /\ y \in Nat /\ z \in Nat /\ y = l + d /\ d \in Nat /\ d > 0
        /\ m = z + e /\ e \in Nat /\ e > 0 /\ y <= m
    BY <1>2
  <2> HIDE DEF d, e, y, z
  <2>2. l + 1 \in Nat BY <2>1
  <2>3. m - p + 1 = l + 1
    <3>1. l \in Nat /\ m \in Nat /\ p \in Nat /\ l = m - p BY <1>3, <2>1
    <3> QED BY <3>1
  <2>4. l + 1 <= m
    <3>1. l \in Nat /\ m \in Nat /\ y \in Nat /\ d \in Nat /\ y = l + d /\ d > 0 /\ y <= m
      BY <2>1
    <3> QED BY <3>1
  <2>5. z < m
    <3>1. m \in Nat /\ z \in Nat /\ e \in Nat /\ m = z + e /\ e > 0 BY <2>1
    <3> QED BY <3>1
  <2> QED BY <2>2, <2>3, <2>4, <2>5 DEF z
<1>6. x \in ChunkRecord /\ x.first = l + 1 /\ x.last = m /\ x.context = 0
  <2>1. x = Chunk(m - p + 1, m, 0) BY DEF m
  <2>2. x = Chunk(l + 1, m, 0) BY <1>5, <2>1
  <2> DEFINE n == l + 1
  <2>3. x = Chunk(n, m, 0) /\ n \in Nat /\ m \in Nat /\ 0 \in Nat BY <1>2, <1>5, <2>2
  <2> HIDE DEF n
  <2>4. x \in ChunkRecord /\ x.first = n /\ x.last = m /\ x.context = 0
    BY <2>3, ChunkFields
  <2> QED BY <2>4 DEF n
<1>7. Home(v, x.first) = q + 1
  <2>0. v.units[(q + 1) - 1] = l BY <1>1 DEF l
  <2>1. v.units[(q + 1) - 1] < l + 1 /\ l + 1 <= v.units[q + 1] /\ l + 1 \in Int
    BY <1>2, <1>5, <2>0
  <2>2. Home(v, l + 1) = q + 1 BY <1>1, <2>1, HomeIs
  <2> QED BY <1>6, <2>2
<1>8. Home(v, x.last) = b - 1
  <2>1. v.units[(b - 1) - 1] < m /\ m <= v.units[b - 1] /\ m \in Int
    BY <1>1, <1>2, <1>5 DEF m
  <2>2. Home(v, m) = b - 1 BY <1>1, <2>1, HomeIs
  <2> QED BY <1>6, <2>2
<1>9. Size(v, x) = p
  <2>1. x.first <= x.last BY <1>2, <1>5, <1>6
  <2>2. Size(v, x) = (x.last - x.first + 1) + IF x.context = 0 THEN 0
                                             ELSE v.text[Home(v, x.first)].head
    BY <1>6, <2>1, SizeIs
  <2>3. Size(v, x) = (m - (l + 1) + 1) + 0 BY <1>6, <2>2
  <2>4. m \in Nat /\ l \in Nat /\ p \in Nat /\ l = m - p BY <1>2, <1>3
  <2>5. (m - (l + 1) + 1) + 0 = p BY <2>4
  <2> QED BY <2>3, <2>5
<1>10. Fits(v, x)
  <2>1. CASE p <= v.words
    <3> DEFINE h == Home(v, x.first)
               a == v.words
    <3>1. Limit(v, h) = a \/ Limit(v, h) = a + 1 BY DEF Limit
    <3>2. a \in Nat /\ p \in Nat /\ p <= a BY <1>4, <2>1
    <3> HIDE DEF h, a
    <3>3. p <= a /\ p <= a + 1 BY <3>2
    <3>4. p <= Limit(v, h) BY <3>1, <3>3
    <3> QED BY <1>9, <3>4 DEF Fits, h
  <2>2. CASE v.strategy = "slide" /\ q = b - 2
    <3>1. q + 1 = b - 1 BY <2>2
    <3> QED BY <1>7, <1>8, <2>2, <3>1 DEF Fits
  <2> QED BY <2>1, <2>2
<1>11. Headed(v, x, q + 1) /\ ~Cut(v, x, q + 1)
  <2>1. v.text[q + 1].head \in Nat BY <1>1 DEF Shape
  <2>2. x.first = v.units[(q + 1) - 1] + 1 /\ v.units[(q + 1) - 1] \in Nat
    BY <1>1, <1>2, <1>6 DEF l
  <2>3. ~(x.first > v.units[(q + 1) - 1] + 1)
        /\ ~(x.first > v.units[(q + 1) - 1] + 1 + v.text[q + 1].head)
    <3> DEFINE f == x.first
               z == v.units[(q + 1) - 1]
               h == v.text[q + 1].head
    <3>1. f = z + 1 /\ z \in Nat /\ h \in Nat BY <2>1, <2>2
    <3> HIDE DEF f, z, h
    <3>2. ~(f > z + 1) /\ ~(f > z + 1 + h) BY <3>1
    <3> QED BY <3>2 DEF f, z, h
  <2> QED BY <2>3 DEF Headed, Cut
<1>12. AllFit(v, <<x>>) BY <1>7, <1>10, <1>11 DEF AllFit
<1> QED BY <1>6, <1>7, <1>9, <1>12

\* After a flush all chunks fit, and the last is what waited, if anything did.
LEMMA FlushFits ==
    ASSUME FitInv, ~done
    PROVE  /\ Flushed \in Seq(ChunkRecord) /\ AllFit(View, Flushed)
           /\ packed = 0 => Flushed = chunks
           /\ packed # 0 /\ Packable(View) =>
                Flushed # <<>> /\ Size(View, Flushed[Len(Flushed)]) = packed
<1> DEFINE x == Chunk(LastUnit(block - 1) - packed + 1, LastUnit(block - 1), 0)
           a == chunks[Len(chunks)]
<1>1. CHInv /\ CHTypes /\ AllFit(View, chunks) /\ Waits(View, block, packed, chunks)
  BY DEF FitInv, Fitting, CHInv
<1>2. Shape(View) BY <1>1, ViewShape
<1>3. chunks \in Seq(ChunkRecord) /\ Flushed \in Seq(ChunkRecord)
  BY <1>1, FlushedOk DEF CHTypes
<1>4. CASE packed = 0 BY <1>1, <1>3, <1>4 DEF Flushed
<1>5. CASE packed # 0
  <2>1. PICK q \in 0..block - 1 :
          /\ View.units[q] = View.units[block - 1] - packed
          /\ packed > View.words => View.strategy = "slide" /\ q = block - 2
          /\ Packable(View) /\ chunks # <<>> /\ Entire(View, a) =>
               q < block - 1 /\ Size(View, a) + Length(View.text[q + 1]) > View.words
    BY <1>1, Zenon DEF Waits
  <2>2. /\ block \in 1..Len(View.text) + 1 /\ Len(View.text) \in Nat
        /\ packed \in Nat /\ View.units[block - 1] = LastUnit(block - 1)
        /\ View.units[block - 1] \in Nat /\ View.words \in Nat
        /\ View.strategy # "markdown"
    BY <1>1, <1>2, <1>5, Bounds, ViewFields DEF CHTypes, Shape
  <2>3. q # block - 1 BY <1>5, <2>1, <2>2
  <2>4. block \in 2..Len(View.text) + 1 /\ q \in 0..block - 2 BY <2>1, <2>2, <2>3
  <2>5. packed <= View.words \/ (View.strategy = "slide" /\ q = block - 2)
    BY <2>1, <2>2
  <2>6. x = Chunk(View.units[block - 1] - packed + 1, View.units[block - 1], 0) BY <2>2
  <2> HIDE DEF x, a
  <2>7. /\ x \in ChunkRecord /\ Size(View, x) = packed /\ Home(View, x.first) = q + 1
        /\ AllFit(View, <<x>>)
    BY <1>2, <2>1, <2>2, <2>4, <2>5, <2>6, FlushedChunk
  <2>8. Flushed = Append(chunks, x) BY <1>5 DEF Flushed, x
  <2>9. chunks # <<>> => Tight(View, a, x) BY <2>1, <2>7 DEF Tight
  <2>10. <<x>> \in Seq(ChunkRecord) /\ <<x>>[1] = x BY <2>7
  <2>11. AllFit(View, chunks \o <<x>>) BY <1>1, <1>3, <2>7, <2>9, <2>10, JoinedFit DEF a
  <2>12. Flushed = chunks \o <<x>> BY <1>3, <2>7, <2>8
  <2>13. Flushed # <<>> /\ Flushed[Len(Flushed)] = x BY <1>3, <2>7, <2>8
  <2> QED BY <1>3, <1>5, <2>7, <2>11, <2>12, <2>13
<1> QED BY <1>4, <1>5

\* A paragraph or slide joins what waits, or what waits goes out before it.
LEMMA PackFit ==
    ASSUME FitInv, CHInv', ~done, block <= Len(text), strategy \in {"paragraph", "slide"},
           strategy = "paragraph" => Length(text[block]) <= words, Pack, NextBlock
    PROVE  FitInv'
<1> DEFINE v == View
           len == Length(text[block])
           full == packed + len > words
           a == chunks[Len(chunks)]
<1>1. CHInv /\ CHTypes /\ AllFit(v, chunks) /\ Waits(v, block, packed, chunks)
  BY DEF FitInv, Fitting, CHInv
<1>2. Shape(v) BY <1>1, ViewShape
<1>3. View' = v /\ block' = block + 1 /\ ~done' BY ViewStays DEF NextBlock
<1>4. /\ v.strategy = strategy /\ v.words = words /\ v.text = text /\ Packable(v)
  BY ViewFields DEF Packable
<1>5. PICK q \in 0..block - 1 :
        /\ v.units[q] = v.units[block - 1] - packed
        /\ packed > v.words => v.strategy = "slide" /\ q = block - 2
        /\ Packable(v) /\ chunks # <<>> /\ Entire(v, a) =>
             q < block - 1 /\ Size(v, a) + Length(v.text[q + 1]) > v.words
  BY <1>1, Zenon DEF Waits
<1> HIDE DEF v
<1>6. block \in 1..Len(v.text) /\ packed \in Nat /\ words \in Nat /\ len \in Nat
      /\ (block + 1) - 1 = block /\ (block + 1) - 2 = block - 1
      /\ v.units[block - 1] \in Nat /\ v.units[block] = v.units[block - 1] + len
      /\ q \in 0..block /\ block - 1 \in 0..block
  <2>1. block \in 1..Len(v.text) /\ packed \in Nat /\ words \in Nat
    BY <1>1, <1>4, AtBlock, Bounds DEF CHTypes
  <2>2. len \in Nat /\ v.units[block - 1] \in Nat /\ v.units[block] = v.units[block - 1] + len
    BY <1>2, <1>4, <2>1 DEF Shape
  <2> QED BY <2>1, <2>2
<1> HIDE DEF len, a
<1>7. CASE full
  <2>1. chunks' = Flushed /\ packed' = 0 + len BY <1>7 DEF Pack, len
  <2>2. packed' = len BY <1>6, <2>1
  <2>3. /\ AllFit(v, Flushed) /\ (packed = 0 => Flushed = chunks)
        /\ packed # 0 => Flushed # <<>> /\ Size(v, Flushed[Len(Flushed)]) = packed
    BY <1>4, FlushFits DEF v
  <2>4. v.units[block - 1] = v.units[block] - packed' BY <1>6, <2>2
  <2>5. packed' > v.words => v.strategy = "slide" BY <1>4, <1>6, <2>2 DEF len
  <2>6. ASSUME Flushed # <<>>, Entire(v, Flushed[Len(Flushed)])
        PROVE  Size(v, Flushed[Len(Flushed)]) + Length(v.text[block]) > v.words
    <3>1. CASE packed = 0
      <4>1. q < block - 1 BY <1>4, <1>5, <2>3, <2>6, <3>1 DEF a
      <4>2. v.units[q] = v.units[block - 1] BY <1>5, <1>6, <3>1
      <4>3. /\ q + 1 \in 1..Len(v.text) /\ q + 1 \in 0..Len(v.text)
            /\ block - 1 \in 0..Len(v.text) /\ q + 1 <= block - 1 /\ (q + 1) - 1 = q
        BY <1>6, <4>1
      <4>4. v.units[q + 1] = v.units[q] + Length(v.text[q + 1]) /\ Length(v.text[q + 1]) \in Nat
            /\ Length(v.text[q + 1]) > 0 /\ v.units[q + 1] <= v.units[block - 1]
        BY <1>2, <4>3 DEF Shape
      <4> QED BY <1>6, <4>2, <4>4
    <3>2. CASE packed # 0
      <4>1. packed + len > words BY <1>7
      <4> QED BY <1>4, <2>3, <3>2, <4>1 DEF len
    <3> QED BY <3>1, <3>2
  <2>7. Waits(v, block + 1, packed', Flushed)
    <3>1. /\ block - 1 \in 0..(block + 1) - 1 /\ (block - 1) + 1 = block
          /\ v.units[(block + 1) - 1] = v.units[block]
          /\ block - 1 < (block + 1) - 1 /\ block - 1 = (block + 1) - 2
      BY <1>6
    <3>2. v.text[(block - 1) + 1] = v.text[block] BY <3>1
    <3>3. \E r \in 0..(block + 1) - 1 :
            /\ v.units[r] = v.units[(block + 1) - 1] - packed'
            /\ packed' > v.words => v.strategy = "slide" /\ r = (block + 1) - 2
            /\ Packable(v) /\ Flushed # <<>> /\ Entire(v, Flushed[Len(Flushed)]) =>
                 /\ r < (block + 1) - 1
                 /\ Size(v, Flushed[Len(Flushed)]) + Length(v.text[r + 1]) > v.words
      <4> SUFFICES
            /\ v.units[block - 1] = v.units[(block + 1) - 1] - packed'
            /\ packed' > v.words => v.strategy = "slide" /\ block - 1 = (block + 1) - 2
            /\ Packable(v) /\ Flushed # <<>> /\ Entire(v, Flushed[Len(Flushed)]) =>
                 /\ block - 1 < (block + 1) - 1
                 /\ Size(v, Flushed[Len(Flushed)]) + Length(v.text[(block - 1) + 1]) > v.words
        BY <3>1
      <4> QED BY <2>4, <2>5, <2>6, <3>1, <3>2
    <3> QED BY <3>3 DEF Waits
  <2> QED BY <1>3, <2>1, <2>3, <2>7 DEF FitInv, Fitting
<1>8. CASE ~full
  <2>1. chunks' = chunks /\ packed' = packed + len BY <1>8 DEF Pack, len
  <2>2. v.units[q] = v.units[block] - packed' BY <1>5, <1>6, <2>1
  <2>3. ~(packed' > v.words) BY <1>4, <1>8, <2>1
  <2>4. chunks # <<>> /\ Entire(v, a) =>
            q < block /\ Size(v, a) + Length(v.text[q + 1]) > v.words
    BY <1>4, <1>5, <1>6
  <2>5. Waits(v, block + 1, packed', chunks)
    BY <1>6, <2>2, <2>3, <2>4 DEF Waits, a
  <2> QED BY <1>1, <1>3, <2>1, <2>5 DEF FitInv, Fitting, v
<1> QED BY <1>7, <1>8

-----------------------------------------------------------------------------
\* A step that is through with a block and leaves nothing waiting: its chunks
\* w fit, those before them did, and the two go together.
LEMMA EmitFit ==
    ASSUME FitInv, CHInv', ~done, block <= Len(text), NextBlock, packed' = 0,
           NEW c \in Seq(ChunkRecord), NEW w \in Seq(ChunkRecord), chunks' = c \o w,
           AllFit(View, c), AllFit(View, w),
           Packable(View) => w # <<>> /\ \A k \in DOMAIN w : ~Entire(View, w[k])
    PROVE  FitInv'
<1> DEFINE v == View
<1>1. View' = v /\ block' = block + 1 /\ ~done' BY ViewStays DEF NextBlock
<1>2. CHTypes /\ Shape(v) BY ViewShape DEF FitInv, CHInv
<1>3. block \in 1..Len(text) /\ v.text = text /\ v.words \in Nat
  BY <1>2, AtBlock, ViewFields DEF Shape
<1> HIDE DEF v
<1>4. v.units[block] \in Nat /\ block \in 0..(block + 1) - 1 /\ (block + 1) - 1 = block
  <2>1. block \in 0..Len(v.text) BY <1>2, <1>3 DEF Shape
  <2> QED BY <1>2, <1>3, <2>1 DEF Shape
<1>5. /\ Len(w) \in Nat /\ DOMAIN w = 1..Len(w)
      /\ w # <<>> => Len(w) \in DOMAIN w /\ 1 \in DOMAIN w
  <2>1. Len(w) \in Nat /\ DOMAIN w = 1..Len(w) BY ChunkTypes
  <2>2. w # <<>> => Len(w) # 0 BY EmptySeq
  <2> QED BY <2>1, <2>2
<1>6. c # <<>> /\ w # <<>> => Tight(v, c[Len(c)], w[1]) BY <1>5 DEF Tight, v
<1>7. AllFit(v, c \o w) BY <1>6, JoinedFit DEF v
<1> DEFINE j == c \o w
<1>8. w # <<>> => j[Len(j)] = w[Len(w)]
  <2>1. Len(j) = Len(c) + Len(w) /\ (w # <<>> => j[Len(c) + Len(w)] = w[Len(w)])
    BY <1>5, Joined
  <2> QED BY <2>1
<1>9. Packable(v) => ~Entire(v, j[Len(j)]) BY <1>5, <1>8 DEF v
<1> HIDE DEF j
<1>10. Waits(v, block + 1, 0, j)
  <2>1. v.units[block] = v.units[(block + 1) - 1] - 0 /\ ~(0 > v.words) BY <1>3, <1>4
  <2> QED BY <1>4, <1>9, <2>1 DEF Waits
<1> QED BY <1>1, <1>7, <1>10 DEF FitInv, Fitting, j, v

\* In markdown and tables nothing waits.
LEMMA NotPackable ==
    ASSUME FitInv, ~done, strategy \in {"markdown", "sheet_rows"}
    PROVE  /\ packed = 0 /\ chunks \in Seq(ChunkRecord) /\ AllFit(View, chunks)
           /\ ~Packable(View)
BY ViewFields DEF FitInv, Fitting, CHInv, CHTypes, Packable

\* A paragraph that is too long, in windows with the overlap.
LEMMA WindowParagraphFit == ASSUME FitInv, CHInv', WindowParagraph PROVE FitInv'
<1>0. /\ CHTypes /\ strategy = "paragraph" /\ block <= Len(text) /\ NextBlock /\ packed' = 0
      /\ Length(text[block]) > words
  BY DEF FitInv, CHInv, WindowParagraph, Working
<1>1. block \in 1..Len(text) /\ ~done BY <1>0, AtBlock
<1> DEFINE v == View
           step == Max({1, words - overlap})
           w == Windowed(FirstUnit(block), LastUnit(block), words, step, 0)
<1>2. Shape(v) /\ v.strategy = strategy /\ v.words = words /\ v.overlap = overlap
      /\ v.text = text /\ v.units = UnitsUpTo
  BY <1>0, ViewShape, ViewFields
<1> HIDE DEF v
<1>3. words \in Nat \ {0} /\ overlap \in Nat /\ overlap < words
      /\ step = IF 1 >= words - overlap THEN 1 ELSE words - overlap
  <2>1. words \in Nat \ {0} /\ overlap \in Nat /\ overlap < words BY <1>0 DEF CHTypes
  <2> QED BY <2>1, Max2
<1> HIDE DEF step
<1>4. step \in 1..words /\ chunks' = Flushed \o w
  BY <1>3 DEF WindowParagraph, step
<1>5. /\ FirstUnit(block) = v.units[block - 1] + 1 /\ LastUnit(block) = v.units[block]
      /\ v.units[block - 1] \in Nat /\ v.units[block] \in Nat /\ v.text[block].head = 0
      /\ FirstUnit(block) \in Nat /\ FirstUnit(block) <= v.units[block] + 1
      /\ FirstUnit(block) <= v.units[block]
  <2>1. Packable(v) BY <1>0, <1>2 DEF Packable
  <2> QED BY <1>0, <1>1, <1>2, <2>1, AtBlock DEF Shape
<1>6. AreWindows(w, FirstUnit(block), LastUnit(block), words, step, 0)
  BY <1>3, <1>4, <1>5, Windows
<1> HIDE DEF w
<1>7. CutsBlock(v, block, w, words, step, 0)
  <2> DEFINE head == v.text[block].head
  <2>1. head = 0 BY <1>5
  <2>2. FirstUnit(block) = v.units[block - 1] + 1 + head
    <3>1. v.units[block - 1] + 1 + 0 = v.units[block - 1] + 1 BY <1>5
    <3> QED BY <1>5, <2>1, <3>1
  <2>3. AreWindows(w, v.units[block - 1] + 1 + head, v.units[block], words, step, 0)
    BY <1>5, <1>6, <2>2
  <2>4. Limit(v, block) = words BY <1>0, <1>2 DEF Limit
  <2>5. words - step = Min({v.overlap, Max({1, v.words - head}) - 1})
    <3>1. v.words - head = words BY <1>2, <1>3, <2>1
    <3>2. Max({1, words}) = words BY <1>3, Max2
    <3>3. Min({overlap, words - 1}) = IF overlap <= words - 1 THEN overlap ELSE words - 1
      BY <1>3, Min2
    <3> QED BY <1>2, <1>3, <3>1, <3>2, <3>3
  <2>6. words + (IF 0 = 0 THEN 0 ELSE head) <= Limit(v, block) BY <1>3, <2>4
  <2>7. Packable(v) => words < Length(v.text[block]) BY <1>0, <1>2, <1>3, AtBlock
  <2>8. 0 \in {0, v.units[block - 1] + 1} /\ ~(head > 0) BY <2>1
  <2> HIDE DEF head
  <2> QED BY <1>3, <1>4, <2>3, <2>5, <2>6, <2>7, <2>8 DEF CutsBlock, head
<1>8. AllFit(v, w) /\ \A k \in DOMAIN w : ~Entire(v, w[k])
  <2>1. Packable(v) BY <1>0, <1>2 DEF Packable
  <2> QED BY <1>1, <1>2, <1>7, <2>1, WindowsFit
<1>9. w \in Seq(ChunkRecord) /\ w # <<>>
  <2>1. /\ w \in Seq(ChunkRecord)
        /\ \A u \in FirstUnit(block)..LastUnit(block) : \E k \in DOMAIN w : u \in Units(w[k])
    BY <1>6 DEF AreWindows
  <2>2. FirstUnit(block) \in FirstUnit(block)..LastUnit(block) BY <1>5
  <2> QED BY <2>1, <2>2
<1>10. Flushed \in Seq(ChunkRecord) /\ AllFit(v, Flushed) BY <1>1, FlushFits DEF v
<1> QED BY <1>0, <1>1, <1>4, <1>8, <1>9, <1>10, EmitFit DEF v

\* A block that is a chunk of its own.
LEMMA BlockFits ==
    ASSUME NEW v, Shape(v), NEW i \in 1..Len(v.text), Length(v.text[i]) <= Limit(v, i),
           NEW x, x = Chunk(v.units[i - 1] + 1, v.units[i], 0)
    PROVE  x \in ChunkRecord /\ AllFit(v, <<x>>)
<1> DEFINE l == v.units[i - 1]
           m == v.units[i]
           d == Length(v.text[i])
           first == l + 1
<1>1. l \in Nat /\ m \in Nat /\ m = l + d /\ d \in Nat /\ d > 0 /\ v.text[i].head \in Nat
  <2>1. i \in 0..Len(v.text) BY DEF Shape
  <2> QED BY <2>1 DEF Shape
<1> HIDE DEF l, m, d
<1>2. first \in Nat /\ first <= m /\ l < first /\ l < m /\ m - first + 1 = d /\ 0 \in Nat
      /\ first \in Int /\ m \in Int
  <2>1. l \in Nat /\ m \in Nat /\ m = l + d /\ d \in Nat /\ d > 0 BY <1>1
  <2>2. first \in Nat /\ l < first /\ first \in Int /\ m \in Int /\ 0 \in Nat BY <2>1
  <2>3. first <= m /\ l < m /\ m - first + 1 = d BY <2>1
  <2> QED BY <2>2, <2>3
<1>3. x = Chunk(first, m, 0) BY DEF l, m
<1>4. first = l + 1 OBVIOUS
<1> HIDE DEF first
<1>5. x \in ChunkRecord /\ x.first = first /\ x.last = m /\ x.context = 0
  <2>1. first \in Nat /\ m \in Nat /\ 0 \in Nat BY <1>1, <1>2
  <2> DEFINE c == Chunk(first, m, 0)
  <2>2. c \in ChunkRecord /\ c.first = first /\ c.last = m /\ c.context = 0
    BY <2>1, ChunkFields
  <2>3. x = c BY <1>3
  <2> HIDE DEF c
  <2> QED BY <2>2, <2>3
<1>6. Home(v, first) = i BY <1>2, HomeIs DEF l, m
<1>7. Size(v, x) = d
  <2>1. Size(v, x) = (m - first + 1) + IF x.context = 0 THEN 0
                                       ELSE v.text[Home(v, x.first)].head
    BY <1>2, <1>5, SizeIs
  <2>2. Size(v, x) = (m - first + 1) + 0 BY <1>5, <2>1
  <2> QED BY <1>1, <1>2, <2>2
<1>8. Fits(v, x) BY <1>5, <1>6, <1>7 DEF Fits, d
<1>9. Headed(v, x, i) /\ ~Cut(v, x, i)
  <2>1. ~(first > l + 1) /\ ~(first > l + 1 + v.text[i].head) BY <1>1, <1>4
  <2> QED BY <1>5, <2>1 DEF Headed, Cut, l
<1>10. AllFit(v, <<x>>) BY <1>5, <1>6, <1>8, <1>9 DEF AllFit
<1> QED BY <1>5, <1>10

\* The budget of a section is at least its heading and one word.
LEMMA MarkdownLimit ==
    ASSUME NEW v, Shape(v), NEW i \in 1..Len(v.text), v.strategy = "markdown"
    PROVE  /\ Limit(v, i) \in Int /\ v.words <= Limit(v, i)
           /\ v.text[i].head + 1 <= Limit(v, i)
<1> DEFINE h == v.text[i].head + 1
<1>1. v.words \in Int /\ h \in Int BY DEF Shape
<1>2. Limit(v, i) = Max({v.words, h}) BY DEF Limit
<1> HIDE DEF h
<1>3. Max({v.words, h}) = IF v.words >= h THEN v.words ELSE h BY <1>1, Max2
<1>4. Limit(v, i) \in Int /\ v.words <= Limit(v, i) /\ h <= Limit(v, i) BY <1>1, <1>2, <1>3
<1> QED BY <1>4 DEF h

\* A section that fits is one chunk.
LEMMA KeepSectionFit == ASSUME FitInv, CHInv', KeepSection PROVE FitInv'
<1>0. /\ CHTypes /\ strategy = "markdown" /\ block <= Len(text) /\ NextBlock /\ packed' = packed
      /\ Length(text[block]) <= words
      /\ chunks' = Append(chunks, Chunk(FirstUnit(block), LastUnit(block), 0))
  BY DEF FitInv, CHInv, KeepSection, Working
<1>1. block \in 1..Len(text) /\ ~done BY <1>0, AtBlock
<1> DEFINE v == View
           x == Chunk(FirstUnit(block), LastUnit(block), 0)
<1>2. Shape(v) /\ v.strategy = strategy /\ v.words = words /\ v.text = text
      /\ v.units = UnitsUpTo
  BY <1>0, ViewShape, ViewFields
<1>3. packed = 0 /\ chunks \in Seq(ChunkRecord) /\ AllFit(v, chunks) /\ ~Packable(v)
  BY <1>0, <1>1, NotPackable
<1> HIDE DEF v
<1>4. Length(v.text[block]) <= Limit(v, block)
  <2>1. Length(v.text[block]) \in Nat /\ words \in Nat BY <1>1, <1>2 DEF Shape
  <2>2. Limit(v, block) \in Int /\ words <= Limit(v, block)
    BY <1>0, <1>1, <1>2, MarkdownLimit
  <2> QED BY <1>0, <1>2, <2>1, <2>2
<1>5. x = Chunk(v.units[block - 1] + 1, v.units[block], 0)
  BY <1>2 DEF FirstUnit, LastUnit
<1>6. chunks' = Append(chunks, x) BY <1>0
<1> HIDE DEF x
<1>7. x \in ChunkRecord /\ AllFit(v, <<x>>) BY <1>1, <1>2, <1>4, <1>5, BlockFits
<1>8. <<x>> \in Seq(ChunkRecord) /\ chunks' = chunks \o <<x>> BY <1>3, <1>6, <1>7
<1> DEFINE w == <<x>>
<1>9. w \in Seq(ChunkRecord) /\ chunks' = chunks \o w /\ AllFit(v, w) BY <1>7, <1>8
<1> HIDE DEF w
<1> QED BY <1>0, <1>1, <1>3, <1>9, EmitFit DEF v

\* The windows of a long section fit under its heading.
LEMMA WindowSectionFit == ASSUME FitInv, CHInv', WindowSection PROVE FitInv'
<1>0. /\ CHTypes /\ strategy = "markdown" /\ block <= Len(text) /\ NextBlock /\ packed' = packed
      /\ Length(text[block]) > words
  BY DEF FitInv, CHInv, WindowSection, Working
<1>1. block \in 1..Len(text) /\ ~done BY <1>0, AtBlock
<1> DEFINE v == View
           head == text[block].head
           from == FirstUnit(block)
           size == Max({1, words - head})
           step == SectionStep(head)
           context == IF head = 0 THEN 0 ELSE from
           w == Windowed(from + head, LastUnit(block), size, step, context)
<1>2. Shape(v) /\ v.strategy = strategy /\ v.words = words /\ v.overlap = overlap
      /\ v.text = text /\ v.units = UnitsUpTo
  BY <1>0, ViewShape, ViewFields
<1>3. packed = 0 /\ chunks \in Seq(ChunkRecord) /\ AllFit(v, chunks) /\ ~Packable(v)
  BY <1>0, <1>1, NotPackable
<1> HIDE DEF v
<1>4. /\ words \in Nat \ {0} /\ overlap \in Nat /\ overlap < words /\ head \in Nat
      /\ from \in Nat /\ LastUnit(block) \in Nat /\ from + head <= LastUnit(block) + 1
      /\ from = v.units[block - 1] + 1 /\ LastUnit(block) = v.units[block]
      /\ v.units[block - 1] \in Nat
  BY <1>0, <1>2, AtBlock DEF CHTypes
<1> HIDE DEF head
<1>5. size = IF 1 >= words - head THEN 1 ELSE words - head BY <1>4, Max2
<1>6. size \in Nat \ {0} BY <1>4, <1>5
<1>7. step = Max({1, size - overlap}) BY DEF SectionStep
<1>8. chunks' = chunks \o w BY DEF WindowSection, head
<1> HIDE DEF size
<1>9. step = IF 1 >= size - overlap THEN 1 ELSE size - overlap BY <1>4, <1>6, <1>7, Max2
<1> HIDE DEF step
<1>10. step \in 1..size BY <1>4, <1>6, <1>9
<1>11. AreWindows(w, from + head, LastUnit(block), size, step, context)
  <2> DEFINE first == from + head
             last == LastUnit(block)
  <2>1. first \in Nat /\ last \in Nat /\ first <= last + 1 /\ context \in Nat BY <1>4
  <2> HIDE DEF first, last, context
  <2>2. AreWindows(Windowed(first, last, size, step, context), first, last, size, step, context)
    BY <1>6, <1>10, <2>1, Windows
  <2> QED BY <2>2 DEF first, last
<1> HIDE DEF w
<1>12. w \in Seq(ChunkRecord) BY <1>11 DEF AreWindows
<1>13. size - step = Min({v.overlap, Max({1, v.words - head}) - 1})
  <2>1. Max({1, v.words - head}) = size BY <1>2 DEF size
  <2>2. Min({overlap, size - 1}) = IF overlap <= size - 1 THEN overlap ELSE size - 1
    BY <1>4, <1>6, Min2
  <2>3. size - step = IF overlap <= size - 1 THEN overlap ELSE size - 1
    BY <1>4, <1>6, <1>9
  <2>4. Min({v.overlap, Max({1, v.words - head}) - 1}) = Min({overlap, size - 1})
    BY <1>2, <2>1
  <2> QED BY <2>2, <2>3, <2>4
<1>14. size + (IF context = 0 THEN 0 ELSE head) <= Limit(v, block)
  <2>1. Limit(v, block) \in Int /\ words <= Limit(v, block) /\ head + 1 <= Limit(v, block)
    BY <1>0, <1>1, <1>2, MarkdownLimit DEF head
  <2>2. context = 0 => head = 0
    <3> HIDE DEF from
    <3> QED BY <1>4
  <2> HIDE DEF context
  <2> QED BY <1>4, <1>5, <1>6, <2>1, <2>2
<1>15. CutsBlock(v, block, w, size, step, context)
  <2>1. context \in {0, from} /\ (head > 0 => context = from) BY <1>4
  <2>2. v.text[block].head = head BY <1>2 DEF head
  <2> HIDE DEF context, from
  <2>3. AreWindows(w, v.units[block - 1] + 1 + v.text[block].head, v.units[block], size, step,
                   context)
    BY <1>4, <1>11, <2>2
  <2> QED BY <1>3, <1>4, <1>6, <1>10, <1>13, <1>14, <2>1, <2>2, <2>3 DEF CutsBlock
<1>16. AllFit(v, w) BY <1>1, <1>2, <1>15, WindowsFit
<1> QED BY <1>0, <1>1, <1>3, <1>8, <1>12, <1>16, EmitFit DEF v

\* The groups of rows fit behind the header row.
LEMMA GroupRowsFit == ASSUME FitInv, CHInv', GroupRows PROVE FitInv'
<1>0. /\ CHTypes /\ strategy = "sheet_rows" /\ block <= Len(text) /\ NextBlock
      /\ packed' = packed
      /\ chunks' = chunks \o
           IF text[block].body = 0 THEN <<Chunk(FirstUnit(block), LastUnit(block), 0)>>
           ELSE Windowed(FirstUnit(block) + 1, LastUnit(block), words, words, FirstUnit(block))
  BY DEF FitInv, CHInv, GroupRows, Working
<1>1. block \in 1..Len(text) /\ ~done BY <1>0, AtBlock
<1> DEFINE v == View
           from == FirstUnit(block)
           last == LastUnit(block)
<1>2. Shape(v) /\ v.strategy = strategy /\ v.words = words /\ v.text = text
      /\ v.units = UnitsUpTo
  BY <1>0, ViewShape, ViewFields
<1>3. packed = 0 /\ chunks \in Seq(ChunkRecord) /\ AllFit(v, chunks) /\ ~Packable(v)
  BY <1>0, <1>1, NotPackable
<1> HIDE DEF v
<1>4. /\ words \in Nat \ {0} /\ v.text[block].head = 1 /\ text[block].head = 1
      /\ from \in Nat /\ last \in Nat /\ from + 1 <= last + 1
      /\ from = v.units[block - 1] + 1 /\ last = v.units[block]
      /\ Length(text[block]) = 1 + text[block].body /\ Limit(v, block) = words + 1
  <2>1. words \in Nat \ {0} /\ v.text[block].head = 1 /\ Limit(v, block) = words + 1
    BY <1>0, <1>1, <1>2 DEF CHTypes, Shape, Limit
  <2>2. /\ from \in Nat /\ last \in Nat /\ from + text[block].head <= last + 1
        /\ Length(text[block]) = text[block].head + text[block].body
    BY <1>0, AtBlock
  <2>3. from = v.units[block - 1] + 1 /\ last = v.units[block]
    BY <1>2 DEF FirstUnit, LastUnit
  <2> HIDE DEF from, last
  <2> QED BY <1>2, <2>1, <2>2, <2>3
<1>5. CASE text[block].body = 0
  <2> DEFINE x == Chunk(from, last, 0)
             w == <<x>>
  <2>1. chunks' = chunks \o w BY <1>0, <1>5
  <2>2. Length(v.text[block]) <= Limit(v, block) BY <1>2, <1>4, <1>5
  <2>3. x = Chunk(v.units[block - 1] + 1, v.units[block], 0) BY <1>4
  <2> HIDE DEF x
  <2>4. x \in ChunkRecord /\ AllFit(v, w) BY <1>1, <1>2, <2>2, <2>3, BlockFits
  <2>5. w \in Seq(ChunkRecord) BY <2>4
  <2> HIDE DEF w
  <2> QED BY <1>0, <1>1, <1>3, <2>1, <2>4, <2>5, EmitFit DEF v
<1>6. CASE text[block].body # 0
  <2> DEFINE w == Windowed(from + 1, last, words, words, from)
  <2>1. chunks' = chunks \o w BY <1>0, <1>6
  <2>2. AreWindows(w, from + 1, last, words, words, from)
    <3> DEFINE first == from + 1
    <3>1. first \in Nat /\ first <= last + 1 /\ words \in 1..words BY <1>4
    <3> HIDE DEF first, from, last
    <3>2. AreWindows(Windowed(first, last, words, words, from), first, last, words, words, from)
      BY <1>4, <3>1, Windows
    <3> QED BY <3>2 DEF first
  <2> HIDE DEF w
  <2>3. CutsBlock(v, block, w, words, words, from)
    <3> HIDE DEF from, last
    <3>1. AreWindows(w, v.units[block - 1] + 1 + v.text[block].head, v.units[block], words, words,
                     from)
      BY <1>4, <2>2
    <3>2. words \in 1..words /\ words + (IF from = 0 THEN 0 ELSE 1) <= Limit(v, block) BY <1>4
    <3> QED BY <1>0, <1>2, <1>3, <1>4, <3>1, <3>2 DEF CutsBlock
  <2>4. AllFit(v, w) BY <1>1, <1>2, <2>3, WindowsFit
  <2>5. w \in Seq(ChunkRecord) BY <2>2 DEF AreWindows
  <2> HIDE DEF from, last
  <2> QED BY <1>0, <1>1, <1>3, <2>1, <2>4, <2>5, EmitFit DEF v
<1> QED BY <1>5, <1>6

\* The windows of a whole text, when all of it is swallowed.
LEMMA TextWindowsFit ==
    ASSUME NEW v, Shape(v), v.strategy = "markdown", NEW step \in 1..v.words,
           NEW w, AreWindows(w, 1, v.units[Len(v.text)], v.words, step, 0)
    PROVE  \A k \in DOMAIN w : Fits(v, w[k])
<1> DEFINE last == v.units[Len(v.text)]
           size == v.words
<1>1. last \in Nat /\ size \in Nat \ {0} BY DEF Shape
<1>2. /\ w \in Seq(ChunkRecord)
      /\ \A k \in DOMAIN w :
           /\ w[k].context = 0
           /\ w[k].last = IF w[k].first + size - 1 <= last THEN w[k].first + size - 1
                          ELSE last
           /\ 1 <= w[k].first /\ w[k].first <= w[k].last /\ w[k].last <= last
  BY DEF AreWindows
<1> HIDE DEF last, size
<1> TAKE k \in DOMAIN w
<1>3. w[k] \in ChunkRecord /\ w[k].first \in Nat /\ w[k].last \in Nat BY <1>2, ChunkTypes
<1>4. /\ w[k].context = 0
      /\ w[k].last = IF w[k].first + size - 1 <= last THEN w[k].first + size - 1 ELSE last
      /\ 1 <= w[k].first /\ w[k].first <= w[k].last /\ w[k].last <= last
  BY <1>2
<1>5. w[k].last - w[k].first + 1 <= size /\ w[k].first <= last BY <1>1, <1>3, <1>4
<1>6. Size(v, w[k]) = w[k].last - w[k].first + 1
  <2>1. Size(v, w[k]) = (w[k].last - w[k].first + 1) + IF w[k].context = 0 THEN 0
                                                ELSE v.text[Home(v, w[k].first)].head
    BY <1>3, <1>4, SizeIs
  <2>2. Size(v, w[k]) = (w[k].last - w[k].first + 1) + 0 BY <1>4, <2>1
  <2> QED BY <1>3, <2>2
<1>7. Home(v, w[k].first) \in 1..Len(v.text) BY <1>3, <1>4, <1>5, HomeExists DEF last
<1>8. Limit(v, Home(v, w[k].first)) \in Int /\ size <= Limit(v, Home(v, w[k].first))
  BY <1>7, MarkdownLimit DEF size
<1>9. Size(v, w[k]) <= Limit(v, Home(v, w[k].first)) BY <1>1, <1>3, <1>5, <1>6, <1>8
<1> QED BY <1>9 DEF Fits

\* At the end what waits goes out, or the swallowed text is windowed.
LEMMA ReturnFit == ASSUME FitInv, CHInv', Return PROVE FitInv'
<1>0. /\ CHInv /\ CHTypes /\ block = Len(text) + 1 /\ ~done /\ done' = TRUE /\ packed' = 0
      /\ UNCHANGED <<strategy, words, overlap, text, block>>
      /\ chunks' = IF strategy = "markdown" /\ chunks = <<>>
                 THEN Windowed(1, LastUnit(block - 1), words, Max({1, words - overlap}), 0)
                 ELSE Flushed
  BY DEF FitInv, CHInv, Return
<1> DEFINE v == View
<1>1. View' = v /\ UnitsUpTo' = UnitsUpTo BY <1>0, ViewStays, UnitsStay
<1>2. Shape(v) /\ v.strategy = strategy /\ v.words = words /\ v.text = text
      /\ v.units = UnitsUpTo
  BY <1>0, ViewShape, ViewFields
<1> HIDE DEF v
<1>3. CASE ~(strategy = "markdown" /\ chunks = <<>>)
  <2>1. chunks' = Flushed /\ AllFit(v, Flushed) BY <1>0, <1>3, FlushFits DEF v
  <2> QED BY <1>0, <1>1, <2>1 DEF FitInv, v
<1>4. CASE strategy = "markdown" /\ chunks = <<>>
  <2> DEFINE last == LastUnit(block - 1)
             step == Max({1, words - overlap})
             w == Windowed(1, last, words, step, 0)
  <2>1. words \in Nat \ {0} /\ step \in 1..words
    <3>1. words \in Nat \ {0} /\ overlap \in Nat /\ overlap < words BY <1>0 DEF CHTypes
    <3>2. step = IF 1 >= words - overlap THEN 1 ELSE words - overlap BY <3>1, Max2
    <3> QED BY <3>1, <3>2
  <2>2. last \in Nat /\ UnitsUpTo[block - 1] = last /\ last = v.units[Len(v.text)] /\ packed = 0
    <3>1. UnitsUpTo[block - 1] \in Nat /\ last = UnitsUpTo[block - 1] /\ packed = 0
          /\ block - 1 = Len(text)
      BY <1>0, <1>4, Bounds DEF CHTypes
    <3> QED BY <1>2, <3>1
  <2>3. chunks' = w BY <1>0, <1>4
  <2> HIDE DEF step, last
  <2>4. AreWindows(w, 1, last, words, step, 0)
    <3>1. 1 \in Nat /\ 0 \in Nat /\ 1 <= last + 1 BY <2>2
    <3> QED BY <2>1, <2>2, <3>1, Windows
  <2> HIDE DEF w
  <2>5. \A k \in DOMAIN w : Fits(v, w[k])
    BY <1>2, <1>4, <2>1, <2>2, <2>4, TextWindowsFit
  <2>6. ASSUME NEW i \in Through PROVE Swallowed(i)
    <3> SUFFICES ASSUME ~Swallowed(i) PROVE FALSE OBVIOUS
    <3>1. i \in 1..Len(text) /\ UnitsUpTo[i] <= last BY <1>0, <2>2, Bounds
    <3>2. /\ FirstUnit(i) = UnitsUpTo[i - 1] + 1 /\ LastUnit(i) = UnitsUpTo[i]
          /\ UnitsUpTo[i - 1] \in Nat /\ UnitsUpTo[i] \in Nat
          /\ Length(text[i]) \in Nat /\ Length(text[i]) > 0
          /\ UnitsUpTo[i] = UnitsUpTo[i - 1] + Length(text[i])
      BY <1>0, <3>1, Bounds
    <3> DEFINE u == LastUnit(i)
    <3>3. u \in FirstUnit(i)..LastUnit(i) /\ u \in Nat /\ u <= last BY <3>1, <3>2
    <3>4. u > last - 0 \/ In(chunks, i, u)
      BY <1>0, <2>2, <3>3, LostAs DEF CHInv, last
    <3>5. ~In(chunks, i, u) BY <1>4 DEF In
    <3> QED BY <2>2, <3>3, <3>4, <3>5
  <2>7. AllSwallowed'
    <3>1. \A i \in Through' : Swallowed(i)' BY <1>0, <2>6 DEF Through, Swallowed
    <3>2. \A n \in DOMAIN chunks' : Fits(View', chunks'[n]) BY <1>1, <2>3, <2>5
    <3> QED BY <1>0, <1>4, <3>1, <3>2 DEF AllSwallowed
  <2> QED BY <1>0, <2>7 DEF FitInv
<1> QED BY <1>3, <1>4

\* Every step keeps the invariant.
LEMMA FitNext == FitInv /\ [CHNext]_chVars => FitInv'
<1> SUFFICES ASSUME FitInv, [CHNext]_chVars PROVE FitInv' OBVIOUS
<1>0. CHInv' BY CHNextInv DEF FitInv
<1>1. ASSUME strategy \in {"paragraph", "slide"}, block <= Len(text), Pack, NextBlock,
             strategy = "paragraph" => Length(text[block]) <= words
      PROVE  FitInv'
  <2>1. ~done BY <1>1, AtBlock DEF FitInv, CHInv
  <2> QED BY <1>0, <1>1, <2>1, PackFit
<1>2. CASE PackParagraph BY <1>1, <1>2 DEF PackParagraph, Working
<1>3. CASE PackSlide BY <1>1, <1>3 DEF PackSlide, Working
<1>4. CASE UNCHANGED chVars
  <2>1. UNCHANGED <<strategy, words, overlap, text, block, packed, chunks, done>>
    BY <1>4 DEF chVars
  <2>2. View' = View BY <2>1, ViewStays
  <2>3. AllSwallowed => AllSwallowed'
    BY <2>1, <2>2 DEF AllSwallowed, Through, Swallowed
  <2> QED BY <1>0, <2>1, <2>2, <2>3 DEF FitInv, Fitting
<1> QED BY <1>0, <1>2, <1>3, <1>4, WindowParagraphFit, KeepSectionFit, WindowSectionFit,
           GroupRowsFit, ReturnFit DEF CHNext

(* Chunks keep to the configured budget, waste none that whole paragraphs  *)
(* or slides could have used, and where they cut a block they carry its    *)
(* heading and the overlap, for any text, budget and overlap               *)
(* (markdown.py:3-6, paragraph.py:18, slide.py:1-3, sheet.py:3-5).         *)
THEOREM EveryChunkFits == CHSpec => []ChunksFit
<1>1. FitInv => ChunksFit BY FitInvFits
<1> QED BY FitInit, FitNext, <1>1, PTL DEF CHSpec
=============================================================================
