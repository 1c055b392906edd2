------------------------- MODULE EmbedLimiter_proofs -------------------------
(***************************************************************************)
(* The rate of the embedding limiter holds over every stretch of time, and *)
(* its state is well typed, for any number of embedders, any concurrency,  *)
(* rate, bucket and window.                                                *)
(***************************************************************************)
EXTENDS EmbedLimiter, SequenceTheorems, TLAPS

(* Of the last i tokens and what the bucket holds now no more was ever     *)
(* there than a full bucket and the refill since the i-th: without this    *)
(* the next token could break the rate.                                    *)
Budget ==
    \A i \in 1..Len(calls) : i * Token + Refilled <= Capacity + calls[i] * PerTick

Paced ==
    /\ calls \in Seq(Nat) /\ allowance \in Int /\ elapsed \in Nat
    /\ allowance <= Capacity
    /\ Budget /\ RateIsKept

LEMMA Refilling ==
    ASSUME allowance \in Int, elapsed \in Nat
    PROVE  /\ Refilled \in Int /\ Refilled <= Capacity
           /\ elapsed * PerTick \in Nat
           /\ Refilled <= allowance + elapsed * PerTick
           /\ Refilled = Capacity \/ Refilled = allowance + elapsed * PerTick
<1>1. elapsed * PerTick \in Nat BY EmbedLimiterAssumption
<1> DEFINE held == elapsed * PerTick
<1>2. held \in Nat BY <1>1
<1>3. Refilled = Least(Capacity, allowance + held) BY DEF Refilled
<1> HIDE DEF held
<1>4. /\ Refilled \in Int /\ Refilled <= Capacity /\ Refilled <= allowance + held
      /\ Refilled = Capacity \/ Refilled = allowance + held
  BY <1>2, <1>3, EmbedLimiterAssumption DEF Least
<1> QED BY <1>1, <1>4 DEF held

LEMMA OneMore ==
    ASSUME NEW a \in Int, NEW b \in Int PROVE (a + 1) * b = a * b + b
  OBVIOUS

LEMMA Distributes ==
    ASSUME NEW a \in Int, NEW b \in Int, NEW c \in Int
    PROVE  (a + b) * c = a * c + b * c
  OBVIOUS

LEMMA NatProduct ==
    ASSUME NEW a \in Nat, NEW b \in Nat PROVE a * b \in Nat
  OBVIOUS

LEMMA AtMostOneMore ==
    ASSUME NEW a \in Nat, NEW b \in Nat, NEW c \in Nat, b <= a + 1
    PROVE  b * c <= a * c + c
<1>1. PICK d \in Nat : a + 1 = b + d
  <2>1. a + 1 - b \in Nat /\ a + 1 = b + (a + 1 - b) OBVIOUS
  <2> QED BY <2>1
<1>2. (a + 1) * c = a * c + c BY OneMore
<1>3. (b + d) * c = b * c + d * c BY Distributes
<1>4. a * c \in Nat /\ b * c \in Nat /\ d * c \in Nat BY NatProduct
<1>5. a * c + c = b * c + d * c BY <1>1, <1>2, <1>3
<1> DEFINE ac == a * c
           bc == b * c
           dc == d * c
<1>6. ac \in Nat /\ bc \in Nat /\ dc \in Nat /\ ac + c = bc + dc BY <1>4, <1>5
<1> HIDE DEF ac, bc, dc
<1>7. bc <= ac + c BY <1>6
<1> QED BY <1>7 DEF ac, bc

LEMMA StillWithin ==
    ASSUME NEW s \in Int, NEW r \in Int, NEW q \in Int, NEW c \in Int,
           NEW b \in Int, NEW p \in Int, s + r <= c + b, q <= r + p
    PROVE  s + q <= c + (b + p)
  OBVIOUS

LEMMA PacedInit == ELInit => Paced
<1> SUFFICES ASSUME ELInit PROVE Paced OBVIOUS
<1>1. calls = <<>> /\ allowance = Capacity /\ elapsed = 0 BY DEF ELInit
<1>2. calls \in Seq(Nat) /\ Len(calls) = 0 BY <1>1
<1> QED BY <1>1, <1>2, EmbedLimiterAssumption DEF Paced, Budget, RateIsKept

(* A newest call is put before the others.                                *)
LEMMA PutFirst ==
    ASSUME NEW old \in Seq(Nat)
    PROVE  /\ <<0>> \o old \in Seq(Nat) /\ Len(<<0>> \o old) = Len(old) + 1
           /\ (<<0>> \o old)[1] = 0
           /\ \A i \in 1..Len(old) : (<<0>> \o old)[i + 1] = old[i]
           /\ \A i \in 2..Len(<<0>> \o old) :
                 i - 1 \in 1..Len(old) /\ (<<0>> \o old)[i] = old[i - 1]
<1> DEFINE all == <<0>> \o old
<1>1. <<0>> \in Seq(Nat) /\ Len(<<0>>) = 1 /\ <<0>>[1] = 0 OBVIOUS
<1>2. all \in Seq(Nat) /\ Len(all) = 1 + Len(old)
  BY <1>1, ConcatProperties
<1>3. \A i \in 1..Len(all) :
        all[i] = IF i <= 1 THEN <<0>>[i] ELSE old[i - 1]
  BY <1>1, ConcatProperties
<1>4. Len(old) \in Nat OBVIOUS
<1> QED BY <1>1, <1>2, <1>3, <1>4

(* A token is taken, or the bucket only brought up to date.                *)
LEMMA TakeTokenStep ==
    ASSUME Paced, NEW e \in Embedders, TakeToken(e)
    PROVE  Paced'
<1>1. /\ calls \in Seq(Nat) /\ allowance \in Int /\ elapsed \in Nat
      /\ allowance <= Capacity /\ Len(calls) \in Nat
      /\ \A i \in 1..Len(calls) : calls[i] \in Nat
  BY DEF Paced
<1>2. /\ Capacity \in Nat /\ Token \in Nat /\ PerTick \in Nat /\ Capacity >= Token
  BY EmbedLimiterAssumption
<1>3. Refilled \in Int /\ Refilled <= Capacity BY <1>1, Refilling
<1>4. elapsed' = 0 BY DEF TakeToken
<1>5. elapsed' * PerTick = 0 BY <1>2, <1>4
<1>6. allowance' \in Int /\ allowance' <= Capacity => Refilled' = allowance'
  BY <1>2, <1>5 DEF Refilled, Least
<1>7. \A i \in 1..Len(calls) : calls[i] * PerTick \in Int /\ i * Token \in Int
  BY <1>1, <1>2
<1>8. CASE Refilled >= Token
  <2>1. allowance' = Refilled - Token /\ calls' = <<0>> \o calls
    BY <1>8 DEF TakeToken
  <2>2. /\ calls' \in Seq(Nat) /\ Len(calls') = Len(calls) + 1 /\ calls'[1] = 0
        /\ \A i \in 2..Len(calls') : i - 1 \in 1..Len(calls) /\ calls'[i] = calls[i - 1]
    BY <1>1, <2>1, PutFirst
  <2>3. Refilled' = Refilled - Token BY <1>2, <1>3, <1>6, <2>1
  <2>4. \A i \in 1..Len(calls) : (i + 1) * Token = i * Token + Token
    BY <1>2, OneMore
  <2>5. \A i \in 1..Len(calls) : (i + 1) * Token <= Capacity + calls[i] * PerTick
    BY <1>2, <1>3, <1>7, <1>8, <2>4 DEF Paced, Budget
  <2>6. Budget'
    <3> SUFFICES ASSUME NEW i \in 1..Len(calls')
                 PROVE  i * Token + Refilled' <= Capacity + calls'[i] * PerTick
      BY DEF Budget
    <3>1. CASE i = 1
      <4>1. i * Token = Token /\ calls'[i] * PerTick = 0 BY <1>2, <2>2, <3>1
      <4> QED BY <1>2, <1>3, <2>3, <4>1
    <3>2. CASE i # 1
      <4>1. i \in 2..Len(calls') BY <1>1, <2>2, <3>2
      <4> DEFINE k == i - 1
      <4>2. k \in 1..Len(calls) /\ calls'[i] = calls[k] /\ k + 1 = i BY <2>2, <4>1
      <4>3. k * Token + Refilled <= Capacity + calls[k] * PerTick
        BY <4>2 DEF Paced, Budget
      <4>4. i * Token = k * Token + Token BY <2>4, <4>2
      <4>5. calls'[i] * PerTick = calls[k] * PerTick /\ calls[k] * PerTick \in Int
            /\ k * Token \in Int
        BY <1>7, <4>2
      <4> HIDE DEF k
      <4> QED BY <1>2, <1>3, <2>3, <4>3, <4>4, <4>5
    <3> QED BY <3>1, <3>2
  <2>7. RateIsKept'
    <3> SUFFICES ASSUME NEW i \in 1..Len(calls'), NEW j \in 1..Len(calls'), i <= j
                 PROVE  (j - i + 1) * Token
                          <= Capacity + (calls'[j] - calls'[i]) * PerTick
      BY DEF RateIsKept
    <3>1. CASE i = 1 /\ j = 1
      <4>1. (j - i + 1) * Token = Token /\ (calls'[j] - calls'[i]) * PerTick = 0
        BY <1>2, <2>2, <3>1
      <4> QED BY <1>2, <4>1
    <3>2. CASE i = 1 /\ j # 1
      <4>1. j \in 2..Len(calls') BY <1>1, <2>2, <3>2
      <4> DEFINE k == j - 1
      <4>2. k \in 1..Len(calls) /\ calls'[j] = calls[k] /\ k + 1 = j - i + 1
        BY <2>2, <3>2, <4>1
      <4>3. (k + 1) * Token <= Capacity + calls[k] * PerTick BY <2>5, <4>2
      <4>4. calls'[j] - calls'[i] = calls[k] BY <1>1, <2>2, <3>2, <4>2
      <4> QED BY <4>2, <4>3, <4>4
    <3>3. CASE i # 1
      <4>1. i \in 2..Len(calls') /\ j \in 2..Len(calls') BY <1>1, <2>2, <3>3
      <4> DEFINE h == i - 1
                 k == j - 1
      <4>2. /\ h \in 1..Len(calls) /\ calls'[i] = calls[h]
            /\ k \in 1..Len(calls) /\ calls'[j] = calls[k]
            /\ h <= k /\ k - h + 1 = j - i + 1
        BY <2>2, <4>1
      <4>3. (k - h + 1) * Token <= Capacity + (calls[k] - calls[h]) * PerTick
        BY <4>2 DEF Paced, RateIsKept
      <4> QED BY <4>2, <4>3
    <3> QED BY <3>1, <3>2, <3>3
  <2> QED BY <1>2, <1>3, <1>4, <2>1, <2>2, <2>6, <2>7 DEF Paced
<1>9. CASE ~(Refilled >= Token)
  <2>1. allowance' = Refilled /\ calls' = calls BY <1>9 DEF TakeToken
  <2>2. Refilled' = Refilled BY <1>3, <1>6, <2>1
  <2>3. Budget' BY <2>1, <2>2 DEF Paced, Budget
  <2>4. RateIsKept' BY <2>1 DEF Paced, RateIsKept
  <2> QED BY <1>1, <1>3, <1>4, <2>1, <2>3, <2>4 DEF Paced
<1> QED BY <1>8, <1>9

(* Time passes for the calls and for the bucket alike.                     *)
LEMMA TickStep == Paced /\ Tick => Paced'
<1> SUFFICES ASSUME Paced, Tick PROVE Paced' OBVIOUS
<1>1. /\ calls \in Seq(Nat) /\ allowance \in Int /\ elapsed \in Nat
      /\ allowance <= Capacity /\ Len(calls) \in Nat
      /\ \A i \in 1..Len(calls) : calls[i] \in Nat
  BY DEF Paced
<1>2. /\ Capacity \in Nat /\ Token \in Nat /\ PerTick \in Nat \ {0}
  BY EmbedLimiterAssumption
<1>3. Full \in Nat BY <1>2 DEF Full
<1>4. allowance' = allowance /\ elapsed' \in Nat /\ elapsed' <= elapsed + 1
  BY <1>1, <1>3 DEF Tick, Least
<1>5. elapsed' * PerTick <= elapsed * PerTick + PerTick
  <2>1. elapsed \in Nat /\ elapsed' \in Nat /\ elapsed' <= elapsed + 1
    BY <1>1, <1>4
  <2> QED BY <1>2, <2>1, AtMostOneMore
<1>6. /\ Refilled \in Int /\ Refilled <= Capacity
      /\ elapsed * PerTick \in Nat
      /\ Refilled = Capacity \/ Refilled = allowance + elapsed * PerTick
  BY <1>1, Refilling
<1>7. /\ elapsed' * PerTick \in Nat /\ Refilled' \in Int
      /\ Refilled' <= Capacity /\ Refilled' <= allowance + elapsed' * PerTick
  <2>1. elapsed' * PerTick \in Nat BY <1>2, <1>4, NatProduct
  <2> DEFINE held == elapsed' * PerTick
  <2>2. Refilled' = Least(Capacity, allowance + held) BY <1>4 DEF Refilled
  <2>3. held \in Nat BY <2>1
  <2> HIDE DEF held
  <2>4. Refilled' \in Int /\ Refilled' <= Capacity /\ Refilled' <= allowance + held
    BY <1>1, <1>2, <2>2, <2>3 DEF Least
  <2> QED BY <2>1, <2>4 DEF held
<1>8. Refilled' <= Refilled + PerTick
  <2> DEFINE held == elapsed * PerTick
             next == elapsed' * PerTick
  <2>1. /\ held \in Nat /\ next \in Nat /\ next <= held + PerTick
        /\ Refilled = Capacity \/ Refilled = allowance + held
        /\ Refilled' <= Capacity /\ Refilled' <= allowance + next
    BY <1>5, <1>6, <1>7
  <2> HIDE DEF held, next
  <2> QED BY <1>1, <1>2, <1>6, <1>7, <2>1
<1>9. PICK n \in 0..Len(calls) : calls' = [i \in 1..n |-> calls[i] + 1]
  BY DEF Tick
<1>10. /\ calls' \in Seq(Nat) /\ Len(calls') = n /\ n <= Len(calls)
       /\ \A i \in 1..n : i \in 1..Len(calls) /\ calls'[i] = calls[i] + 1
  BY <1>1, <1>9
<1>11. Budget'
  <2> SUFFICES ASSUME NEW i \in 1..n
               PROVE  i * Token + Refilled' <= Capacity + calls'[i] * PerTick
    BY <1>10 DEF Budget
  <2>1. i * Token + Refilled <= Capacity + calls[i] * PerTick
    BY <1>10 DEF Paced, Budget
  <2>2. calls[i] \in Nat /\ calls'[i] = calls[i] + 1 BY <1>1, <1>10
  <2>3. calls'[i] * PerTick = calls[i] * PerTick + PerTick BY <1>2, <2>2, OneMore
  <2>4. i * Token \in Int /\ calls[i] * PerTick \in Int BY <1>2, <2>2
  <2> DEFINE spent == i * Token
             back == calls[i] * PerTick
  <2>5. /\ spent \in Int /\ back \in Int /\ spent + Refilled <= Capacity + back
        /\ calls'[i] * PerTick = back + PerTick
    BY <2>1, <2>3, <2>4
  <2> HIDE DEF spent, back
  <2>6. /\ Refilled \in Int /\ Refilled' \in Int /\ Refilled' <= Refilled + PerTick
        /\ Capacity \in Int /\ PerTick \in Int
    BY <1>2, <1>6, <1>7, <1>8
  <2>7. spent + Refilled' <= Capacity + (back + PerTick)
    BY <2>5, <2>6, StillWithin
  <2> QED BY <2>5, <2>7 DEF spent
<1>12. RateIsKept'
  <2> SUFFICES ASSUME NEW i \in 1..n, NEW j \in 1..n, i <= j
               PROVE  (j - i + 1) * Token <= Capacity + (calls'[j] - calls'[i]) * PerTick
    BY <1>10 DEF RateIsKept
  <2> DEFINE first == calls[i]
             last == calls[j]
  <2>3. /\ first \in Nat /\ last \in Nat
        /\ calls'[i] = first + 1 /\ calls'[j] = last + 1
    BY <1>1, <1>10
  <2> HIDE DEF first, last
  <2>4. calls'[j] - calls'[i] = last - first BY <2>3
  <2>1. calls'[j] - calls'[i] = calls[j] - calls[i]
    <3>1. first = calls[i] /\ last = calls[j] BY DEF first, last
    <3> QED BY <2>4, <3>1
  <2>2. (j - i + 1) * Token <= Capacity + (calls[j] - calls[i]) * PerTick
    BY <1>10 DEF Paced, RateIsKept
  <2> QED BY <2>1, <2>2
<1> QED BY <1>1, <1>4, <1>10, <1>11, <1>12 DEF Paced

LEMMA PacedStep == Paced /\ [ELNext]_elVars => Paced'
<1> SUFFICES ASSUME Paced, [ELNext]_elVars PROVE Paced' OBVIOUS
<1>1. ASSUME UNCHANGED <<allowance, elapsed, calls>> PROVE Paced'
  BY <1>1 DEF Paced, Budget, RateIsKept, Refilled, Least
<1>2. ASSUME NEW e \in Embedders, TakeToken(e) PROVE Paced' BY <1>2, TakeTokenStep
<1>3. ASSUME NEW e \in Embedders,
             NextBatch(e) \/ EnterSlot(e) \/ Answer(e) \/ Retry(e) \/ GiveUp(e)
      PROVE  UNCHANGED <<allowance, elapsed, calls>>
  BY <1>3 DEF NextBatch, EnterSlot, Answer, Retry, GiveUp
<1>4. CASE Tick BY <1>4, TickStep
<1>5. CASE UNCHANGED elVars BY <1>1, <1>5 DEF elVars
<1> QED BY <1>1, <1>2, <1>3, <1>4, <1>5 DEF ELNext, Embed

(* Over any stretch of time no more batches are let through than the       *)
(* bucket holds and the stretch refills (limiter.py:35-50).                *)
THEOREM RateHolds == ELSpec => []RateIsKept
<1>1. Paced => RateIsKept BY DEF Paced
<1> QED BY PacedInit, PacedStep, <1>1, PTL DEF ELSpec

-----------------------------------------------------------------------------
(* The types.  An embedder that is in a batch has one left: without this   *)
(* its answer could count below none.                                      *)
ELTypes == ELTypeOK /\ \A e \in Embedders : stage[e] # "idle" => left[e] > 0

LEMMA LimiterBounds ==
    /\ Batches \in Nat /\ Token \in Nat /\ PerTick \in Nat \ {0} /\ Capacity \in Nat
    /\ Token <= Capacity /\ Retries \in Nat \ {0} /\ RetryDelay \in Nat /\ Window \in Nat
    /\ Full \in Nat
<1>1. Capacity \div PerTick \in Nat BY EmbedLimiterAssumption
<1> QED BY <1>1, EmbedLimiterAssumption DEF Full

\* What the bucket holds once refilled.
LEMMA RefilledType ==
    ASSUME ELTypeOK PROVE Refilled \in 0..Capacity
<1>1. allowance \in Nat /\ allowance <= Capacity /\ elapsed \in Nat
  BY LimiterBounds DEF ELTypeOK
<1>2. elapsed * PerTick \in Nat BY <1>1, LimiterBounds
<1> DEFINE held == elapsed * PerTick
<1>3. held \in Nat /\ Refilled = Least(Capacity, allowance + held) BY <1>2 DEF Refilled
<1> HIDE DEF held
<1> QED BY <1>1, <1>3, LimiterBounds DEF Least

LEMMA RoundedUpType ==
    ASSUME NEW a \in Nat, NEW b \in Nat \ {0} PROVE RoundedUp(a, b) \in Nat
<1>1. a + b - 1 \in Nat OBVIOUS
<1> QED BY <1>1 DEF RoundedUp

\* An embedder comes to another stage.
LEMMA MoveTypes ==
    ASSUME ELTypes, NEW e \in Embedders, NEW to, Move(e, to),
           to \in {"idle", "waiting", "taking", "calling"}
    PROVE  /\ stage' \in [Embedders -> {"idle", "waiting", "taking", "calling"}]
           /\ \A f \in Embedders : stage'[f] = IF f = e THEN to ELSE stage[f]
BY DEF ELTypes, ELTypeOK, Move

LEMMA EmbedTypes ==
    ASSUME ELTypes, NEW e \in Embedders, Embed(e)
    PROVE  ELTypes'
<1>0. /\ stage \in [Embedders -> {"idle", "waiting", "taking", "calling"}]
      /\ left \in [Embedders -> 0..Batches] /\ sleep \in [Embedders -> Nat]
      /\ attempt \in [Embedders -> 0..Retries - 1]
      /\ allowance \in 0..Capacity /\ elapsed \in 0..Full /\ calls \in Seq(0..Window)
      /\ \A f \in Embedders : stage[f] # "idle" => left[f] > 0
      /\ left[e] \in 0..Batches /\ attempt[e] \in 0..Retries - 1
  BY DEF ELTypes, ELTypeOK
<1>1. CASE NextBatch(e) \/ EnterSlot(e)
  <2>1. PICK to \in {"waiting", "taking"} : Move(e, to)
    BY <1>1 DEF NextBatch, EnterSlot
  <2>2. UNCHANGED <<left, sleep, attempt, allowance, elapsed, calls>> /\ left[e] > 0
    BY <1>0, <1>1 DEF NextBatch, EnterSlot
  <2> QED BY <1>0, <2>1, <2>2, MoveTypes DEF ELTypes, ELTypeOK
<1>2. CASE TakeToken(e)
  <2>1. UNCHANGED <<left, attempt>> /\ elapsed' = 0 /\ stage[e] = "taking"
    BY <1>2 DEF TakeToken
  <2>2. elapsed' \in 0..Full BY <2>1, LimiterBounds
  <2>3. Refilled \in 0..Capacity BY RefilledType DEF ELTypes
  <2>4. CASE Refilled >= Token
    <3>1. /\ allowance' = Refilled - Token /\ calls' = <<0>> \o calls
          /\ Move(e, "calling") /\ sleep' = sleep
      BY <1>2, <2>4 DEF TakeToken
    <3>2. allowance' \in 0..Capacity
      <4> DEFINE held == Refilled
      <4>1. held \in 0..Capacity /\ held >= Token /\ allowance' = held - Token
        BY <2>3, <2>4, <3>1
      <4> HIDE DEF held
      <4> QED BY <4>1, LimiterBounds
    <3>3. calls' \in Seq(0..Window)
      <4>1. <<0>> \in Seq(0..Window) BY LimiterBounds
      <4> QED BY <1>0, <3>1, <4>1, ConcatProperties
    <3> QED BY <1>0, <2>1, <2>2, <3>1, <3>2, <3>3, MoveTypes DEF ELTypes, ELTypeOK
  <2>5. CASE ~(Refilled >= Token)
    <3>1. /\ allowance' = Refilled /\ UNCHANGED <<stage, calls>>
          /\ sleep' = [sleep EXCEPT ![e] = RoundedUp(Token - Refilled, PerTick)]
      BY <1>2, <2>5 DEF TakeToken
    <3>2. Token - Refilled \in Nat
      <4> DEFINE held == Refilled
      <4>1. held \in 0..Capacity /\ ~(held >= Token) BY <2>3, <2>5
      <4> HIDE DEF held
      <4>2. Token - held \in Nat BY <4>1, LimiterBounds
      <4> QED BY <4>2 DEF held
    <3>3. RoundedUp(Token - Refilled, PerTick) \in Nat BY <3>2, LimiterBounds, RoundedUpType
    <3>4. sleep' \in [Embedders -> Nat] BY <1>0, <3>1, <3>3
    <3> QED BY <1>0, <2>1, <2>2, <2>3, <3>1, <3>4 DEF ELTypes, ELTypeOK
  <2> QED BY <2>4, <2>5
<1>3. CASE Answer(e) \/ GiveUp(e)
  <2>1. /\ UNCHANGED <<sleep, allowance, elapsed, calls>> /\ Move(e, "idle")
        /\ attempt' = [attempt EXCEPT ![e] = 0] /\ stage[e] # "idle"
    BY <1>3 DEF Answer, GiveUp
  <2>2. PICK n \in 0..Batches : left' = [left EXCEPT ![e] = n]
    <3>1. left[e] > 0 BY <1>0, <2>1
    <3>2. left[e] - 1 \in 0..Batches /\ 0 \in 0..Batches BY <1>0, <3>1, LimiterBounds
    <3> QED BY <1>3, <3>2 DEF Answer, GiveUp
  <2>3. attempt' \in [Embedders -> 0..Retries - 1]
    <3>1. 0 \in 0..Retries - 1 BY LimiterBounds
    <3> QED BY <1>0, <2>1, <3>1
  <2>4. /\ left' \in [Embedders -> 0..Batches]
        /\ \A f \in Embedders : f # e => left'[f] = left[f]
    BY <1>0, <2>2
  <2> QED BY <1>0, <2>1, <2>3, <2>4, MoveTypes DEF ELTypes, ELTypeOK
<1>4. CASE Retry(e)
  <2>1. attempt[e] + 1 \in 0..Retries - 1 BY <1>0, <1>4, LimiterBounds DEF Retry
  <2>2. attempt' \in [Embedders -> 0..Retries - 1] /\ sleep' \in [Embedders -> Nat]
    BY <1>0, <1>4, <2>1, LimiterBounds DEF Retry
  <2> QED BY <1>0, <1>4, <2>2 DEF Retry, ELTypes, ELTypeOK
<1> QED BY <1>1, <1>2, <1>3, <1>4 DEF Embed

LEMMA TickTypes == ASSUME ELTypes, Tick PROVE ELTypes'
<1>0. /\ sleep \in [Embedders -> Nat] /\ elapsed \in 0..Full /\ calls \in Seq(0..Window)
      /\ Len(calls) \in Nat /\ \A i \in 1..Len(calls) : calls[i] \in 0..Window
  <2>1. /\ sleep \in [Embedders -> Nat] /\ elapsed \in 0..Full
        /\ calls \in Seq(0..Window)
    BY DEF ELTypes, ELTypeOK
  <2>2. Len(calls) \in Nat /\ calls \in [1..Len(calls) -> 0..Window]
    BY <2>1, LenProperties
  <2> QED BY <2>1, <2>2
<1>1. elapsed' \in 0..Full
  <2>1. elapsed' = Least(elapsed + 1, Full) BY DEF Tick
  <2>2. elapsed + 1 \in Nat /\ Full \in Nat BY <1>0, LimiterBounds
  <2> QED BY <2>1, <2>2 DEF Least
<1>2. sleep' \in [Embedders -> Nat]
  <2>1. \A e \in Embedders : (IF sleep[e] = 0 THEN 0 ELSE sleep[e] - 1) \in Nat
    BY <1>0
  <2> QED BY <2>1 DEF Tick
<1>3. calls' \in Seq(0..Window)
  <2>1. PICK n \in 0..Len(calls) :
          /\ \A i \in 1..Len(calls) : i <= n <=> calls[i] < Window
          /\ calls' = [i \in 1..n |-> calls[i] + 1]
    BY DEF Tick
  <2>2. ASSUME NEW i \in 1..n PROVE calls[i] + 1 \in 0..Window
    <3>1. Len(calls) \in Nat /\ n \in 0..Len(calls) BY <1>0
    <3>2. i \in 1..Len(calls) /\ i <= n BY <3>1
    <3>3. calls[i] \in 0..Window /\ calls[i] < Window BY <1>0, <2>1, <3>2
    <3> QED BY <3>3, LimiterBounds
  <2>3. calls' \in [1..n -> 0..Window] BY <2>1, <2>2
  <2>4. n \in Nat BY <1>0
  <2> QED BY <2>3, <2>4, SeqDef
<1> QED BY <1>1, <1>2, <1>3 DEF ELTypes, ELTypeOK, Tick

(* The limiter's state is well typed: the bucket never holds more than its *)
(* capacity or less than nothing, no sleep is negative, and no embedder is *)
(* answered more often than it has batches (limiter.py:35-60).             *)
THEOREM LimiterTypes == ELSpec => []ELTypeOK
<1>1. ELInit => ELTypes
  <2> SUFFICES ASSUME ELInit PROVE ELTypes OBVIOUS
  <2>1. /\ 0 \in 0..Retries - 1 /\ Batches \in 0..Batches /\ Capacity \in 0..Capacity
        /\ 0 \in 0..Full /\ 0 \in Nat
    BY LimiterBounds
  <2>2. calls \in Seq(0..Window) BY DEF ELInit
  <2> QED BY <2>1, <2>2 DEF ELInit, ELTypes, ELTypeOK
<1>2. ELTypes /\ [ELNext]_elVars => ELTypes'
  <2> SUFFICES ASSUME ELTypes, [ELNext]_elVars PROVE ELTypes' OBVIOUS
  <2>1. CASE UNCHANGED elVars BY <2>1 DEF elVars, ELTypes, ELTypeOK
  <2> QED BY <2>1, EmbedTypes, TickTypes DEF ELNext
<1>3. ELTypes => ELTypeOK BY DEF ELTypes
<1> QED BY <1>1, <1>2, <1>3, PTL DEF ELSpec
=============================================================================
