---------------------------- MODULE EmbedLimiter ----------------------------
(***************************************************************************)
(* The shared bottleneck in front of the embeddings endpoint: a semaphore  *)
(* that bounds the batches in flight, a token bucket that paces them       *)
(* (src/src/embed/limiter.py), and the bounded retries of one batch        *)
(* (src/src/embed/client.py), which go on inside the slot of the batch.    *)
(*                                                                         *)
(* Time is counted in ticks and a token in parts: Token parts are one      *)
(* token, PerTick parts are refilled in a tick.  Clock values never occur, *)
(* only the time since the last refill and what is left of each sleep, so  *)
(* that the number of states is finite without a bound on time.            *)
(***************************************************************************)
EXTENDS Integers, Sequences, FiniteSets

CONSTANTS Embedders,    \* the runs' threads that embed
          Batches,      \* the batches each of them has
          Concurrency,  \* QI_EMBED_CONCURRENCY, at least 1
          Token,        \* the parts of one token
          PerTick,      \* the parts refilled in a tick: QI_EMBED_RPS
          Capacity,     \* the parts the bucket holds, at least one token
          Retries,      \* the attempts at one batch
          RetryDelay,   \* the ticks between two attempts
          Window        \* the ticks RateIsKept looks back

ASSUME EmbedLimiterAssumption ==
    /\ Batches \in Nat /\ Concurrency \in Nat \ {0}
    /\ Token \in Nat \ {0} /\ PerTick \in Nat \ {0}
    /\ Capacity \in Nat /\ Capacity >= Token
    /\ Retries \in Nat \ {0} /\ RetryDelay \in Nat /\ Window \in Nat

VARIABLES stage,      \* what each embedder does
          left,       \* the batches it has left
          sleep,      \* the ticks left of its sleep
          attempt,    \* the attempts made at its batch
          allowance,  \* _allowance, in parts
          elapsed,    \* the ticks since _last_refill, as far as they matter
          calls       \* history: the ages of the tokens taken, newest first

elVars == <<stage, left, sleep, attempt, allowance, elapsed, calls>>

Holding == {e \in Embedders : stage[e] \notin {"idle", "waiting"}}
\* Ticks after which an empty bucket is full.
Full == Capacity \div PerTick + 1
Least(a, b) == IF a < b THEN a ELSE b
RoundedUp(a, b) == (a + b - 1) \div b

\* Slip: the bucket has no rim.
RefilledBeyond == allowance + elapsed * PerTick

Refilled == Least(Capacity, allowance + elapsed * PerTick)

Move(e, to) == stage' = [stage EXCEPT ![e] = to]

-----------------------------------------------------------------------------
ELInit ==
    /\ stage = [e \in Embedders |-> "idle"]
    /\ left = [e \in Embedders |-> Batches]
    /\ sleep = [e \in Embedders |-> 0]
    /\ attempt = [e \in Embedders |-> 0]
    /\ allowance = Capacity /\ elapsed = 0 /\ calls = <<>>

\* LimitedEmbedder.embed_all comes to its next batch.
NextBatch(e) ==
    /\ stage[e] = "idle" /\ left[e] > 0
    /\ Move(e, "waiting")
    /\ UNCHANGED <<left, sleep, attempt, allowance, elapsed, calls>>

\* with self._semaphore
EnterSlot(e) ==
    /\ stage[e] = "waiting" /\ Cardinality(Holding) < Concurrency
    /\ Move(e, "taking")
    /\ UNCHANGED <<left, sleep, attempt, allowance, elapsed, calls>>

\* _take_token: refill first, then take a token or sleep until there may be
\* one; the slot is kept meanwhile.
TakeToken(e) ==
    /\ stage[e] = "taking" /\ sleep[e] = 0
    /\ elapsed' = 0
    /\ IF Refilled >= Token
       THEN /\ allowance' = Refilled - Token
            /\ calls' = <<0>> \o calls
            /\ Move(e, "calling")
            /\ UNCHANGED sleep
       ELSE /\ allowance' = Refilled
            /\ sleep' = [sleep EXCEPT ![e] = RoundedUp(Token - Refilled, PerTick)]
            /\ UNCHANGED <<stage, calls>>
    /\ UNCHANGED <<left, attempt>>

(* embed_batch: one POST; a failed one is repeated after a sleep, and the  *)
(* last failure is raised through the slot and ends the run.               *)
Answer(e) ==
    /\ stage[e] = "calling" /\ sleep[e] = 0
    /\ left' = [left EXCEPT ![e] = @ - 1]
    /\ attempt' = [attempt EXCEPT ![e] = 0]
    /\ Move(e, "idle")
    /\ UNCHANGED <<sleep, allowance, elapsed, calls>>

Retry(e) ==
    /\ stage[e] = "calling" /\ sleep[e] = 0 /\ attempt[e] + 1 < Retries
    /\ attempt' = [attempt EXCEPT ![e] = @ + 1]
    /\ sleep' = [sleep EXCEPT ![e] = RetryDelay]
    /\ UNCHANGED <<stage, left, allowance, elapsed, calls>>

\* Slip: the slot is not given back when the call raises.
GiveUpInSlot(e) ==
    /\ stage[e] = "calling" /\ sleep[e] = 0 /\ attempt[e] + 1 = Retries
    /\ left' = [left EXCEPT ![e] = 0]
    /\ attempt' = [attempt EXCEPT ![e] = 0]
    /\ Move(e, "gone")
    /\ UNCHANGED <<sleep, allowance, elapsed, calls>>

GiveUp(e) ==
    /\ stage[e] = "calling" /\ sleep[e] = 0 /\ attempt[e] + 1 = Retries
    /\ left' = [left EXCEPT ![e] = 0]
    /\ attempt' = [attempt EXCEPT ![e] = 0]
    /\ Move(e, "idle")
    /\ UNCHANGED <<sleep, allowance, elapsed, calls>>

\* Time passes; calls older than the window are forgotten.
Tick ==
    /\ elapsed' = Least(elapsed + 1, Full)
    /\ sleep' = [e \in Embedders |-> IF sleep[e] = 0 THEN 0 ELSE sleep[e] - 1]
    /\ \E n \in 0..Len(calls) :
         /\ \A i \in 1..Len(calls) : i <= n <=> calls[i] < Window
         /\ calls' = [i \in 1..n |-> calls[i] + 1]
    /\ UNCHANGED <<stage, left, attempt, allowance>>

Embed(e) == NextBatch(e) \/ EnterSlot(e) \/ TakeToken(e)
            \/ Answer(e) \/ Retry(e) \/ GiveUp(e)
ELNext == Tick \/ \E e \in Embedders : Embed(e)
ELSpec == ELInit /\ [][ELNext]_elVars

(* Sleeps end and calls are answered or time out; the semaphore wakes some *)
(* waiter at every release, and there are finitely many batches.           *)
ELFairness == WF_elVars(Tick) /\ \A e \in Embedders : SF_elVars(Embed(e))
ELFairSpec == ELSpec /\ ELFairness

-----------------------------------------------------------------------------
ELTypeOK ==
    /\ stage \in [Embedders -> {"idle", "waiting", "taking", "calling"}]
    /\ left \in [Embedders -> 0..Batches]
    /\ sleep \in [Embedders -> Nat] /\ attempt \in [Embedders -> 0..Retries - 1]
    /\ allowance \in 0..Capacity /\ elapsed \in 0..Full
    /\ calls \in Seq(0..Window)

(* Over any stretch of time, bursts, idle periods and sleepers that wake   *)
(* together included, no more batches are let through than the bucket      *)
(* holds and the stretch refills (limiter.py:3-7, QI_EMBED_RPS).           *)
RateIsKept ==
    \A i, j \in 1..Len(calls) : i <= j =>
        (j - i + 1) * Token <= Capacity + (calls[j] - calls[i]) * PerTick

(* Every batch is sent or its run given up: no path through a slot keeps   *)
(* it, and nobody sleeps on a token that never comes, although sleepers    *)
(* keep their slots (limiter.py:35-60).                                    *)
EveryBatchIsDone == <>(\A e \in Embedders : left[e] = 0 /\ stage[e] = "idle")
=============================================================================
