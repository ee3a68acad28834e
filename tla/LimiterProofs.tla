--------------------------- MODULE LimiterProofs ---------------------------
(***************************************************************************)
(* Theorems about Limiter for any keys, callers, rate, burst and capacity, *)
(* and any bound on how long a caller is held up.                          *)
(***************************************************************************)
EXTENDS Limiter, TLAPS, FiniteSetTheorems

\* What the observer has counted was paid from a full bucket and what has flowed
\* in since, up to the bucket's own time; a caller that was held up when the
\* count began may bring that time before the count's beginning, by MaxLag.
Spent ==
    watch.key \in Known =>
        \/ watch.taken = 0
        \/ buckets[watch.key].tokens + watch.taken * Cost
             <= Full + Refill * (buckets[watch.key].last - watch.since + MaxLag)

\* A bucket that has announced nothing has no line on its account.
Remembered ==
    \A k \in Key :
        /\ lines[k] <= 1
        /\ k \in Known /\ ~buckets[k].announced => lines[k] = 0

IInv == TypeOK /\ Spent /\ NoDebt /\ WithinCapacity /\ Remembered

----------------------------------------------------------------------------
(* What flows in over two stretches of time. *)

LEMMA FlowAdds ==
    ASSUME NEW a \in Int, NEW b \in Int
    PROVE  Refill * (a + b) = Refill * a + Refill * b
  BY LimiterAssumption

\* What a bucket is worth later is what it is worth now and what flows in.
LEMMA InflowMoves ==
    ASSUME NEW b \in Bucket, NEW s \in Int, NEW t \in Int
    PROVE  /\ Inflow(b, s) \in Int
           /\ Inflow(b, t) = Inflow(b, s) + Refill * (t - s)
<1>1. b.tokens \in Int /\ b.last \in Int
  BY LimiterAssumption DEF Bucket, Time
<1>2. Refill * (t - b.last) = Refill * (s - b.last) + Refill * (t - s)
  <2>1. s - b.last \in Int /\ t - s \in Int /\ (s - b.last) + (t - s) = t - b.last
    BY <1>1
  <2> QED
    BY <2>1, FlowAdds
<1>3. Refill * (s - b.last) \in Int
  BY <1>1, LimiterAssumption
<1>4. Inflow(b, s) \in Int
  BY <1>1, <1>3 DEF Inflow
<1>5. b.tokens + (Refill * (s - b.last) + Refill * (t - s))
        = (b.tokens + Refill * (s - b.last)) + Refill * (t - s)
  BY <1>1, <1>3, LimiterAssumption
<1>6. Inflow(b, t) = Inflow(b, s) + Refill * (t - s)
  BY <1>2, <1>5, Zenon DEF Inflow
<1> QED
  BY <1>4, <1>6

\* A refill stops at the brim and never adds more than flows in.
LEMMA RefilledBounds ==
    ASSUME NEW b \in Bucket, NEW t \in Int
    PROVE  /\ Refilled(b, t) \in Int
           /\ Refilled(b, t) <= Full
           /\ Refilled(b, t) <= Inflow(b, t)
           /\ Refilled(b, t) = Full \/ Refilled(b, t) = Inflow(b, t)
<1>1. Inflow(b, t) \in Int
  BY InflowMoves
<1> QED
  BY <1>1, LimiterAssumption DEF Refilled

----------------------------------------------------------------------------
(* The steps that leave the buckets alone. *)

LEMMA InitEstablishes == Init => IInv
<1> SUFFICES ASSUME Init PROVE IInv
  OBVIOUS
<1>1. Known = {}
  BY DEF Init, Known
<1>2. TypeOK
  BY <1>1, LimiterAssumption DEF Init, TypeOK, Time
<1>3. WithinCapacity
  BY <1>1, FS_EmptySet, LimiterAssumption DEF WithinCapacity
<1>4. Spent /\ NoDebt /\ Remembered
  BY <1>1 DEF Init, Spent, NoDebt, Remembered
<1> QED
  BY <1>2, <1>3, <1>4 DEF IInv

LEMMA ReadClockPreserves ==
    ASSUME IInv, NEW c \in Caller, NEW k \in Key, ReadClock(c, k)
    PROVE  IInv'
<1>1. TypeOK'
  BY LimiterAssumption DEF IInv, TypeOK, ReadClock, Call, Known, Time
<1>2. (Spent /\ NoDebt /\ WithinCapacity /\ Remembered)'
  BY DEF ReadClock, IInv, Spent, NoDebt, WithinCapacity, Remembered, Known, Inflow
<1> QED
  BY <1>1, <1>2 DEF IInv

LEMMA ObservePreserves ==
    ASSUME IInv, NEW k \in Key, Observe(k)
    PROVE  IInv'
<1>1. TypeOK'
  BY LimiterAssumption DEF IInv, TypeOK, Observe, Known, Time
<1>2. Spent'
  BY DEF Observe, Spent
<1>3. (NoDebt /\ WithinCapacity /\ Remembered)'
  BY DEF Observe, IInv, NoDebt, WithinCapacity, Remembered, Known, Inflow
<1> QED
  BY <1>1, <1>2, <1>3 DEF IInv

LEMMA TickPreserves ==
    ASSUME IInv, Tick
    PROVE  IInv'
<1>1. TypeOK'
  <2>1. now \in Nat /\ now' = now + 1 /\ now' \in Time
    BY LimiterAssumption DEF IInv, TypeOK, Tick, Time
  <2>2. watch' \in [key : Key, since : 0..now', taken : Nat]
    BY <2>1 DEF IInv, TypeOK, Tick
  <2>3. \A c \in Caller : calls[c] # None => calls[c].time \in Nat
    BY LimiterAssumption DEF IInv, TypeOK, Call, Time
  <2>4. (\A c \in Caller : calls[c] # None =>
            calls[c].time <= now /\ now <= calls[c].time + MaxLag)'
    BY <2>1, <2>3, LimiterAssumption DEF IInv, TypeOK, Tick
  <2>5. \A k \in Known : buckets[k].last \in Nat
    BY LimiterAssumption DEF IInv, TypeOK, Known, Bucket, Time
  <2>6. (\A k \in Known : buckets[k].last <= now /\ buckets[k].tokens <= Full)'
    BY <2>1, <2>5 DEF IInv, TypeOK, Tick, Known
  <2> QED
    BY <2>1, <2>2, <2>4, <2>6 DEF IInv, TypeOK, Tick
<1>2. NoDebt'
  <2> SUFFICES ASSUME NEW k \in Known PROVE Inflow(buckets[k], now + 1) >= 0
    BY DEF Tick, NoDebt, Known, Inflow
  <2>1. buckets[k] \in Bucket /\ now \in Int
    BY LimiterAssumption DEF IInv, TypeOK, Known, Time
  <2>2. Inflow(buckets[k], now + 1) = Inflow(buckets[k], now) + Refill * ((now + 1) - now)
    BY <2>1, InflowMoves
  <2>3. Inflow(buckets[k], now) >= 0 /\ Inflow(buckets[k], now) \in Int
    BY <2>1, InflowMoves DEF IInv, NoDebt
  <2>4. Refill * ((now + 1) - now) \in Nat
    BY <2>1, LimiterAssumption
  <2> QED
    BY <2>2, <2>3, <2>4
<1>3. (Spent /\ WithinCapacity /\ Remembered)'
  BY DEF Tick, IInv, Spent, WithinCapacity, Remembered, Known
<1> QED
  BY <1>1, <1>2, <1>3 DEF IInv

----------------------------------------------------------------------------
(* A call.  The bucket it leaves behind is described once, and each part of *)
(* the invariant is then a matter of the one key it was for.                *)

\* The bucket a call finds or makes: within the brim, and in nobody's debt.
LEMMA FoundBucket ==
    ASSUME IInv, NEW k \in Key, NEW t \in Time, t <= now
    PROVE  /\ Found(k, t) \in Bucket
           /\ Found(k, t).last <= now
           /\ Inflow(Found(k, t), now) >= 0
<1>0. now \in Nat /\ t \in Nat
  BY LimiterAssumption DEF IInv, TypeOK, Time
<1>1. CASE k \in Known
  BY <1>1 DEF Found, IInv, TypeOK, NoDebt, Known
<1>2. CASE k \notin Known
  <2>1. Found(k, t) = [tokens |-> Full, last |-> t, announced |-> FALSE]
    BY <1>2 DEF Found
  <2>2. Refill * (now - t) \in Nat
    BY <1>0, LimiterAssumption
  <2> QED
    BY <1>0, <2>1, <2>2, LimiterAssumption DEF Bucket, Inflow
<1> QED
  BY <1>1, <1>2

\* The bucket a call leaves behind.
Left(b, t) == IF Refilled(b, t) >= Cost THEN Allowed(b, t) ELSE Refused(b, t)

LEMMA LeftBucket ==
    ASSUME IInv, NEW b \in Bucket, b.last <= now, Inflow(b, now) >= 0,
           NEW t \in Time, t <= now
    PROVE  /\ Left(b, t) \in Bucket
           /\ Left(b, t).last = t
           /\ Left(b, t).tokens <= Full
           /\ Inflow(Left(b, t), now) >= 0
           /\ Refilled(b, t) >= Cost =>
                Left(b, t).tokens = Refilled(b, t) - Cost /\ ~Left(b, t).announced
           /\ ~(Refilled(b, t) >= Cost) =>
                Left(b, t).tokens = Refilled(b, t) /\ Left(b, t).announced
<1>0. now \in Nat /\ t \in Nat
  BY LimiterAssumption DEF IInv, TypeOK, Time
<1>1. /\ Refilled(b, t) \in Int /\ Refilled(b, t) <= Full
      /\ Refilled(b, t) = Full \/ Refilled(b, t) = Inflow(b, t)
  BY <1>0, RefilledBounds
<1>2. Refill * (now - t) \in Nat
  BY <1>0, LimiterAssumption
<1>3. CASE Refilled(b, t) >= Cost
  <2>1. Left(b, t) = [tokens |-> Refilled(b, t) - Cost, last |-> t, announced |-> FALSE]
    BY <1>3 DEF Left, Allowed
  <2> QED
    BY <1>1, <1>2, <1>3, <2>1, LimiterAssumption DEF Bucket, Inflow
<1>4. CASE ~(Refilled(b, t) >= Cost)
  <2>1. Left(b, t) = [tokens |-> Refilled(b, t), last |-> t, announced |-> TRUE]
    BY <1>4 DEF Left, Refused
  <2>2. Inflow(b, now) = Inflow(b, t) + Refill * (now - t)
    BY <1>0, InflowMoves
  <2>3. Inflow(b, t) \in Int
    BY <1>0, InflowMoves
  <2>4. Inflow(Left(b, t), now) = Refilled(b, t) + Refill * (now - t)
    BY <2>1 DEF Inflow
  <2>5. Inflow(Left(b, t), now) >= 0
    BY <1>1, <1>2, <2>2, <2>3, <2>4, LimiterAssumption
  <2> QED
    BY <1>1, <1>4, <2>1, <2>5, LimiterAssumption DEF Bucket
<1> QED
  BY <1>3, <1>4

\* The buckets after a call, one key at a time, and no more of them than fit.
LEMMA ForgottenMakesRoom ==
    ASSUME IInv, NEW k \in Key, NEW t, NEW forgotten \in Forgotten(k, t)
    PROVE  /\ k \in Known => forgotten = {}
           /\ Cardinality((Known \ forgotten) \union {k}) <= Capacity
<1>1. IsFiniteSet(Known) /\ Cardinality(Known) \in Nat /\ Cardinality(Known) <= Capacity
  BY FS_Subset, FS_CardinalityType, LimiterAssumption DEF Known, IInv, WithinCapacity
<1>2. CASE k \in Known
  <2>1. forgotten = {}
    BY <1>2 DEF Forgotten
  <2>2. (Known \ forgotten) \union {k} = Known
    BY <1>2, <2>1
  <2> QED
    BY <1>1, <2>1, <2>2
<1>3. CASE k \notin Known /\ Cardinality(Known) < Capacity
  <2>1. forgotten = {}
    BY <1>3 DEF Forgotten
  <2>2. (Known \ forgotten) \union {k} = Known \union {k}
    BY <2>1
  <2>3. Cardinality(Known \union {k}) = Cardinality(Known) + 1
    BY <1>1, <1>3, FS_AddElement
  <2> QED
    BY <1>1, <1>3, <2>2, <2>3, LimiterAssumption
<1>4. CASE k \notin Known /\ ~(Cardinality(Known) < Capacity)
  <2> DEFINE busy == Known \ Idle(t)
  <2>1. forgotten \in ForgetFullLocked(t)
    BY <1>4 DEF Forgotten
  <2>2. /\ IsFiniteSet(busy) /\ Cardinality(busy) \in Nat
        /\ Cardinality(busy) <= Cardinality(Known)
    BY <1>1, FS_Subset, FS_CardinalityType
  <2>3. CASE Cardinality(busy) < Capacity
    <3>1. forgotten = Idle(t)
      BY <2>1, <2>3 DEF ForgetFullLocked
    <3>2. (Known \ forgotten) \union {k} = busy \union {k}
      BY <3>1
    <3>3. Cardinality(busy \union {k}) = Cardinality(busy) + 1
      BY <1>4, <2>2, FS_AddElement
    <3>4. Cardinality(busy) + 1 <= Capacity
      BY <2>2, <2>3, LimiterAssumption
    <3>5. Cardinality((Known \ forgotten) \union {k}) <= Capacity
      BY <3>2, <3>3, <3>4, Zenon
    <3> QED
      BY <1>4, <3>5
  <2>4. CASE ~(Cardinality(busy) < Capacity)
    <3>1. PICK victim \in Oldest(busy) : forgotten = Idle(t) \union {victim}
      BY <2>1, <2>4 DEF ForgetFullLocked
    <3>2. victim \in busy
      BY DEF Oldest
    <3>3. (Known \ forgotten) \union {k} = (busy \ {victim}) \union {k}
      BY <3>1
    <3>4. IsFiniteSet(busy \ {victim}) /\ Cardinality(busy \ {victim}) = Cardinality(busy) - 1
      BY <2>2, <3>2, FS_RemoveElement
    <3>5. Cardinality((busy \ {victim}) \union {k}) = Cardinality(busy \ {victim}) + 1
      BY <1>4, <3>4, FS_AddElement
    <3>6. (Cardinality(busy) - 1) + 1 <= Capacity
      BY <1>1, <2>2, LimiterAssumption
    <3>7. Cardinality((Known \ forgotten) \union {k}) <= Capacity
      BY <3>3, <3>4, <3>5, <3>6, Zenon
    <3> QED
      BY <1>4, <3>7
  <2> QED
    BY <2>3, <2>4
<1> QED
  BY <1>2, <1>3, <1>4

LEMMA AllowPreserves ==
    ASSUME IInv, NEW c \in Caller, Allow(c)
    PROVE  IInv'
<1> DEFINE k == calls[c].key
           t == calls[c].time
           b == Found(k, t)
           enough == Refilled(b, t) >= Cost
<1>0. calls[c] \in Call /\ k \in Key /\ t \in Time /\ t <= now /\ now <= t + MaxLag
  BY DEF Allow, IInv, TypeOK, Call
<1>1. now \in Nat /\ t \in Nat /\ now' = now
  BY <1>0, LimiterAssumption DEF IInv, TypeOK, Time, Allow
<1>2. b \in Bucket /\ b.last <= now /\ Inflow(b, now) >= 0
  BY <1>0, FoundBucket
<1> HIDE DEF k, t, b, enough
<1>3. /\ Left(b, t) \in Bucket /\ Left(b, t).last = t /\ Left(b, t).tokens <= Full
      /\ Inflow(Left(b, t), now) >= 0
      /\ enough => Left(b, t).tokens = Refilled(b, t) - Cost /\ ~Left(b, t).announced
      /\ ~enough => Left(b, t).tokens = Refilled(b, t) /\ Left(b, t).announced
  BY <1>0, <1>2, LeftBucket DEF enough
<1>4. PICK forgotten \in Forgotten(k, t) :
         buckets' = [l \in Key |-> IF l = k THEN Left(b, t)
                                   ELSE IF l \in forgotten THEN None ELSE buckets[l]]
  BY DEF Allow, Left, k, t, b
<1>5. /\ watch' = IF k # watch.key THEN watch
                  ELSE [Counted(k) EXCEPT !.taken = @ + (IF enough THEN 1 ELSE 0)]
      /\ lines' = [lines EXCEPT ![k] =
                     IF enough THEN 0 ELSE @ + (IF b.announced THEN 0 ELSE 1)]
      /\ calls' = [calls EXCEPT ![c] = None]
  BY DEF Allow, k, t, b, enough
<1>6. Known' \subseteq (Known \ forgotten) \union {k} /\ k \in Known'
  BY <1>0, <1>3, <1>4, NoneAssumption DEF Known
<1>7. buckets'[k] = Left(b, t) /\ \A l \in Known' \ {k} : l \in Known /\ buckets'[l] = buckets[l]
  BY <1>0, <1>4 DEF Known
<1>8. /\ watch.key \in Key /\ watch.since \in 0..now /\ watch.taken \in Nat
      /\ watch = [key |-> watch.key, since |-> watch.since, taken |-> watch.taken]
  BY DEF IInv, TypeOK
<1>9. /\ watch'.key = watch.key
      /\ watch' \in [key : Key, since : 0..now, taken : Nat]
      /\ k = watch.key /\ k \in Known =>
            watch'.since = watch.since
            /\ watch'.taken = watch.taken + (IF enough THEN 1 ELSE 0)
      /\ k = watch.key /\ k \notin Known =>
            watch'.since = now /\ watch'.taken = (IF enough THEN 1 ELSE 0)
      /\ k # watch.key => watch' = watch
  BY <1>0, <1>1, <1>5, <1>8 DEF Counted
<1>a. TypeOK'
  <2>1. buckets' \in [Key -> Bucket \union {None}]
    BY <1>3, <1>4 DEF IInv, TypeOK
  <2>2. calls' \in [Caller -> Call \union {None}]
        /\ (\A d \in Caller : calls[d] # None =>
              calls[d].time <= now /\ now <= calls[d].time + MaxLag)'
    BY <1>1, <1>5 DEF IInv, TypeOK
  <2>3. lines' \in [Key -> Nat]
    BY <1>0, <1>5 DEF IInv, TypeOK
  <2>4. (\A l \in Known : buckets[l].last <= now /\ buckets[l].tokens <= Full)'
    BY <1>0, <1>1, <1>3, <1>7 DEF IInv, TypeOK
  <2> QED
    BY <1>1, <1>9, <2>1, <2>2, <2>3, <2>4 DEF IInv, TypeOK
<1>b. NoDebt'
  <2> SUFFICES ASSUME NEW l \in Known' PROVE Inflow(buckets'[l], now) >= 0
    BY <1>1 DEF NoDebt, Inflow
  <2> QED
    BY <1>3, <1>7 DEF IInv, NoDebt
<1>c. WithinCapacity'
  <2>1. Cardinality((Known \ forgotten) \union {k}) <= Capacity
    BY <1>0, <1>4, ForgottenMakesRoom
  <2>2. IsFiniteSet((Known \ forgotten) \union {k})
    BY <1>0, FS_Subset, LimiterAssumption DEF Known
  <2>3. Cardinality(Known') <= Cardinality((Known \ forgotten) \union {k})
    BY <1>6, <2>2, FS_Subset
  <2>4. Cardinality(Known') \in Nat /\ Cardinality((Known \ forgotten) \union {k}) \in Nat
    BY <1>6, <2>2, FS_Subset, FS_CardinalityType
  <2> QED
    BY <2>1, <2>3, <2>4, LimiterAssumption DEF WithinCapacity
<1>d. Spent'
  <2>1. CASE k # watch.key
    BY <1>7, <1>9, <2>1 DEF IInv, Spent
  <2>2. CASE k = watch.key
    <3> DEFINE flow == Refill * (t - watch'.since + MaxLag)
    <3>0. watch'.since \in Nat /\ watch'.since <= now /\ watch'.taken \in Nat
      BY <1>1, <1>9
    <3>1. flow \in Int /\ flow >= 0
      BY <1>0, <1>1, <3>0, LimiterAssumption
    <3>2. Refilled(b, t) \in Int /\ Refilled(b, t) <= Full /\ Refilled(b, t) <= Inflow(b, t)
      BY <1>1, <1>2, RefilledBounds
    <3> HIDE DEF flow
    <3>3. SUFFICES Left(b, t).tokens + watch'.taken * Cost <= Full + flow
      BY <1>3, <1>7, <1>9, <2>2 DEF Spent, flow
    <3>4. CASE k \notin Known \/ watch.taken = 0
      <4>1. watch'.taken = IF enough THEN 1 ELSE 0
        BY <1>8, <1>9, <2>2, <3>4
      <4>2. CASE enough
        BY <1>3, <3>1, <3>2, <4>1, <4>2, LimiterAssumption
      <4>3. CASE ~enough
        BY <1>3, <3>1, <3>2, <4>1, <4>3, LimiterAssumption
      <4> QED
        BY <4>2, <4>3
    <3>5. CASE k \in Known /\ watch.taken # 0
      <4>1. b = buckets[k]
        BY <3>5 DEF Found, b
      <4>2. b.tokens + watch.taken * Cost <= Full + Refill * (b.last - watch.since + MaxLag)
        BY <2>2, <3>5, <4>1 DEF IInv, Spent
      <4>3. b.tokens \in Int /\ b.last \in Nat
        BY <1>2, LimiterAssumption DEF Bucket, Time
      <4>4. watch'.since = watch.since
        BY <1>9, <2>2, <3>5
      <4>5. flow = Refill * (b.last - watch.since + MaxLag) + Refill * (t - b.last)
        <5>1. /\ b.last - watch.since + MaxLag \in Int /\ t - b.last \in Int
              /\ (b.last - watch.since + MaxLag) + (t - b.last) = t - watch.since + MaxLag
          BY <1>1, <3>0, <4>3, <4>4, LimiterAssumption
        <5> QED
          BY <5>1, <4>4, FlowAdds DEF flow
      <4>6. Inflow(b, t) = b.tokens + Refill * (t - b.last)
        BY DEF Inflow
      <4>7. Refill * (t - b.last) \in Int /\ Refill * (b.last - watch.since + MaxLag) \in Int
        BY <1>1, <3>0, <4>3, <4>4, LimiterAssumption
      <4>8. watch.taken * Cost \in Int
        BY <1>8, LimiterAssumption
      <4>9. Refilled(b, t) + watch.taken * Cost <= Full + flow
        BY <3>2, <4>2, <4>3, <4>5, <4>6, <4>7, <4>8, LimiterAssumption
      <4>10. CASE enough
        <5>1. watch'.taken * Cost = watch.taken * Cost + Cost
          BY <1>8, <1>9, <2>2, <3>5, <4>10, LimiterAssumption
        <5> QED
          BY <1>3, <3>1, <3>2, <4>8, <4>9, <4>10, <5>1, LimiterAssumption
      <4>11. CASE ~enough
        <5>1. watch'.taken = watch.taken
          BY <1>8, <1>9, <2>2, <3>5, <4>11
        <5> QED
          BY <1>3, <4>9, <4>11, <5>1
      <4> QED
        BY <4>10, <4>11
    <3> QED
      BY <3>4, <3>5
  <2> QED
    BY <2>1, <2>2
<1>e. Remembered'
  <2> SUFFICES ASSUME NEW l \in Key
               PROVE  /\ lines'[l] <= 1
                      /\ l \in Known' /\ ~buckets'[l].announced => lines'[l] = 0
    BY DEF Remembered
  <2>0. lines \in [Key -> Nat]
    BY DEF IInv, TypeOK
  <2>1. CASE l # k
    <3>1. lines'[l] = lines[l]
      BY <1>5, <2>0, <2>1
    <3> QED
      BY <1>7, <2>1, <3>1 DEF IInv, Remembered
  <2>2. CASE l = k /\ enough
    <3>1. lines'[l] = 0
      BY <1>5, <2>0, <2>2
    <3> QED
      BY <3>1
  <2>3. CASE l = k /\ ~enough
    <3>1. k \in Known
      <4>1. SUFFICES ASSUME k \notin Known PROVE enough
        BY <2>3
      <4>2. b = [tokens |-> Full, last |-> t, announced |-> FALSE]
        BY <4>1 DEF Found, b
      <4>3. Refilled(b, t) = Full
        BY <1>1, <4>2, LimiterAssumption DEF Refilled, Inflow
      <4> QED
        BY <4>3, LimiterAssumption DEF enough
    <3>2. b = buckets[k]
      BY <3>1 DEF Found, b
    <3>3. b.announced \in BOOLEAN
      BY <1>2 DEF Bucket
    <3>4. lines'[l] = lines[k] + (IF b.announced THEN 0 ELSE 1)
      BY <1>0, <1>5, <2>0, <2>3
    <3>5. lines'[l] <= 1
      BY <1>0, <2>0, <3>1, <3>2, <3>3, <3>4 DEF IInv, Remembered
    <3> QED
      BY <1>3, <1>7, <2>3, <3>5
  <2> QED
    BY <2>1, <2>2, <2>3
<1> QED
  BY <1>a, <1>b, <1>c, <1>d, <1>e DEF IInv

----------------------------------------------------------------------------

\* The inductive invariant of the limiter.
THEOREM Invariance == Spec => []IInv
<1>1. IInv /\ UNCHANGED vars => IInv'
  BY DEF vars, IInv, TypeOK, Spent, NoDebt, WithinCapacity, Remembered, Known, Inflow
<1>2. IInv /\ [Next]_vars => IInv'
  BY <1>1, ReadClockPreserves, AllowPreserves, ObservePreserves, TickPreserves DEF Next
<1> QED
  BY InitEstablishes, <1>2, PTL DEF Spec

\* In any stretch of time in which its bucket is kept a delivery token gets no
\* more than a burst and the refill, give or take one delayed caller's.
THEOREM RateBoundedHolds == Spec => []RateBounded
<1>1. IInv => RateBounded
  <2> SUFFICES ASSUME IInv, watch.key \in Known
               PROVE  watch.taken * Cost <= Full + Refill * (now - watch.since + MaxLag)
    BY DEF RateBounded
  <2> DEFINE b == buckets[watch.key]
  <2>0. /\ now \in Nat /\ watch.since \in Nat /\ watch.since <= now
        /\ watch.taken \in Nat /\ b \in Bucket
    BY LimiterAssumption DEF IInv, TypeOK, Time, Known
  <2>1. CASE watch.taken = 0
    <3>1. now - watch.since + MaxLag \in Nat
      BY <2>0, LimiterAssumption
    <3>2. Refill * (now - watch.since + MaxLag) \in Nat
      BY <3>1, LimiterAssumption
    <3>3. watch.taken * Cost = 0
      BY <2>1, LimiterAssumption
    <3> QED
      BY <3>2, <3>3, LimiterAssumption
  <2>2. CASE watch.taken # 0
    <3>1. b.tokens + watch.taken * Cost <= Full + Refill * (b.last - watch.since + MaxLag)
      BY <2>2 DEF IInv, Spent
    <3>2. b.tokens + Refill * (now - b.last) >= 0
      BY DEF IInv, NoDebt, Inflow
    <3>3. b.tokens \in Int /\ b.last \in Nat
      BY <2>0, LimiterAssumption DEF Bucket, Time
    <3> HIDE DEF b
    <3>4. Refill * (now - watch.since + MaxLag)
            = Refill * (b.last - watch.since + MaxLag) + Refill * (now - b.last)
      <4>1. /\ b.last - watch.since + MaxLag \in Int /\ now - b.last \in Int
            /\ (b.last - watch.since + MaxLag) + (now - b.last) = now - watch.since + MaxLag
        BY <2>0, <3>3, LimiterAssumption
      <4> QED
        BY <4>1, FlowAdds
    <3>5. /\ Refill * (b.last - watch.since + MaxLag) \in Int
          /\ Refill * (now - b.last) \in Int /\ watch.taken * Cost \in Int
      BY <2>0, <3>3, LimiterAssumption
    <3> QED
      BY <3>1, <3>2, <3>3, <3>4, <3>5, LimiterAssumption
  <2> QED
    BY <2>1, <2>2
<1> QED
  BY <1>1, Invariance, PTL

\* No crossing of clocks leaves a bucket owing at the present time.
THEOREM NoDebtHolds == Spec => []NoDebt
<1>1. IInv => NoDebt
  BY DEF IInv
<1> QED
  BY <1>1, Invariance, PTL

\* The map never outgrows its capacity.
THEOREM WithinCapacityHolds == Spec => []WithinCapacity
<1>1. IInv => WithinCapacity
  BY DEF IInv
<1> QED
  BY <1>1, Invariance, PTL

\* One line per spell of refusals, forgotten buckets included.
THEOREM OneLinePerSpellHolds == Spec => []OneLinePerSpell
<1>1. IInv => OneLinePerSpell
  BY DEF IInv, Remembered, OneLinePerSpell
<1> QED
  BY <1>1, Invariance, PTL
=============================================================================
