------------------------------ MODULE Limiter ------------------------------
(***************************************************************************)
(* The limiter of pushes, internal/relay/limit.go: a token bucket for each *)
(* delivery token.  A caller reads the clock before it takes the mutex, so *)
(* a worker that was overtaken comes with a time that is already past, and *)
(* the bucket's own time goes back.  Tokens are counted in parts of a push *)
(* (the code's are floating-point numbers), so that a slow refill is an    *)
(* integer.                                                                *)
(***************************************************************************)
EXTENDS Integers, FiniteSets

CONSTANTS
    Key,        \* delivery tokens
    Caller,     \* workers that may be inside deliver at once
    None,       \* no bucket; no call
    Cost,       \* the parts that make a push
    Full,       \* the parts in a full bucket: pushBurst pushes
    Refill,     \* parts that flow in per unit of time
    Capacity,   \* limiterCapacity
    MaxLag,     \* how long a caller may wait between the clock and the mutex
    MaxTime     \* bound on the clock of the model

Time == 0..MaxTime
Bucket == [tokens : Int, last : Time, announced : BOOLEAN]
Call == [key : Key, time : Time]

ASSUME LimiterAssumption ==
    /\ IsFiniteSet(Key)
    /\ Cost \in Nat \ {0}
    /\ Full \in Nat /\ Full >= Cost
    /\ Refill \in Nat
    /\ Capacity \in Nat \ {0}
    /\ MaxLag \in Nat
    /\ MaxTime \in Nat
ASSUME NoneAssumption == None \notin Bucket /\ None \notin Call

VARIABLES
    now,        \* the wall clock
    calls,      \* the key and the reading of the clock each caller comes with
    buckets,
    watch,      \* an observer's count of the pushes allowed to one key, and since when
    lines       \* refusals of each key reported since it was last allowed a push

vars == <<now, calls, buckets, watch, lines>>

Known == {k \in Key : buckets[k] # None}

Init ==
    /\ now = 0
    /\ calls = [c \in Caller |-> None]
    /\ buckets = [k \in Key |-> None]
    /\ watch \in [key : Key, since : {0}, taken : {0}]
    /\ lines = [k \in Key |-> 0]

\* now := l.now()
ReadClock(c, k) ==
    /\ calls[c] = None
    /\ calls' = [calls EXCEPT ![c] = [key |-> k, time |-> now]]
    /\ UNCHANGED <<now, buckets, watch, lines>>

\* What a bucket would hold at a time, without the brim.
Inflow(b, t) == b.tokens + Refill * (t - b.last)

\* Mistake: a bucket has no brim.
RefilledOver(b, t) == Inflow(b, t)

Refilled(b, t) == IF Inflow(b, t) > Full THEN Full ELSE Inflow(b, t)

\* The buckets that have refilled: what a stranger gets.
Idle(t) == {k \in Known : Inflow(buckets[k], t) >= Full}

\* The least recently seen of some; which of several is up to the map's order.
Oldest(keys) == {k \in keys : \A l \in keys : buckets[k].last <= buckets[l].last}

\* Mistake: when none has refilled nothing is forgotten.
ForgetIdleOnly(t) == {Idle(t)}

\* Room for one more: the idle go, and if that frees nothing one of the oldest.
ForgetFullLocked(t) ==
    LET busy == Known \ Idle(t) IN
    IF Cardinality(busy) < Capacity
    THEN {Idle(t)}
    ELSE {Idle(t) \union {victim} : victim \in Oldest(busy)}

\* The sets of keys a call may forget.
Forgotten(k, t) ==
    IF k \in Known \/ Cardinality(Known) < Capacity THEN {{}} ELSE ForgetFullLocked(t)

Found(k, t) ==
    IF k \in Known THEN buckets[k] ELSE [tokens |-> Full, last |-> t, announced |-> FALSE]

\* Mistake: the bucket's time is never set back.
RefusedForward(b, t) ==
    [tokens |-> Refilled(b, t), last |-> IF t < b.last THEN b.last ELSE t,
     announced |-> TRUE]

\* Mistake: a refusal is reported and not remembered.
RefusedForgetting(b, t) ==
    [tokens |-> Refilled(b, t), last |-> t, announced |-> b.announced]

Refused(b, t) == [tokens |-> Refilled(b, t), last |-> t, announced |-> TRUE]
Allowed(b, t) == [tokens |-> Refilled(b, t) - Cost, last |-> t, announced |-> FALSE]

\* An observer counts anew when the bucket is a new one.
Counted(k) == IF k \in Known THEN watch ELSE [key |-> k, since |-> now, taken |-> 0]

\* allow, from the mutex on.  Its last branch, which forgets a bucket that is
\* full after a push was taken from it, is never reached: no bucket is.
Allow(c) ==
    /\ calls[c] # None
    /\ calls' = [calls EXCEPT ![c] = None]
    /\ LET k == calls[c].key
           t == calls[c].time
           b == Found(k, t)
           enough == Refilled(b, t) >= Cost
       IN /\ \E forgotten \in Forgotten(k, t) :
                buckets' = [l \in Key |->
                    IF l = k THEN IF enough THEN Allowed(b, t) ELSE Refused(b, t)
                    ELSE IF l \in forgotten THEN None
                    ELSE buckets[l]]
          /\ watch' = IF k # watch.key THEN watch
                      ELSE [Counted(k) EXCEPT !.taken = @ + (IF enough THEN 1 ELSE 0)]
          /\ lines' = [lines EXCEPT ![k] =
                IF enough THEN 0 ELSE @ + (IF b.announced THEN 0 ELSE 1)]
    /\ UNCHANGED now

\* No step of the code: an observer may begin to count at any moment.
Observe(k) ==
    /\ watch' = [key |-> k, since |-> now, taken |-> 0]
    /\ UNCHANGED <<now, calls, buckets, lines>>

Tick ==
    /\ now < MaxTime
    /\ \A c \in Caller : calls[c] # None => now < calls[c].time + MaxLag
    /\ now' = now + 1
    /\ UNCHANGED <<calls, buckets, watch, lines>>

Next ==
    \/ \E c \in Caller, k \in Key : ReadClock(c, k)
    \/ \E c \in Caller : Allow(c)
    \/ \E k \in Key : Observe(k)
    \/ Tick

Spec == Init /\ [][Next]_vars

----------------------------------------------------------------------------
(* Properties. *)

TypeOK ==
    /\ now \in Time
    /\ calls \in [Caller -> Call \union {None}]
    /\ buckets \in [Key -> Bucket \union {None}]
    /\ watch \in [key : Key, since : 0..now, taken : Nat]
    /\ lines \in [Key -> Nat]
    /\ \A c \in Caller : calls[c] # None =>
          calls[c].time <= now /\ now <= calls[c].time + MaxLag
    /\ \A k \in Known : buckets[k].last <= now /\ buckets[k].tokens <= Full

\* A delivery token wakes its device no more than a burst and the refill allow
\* (pushBurst, pushRefill), in any stretch of time whatever in which its bucket
\* is kept, and however the clocks of the callers cross: a caller that was held
\* up adds what flows in meanwhile, once, and not once for each such caller.
RateBounded ==
    watch.key \in Known =>
        watch.taken * Cost <= Full + Refill * (now - watch.since + MaxLag)

\* A caller that was overtaken takes tokens out for time that has not passed;
\* they are paid back: what a bucket is worth at the present is never negative,
\* so no crossing of clocks shuts a device out for longer than its rate does.
NoDebt == \A k \in Known : Inflow(buckets[k], now) >= 0

\* "A bound rather than a leak": the map never outgrows its capacity, even when
\* every sender is limited and all were seen in the same instant.
WithinCapacity == Cardinality(Known) <= Capacity

\* "A line each would hand them the log too": one line per spell of refusals,
\* also when the bucket that remembers it is forgotten in between.
OneLinePerSpell == \A k \in Key : lines[k] <= 1
=============================================================================
