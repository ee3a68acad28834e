------------------------ MODULE DeliveryQueueProofs ------------------------
(***************************************************************************)
(* Theorems about DeliveryQueue for any number of pushes and workers and   *)
(* every depth of the channel.                                             *)
(***************************************************************************)
EXTENDS DeliveryQueue, TLAPS, FiniteSetTheorems

\* Who is where: refused and half-added pushes were submitted, and the push that
\* is being added is not refused yet.
Consistent ==
    /\ refused \subseteq submitted
    /\ adding # None => adding \in submitted \ refused
    /\ closed <=> main # "serving"

\* The inductive invariant.
IInv == TypeOK /\ Consistent /\ CountedExactly /\ NothingLost /\ NoSendOnClosed

LEMMA BusyCount ==
    ASSUME TypeOK
    PROVE  /\ IsFiniteSet(Busy)
           /\ Cardinality(Busy) \in Nat
           /\ Cardinality(Busy) = 0 <=> Busy = {}
<1>1. IsFiniteSet(Busy)
  <2>1. Busy \subseteq Worker
    BY DEF Busy
  <2> QED
    BY <2>1, QueueAssumption, FS_Subset
<1> QED
  BY <1>1, FS_CardinalityType, FS_EmptySet

LEMMA InitEstablishes == Init => IInv
<1> SUFFICES ASSUME Init PROVE IInv
  OBVIOUS
<1>1. TypeOK
  <2>1. <<>> \in Seq(Job) /\ Len(<<>>) = 0 /\ 0 <= Depth /\ 0 \in Nat
    BY QueueAssumption
  <2>2. running \in [Worker -> Job \union {None}]
    BY DEF Init
  <2> QED
    BY <2>1, <2>2 DEF Init, TypeOK
<1>2. Busy = {} /\ Running = {} /\ Queued = {}
  BY DEF Init, Busy, Running, Queued
<1>3. CountedExactly
  BY <1>2, FS_EmptySet DEF Init, CountedExactly
<1>4. Consistent /\ NothingLost /\ NoSendOnClosed
  BY <1>2 DEF Init, Consistent, NothingLost, NoSendOnClosed, Accepted
<1> QED
  BY <1>1, <1>3, <1>4 DEF IInv

LEMMA SubmitPreserves ==
    ASSUME IInv, NEW j \in Job, Submit(j)
    PROVE  IInv'
<1>0. Busy' = Busy /\ Running' = Running /\ Queued' = Queued
  BY DEF Submit, Busy, Running, Queued
<1>1. TypeOK'
  BY DEF Submit, IInv, TypeOK
<1>2. Consistent' /\ NoSendOnClosed'
  BY QueueAssumption DEF Submit, IInv, Consistent, NoSendOnClosed, TypeOK
<1>3. CountedExactly'
  <2>1. Cardinality(Busy) \in Nat /\ Len(jobs) \in Nat
    BY BusyCount DEF IInv, TypeOK
  <2> QED
    BY <1>0, <2>1, QueueAssumption DEF Submit, IInv, CountedExactly
<1>4. Accepted' = Accepted
  BY QueueAssumption DEF Submit, IInv, TypeOK, Consistent, Accepted
<1>5. NothingLost'
  BY <1>0, <1>4 DEF Submit, IInv, NothingLost
<1> QED
  BY <1>1, <1>2, <1>3, <1>5 DEF IInv

LEMMA EnqueuePreserves ==
    ASSUME IInv, Enqueue
    PROVE  IInv'
<1>0. Busy' = Busy /\ Running' = Running /\ adding \in Job /\ adding' = None
  BY DEF Enqueue, Busy, Running, IInv, TypeOK
<1>a. Cardinality(Busy) \in Nat /\ Len(jobs) \in Nat
  BY BusyCount DEF IInv, TypeOK
<1>2. Consistent' /\ NoSendOnClosed'
  BY DEF Enqueue, IInv, Consistent, NoSendOnClosed
<1>3. CASE Len(jobs) < Depth
  <2>1. /\ jobs' = Append(jobs, adding)
        /\ UNCHANGED <<wg, refused, submitted, closed, running, finished, main>>
    BY <1>3, <1>a, QueueAssumption DEF Enqueue
  <2>2. /\ Len(jobs') = Len(jobs) + 1
        /\ jobs' \in Seq(Job)
        /\ \A i \in 1..Len(jobs) : jobs'[i] = jobs[i]
        /\ jobs'[Len(jobs) + 1] = adding
    BY <1>0, <2>1 DEF IInv, TypeOK
  <2>3. Queued' = Queued \union {adding}
    <3>1. 1..Len(jobs') = 1..Len(jobs) \union {Len(jobs) + 1}
      BY <2>2, <1>a
    <3> QED
      BY <2>2, <3>1 DEF Queued
  <2>4. TypeOK'
    BY <1>0, <1>3, <1>a, <2>1, <2>2, QueueAssumption DEF IInv, TypeOK
  <2>5. CountedExactly'
    BY <1>0, <1>a, <2>1, <2>2 DEF Enqueue, IInv, CountedExactly
  <2>6. Accepted' = Accepted \union {adding}
    BY <1>0, <2>1, QueueAssumption DEF Enqueue, IInv, Consistent, Accepted, TypeOK
  <2>7. NothingLost'
    BY <1>0, <2>1, <2>3, <2>6 DEF IInv, NothingLost
  <2> QED
    BY <1>2, <2>4, <2>5, <2>7 DEF IInv
<1>4. CASE ~(Len(jobs) < Depth)
  <2>1. /\ wg' = wg - 1 /\ refused' = refused \union {adding}
        /\ UNCHANGED <<jobs, submitted, closed, running, finished, main>>
    BY <1>4 DEF Enqueue
  <2>2. CountedExactly'
    BY <1>0, <1>a, <2>1 DEF Enqueue, IInv, CountedExactly, TypeOK
  <2>3. TypeOK'
    <3>1. wg' \in Nat
      BY <1>0, <1>a, <2>1 DEF Enqueue, IInv, CountedExactly, TypeOK
    <3> QED
      BY <1>0, <2>1, <3>1 DEF IInv, TypeOK
  <2>4. Accepted' = Accepted
    BY <1>0, <2>1, QueueAssumption DEF IInv, TypeOK, Accepted
  <2>5. NothingLost'
    BY <1>0, <2>1, <2>4 DEF IInv, NothingLost, Queued
  <2> QED
    BY <1>2, <2>2, <2>3, <2>5 DEF IInv
<1> QED
  BY <1>3, <1>4

LEMMA TakePreserves ==
    ASSUME IInv, NEW w \in Worker, Take(w)
    PROVE  IInv'
<1>a. Cardinality(Busy) \in Nat /\ Len(jobs) \in Nat /\ IsFiniteSet(Busy)
  BY BusyCount DEF IInv, TypeOK
<1>1. /\ Len(jobs) > 0 /\ Head(jobs) = jobs[1] /\ Head(jobs) \in Job /\ Head(jobs) # None
      /\ jobs' \in Seq(Job) /\ Len(jobs') = Len(jobs) - 1
      /\ \A i \in 1..Len(jobs') : jobs'[i] = jobs[i + 1]
  BY QueueAssumption DEF Take, IInv, TypeOK
<1>2. Queued = Queued' \union {Head(jobs)}
  <2>1. \A x \in Queued : x \in Queued' \union {Head(jobs)}
    <3> SUFFICES ASSUME NEW i \in 1..Len(jobs), i # 1
                 PROVE  jobs[i] \in Queued'
      BY <1>1 DEF Queued
    <3>1. i - 1 \in 1..Len(jobs') /\ jobs'[i - 1] = jobs[i]
      BY <1>1, <1>a
    <3> QED
      BY <3>1 DEF Queued
  <2>2. \A x \in Queued' \union {Head(jobs)} : x \in Queued
    <3>1. \A i \in 1..Len(jobs') : i + 1 \in 1..Len(jobs)
      BY <1>1, <1>a
    <3>2. 1 \in 1..Len(jobs)
      BY <1>1, <1>a
    <3> QED
      BY <1>1, <3>1, <3>2 DEF Queued
  <2> QED
    BY <2>1, <2>2
<1>3. Busy' = Busy \union {w} /\ w \notin Busy
  BY <1>1 DEF Take, Busy, IInv, TypeOK
<1>4. Running' = Running \union {Head(jobs)}
  BY <1>1 DEF Take, Running, IInv, TypeOK
<1>5. TypeOK'
  BY <1>1, <1>a, QueueAssumption DEF Take, IInv, TypeOK
<1>6. CountedExactly'
  <2>1. Cardinality(Busy') = Cardinality(Busy) + 1
    BY <1>3, <1>a, FS_AddElement
  <2> QED
    BY <1>1, <1>a, <2>1 DEF Take, IInv, CountedExactly
<1>7. NothingLost' /\ Consistent' /\ NoSendOnClosed'
  BY <1>2, <1>4
     DEF Take, IInv, NothingLost, Accepted, Consistent, NoSendOnClosed
<1> QED
  BY <1>5, <1>6, <1>7 DEF IInv

LEMMA FinishPreserves ==
    ASSUME IInv, NEW w \in Worker, Finish(w)
    PROVE  IInv'
<1>a. Cardinality(Busy) \in Nat /\ Len(jobs) \in Nat /\ IsFiniteSet(Busy)
  BY BusyCount DEF IInv, TypeOK
<1>1. w \in Busy /\ Busy' = Busy \ {w}
  BY DEF Finish, Busy, IInv, TypeOK
<1>2. Cardinality(Busy') = Cardinality(Busy) - 1 /\ Cardinality(Busy) > 0
  <2>1. Cardinality(Busy') = Cardinality(Busy) - 1
    BY <1>1, <1>a, FS_RemoveElement
  <2>2. Cardinality(Busy) # 0
    BY <1>1, <1>a, FS_EmptySet
  <2> QED
    BY <2>1, <2>2, <1>a
<1>3. CountedExactly'
  BY <1>2, <1>a DEF Finish, IInv, CountedExactly
<1>4. wg' \in Nat
  BY <1>2, <1>a DEF Finish, IInv, CountedExactly
<1>5. TypeOK'
  BY <1>4 DEF Finish, IInv, TypeOK
<1>6. Queued' = Queued /\ Running' \union finished' = Running \union finished
  BY DEF Finish, Queued, Running, IInv, TypeOK
<1>7. NothingLost' /\ Consistent' /\ NoSendOnClosed'
  BY <1>6 DEF Finish, IInv, NothingLost, Accepted, Consistent, NoSendOnClosed
<1> QED
  BY <1>3, <1>5, <1>7 DEF IInv

LEMMA MainPreserves ==
    ASSUME IInv, Close \/ Wait \/ UNCHANGED vars
    PROVE  IInv'
<1>0. /\ UNCHANGED <<submitted, adding, jobs, wg, running, finished, refused>>
      /\ Busy' = Busy /\ Running' = Running /\ Queued' = Queued
  BY DEF Close, Wait, vars, Busy, Running, Queued
<1>1. TypeOK' /\ CountedExactly' /\ NothingLost'
  BY <1>0 DEF Close, Wait, vars, IInv, TypeOK, CountedExactly, NothingLost, Accepted
<1>2. Consistent' /\ NoSendOnClosed'
  BY <1>0 DEF Close, Wait, vars, IInv, TypeOK, Consistent, NoSendOnClosed
<1> QED
  BY <1>1, <1>2 DEF IInv

\* The whole invariant, for every number of pushes and workers and every depth.
THEOREM Invariance == Spec => []IInv
<1>1. IInv /\ [Next]_vars => IInv'
  BY SubmitPreserves, EnqueuePreserves, TakePreserves, FinishPreserves, MainPreserves DEF Next
<1> QED
  BY InitEstablishes, <1>1, PTL DEF Spec

\* The type invariant, for every number of pushes and workers and every depth.
THEOREM TypeCorrect == Spec => []TypeOK
<1>1. IInv => TypeOK
  BY DEF IInv
<1> QED
  BY <1>1, Invariance, PTL

\* An accepted push is in the channel, with a worker, or has run.
THEOREM NothingLostHolds == Spec => []NothingLost
<1>1. IInv => NothingLost
  BY DEF IInv
<1> QED
  BY <1>1, Invariance, PTL

\* The wait group counts what is left to do, at every step of every goroutine.
THEOREM CountedExactlyHolds == Spec => []CountedExactly
<1>1. IInv => CountedExactly
  BY DEF IInv
<1> QED
  BY <1>1, Invariance, PTL

\* No handler is inside submit's critical section when the channel is closed.
THEOREM NoSendOnClosedHolds == Spec => []NoSendOnClosed
<1>1. IInv => NoSendOnClosed
  BY DEF IInv
<1> QED
  BY <1>1, Invariance, PTL

\* What a shutdown promises: the process ends only when every accepted push has
\* been attempted, because the wait group is zero and counts them all.
THEOREM AcceptedIsAttemptedHolds == Spec => []AcceptedIsAttempted
<1> DEFINE Drained == main = "gone" => wg = 0 /\ closed
<1>1. Init => Drained
  BY DEF Init
<1>2. IInv /\ Drained /\ [Next]_vars => Drained'
  BY DEF IInv, Consistent, Next, Submit, Enqueue, Take, Finish, Close, Wait, vars
<1>3. Spec => []Drained
  BY <1>1, <1>2, Invariance, PTL DEF Spec
<1>4. IInv /\ Drained => AcceptedIsAttempted
  <2> SUFFICES ASSUME IInv, wg = 0
               PROVE  Accepted \subseteq finished
    BY DEF AcceptedIsAttempted
  <2>1. Cardinality(Busy) \in Nat /\ Len(jobs) \in Nat
    BY BusyCount DEF IInv, TypeOK
  <2>2. Len(jobs) = 0 /\ Cardinality(Busy) = 0
    BY <2>1 DEF IInv, CountedExactly
  <2>3. Queued = {} /\ Running = {}
    BY <2>2, BusyCount DEF Queued, Running, Busy, IInv
  <2> QED
    BY <2>3 DEF IInv, NothingLost
<1> QED
  BY <1>3, <1>4, Invariance, PTL
=============================================================================
