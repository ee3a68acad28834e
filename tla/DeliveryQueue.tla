--------------------------- MODULE DeliveryQueue ---------------------------
(***************************************************************************)
(* The delivery queue, internal/relay/queue.go: a buffered channel that    *)
(* handlers fill without blocking and a fixed number of workers empty, a   *)
(* mutex that guards "closed" and is held across the send, and a wait      *)
(* group that main waits on before the process ends.                       *)
(*                                                                         *)
(* The wait group is not under the mutex, so submit is two steps: the      *)
(* check and wg.Add(1), then the select with its wg.Done() when the        *)
(* channel is full.  main closes the queue and waits, as cmd/pickles-push  *)
(* does with Close and WaitForDeliveries; when it is done the process is   *)
(* gone, and whatever had not run never will.                              *)
(***************************************************************************)
EXTENDS Naturals, Sequences, FiniteSets

CONSTANTS
    Job,            \* pushes handlers may submit, each once
    Worker,         \* the goroutines of newDeliveryQueue
    Depth,          \* the capacity of the channel
    None            \* no job; nobody

ASSUME QueueAssumption ==
    /\ Depth \in Nat \ {0}
    /\ IsFiniteSet(Worker)
    /\ None \notin Job

VARIABLES
    submitted,      \* jobs some caller has called submit with
    adding,         \* the job of the caller that holds the mutex, or None
    jobs,           \* the channel
    closed,
    wg,             \* the counter of the wait group
    running,        \* the job each worker runs, or None
    finished,       \* jobs that have run
    refused,        \* jobs submit answered full or closed
    main            \* what main does: "serving", "waiting" or "gone"

vars == <<submitted, adding, jobs, closed, wg, running, finished, refused, main>>

Init ==
    /\ submitted = {}
    /\ adding = None
    /\ jobs = <<>>
    /\ closed = FALSE
    /\ wg = 0
    /\ running = [w \in Worker |-> None]
    /\ finished = {}
    /\ refused = {}
    /\ main = "serving"

\* A caller takes the mutex: the queue is closed, or the wait group counts it.
Submit(j) ==
    /\ main # "gone"
    /\ adding = None
    /\ j \notin submitted
    /\ submitted' = submitted \union {j}
    /\ \/ /\ closed
          /\ refused' = refused \union {j}
          /\ UNCHANGED <<adding, wg>>
       \/ /\ ~closed
          /\ wg' = wg + 1
          /\ adding' = j
          /\ UNCHANGED refused
    /\ UNCHANGED <<jobs, closed, running, finished, main>>

\* Mistake: no wg.Done() for a job that found the channel full.
EnqueueUncounted ==
    /\ main # "gone"
    /\ adding # None
    /\ adding' = None
    /\ \/ /\ Len(jobs) < Depth
          /\ jobs' = Append(jobs, adding)
          /\ UNCHANGED refused
       \/ /\ Len(jobs) >= Depth
          /\ refused' = refused \union {adding}
          /\ UNCHANGED jobs
    /\ UNCHANGED <<submitted, closed, wg, running, finished, main>>

\* Mistake: answers nil for a job that found the channel full.
EnqueueUnanswered ==
    /\ main # "gone"
    /\ adding # None
    /\ adding' = None
    /\ IF Len(jobs) < Depth
       THEN jobs' = Append(jobs, adding) /\ UNCHANGED wg
       ELSE wg' = wg - 1 /\ UNCHANGED jobs
    /\ UNCHANGED <<submitted, closed, running, finished, refused, main>>

\* The select of submit, and the end of its critical section.
Enqueue ==
    /\ main # "gone"
    /\ adding # None
    /\ adding' = None
    /\ \/ /\ Len(jobs) < Depth
          /\ jobs' = Append(jobs, adding)
          /\ UNCHANGED <<wg, refused>>
       \/ /\ Len(jobs) >= Depth
          /\ wg' = wg - 1
          /\ refused' = refused \union {adding}
          /\ UNCHANGED jobs
    /\ UNCHANGED <<submitted, closed, running, finished, main>>

\* Mistake: workers leave when the queue closes, not when it is empty.
TakeUntilClosed(w) ==
    /\ ~closed
    /\ running[w] = None
    /\ jobs # <<>>
    /\ running' = [running EXCEPT ![w] = Head(jobs)]
    /\ jobs' = Tail(jobs)
    /\ UNCHANGED <<submitted, adding, closed, wg, finished, refused, main>>

\* for job := range q.jobs
Take(w) ==
    /\ main # "gone"
    /\ running[w] = None
    /\ jobs # <<>>
    /\ running' = [running EXCEPT ![w] = Head(jobs)]
    /\ jobs' = Tail(jobs)
    /\ UNCHANGED <<submitted, adding, closed, wg, finished, refused, main>>

\* job(), which deliveryTimeout bounds, then wg.Done()
Finish(w) ==
    /\ main # "gone"
    /\ running[w] # None
    /\ finished' = finished \union {running[w]}
    /\ running' = [running EXCEPT ![w] = None]
    /\ wg' = wg - 1
    /\ UNCHANGED <<submitted, adding, jobs, closed, refused, main>>

\* Mistake: closes without the mutex.
CloseUnlocked ==
    /\ main = "serving"
    /\ closed' = TRUE
    /\ main' = "waiting"
    /\ UNCHANGED <<submitted, adding, jobs, wg, running, finished, refused>>

Close ==
    /\ main = "serving"
    /\ adding = None
    /\ closed' = TRUE
    /\ main' = "waiting"
    /\ UNCHANGED <<submitted, adding, jobs, wg, running, finished, refused>>

\* Mistake: waits for an empty channel, and not for what workers still run.
WaitForChannel ==
    /\ main = "waiting"
    /\ jobs = <<>>
    /\ main' = "gone"
    /\ UNCHANGED <<submitted, adding, jobs, closed, wg, running, finished, refused>>

\* wg.Wait() returns, and main with it.
Wait ==
    /\ main = "waiting"
    /\ wg = 0
    /\ main' = "gone"
    /\ UNCHANGED <<submitted, adding, jobs, closed, wg, running, finished, refused>>

Next ==
    \/ \E j \in Job : Submit(j)
    \/ Enqueue
    \/ \E w \in Worker : Take(w) \/ Finish(w)
    \/ Close
    \/ Wait

Spec == Init /\ [][Next]_vars

\* Goroutines that can run do, and every job ends.  Nobody has to submit a push
\* or to shut the process down.
Fairness ==
    /\ WF_vars(Enqueue)
    /\ \A w \in Worker : WF_vars(Take(w)) /\ WF_vars(Finish(w))
    /\ WF_vars(Wait)

FairSpec == Spec /\ Fairness

----------------------------------------------------------------------------
(* Properties. *)

Queued == {jobs[i] : i \in 1..Len(jobs)}
Running == {running[w] : w \in Worker} \ {None}
Busy == {w \in Worker : running[w] # None}

\* What submit answered nil.
Accepted == submitted \ (refused \union {adding})

TypeOK ==
    /\ submitted \subseteq Job
    /\ adding \in Job \union {None}
    /\ jobs \in Seq(Job)
    /\ Len(jobs) <= Depth
    /\ closed \in BOOLEAN
    /\ wg \in Nat
    /\ running \in [Worker -> Job \union {None}]
    /\ finished \subseteq Job
    /\ refused \subseteq Job
    /\ main \in {"serving", "waiting", "gone"}

\* The wait group counts exactly what is queued, running or being added, so it
\* reaches zero when, and only when, nothing is left to do.
CountedExactly ==
    wg = Len(jobs) + Cardinality(Busy) + (IF adding = None THEN 0 ELSE 1)

\* A push that was accepted is queued, running or finished: never lost between
\* the channel and a worker.
NothingLost == Accepted = Queued \union Running \union finished

\* "A handler still running while the process shuts down cannot send on a closed
\* channel": nobody is between the check and the send when the queue closes,
\* and so no wg.Add meets a wg.Wait that has returned.
NoSendOnClosed == adding # None => ~closed /\ main = "serving"

\* "A shutdown does not throw away work already accepted": when main is gone
\* every push that submit accepted has been attempted.
AcceptedIsAttempted == main = "gone" => Accepted \subseteq finished

\* A shutdown ends: no worker, full channel or late handler holds main for ever.
ShutdownEnds == main = "waiting" ~> main = "gone"

\* Shutdown or not, whatever was accepted is attempted in the end.
AcceptedIsFinished == \A j \in Job : j \in Accepted ~> j \in finished
=============================================================================
