------------------------------- MODULE Relay -------------------------------
(***************************************************************************)
(* The relay put together, internal/relay/relay.go and the shutdown of     *)
(* cmd/pickles-push/main.go: handlers read a row of the store and later    *)
(* hand its push on, silent pushes go through the coalescer, everything    *)
(* that goes out goes through the delivery queue, and a worker that hears  *)
(* from Apple that a device is gone deletes a row.  Rows are captured at   *)
(* one step and used at another; this module is about what happens to them *)
(* in between.                                                             *)
(*                                                                         *)
(* One life of one process: restarts, failed flushes and pruning, which    *)
(* are far slower than a push, are Store's.  Left out here: who may push   *)
(* (bearer tokens, Pub/Sub's signature), payloads and their limits.        *)
(***************************************************************************)
EXTENDS Integers, Sequences, FiniteSets

CONSTANTS
    Token, Blank, Absent, Address, Spelling, Normalise, Request,  \* Store's
    MaxRegistrations, MaxPerAddress, MaxGmailAccounts, MaxTime,
    Window, MaxPush, None,                                        \* Coalescer's
    Worker, Depth,                                                \* DeliveryQueue's
    Device,             \* APNs device tokens
    Handler,            \* requests that may be in flight at once
    MaxPost,            \* bound on the requests providers make
    Fresh,              \* freshRegistration, in clock units
    Coalescing          \* whether SilentWindow is positive

VARIABLES
    registrations, file, now, ticker, reply,
    offered, slots, held, timer, expiring, flushed, sending, handed, since,
    submitted, adding, jobs, queueClosed, wg, running, finished, refused, main,
    posted,             \* requests providers have made
    todo,               \* the pushes each handler has still to hand on
    answer,             \* what each worker has heard about the job it runs
    gone,               \* device tokens Apple will report as unregistered
    stopping,           \* a signal has arrived: the listener is closed
    flushing,           \* held pushes that Close itself has to send
    parked,             \* pushes that were ever held in a slot
    dropped             \* pushes of a slot that were given up, and why

store == <<registrations, file, now, ticker, reply>>
silent == <<offered, slots, held, timer, expiring, flushed, sending, handed, since>>
queue == <<submitted, adding, jobs, queueClosed, wg, running, finished, refused, main>>
rest == <<posted, todo, answer, gone, stopping, flushing, parked, dropped>>
vars == <<store, silent, queue, rest>>

JMAP == "jmap"
Lane == {JMAP} \union Address
Key == Token \X Lane
Time == 0..MaxTime

ASSUME BoundAssumption == {MaxTime, MaxPush, MaxPost} \subseteq Nat /\ None \notin Nat
\* A request names a device, and a time its proof is over, 0 for never.
ASSUME RequestAssumption ==
    \A q \in Request :
        /\ DOMAIN q = {"token", "device", "topic", "mode", "secret",
                       "gmail", "accounts", "expires"}
        /\ q.token \in Token /\ q.device \in Device /\ q.expires \in Time
\* What Store, Coalescer and DeliveryQueue assume.
ASSUME ComponentAssumption ==
    /\ IsFiniteSet(Token) /\ Absent \notin Token /\ Blank \notin Address
    /\ {MaxRegistrations, MaxPerAddress, MaxGmailAccounts} \subseteq Nat
    /\ Window \in Nat \ {0}
    /\ Depth \in Nat \ {0} /\ IsFiniteSet(Worker)

\* A push on the queue: the row as it was captured, and where it came from.
\* Pushes that bypass the coalescer are numbered by the request they came with.
Job == [token : Token, device : Device, mode : {"alert", "background"}, expires : Time,
        lane : Lane, coalesced : BOOLEAN, push : 1..(MaxPush + MaxPost)]

Mem == INSTANCE Store WITH
    Lifetime <- MaxTime, PrunePeriod <- MaxTime + 1, MaxDelay <- 0,
    CanFail <- FALSE, CanRestart <- FALSE
ASSUME AbsentAssumption ==
    /\ None \notin Job
    /\ \A q \in Request, seen \in Time : Mem!RowOf(q, seen) # Absent
Silent == INSTANCE Coalescer WITH closed <- flushed
Queue == INSTANCE DeliveryQueue WITH closed <- queueClosed

Init ==
    /\ Mem!Init /\ Silent!Init /\ Queue!Init
    /\ posted = 0
    /\ todo = [h \in Handler |-> {}]
    /\ answer = [w \in Worker |-> "none"]
    /\ gone = {}
    /\ stopping = FALSE
    /\ flushing = {}
    /\ parked = {}
    /\ dropped = {}

Running == main # "gone"

----------------------------------------------------------------------------
(* Devices. *)

\* Mistake: a row that is refreshed keeps the time it was first seen.
RegisterKeepingSeen(q) ==
    /\ Running
    /\ Mem!Put(q, IF registrations[q.token] = Absent THEN now ELSE registrations[q.token].seen)
    /\ UNCHANGED <<silent, queue, rest>>

Register(q) ==
    /\ Running
    /\ Mem!Put(q, now)
    /\ UNCHANGED <<silent, queue, rest>>

\* Mistake: empties the token's slots, and leaves their windows open.
UnregisterForgetting(t, secret) ==
    /\ Running
    /\ Mem!DeleteIfOwned(t, secret)
    /\ held' = [k \in Key |-> IF k[1] = t THEN None ELSE held[k]]
    /\ UNCHANGED <<offered, slots, timer, expiring, flushed, sending, handed, since>>
    /\ UNCHANGED <<queue, rest>>

Unregister(t, secret) ==
    /\ Running
    /\ Mem!DeleteIfOwned(t, secret)
    /\ UNCHANGED <<silent, queue, rest>>

\* The app is deleted, or reinstalled under another APNs token.
Uninstall(d) ==
    /\ gone' = gone \union {d}
    /\ UNCHANGED <<store, silent, queue, posted, todo, answer, stopping, flushing, parked, dropped>>

----------------------------------------------------------------------------
(* Handlers. *)

Receive(h, items) ==
    /\ Running
    /\ ~stopping
    /\ posted < MaxPost
    /\ todo[h] = {}
    /\ posted' = posted + 1
    /\ todo' = [todo EXCEPT ![h] = items]
    /\ UNCHANGED <<store, silent, queue, answer, gone, stopping, flushing, parked, dropped>>

Item(t, lane) ==
    [token |-> t, row |-> registrations[t], lane |-> lane, request |-> posted + 1]

\* handleJMAPPush, up to the reading of the body: the row is read first.
HandleJMAPPush(h, t) ==
    /\ registrations[t] # Absent
    /\ Receive(h, {Item(t, JMAP)})

\* handleGmailPush, up to the fan-out: every row that watches the address.
HandleGmailPush(h, address) ==
    Receive(h, {Item(t, address) : t \in Mem!Watchers(address)})

\* A Gmail wake-up is silent whatever the row's mode.
SentAs(item) == IF item.lane = JMAP THEN item.row.mode ELSE "background"

\* enqueueSilently's choice: a JMAP push that follows a registration closely
\* may be a verification code and goes round the coalescer.
ViaCoalescer(item) ==
    /\ Coalescing
    /\ SentAs(item) = "background"
    /\ ~(item.lane = JMAP /\ now - item.row.seen < Fresh)

\* submit, where a closed queue is heard of at once and a full one later.
Submit(job) == Queue!Submit(job)

JobOf(row, mode, t, lane, coalesced, push) ==
    [token |-> t, device |-> row.device, mode |-> mode, expires |-> row.expires,
     lane |-> lane, coalesced |-> coalesced, push |-> push]

EnqueueSilently(h, item) ==
    /\ Running
    /\ item \in todo[h]
    /\ todo' = [todo EXCEPT ![h] = @ \ {item}]
    /\ \/ /\ ViaCoalescer(item)
          /\ Silent!Offer(<<item.token, item.lane>>)
          /\ parked' = parked \union
                {<<k[1], k[2], held'[k]>> : k \in {l \in Key : held'[l] # None}}
          /\ UNCHANGED queue
       \/ /\ ~ViaCoalescer(item)
          /\ Submit(JobOf(item.row, SentAs(item), item.token, item.lane, FALSE,
                          item.request))
          /\ UNCHANGED <<silent, parked>>
    /\ UNCHANGED <<store, posted, answer, gone, stopping, flushing, dropped>>

----------------------------------------------------------------------------
(* Windows. *)

Drop(k, push, why) ==
    dropped' = dropped \union {[token |-> k[1], lane |-> k[2], push |-> push, why |-> why]}

\* Mistake: a held push goes out in whatever mode the row has by now.
SendHeldInRowsMode(k, push) ==
    /\ Running
    /\ Silent!Send(k, push)
    /\ IF registrations[k[1]] = Absent
       THEN Drop(k, push, "row gone") /\ UNCHANGED queue
       ELSE /\ Submit(JobOf(registrations[k[1]], registrations[k[1]].mode,
                            k[1], k[2], TRUE, push))
            /\ IF queueClosed THEN Drop(k, push, "closed") ELSE UNCHANGED dropped
    /\ UNCHANGED <<store, posted, todo, answer, gone, stopping, flushing, parked>>

\* Mistake: a held push is thrown away when its row is an alert one by now.
SendHeldIfSilent(k, push) ==
    /\ Running
    /\ Silent!Send(k, push)
    /\ IF registrations[k[1]] = Absent
       THEN Drop(k, push, "row gone") /\ UNCHANGED queue
       ELSE IF registrations[k[1]].mode = "alert" THEN UNCHANGED <<queue, dropped>>
       ELSE /\ Submit(JobOf(registrations[k[1]], "background", k[1], k[2], TRUE, push))
            /\ IF queueClosed THEN Drop(k, push, "closed") ELSE UNCHANGED dropped
    /\ UNCHANGED <<store, posted, todo, answer, gone, stopping, flushing, parked>>

\* sendHeld reads the row again, and a row that is gone is not pushed to.  The
\* read and the submit are one step: a change between them is the same as one
\* while the job is queued.
SendHeld(k, push) ==
    /\ Running
    /\ Silent!Send(k, push)
    /\ \/ /\ registrations[k[1]] = Absent
          /\ Drop(k, push, "row gone")
          /\ UNCHANGED queue
       \/ /\ registrations[k[1]] # Absent
          /\ Submit(JobOf(registrations[k[1]], "background", k[1], k[2], TRUE, push))
          /\ IF queueClosed THEN Drop(k, push, "closed") ELSE UNCHANGED dropped
    /\ UNCHANGED <<store, posted, todo, answer, gone, stopping, flushing, parked>>

Fire(k) == Running /\ Silent!Fire(k) /\ UNCHANGED <<store, queue, rest>>
Expire(k) == Running /\ Silent!Expire(k) /\ UNCHANGED <<store, queue, rest>>

\* The clock of rows stops at its bound; windows go on.
Tick ==
    /\ Running
    /\ Silent!Tick
    /\ IF now < MaxTime THEN Mem!Tick ELSE UNCHANGED store
    /\ UNCHANGED <<queue, rest>>

----------------------------------------------------------------------------
(* Workers. *)

Enqueue ==
    /\ Queue!Enqueue
    /\ IF adding.coalesced /\ Len(jobs) >= Depth
       THEN Drop(<<adding.token, adding.lane>>, adding.push, "full")
       ELSE UNCHANGED dropped
    /\ UNCHANGED <<store, silent, posted, todo, answer, gone, stopping, flushing, parked>>

\* Mistake: workers leave when the queue closes, not when it is empty.
TakeUntilClosed(w) ==
    /\ ~queueClosed
    /\ Queue!Take(w)
    /\ answer' = [answer EXCEPT ![w] = "none"]
    /\ UNCHANGED <<store, silent, posted, todo, gone, stopping, flushing, parked, dropped>>

Take(w) ==
    /\ Queue!Take(w)
    /\ answer' = [answer EXCEPT ![w] = "none"]
    /\ UNCHANGED <<store, silent, posted, todo, gone, stopping, flushing, parked, dropped>>

\* The subscription the row was registered with, when it was captured, is over.
Lapsed(job) == job.expires # 0 /\ job.expires <= now

\* deliver up to Apple's answer.  Nothing is sent to a registration that is
\* rate-limited or lapsed; a push may fail; a device that is gone is reported.
Deliver(w) ==
    /\ Running
    /\ running[w] # None
    /\ answer[w] = "none"
    /\ \E result \in {"skipped", "failed", "sent", "gone"} :
          /\ result \in {"failed", "sent", "gone"} => ~Lapsed(running[w])
          /\ result = "sent" => running[w].device \notin gone
          /\ result = "gone" => running[w].device \in gone
          /\ answer' = [answer EXCEPT ![w] = result]
    /\ UNCHANGED <<store, silent, queue, posted, todo, gone, stopping, flushing, parked, dropped>>

\* Mistake: the job of a device that is gone never returns.
FinishUnlessGone(w) ==
    /\ answer[w] \in {"skipped", "failed", "sent"}
    /\ Queue!Finish(w)
    /\ answer' = [answer EXCEPT ![w] = "none"]
    /\ UNCHANGED <<store, silent, posted, todo, gone, stopping, flushing, parked, dropped>>

\* The end of deliver and of the job: Apple is believed, and the row of the
\* job's delivery token is deleted.
Finish(w) ==
    /\ answer[w] # "none"
    /\ Queue!Finish(w)
    /\ IF answer[w] = "gone" THEN Mem!Delete(running[w].token) ELSE UNCHANGED store
    /\ answer' = [answer EXCEPT ![w] = "none"]
    /\ UNCHANGED <<silent, posted, todo, gone, stopping, flushing, parked, dropped>>

----------------------------------------------------------------------------
(* Shutdown.  ListenAndServe returns as soon as the listener is closed, so  *)
(* main goes on to Close while handlers are still in flight.               *)

Signal ==
    /\ ~stopping
    /\ stopping' = TRUE
    /\ UNCHANGED <<store, silent, queue, posted, todo, answer, gone, flushing, parked, dropped>>

CloseFlush ==
    /\ Running
    /\ stopping
    /\ Silent!Flush
    /\ flushing' = {<<k[1], k[2], held[k]>> : k \in {l \in slots : held[l] # None}}
    /\ UNCHANGED <<store, queue, posted, todo, answer, gone, stopping, parked, dropped>>

\* Mistake: the queue closes before the held pushes are flushed.
CloseQueueFirst ==
    /\ stopping
    /\ Queue!Close
    /\ UNCHANGED <<store, silent, rest>>

\* After the flush has sent what it found.
CloseQueue ==
    /\ flushed
    /\ \A f \in flushing : f[3] \notin sending[<<f[1], f[2]>>]
    /\ Queue!Close
    /\ UNCHANGED <<store, silent, rest>>

\* Mistake: main returns without waiting.
LeaveAtOnce ==
    /\ main = "waiting"
    /\ main' = "gone"
    /\ UNCHANGED <<submitted, adding, jobs, queueClosed, wg, running, finished, refused>>
    /\ UNCHANGED <<store, silent, rest>>

WaitForDeliveries == Queue!Wait /\ UNCHANGED <<store, silent, rest>>

Next ==
    \/ \E q \in Request : Register(q)
    \/ \E t \in Token, secret \in Mem!Secrets : Unregister(t, secret)
    \/ \E d \in Device : Uninstall(d)
    \/ \E h \in Handler, t \in Token : HandleJMAPPush(h, t)
    \/ \E h \in Handler, address \in Address : HandleGmailPush(h, address)
    \/ \E h \in Handler : \E item \in todo[h] : EnqueueSilently(h, item)
    \/ \E k \in Key : Fire(k) \/ Expire(k) \/ \E push \in sending[k] : SendHeld(k, push)
    \/ Tick
    \/ Enqueue
    \/ \E w \in Worker : Take(w) \/ Deliver(w) \/ Finish(w)
    \/ Signal
    \/ CloseFlush
    \/ CloseQueue
    \/ WaitForDeliveries

Spec == Init /\ [][Next]_vars

\* Goroutines that can run do, timers fire and time passes; a handler that holds
\* a push hands it on even when others compete for the queue's mutex; and main,
\* once signalled, goes on.  No device or provider has to do anything.
Fairness ==
    /\ WF_vars(Tick)
    /\ \A k \in Key :
          /\ WF_vars(Fire(k))
          /\ WF_vars(Expire(k))
          /\ SF_vars(\E push \in sending[k] : SendHeld(k, push))
    /\ \A h \in Handler : SF_vars(\E item \in todo[h] : EnqueueSilently(h, item))
    /\ WF_vars(Enqueue)
    /\ \A w \in Worker : WF_vars(Take(w)) /\ WF_vars(Deliver(w)) /\ WF_vars(Finish(w))
    /\ WF_vars(CloseFlush)
    /\ SF_vars(CloseQueue)
    /\ WF_vars(WaitForDeliveries)

FairSpec == Spec /\ Fairness

----------------------------------------------------------------------------
(* Properties. *)

TypeOK ==
    /\ Mem!TypeOK /\ Silent!TypeOK /\ Queue!TypeOK
    /\ posted \in 0..MaxPost
    /\ \A h \in Handler : \A item \in todo[h] :
          item.token \in Token /\ item.row \in Mem!Row /\ item.lane \in Lane
    /\ answer \in [Worker -> {"none", "skipped", "failed", "sent", "gone"}]
    /\ gone \subseteq Device
    /\ stopping \in BOOLEAN
    /\ flushing \subseteq Token \X Lane \X (1..MaxPush)
    /\ parked \subseteq Token \X Lane \X (1..MaxPush)
    /\ dropped \subseteq [token : Token, lane : Lane, push : 1..MaxPush,
                          why : {"row gone", "closed", "full"}]

\* A Gmail wake-up raises no banner, and no push that was held does, although
\* the row it is sent by is read again and may have become an alert one since.
SilentStaysSilent ==
    \A job \in submitted : job.lane # JMAP \/ job.coalesced => job.mode = "background"

JobsOf(k) == {job \in submitted : job.token = k[1] /\ job.lane = k[2] /\ job.coalesced}
Dropped(k, push, why) ==
    [token |-> k[1], lane |-> k[2], push |-> push, why |-> why] \in dropped

\* Across the coalescer, the store and the queue the newest push of a slot is
\* held, on its way, accepted by the queue, or given up for a known reason: the
\* row has gone, the queue is full, or the queue is closed.  A process that has
\* ended held none, and had attempted the one it had accepted.
NewestAccounted ==
    \A k \in Key : offered[k] > 0 =>
        LET newest == offered[k] IN
        \/ held[k] = newest /\ main # "gone"
        \/ newest \in sending[k]
        \/ \E job \in JobsOf(k) :
              job.push = newest /\ job \notin refused /\ (main = "gone" => job \in finished)
        \/ \E why \in {"row gone", "closed", "full"} : Dropped(k, newest, why)

\* What Close finds held it sends "while the queue still takes work": such a
\* push may meet a full queue or find its row gone, never a closed queue.
HeldIsFlushed == \A f \in flushing : ~Dropped(<<f[1], f[2]>>, f[3], "closed")

\* "The last change always arrives", end to end: the newest push of a slot is
\* attempted, superseded or given up in the end, unless the process ends first.
NewestIsSettled ==
    \A k \in Key : \A push \in 1..MaxPush :
        offered[k] = push ~>
            \/ offered[k] > push
            \/ main = "gone"
            \/ \E job \in JobsOf(k) : job.push = push /\ job \in finished
            \/ \E why \in {"row gone", "closed", "full"} : Dropped(k, push, why)

\* A signal ends the process, whatever handlers, windows and workers are at.
ShutdownEnds == stopping ~> main = "gone"

\* What the composition does to the table is what Store says, to the slots what
\* Coalescer says and to the queue what DeliveryQueue says: their theorems hold here.
TableAsSpecified == Mem!Spec
SlotsAsSpecified == Silent!Spec
QueueAsSpecified == Queue!Spec

----------------------------------------------------------------------------
(* Claims of the comments that the code does not keep. *)

\* relay.go, deliver: "Apple says this device is gone. Believe it".  The row that
\* is deleted may by then name another device: the one that re-registered the
\* delivery token while the old device's push was on its way.
OnlyGoneRowsDropped ==
    [][reply'.op = "delete" =>
         \A t \in Token : registrations[t] # Absent /\ registrations'[t] = Absent
             => registrations[t].device \in gone]_vars

\* coalesce.go, flush: "Flushed, not dropped".  A push that expire took out of
\* its slot just before the flush is sent just after the queue is closed.
FlushedNotDropped ==
    \A d \in dropped : d.why = "closed" => <<d.token, d.lane, d.push>> \notin parked
=============================================================================
