----------------------------- MODULE RelayProofs -----------------------------
(***************************************************************************)
(* Theorems about Relay for any tokens, devices, requests, handlers,       *)
(* workers and bounds: its slots and its queue are what Coalescer and      *)
(* DeliveryQueue say, and what becomes of a held push between them.        *)
(***************************************************************************)
EXTENDS Relay, TLAPS

\* A row that Put accepts, and what a handler captures of one.
Proper == {row \in Mem!Row : row.mode \in Mem!Mode}
Captured == [token : Token, row : Proper, lane : Lane, request : 1..MaxPost]

\* The table and what handlers hold of it.
RowsTyped ==
    /\ now \in Time
    /\ registrations \in [Token -> Proper \union {Absent}]
    /\ posted \in 0..MaxPost
    /\ todo \in [Handler -> SUBSET Captured]

\* What is held or sent is a push that was offered, an open slot alone holds one,
\* and after the flush none does.
SlotsTyped ==
    /\ slots \subseteq Key
    /\ offered \in [Key -> 0..MaxPush]
    /\ held \in [Key -> (1..MaxPush) \union {None}]
    /\ sending \in [Key -> SUBSET (1..MaxPush)]
    /\ \A k \in Key :
          /\ held[k] # None => k \in slots /\ held[k] <= offered[k]
          /\ \A push \in sending[k] : push <= offered[k]
    /\ flushed => \A k \in Key : held[k] = None

\* What is being added or was refused was submitted.
RefusedSubmitted == refused \union ({adding} \ {None}) \subseteq submitted

\* NewestAccounted of one slot, but for what becomes of it when the process ends.
Accounted(k) ==
    offered[k] > 0 =>
        \/ held[k] = offered[k]
        \/ offered[k] \in sending[k]
        \/ \E job \in JobsOf(k) : job.push = offered[k] /\ job \notin refused
        \/ \E why \in {"row gone", "closed", "full"} : Dropped(k, offered[k], why)

NewestSomewhere == \A k \in Key : Accounted(k)

\* Close flushes before it closes, so what it found held is not in anyone's hands
\* when the queue is closed, and nothing is dropped for a closed queue before.
FlushFirst ==
    /\ ~flushed => flushing = {}
    /\ \A f \in flushing :
          f \in Token \X Lane \X (1..MaxPush) /\ f[3] <= offered[<<f[1], f[2]>>]
    /\ queueClosed => flushed /\ \A f \in flushing : f[3] \notin sending[<<f[1], f[2]>>]
    /\ ~queueClosed => \A d \in dropped : d.why # "closed"

\* The inductive invariant.
Typed == RowsTyped /\ SlotsTyped /\ RefusedSubmitted
Promises == SilentStaysSilent /\ NewestSomewhere /\ FlushFirst /\ HeldIsFlushed
IInv == Typed /\ Promises

----------------------------------------------------------------------------
(* The table and what handlers hold of it. *)

LEMMA ProperFields ==
    ASSUME NEW row \in Proper
    PROVE  row.device \in Device /\ row.mode \in {"alert", "background"} /\ row.expires \in Time
<1>1. PICK q \in Request, seen \in Mem!Time : row = Mem!RowOf(q, seen)
  BY DEF Proper, Mem!Row
<1>2. row.device = q.device /\ row.expires = q.expires
  BY <1>1 DEF Mem!RowOf
<1> QED
  BY <1>2, RequestAssumption DEF Proper, Mem!Mode

LEMMA RowsInit == Init => RowsTyped
BY BoundAssumption DEF Init, Mem!Init, Mem!Empty, RowsTyped, Time

\* Put stores a row of its request, or leaves the table as it was.
LEMMA RowsRegister ==
    ASSUME RowsTyped, NEW q \in Request, Register(q)
    PROVE  RowsTyped'
<1>1. UNCHANGED <<now, posted, todo>>
  BY DEF Register, rest, Mem!Put
<1>2. CASE Mem!Verdict(q) = "stored"
  <2>1. registrations' = Mem!Stored(q, now)
    BY <1>2 DEF Register, Mem!Put
  <2>2. q.mode \in Mem!Mode
    BY <1>2 DEF Mem!Verdict, Mem!Malformed
  <2>3. Mem!RowOf(q, now) \in Proper
    <3>1. Mem!RowOf(q, now).mode = q.mode
      BY DEF Mem!RowOf
    <3>2. Mem!RowOf(q, now) \in Mem!Row
      BY DEF Mem!Row, Mem!Time, Time, RowsTyped
    <3> QED
      BY <2>2, <3>1, <3>2 DEF Proper
  <2>4. registrations' \in [Token -> Proper \union {Absent}]
    BY <2>1, <2>3 DEF Mem!Stored, RowsTyped
  <2> QED
    BY <1>1, <2>4 DEF RowsTyped
<1>3. CASE Mem!Verdict(q) # "stored"
  BY <1>1, <1>3 DEF Register, Mem!Put, Mem!Answer, RowsTyped
<1> QED
  BY <1>2, <1>3

LEMMA RowsUnregister ==
    ASSUME RowsTyped, NEW t \in Token, NEW secret, Unregister(t, secret)
    PROVE  RowsTyped'
<1>1. UNCHANGED <<now, posted, todo>>
  BY DEF Unregister, rest, Mem!DeleteIfOwned
<1>2. registrations' \in {registrations, Mem!Without({t})}
  BY DEF Unregister, Mem!DeleteIfOwned, Mem!Answer
<1>3. Mem!Without({t}) \in [Token -> Proper \union {Absent}]
  BY DEF RowsTyped, Mem!Without
<1> QED
  BY <1>1, <1>2, <1>3 DEF RowsTyped

LEMMA RowsFinish ==
    ASSUME RowsTyped, NEW w \in Worker, Finish(w)
    PROVE  RowsTyped'
<1> DEFINE t == running[w].token
<1>1. UNCHANGED <<now, posted, todo>>
  BY DEF Finish, store, Mem!Delete
<1>2. registrations' \in {registrations, Mem!Without({t})}
  BY DEF Finish, store, Mem!Delete, Mem!Answer
<1>3. Mem!Without({t}) \in [Token -> Proper \union {Absent}]
  BY DEF RowsTyped, Mem!Without
<1> QED
  BY <1>1, <1>2, <1>3 DEF RowsTyped

LEMMA RowsReceive ==
    ASSUME RowsTyped, NEW h \in Handler, NEW items, Receive(h, items),
           \A item \in items : item \in Captured
    PROVE  RowsTyped'
<1>1. posted' \in 0..MaxPost /\ UNCHANGED <<registrations, now>>
  BY BoundAssumption DEF Receive, RowsTyped, store
<1>2. todo' \in [Handler -> SUBSET Captured]
  BY DEF Receive, RowsTyped
<1> QED
  BY <1>1, <1>2 DEF RowsTyped

\* What a handler captures is a row of the table.
LEMMA RowsHandle ==
    ASSUME RowsTyped, NEW h \in Handler,
           \/ \E t \in Token : HandleJMAPPush(h, t)
           \/ \E address \in Address : HandleGmailPush(h, address)
    PROVE  RowsTyped'
<1>1. ASSUME NEW t \in Token, NEW lane \in Lane, registrations[t] # Absent, posted < MaxPost
      PROVE  Item(t, lane) \in Captured
  <2>1. posted + 1 \in 1..MaxPost /\ registrations[t] \in Proper
    BY <1>1, BoundAssumption DEF RowsTyped
  <2> QED
    BY <1>1, <2>1 DEF Item, Captured
<1>2. ASSUME NEW t \in Token, HandleJMAPPush(h, t) PROVE RowsTyped'
  <2>1. \A item \in {Item(t, JMAP)} : item \in Captured
    BY <1>1, <1>2 DEF HandleJMAPPush, Receive, Lane
  <2> QED
    BY <1>2, <2>1, RowsReceive DEF HandleJMAPPush
<1>3. ASSUME NEW address \in Address, HandleGmailPush(h, address) PROVE RowsTyped'
  <2> DEFINE items == {Item(t, address) : t \in Mem!Watchers(address)}
  <2>1. \A t \in Mem!Watchers(address) : t \in Token /\ registrations[t] # Absent
    BY DEF Mem!Watchers, Mem!Held
  <2>2. address \in Lane /\ posted < MaxPost /\ Receive(h, items)
    BY <1>3 DEF Lane, HandleGmailPush, Receive
  <2>3. \A item \in items : item \in Captured
    BY <1>1, <2>1, <2>2
  <2> QED
    BY <2>2, <2>3, RowsReceive
<1> QED
  BY <1>2, <1>3

LEMMA RowsEnqueue ==
    ASSUME RowsTyped, NEW h \in Handler, NEW item \in todo[h], EnqueueSilently(h, item)
    PROVE  RowsTyped'
<1>1. UNCHANGED <<registrations, now, posted>> /\ todo' = [todo EXCEPT ![h] = @ \ {item}]
  BY DEF EnqueueSilently, store
<1> QED
  BY <1>1 DEF RowsTyped

LEMMA RowsTick ==
    ASSUME RowsTyped, Tick
    PROVE  RowsTyped'
BY BoundAssumption DEF Tick, Mem!Tick, RowsTyped, Time, rest, store

LEMMA RowsPreserved ==
    ASSUME RowsTyped, [Next]_vars
    PROVE  RowsTyped'
<1>1. ASSUME UNCHANGED <<registrations, now, posted, todo>> PROVE RowsTyped'
  BY <1>1 DEF RowsTyped
<1>2. ASSUME NEW d \in Device, Uninstall(d) PROVE RowsTyped'
  BY <1>1, <1>2 DEF Uninstall, store
<1>3. ASSUME NEW k \in Key, Fire(k) \/ Expire(k) \/ \E push \in sending[k] : SendHeld(k, push)
      PROVE  RowsTyped'
  BY <1>1, <1>3 DEF Fire, Expire, SendHeld, store, rest
<1>4. CASE Enqueue
  BY <1>1, <1>4 DEF Enqueue, store
<1>5. ASSUME NEW w \in Worker, Take(w) \/ Deliver(w) PROVE RowsTyped'
  BY <1>1, <1>5 DEF Take, Deliver, store
<1>6. CASE Signal \/ CloseFlush \/ CloseQueue \/ WaitForDeliveries \/ UNCHANGED vars
  BY <1>1, <1>6 DEF Signal, CloseFlush, CloseQueue, WaitForDeliveries, store, rest, vars
<1> QED
  BY <1>2, <1>3, <1>4, <1>5, <1>6, RowsRegister, RowsUnregister, RowsFinish, RowsHandle,
     RowsEnqueue, RowsTick DEF Next

LEMMA CapturedProper ==
    ASSUME RowsTyped, NEW h \in Handler, NEW item \in todo[h]
    PROVE  item \in Captured /\ <<item.token, item.lane>> \in Key
BY DEF RowsTyped, Captured, Key

----------------------------------------------------------------------------
(* The slots. *)

LEMMA SlotsInit == Init => SlotsTyped
BY BoundAssumption DEF Init, Silent!Init, SlotsTyped

LEMMA Offered ==
    ASSUME SlotsTyped, NEW k \in Key, Silent!Offer(k)
    PROVE  SlotsTyped'
<1> DEFINE push == offered[k] + 1
<1>1. /\ push \in 1..MaxPush
      /\ offered' = [offered EXCEPT ![k] = push]
      /\ flushed' = flushed
  BY BoundAssumption DEF Silent!Offer, SlotsTyped
<1>2. /\ offered' \in [Key -> 0..MaxPush] /\ offered'[k] = push
      /\ \A j \in Key : offered[j] <= offered'[j]
  BY <1>1, BoundAssumption DEF SlotsTyped
<1>3. CASE Silent!OfferClosed(k, push)
  BY <1>1, <1>2, <1>3, BoundAssumption DEF SlotsTyped, Silent!OfferClosed, Silent!LetGo
<1>4. CASE Silent!OfferHeld(k, push)
  BY <1>1, <1>2, <1>4, BoundAssumption DEF SlotsTyped, Silent!OfferHeld
<1>5. CASE Silent!OfferLeading(k, push)
  BY <1>1, <1>2, <1>5, BoundAssumption DEF SlotsTyped, Silent!OfferLeading, Silent!LetGo
<1> QED
  BY <1>3, <1>4, <1>5 DEF Silent!Offer

LEMMA Expired ==
    ASSUME SlotsTyped, NEW k \in Key, Silent!Expire(k)
    PROVE  SlotsTyped'
<1>1. UNCHANGED <<offered, flushed>>
  BY DEF Silent!Expire
<1>2. CASE Silent!ExpireLate(k)
  BY <1>1, <1>2 DEF SlotsTyped, Silent!ExpireLate
<1>3. CASE Silent!ExpireQuiet(k)
  BY <1>1, <1>3 DEF SlotsTyped, Silent!ExpireQuiet
<1>4. CASE Silent!ExpireTrailing(k)
  BY <1>1, <1>4 DEF SlotsTyped, Silent!ExpireTrailing, Silent!LetGo
<1> QED
  BY <1>2, <1>3, <1>4 DEF Silent!Expire

LEMMA Flushed ==
    ASSUME SlotsTyped, Silent!Flush
    PROVE  SlotsTyped'
BY DEF SlotsTyped, Silent!Flush

\* Whatever Coalescer does keeps the slots in order.
LEMMA SlotsPreserved ==
    ASSUME SlotsTyped, [Silent!Next]_silent
    PROVE  SlotsTyped'
<1>1. ASSUME NEW k \in Key, Silent!Fire(k) PROVE SlotsTyped'
  BY <1>1 DEF SlotsTyped, Silent!Fire
<1>2. ASSUME NEW k \in Key, NEW push \in Silent!Push, Silent!Send(k, push) PROVE SlotsTyped'
  BY <1>2 DEF SlotsTyped, Silent!Send
<1>3. CASE Silent!Tick
  BY <1>3 DEF SlotsTyped, Silent!Tick
<1>4. CASE UNCHANGED silent
  BY <1>4 DEF SlotsTyped, silent
<1> QED
  BY <1>1, <1>2, <1>3, <1>4, Offered, Expired, Flushed DEF Silent!Next

\* Every step of the relay is one of Coalescer's or leaves the slots alone.
LEMMA SlotsStep ==
    ASSUME RowsTyped, SlotsTyped, [Next]_vars
    PROVE  [Silent!Next]_silent
<1>1. ASSUME NEW h \in Handler, NEW item \in todo[h], EnqueueSilently(h, item)
      PROVE  [Silent!Next]_silent
  BY <1>1, CapturedProper DEF EnqueueSilently, Silent!Next
<1>2. ASSUME NEW k \in Key, NEW push \in sending[k], SendHeld(k, push)
      PROVE  [Silent!Next]_silent
  <2>1. push \in Silent!Push
    BY DEF SlotsTyped, Silent!Push
  <2> QED
    BY <1>2, <2>1 DEF SendHeld, Silent!Next
<1>3. ASSUME NEW k \in Key, Fire(k) \/ Expire(k) PROVE [Silent!Next]_silent
  BY <1>3 DEF Fire, Expire, Silent!Next
<1>4. CASE Tick
  BY <1>4 DEF Tick, Silent!Next
<1>5. CASE CloseFlush
  BY <1>5 DEF CloseFlush, Silent!Next
<1>6. ASSUME NEW h \in Handler,
             \/ \E t \in Token : HandleJMAPPush(h, t)
             \/ \E address \in Address : HandleGmailPush(h, address)
      PROVE  UNCHANGED silent
  BY <1>6 DEF HandleJMAPPush, HandleGmailPush, Receive
<1>7. ASSUME NEW w \in Worker, Take(w) \/ Deliver(w) \/ Finish(w) PROVE UNCHANGED silent
  BY <1>7 DEF Take, Deliver, Finish
<1>8. CASE \/ \E q \in Request : Register(q)
           \/ \E t \in Token, secret \in Mem!Secrets : Unregister(t, secret)
           \/ \E d \in Device : Uninstall(d)
  BY <1>8 DEF Register, Unregister, Uninstall
<1>9. CASE Enqueue \/ Signal \/ CloseQueue \/ WaitForDeliveries \/ UNCHANGED vars
  BY <1>9 DEF Enqueue, Signal, CloseQueue, WaitForDeliveries, vars
<1> QED
  BY <1>1, <1>2, <1>3, <1>4, <1>5, <1>6, <1>7, <1>8, <1>9 DEF Next

----------------------------------------------------------------------------
(* The queue. *)

\* What the relay submits is a job of its queue.
LEMMA JobOfIsJob ==
    ASSUME NEW row \in Proper, NEW t \in Token, NEW lane \in Lane, NEW coalesced \in BOOLEAN,
           NEW mode \in {"alert", "background"}, NEW push \in 1..(MaxPush + MaxPost)
    PROVE  JobOf(row, mode, t, lane, coalesced, push) \in Job
BY ProperFields DEF JobOf, Job

LEMMA SendHeldSubmits ==
    ASSUME RowsTyped, SlotsTyped, NEW k \in Key, NEW push \in sending[k],
           registrations[k[1]] # Absent
    PROVE  JobOf(registrations[k[1]], "background", k[1], k[2], TRUE, push) \in Job
<1>1. k[1] \in Token /\ k[2] \in Lane
  BY DEF Key
<1>2. push \in 1..(MaxPush + MaxPost)
  <2>1. push \in 1..MaxPush
    BY DEF SlotsTyped
  <2> QED
    BY <2>1, BoundAssumption
<1>3. registrations[k[1]] \in Proper
  BY <1>1 DEF RowsTyped
<1> QED
  BY <1>1, <1>2, <1>3, JobOfIsJob

LEMMA EnqueueSubmits ==
    ASSUME RowsTyped, NEW h \in Handler, NEW item \in todo[h]
    PROVE  JobOf(item.row, SentAs(item), item.token, item.lane, FALSE, item.request) \in Job
<1>1. item \in Captured
  BY CapturedProper
<1>2. /\ item.row \in Proper /\ item.token \in Token /\ item.lane \in Lane
      /\ item.request \in 1..MaxPost
  BY <1>1 DEF Captured
<1>3. item.request \in 1..(MaxPush + MaxPost)
  BY <1>2, BoundAssumption
<1>4. SentAs(item) \in {"alert", "background"}
  BY <1>2, ProperFields DEF SentAs
<1> QED
  BY <1>2, <1>3, <1>4, JobOfIsJob

\* Every step of the relay is one of DeliveryQueue's or leaves the queue alone.
LEMMA QueueStep ==
    ASSUME RowsTyped, SlotsTyped, [Next]_vars
    PROVE  [Queue!Next]_queue
<1>1. ASSUME NEW h \in Handler, NEW item \in todo[h], EnqueueSilently(h, item)
      PROVE  [Queue!Next]_queue
  BY <1>1, EnqueueSubmits DEF EnqueueSilently, Submit, Queue!Next
<1>2. ASSUME NEW k \in Key, NEW push \in sending[k], SendHeld(k, push)
      PROVE  [Queue!Next]_queue
  BY <1>2, SendHeldSubmits DEF SendHeld, Submit, Queue!Next
<1>3. CASE Enqueue \/ CloseQueue \/ WaitForDeliveries
  BY <1>3 DEF Enqueue, CloseQueue, WaitForDeliveries, Queue!Next
<1>4. ASSUME NEW w \in Worker, Take(w) \/ Finish(w) PROVE [Queue!Next]_queue
  BY <1>4 DEF Take, Finish, Queue!Next
<1>5. ASSUME NEW w \in Worker, Deliver(w) PROVE UNCHANGED queue
  BY <1>5 DEF Deliver
<1>6. ASSUME NEW k \in Key, Fire(k) \/ Expire(k) PROVE UNCHANGED queue
  BY <1>6 DEF Fire, Expire
<1>7. ASSUME NEW h \in Handler,
             \/ \E t \in Token : HandleJMAPPush(h, t)
             \/ \E address \in Address : HandleGmailPush(h, address)
      PROVE  UNCHANGED queue
  BY <1>7 DEF HandleJMAPPush, HandleGmailPush, Receive
<1>8. CASE \/ \E q \in Request : Register(q)
           \/ \E t \in Token, secret \in Mem!Secrets : Unregister(t, secret)
           \/ \E d \in Device : Uninstall(d)
  BY <1>8 DEF Register, Unregister, Uninstall
<1>9. CASE Tick \/ Signal \/ CloseFlush \/ UNCHANGED vars
  BY <1>9 DEF Tick, Signal, CloseFlush, vars
<1> QED
  BY <1>1, <1>2, <1>3, <1>4, <1>5, <1>6, <1>7, <1>8, <1>9 DEF Next

LEMMA RefusedPreserved ==
    ASSUME RefusedSubmitted, [Queue!Next]_queue
    PROVE  RefusedSubmitted'
<1>1. ASSUME NEW j \in Job, Queue!Submit(j) PROVE RefusedSubmitted'
  BY <1>1 DEF RefusedSubmitted, Queue!Submit
<1>2. CASE Queue!Enqueue
  BY <1>2 DEF RefusedSubmitted, Queue!Enqueue
<1>3. ASSUME NEW w \in Worker, Queue!Take(w) \/ Queue!Finish(w) PROVE RefusedSubmitted'
  BY <1>3 DEF RefusedSubmitted, Queue!Take, Queue!Finish
<1>4. CASE Queue!Close \/ Queue!Wait \/ UNCHANGED queue
  BY <1>4 DEF RefusedSubmitted, Queue!Close, Queue!Wait, queue
<1> QED
  BY <1>1, <1>2, <1>3, <1>4 DEF Queue!Next

LEMMA TypedPreserved ==
    ASSUME Typed, [Next]_vars
    PROVE  Typed'
BY RowsPreserved, SlotsStep, SlotsPreserved, QueueStep, RefusedPreserved DEF Typed

----------------------------------------------------------------------------
(* What becomes of pushes. *)

\* Steps that move no push of a slot and submit, refuse and drop nothing.
LEMMA NothingMoves ==
    ASSUME IInv,
           UNCHANGED <<offered, held, sending, flushed, submitted, refused, queueClosed,
                       flushing, dropped>>
    PROVE  Promises'
BY DEF IInv, Promises, SilentStaysSilent, NewestSomewhere, Accounted, FlushFirst, HeldIsFlushed, JobsOf, Dropped

\* A job is submitted: it may be refused, and no other job is.
LEMMA Submitting ==
    ASSUME IInv, NEW job, Queue!Submit(job),
           job.lane # JMAP \/ job.coalesced => job.mode = "background"
    PROVE  /\ SilentStaysSilent'
           /\ submitted' = submitted \union {job}
           /\ refused' \intersect submitted = refused \intersect submitted
           /\ refused' = IF queueClosed THEN refused \union {job} ELSE refused
           /\ job \notin refused /\ queueClosed' = queueClosed
BY DEF IInv, Typed, RefusedSubmitted, Promises, SilentStaysSilent, Queue!Submit

LEMMA OfferKeeps ==
    ASSUME IInv, NEW k \in Key, Silent!Offer(k), UNCHANGED <<queue, flushing, dropped>>
    PROVE  Promises'
<1> DEFINE push == offered[k] + 1
<1>1. /\ push \in 1..MaxPush
      /\ offered' = [offered EXCEPT ![k] = push]
      /\ flushed' = flushed
  BY BoundAssumption DEF Silent!Offer, SlotsTyped, IInv, Typed
<1>2. \/ held' = held /\ sending' = [sending EXCEPT ![k] = @ \union {push}]
      \/ held' = [held EXCEPT ![k] = push] /\ sending' = sending
  BY DEF Silent!Offer, Silent!OfferClosed, Silent!OfferHeld, Silent!OfferLeading, Silent!LetGo
<1>3. SilentStaysSilent'
  BY DEF IInv, Promises, SilentStaysSilent, queue
<1>4. NewestSomewhere'
  <2>1. held'[k] = push \/ push \in sending'[k]
    BY <1>2 DEF IInv, Typed, SlotsTyped
  <2>2. offered'[k] = push
    BY <1>1 DEF IInv, Typed, SlotsTyped
  <2>3. ASSUME NEW j \in Key, j # k
        PROVE  offered'[j] = offered[j] /\ held'[j] = held[j] /\ sending'[j] = sending[j]
    BY <1>1, <1>2, <2>3 DEF IInv, Typed, SlotsTyped
  <2> QED
    BY <2>1, <2>2, <2>3 DEF IInv, Promises, NewestSomewhere, Accounted, JobsOf, Dropped, queue
<1>5. FlushFirst'
  <2>1. ASSUME NEW f \in flushing
        PROVE  /\ f[3] <= offered'[<<f[1], f[2]>>]
               /\ queueClosed => f[3] \notin sending'[<<f[1], f[2]>>]
    <3>1. /\ <<f[1], f[2]>> \in Key /\ f[3] \in 1..MaxPush /\ f[3] <= offered[<<f[1], f[2]>>]
          /\ queueClosed => f[3] \notin sending[<<f[1], f[2]>>]
      BY DEF IInv, Promises, FlushFirst, Key
    <3>2. offered[k] \in 0..MaxPush
      BY DEF IInv, Typed, SlotsTyped
    <3>3. CASE <<f[1], f[2]>> = k
      BY <1>1, <1>2, <3>1, <3>2, <3>3, BoundAssumption DEF IInv, Typed, SlotsTyped
    <3>4. CASE <<f[1], f[2]>> # k
      BY <1>1, <1>2, <3>1, <3>4 DEF IInv, Typed, SlotsTyped
    <3> QED
      BY <3>3, <3>4
  <2> QED
    BY <1>1, <2>1 DEF IInv, Promises, FlushFirst, queue
<1>6. HeldIsFlushed'
  BY DEF IInv, Promises, HeldIsFlushed, Dropped
<1> QED
  BY <1>3, <1>4, <1>5, <1>6 DEF Promises

\* A silent push that goes round the coalescer is submitted as it came.
LEMMA EnqueueKeeps ==
    ASSUME IInv, NEW h \in Handler, NEW item \in todo[h], EnqueueSilently(h, item)
    PROVE  Promises'
<1>1. CASE Silent!Offer(<<item.token, item.lane>>) /\ UNCHANGED queue
  BY <1>1, CapturedProper, OfferKeeps DEF EnqueueSilently, IInv, Typed
<1>2. ASSUME UNCHANGED silent,
             Submit(JobOf(item.row, SentAs(item), item.token, item.lane, FALSE, item.request))
      PROVE  Promises'
  <2> DEFINE job == JobOf(item.row, SentAs(item), item.token, item.lane, FALSE, item.request)
  <2>1. job.lane # JMAP \/ job.coalesced => job.mode = "background"
    BY DEF JobOf, SentAs
  <2>2. /\ Queue!Submit(job)
        /\ UNCHANGED <<offered, held, sending, flushed, flushing, dropped>>
    BY <1>2 DEF Submit, EnqueueSilently, silent
  <2> HIDE DEF job
  <2>3. SilentStaysSilent'
    BY <2>1, <2>2, Submitting
  <2>4. NewestSomewhere'
    BY <2>1, <2>2, Submitting DEF IInv, Promises, NewestSomewhere, Accounted, JobsOf, Dropped
  <2>5. FlushFirst' /\ HeldIsFlushed'
    BY <2>1, <2>2, Submitting DEF IInv, Promises, FlushFirst, HeldIsFlushed, Dropped
  <2> QED
    BY <2>3, <2>4, <2>5 DEF Promises
<1> QED
  BY <1>1, <1>2 DEF EnqueueSilently

LEMMA SendHeldKeeps ==
    ASSUME IInv, NEW k \in Key, NEW push \in sending[k], SendHeld(k, push)
    PROVE  Promises'
<1> DEFINE job == JobOf(registrations[k[1]], "background", k[1], k[2], TRUE, push)
           drop(why) == [token |-> k[1], lane |-> k[2], push |-> push, why |-> why]
<1>1. /\ sending' = [sending EXCEPT ![k] = @ \ {push}]
      /\ UNCHANGED <<offered, held, flushed, flushing>>
  BY DEF SendHeld, Silent!Send
<1>2. \A j \in Key : \A p : p \in sending'[j] <=> p \in sending[j] /\ ~(j = k /\ p = push)
  BY <1>1 DEF IInv, Typed, SlotsTyped
<1>3. k = <<k[1], k[2]>> /\ push \in 1..MaxPush
  BY DEF Key, IInv, Typed, SlotsTyped
<1>4. \A f \in flushing :
         /\ <<f[1], f[2]>> \in Key
         /\ f[3] \notin sending[<<f[1], f[2]>>] => f[3] \notin sending'[<<f[1], f[2]>>]
  BY <1>2 DEF IInv, Promises, FlushFirst, Key
<1>5. CASE /\ UNCHANGED queue
           /\ dropped' = dropped \union {drop("row gone")}
  <2>1. SilentStaysSilent'
    BY <1>5 DEF IInv, Promises, SilentStaysSilent, queue
  <2>2. NewestSomewhere'
    BY <1>1, <1>2, <1>5 DEF IInv, Promises, NewestSomewhere, Accounted, JobsOf, Dropped, queue
  <2>3. FlushFirst'
    <3>1. drop("row gone").why # "closed"
      OBVIOUS
    <3> HIDE DEF drop
    <3> QED
      BY <1>1, <1>4, <1>5, <3>1 DEF IInv, Promises, FlushFirst, queue
  <2>4. HeldIsFlushed'
    BY <1>1, <1>5 DEF IInv, Promises, HeldIsFlushed, Dropped
  <2> QED
    BY <2>1, <2>2, <2>3, <2>4 DEF Promises
<1>6. CASE /\ Queue!Submit(job)
           /\ dropped' = IF queueClosed THEN dropped \union {drop("closed")} ELSE dropped
  <2>1. /\ job.lane # JMAP \/ job.coalesced => job.mode = "background"
        /\ job.token = k[1] /\ job.lane = k[2] /\ job.coalesced /\ job.push = push
    BY DEF JobOf
  <2> HIDE DEF job
  <2>2. /\ SilentStaysSilent'
        /\ submitted' = submitted \union {job}
        /\ refused' \intersect submitted = refused \intersect submitted
        /\ refused' = IF queueClosed THEN refused \union {job} ELSE refused
        /\ job \notin refused /\ queueClosed' = queueClosed
    BY <1>6, <2>1, Submitting
  <2>3. ASSUME NEW j \in Key PROVE Accounted(j)'
    <3>1. CASE j = k /\ offered[j] = push /\ queueClosed
      BY <1>1, <1>6, <3>1 DEF Accounted, Dropped
    <3>2. CASE j = k /\ offered[j] = push /\ ~queueClosed
      <4>1. job \in JobsOf(j)' /\ job.push = offered'[j] /\ job \notin refused'
        BY <1>1, <2>1, <2>2, <3>2 DEF JobsOf
      <4> QED
        BY <4>1 DEF Accounted
    <3>3. CASE ~(j = k /\ offered[j] = push)
      <4>1. Accounted(j)
        BY DEF IInv, Promises, NewestSomewhere, Accounted
      <4>2. \A i \in JobsOf(j) : i \in JobsOf(j)' /\ (i \in refused' => i \in refused)
        BY <2>2 DEF JobsOf
      <4>3. \A p, why : Dropped(j, p, why) => Dropped(j, p, why)'
        BY <1>6 DEF Dropped
      <4>4. offered[j] \in sending[j] => offered[j] \in sending'[j]
        BY <1>2, <3>3
      <4> QED
        BY <1>1, <4>1, <4>2, <4>3, <4>4 DEF Accounted
    <3> QED
      BY <3>1, <3>2, <3>3
  <2>4. FlushFirst'
    BY <1>1, <1>4, <1>6, <2>2 DEF IInv, Promises, FlushFirst
  <2>5. ASSUME NEW f \in flushing' PROVE ~Dropped(<<f[1], f[2]>>, f[3], "closed")'
    <3>1. f \in flushing /\ ~Dropped(<<f[1], f[2]>>, f[3], "closed")
      BY <1>1, <2>5 DEF IInv, Promises, HeldIsFlushed
    <3>2. CASE queueClosed
      <4>1. f[3] \notin sending[<<f[1], f[2]>>]
        BY <3>1, <3>2 DEF IInv, Promises, FlushFirst
      <4>2. ~(f[1] = k[1] /\ f[2] = k[2] /\ f[3] = push)
        BY <1>3, <4>1
      <4> QED
        BY <1>6, <3>1, <3>2, <4>2 DEF Dropped
    <3>3. CASE ~queueClosed
      BY <1>6, <3>1, <3>3 DEF Dropped
    <3> QED
      BY <3>2, <3>3
  <2> QED
    <3>1. NewestSomewhere'
      BY <2>3 DEF NewestSomewhere, Accounted
    <3> QED
      BY <2>2, <2>4, <2>5, <3>1 DEF Promises, HeldIsFlushed
<1> QED
  BY <1>5, <1>6 DEF SendHeld, Drop, Submit

LEMMA ExpireKeeps ==
    ASSUME IInv, NEW k \in Key, Expire(k)
    PROVE  Promises'
<1>1. /\ UNCHANGED <<offered, flushed, queue, flushing, dropped>>
      /\ Silent!Expire(k)
  BY DEF Expire, rest, Silent!Expire
<1>2. CASE UNCHANGED <<held, sending>>
  BY <1>1, <1>2, NothingMoves DEF queue
<1>3. CASE Silent!ExpireTrailing(k)
  <2>1. /\ ~flushed /\ held[k] # None
        /\ held' = [held EXCEPT ![k] = None]
        /\ sending' = [sending EXCEPT ![k] = @ \union {held[k]}]
    BY <1>3 DEF Silent!ExpireTrailing, Silent!LetGo
  <2>2. SilentStaysSilent' /\ HeldIsFlushed' /\ FlushFirst'
    BY <1>1, <2>1 DEF IInv, Promises, SilentStaysSilent, HeldIsFlushed, Dropped, FlushFirst, queue
  <2>3. \A j \in Key : \/ held'[j] = held[j] /\ sending'[j] = sending[j]
                       \/ held[j] \in sending'[j] /\ sending[j] \subseteq sending'[j]
    BY <2>1 DEF IInv, Typed, SlotsTyped
  <2>4. NewestSomewhere'
    BY <1>1, <2>3 DEF IInv, Promises, NewestSomewhere, Accounted, JobsOf, Dropped, queue
  <2> QED
    BY <2>2, <2>4 DEF Promises
<1> QED
  BY <1>1, <1>2, <1>3 DEF Silent!Expire, Silent!ExpireLate, Silent!ExpireQuiet

LEMMA SelectKeeps ==
    ASSUME IInv, Enqueue
    PROVE  Promises'
<1>1. UNCHANGED <<offered, held, sending, flushed, flushing, submitted, queueClosed>>
  BY DEF Enqueue, silent, Queue!Enqueue
<1>2. CASE UNCHANGED <<refused, dropped>>
  BY <1>1, <1>2, NothingMoves
<1>3. CASE ~adding.coalesced /\ UNCHANGED dropped /\ refused' = refused \union {adding}
  BY <1>1, <1>3 DEF IInv, Promises, SilentStaysSilent, NewestSomewhere, Accounted, FlushFirst,
                    HeldIsFlushed, JobsOf, Dropped
<1>4. CASE /\ adding.coalesced
           /\ refused' \in {refused, refused \union {adding}}
           /\ dropped' = dropped \union {[token |-> adding.token, lane |-> adding.lane,
                                          push |-> adding.push, why |-> "full"]}
  <2>1. SilentStaysSilent' /\ FlushFirst' /\ HeldIsFlushed'
    BY <1>1, <1>4 DEF IInv, Promises, SilentStaysSilent, FlushFirst, HeldIsFlushed, Dropped
  <2>2. NewestSomewhere'
    BY <1>1, <1>4 DEF IInv, Promises, NewestSomewhere, Accounted, JobsOf, Dropped
  <2> QED
    BY <2>1, <2>2 DEF Promises
<1> QED
  BY <1>2, <1>3, <1>4 DEF Enqueue, Queue!Enqueue, Drop

LEMMA FlushKeeps ==
    ASSUME IInv, CloseFlush
    PROVE  Promises'
<1>1. /\ ~flushed /\ flushed' /\ UNCHANGED <<offered, queue, dropped>>
      /\ sending' = [k \in Key |-> IF k \in slots /\ held[k] # None
                                   THEN sending[k] \union {held[k]} ELSE sending[k]]
      /\ flushing' = {<<k[1], k[2], held[k]>> : k \in {l \in slots : held[l] # None}}
  BY DEF CloseFlush, Silent!Flush
<1>2. SilentStaysSilent'
  BY <1>1 DEF IInv, Promises, SilentStaysSilent, queue
<1>3. NewestSomewhere'
  <2>1. \A k \in Key : /\ sending[k] \subseteq sending'[k]
                       /\ held[k] # None => held[k] \in sending'[k]
    BY <1>1 DEF IInv, Typed, SlotsTyped
  <2>2. \A k \in Key : offered[k] # None
    BY BoundAssumption DEF IInv, Typed, SlotsTyped
  <2> QED
    BY <1>1, <2>1, <2>2 DEF IInv, Promises, NewestSomewhere, Accounted, JobsOf, Dropped, queue
<1>4. ~queueClosed' /\ \A d \in dropped' : d.why # "closed"
  BY <1>1 DEF IInv, Promises, FlushFirst, queue
<1>5. FlushFirst'
  <2>1. ASSUME NEW k \in Key, held[k] # None
        PROVE  /\ <<k[1], k[2], held[k]>> \in Token \X Lane \X (1..MaxPush)
               /\ held[k] <= offered[<<k[1], k[2]>>]
    BY <2>1 DEF IInv, Typed, SlotsTyped, Key
  <2>2. ASSUME NEW f \in flushing'
        PROVE  /\ f \in Token \X Lane \X (1..MaxPush)
               /\ f[3] <= offered'[<<f[1], f[2]>>]
    <3>1. PICK k \in slots : held[k] # None /\ f = <<k[1], k[2], held[k]>>
      BY <1>1, <2>2
    <3>2. k \in Key
      BY DEF IInv, Typed, SlotsTyped
    <3> QED
      BY <1>1, <2>1, <3>1, <3>2
  <2> QED
    BY <1>1, <1>4, <2>2 DEF FlushFirst
<1>6. HeldIsFlushed'
  BY <1>4 DEF HeldIsFlushed, Dropped
<1> QED
  BY <1>2, <1>3, <1>5, <1>6 DEF Promises

LEMMA CloseKeeps ==
    ASSUME IInv, CloseQueue
    PROVE  Promises'
<1>1. /\ flushed /\ \A f \in flushing : f[3] \notin sending[<<f[1], f[2]>>]
      /\ queueClosed' /\ UNCHANGED <<offered, held, sending, flushed, submitted, refused, flushing, dropped>>
  BY DEF CloseQueue, Queue!Close, silent, rest
<1> QED
  BY <1>1 DEF IInv, Promises, SilentStaysSilent, NewestSomewhere, Accounted, FlushFirst, HeldIsFlushed,
              JobsOf, Dropped

LEMMA PromisesPreserved ==
    ASSUME IInv, [Next]_vars
    PROVE  Promises'
<1> DEFINE quiet == UNCHANGED <<offered, held, sending, flushed, submitted, refused,
                                queueClosed, flushing, dropped>>
<1>1. CASE \/ \E q \in Request : Register(q)
           \/ \E t \in Token, secret \in Mem!Secrets : Unregister(t, secret)
           \/ \E d \in Device : Uninstall(d)
           \/ Signal
           \/ WaitForDeliveries
           \/ UNCHANGED vars
  <2>1. quiet
    BY <1>1 DEF Register, Unregister, Uninstall, Signal, WaitForDeliveries, Queue!Wait,
                vars, silent, queue, rest
  <2> QED
    BY <2>1, NothingMoves
<1>2. ASSUME NEW h \in Handler,
             \/ \E t \in Token : HandleJMAPPush(h, t)
             \/ \E address \in Address : HandleGmailPush(h, address)
      PROVE  quiet
  BY <1>2 DEF HandleJMAPPush, HandleGmailPush, Receive, silent, queue
<1>3. ASSUME NEW w \in Worker, Take(w) \/ Deliver(w) \/ Finish(w) PROVE quiet
  BY <1>3 DEF Take, Deliver, Finish, Queue!Take, Queue!Finish, silent, queue
<1>4. ASSUME NEW k \in Key, Fire(k) PROVE quiet
  BY <1>4 DEF Fire, Silent!Fire, queue, rest
<1>5. CASE Tick
  BY <1>5, NothingMoves DEF Tick, Silent!Tick, queue, rest
<1> QED
  BY <1>1, <1>2, <1>3, <1>4, <1>5, NothingMoves, EnqueueKeeps, SendHeldKeeps, ExpireKeeps,
     SelectKeeps, FlushKeeps, CloseKeeps DEF Next

----------------------------------------------------------------------------
(* Theorems. *)

LEMMA InitEstablishes == Init => IInv
<1> SUFFICES ASSUME Init PROVE IInv
  OBVIOUS
<1>1. Typed
  BY RowsInit, SlotsInit DEF Init, Queue!Init, Typed, RefusedSubmitted
<1>2. \A k \in Key : offered[k] = 0
  BY DEF Init, Silent!Init
<1>3. Promises
  BY <1>2 DEF Init, Silent!Init, Queue!Init, Promises, SilentStaysSilent, NewestSomewhere,
              Accounted, FlushFirst, HeldIsFlushed, Dropped
<1> QED
  BY <1>1, <1>3 DEF IInv

\* The inductive invariant holds: rows, what handlers captured, slots and queue are
\* of their types, and no push of a slot is lost between them.
THEOREM Invariance == Spec => []IInv
<1>1. IInv /\ [Next]_vars => IInv'
  BY TypedPreserved, PromisesPreserved DEF IInv
<1> QED
  BY InitEstablishes, <1>1, PTL DEF Spec

\* A Gmail wake-up and a push that was held are silent, whatever their row became
\* before sendHeld read it again.
THEOREM SilentStaysSilentHolds == Spec => []SilentStaysSilent
<1>1. IInv => SilentStaysSilent
  BY DEF IInv, Promises
<1> QED
  BY Invariance, <1>1, PTL

\* What Close finds held does not meet a closed queue.
THEOREM HeldIsFlushedHolds == Spec => []HeldIsFlushed
<1>1. IInv => HeldIsFlushed
  BY DEF IInv, Promises
<1> QED
  BY Invariance, <1>1, PTL

\* The relay does to its slots what Coalescer says.
THEOREM SlotsAsSpecifiedHolds == Spec => SlotsAsSpecified
<1>1. Init => Silent!Init
  BY DEF Init
<1>2. IInv /\ [Next]_vars => [Silent!Next]_(Silent!vars)
  BY SlotsStep DEF IInv, Typed, silent, Silent!vars
<1> QED
  BY Invariance, <1>1, <1>2, PTL DEF Spec, SlotsAsSpecified, Silent!Spec

\* The relay does to its queue what DeliveryQueue says: nothing else is submitted,
\* taken, finished or closed.
THEOREM QueueAsSpecifiedHolds == Spec => QueueAsSpecified
<1>1. Init => Queue!Init
  BY DEF Init
<1>2. IInv /\ [Next]_vars => [Queue!Next]_(Queue!vars)
  BY QueueStep DEF IInv, Typed, queue, Queue!vars
<1> QED
  BY Invariance, <1>1, <1>2, PTL DEF Spec, QueueAsSpecified, Queue!Spec

----------------------------------------------------------------------------
(* The queue, as its own theorems have it. *)

\* DeliveryQueueProofs, of the relay's queue.
QueueProved == INSTANCE DeliveryQueueProofs WITH closed <- queueClosed

QueuePromises ==
    /\ []Queue!TypeOK
    /\ []Queue!CountedExactly
    /\ []Queue!NothingLost
    /\ []Queue!NoSendOnClosed
    /\ []Queue!AcceptedIsAttempted

\* Both instances are of one queue: definition for definition they agree.
LEMMA SameQueue ==
    /\ Queue!Spec => QueueProved!Spec
    /\ []QueueProved!TypeOK => []Queue!TypeOK
    /\ []QueueProved!CountedExactly => []Queue!CountedExactly
    /\ []QueueProved!NothingLost => []Queue!NothingLost
    /\ []QueueProved!NoSendOnClosed => []Queue!NoSendOnClosed
    /\ []QueueProved!AcceptedIsAttempted => []Queue!AcceptedIsAttempted
<1> USE DEF Queue!Cardinality, QueueProved!Cardinality, Queue!Init, QueueProved!Init,
      Queue!Submit, QueueProved!Submit, Queue!Enqueue, QueueProved!Enqueue, Queue!Take,
      QueueProved!Take, Queue!Finish, QueueProved!Finish, Queue!Close,
      QueueProved!Close, Queue!Wait, QueueProved!Wait, Queue!Next, QueueProved!Next,
      Queue!vars, QueueProved!vars, Queue!Spec, QueueProved!Spec, Queue!Queued,
      QueueProved!Queued, Queue!Running, QueueProved!Running, Queue!Busy,
      QueueProved!Busy, Queue!Accepted, QueueProved!Accepted, Queue!TypeOK,
      QueueProved!TypeOK, Queue!CountedExactly, QueueProved!CountedExactly,
      Queue!NothingLost, QueueProved!NothingLost, Queue!NoSendOnClosed,
      QueueProved!NoSendOnClosed, Queue!AcceptedIsAttempted,
      QueueProved!AcceptedIsAttempted
<1> QED
  BY PTL

LEMMA QueueAsAssumed ==
    Depth \in Nat \ {0} /\ QueueProved!IsFiniteSet(Worker) /\ None \notin Job
BY ComponentAssumption, AbsentAssumption DEF IsFiniteSet, QueueProved!IsFiniteSet

\* What DeliveryQueue promises holds in the relay, whatever handlers, windows and the
\* shutdown do: the wait group counts exactly what is left, nothing accepted is lost,
\* nobody sends on the closed channel, and a process that ends has attempted it all.
THEOREM QueuePromisesHold == Spec => QueuePromises
<1>1. QueueProved!Spec => []QueueProved!TypeOK
  BY QueueAsAssumed, QueueProved!TypeCorrect
<1>2. QueueProved!Spec => []QueueProved!CountedExactly
  BY QueueAsAssumed, QueueProved!CountedExactlyHolds
<1>3. QueueProved!Spec => []QueueProved!NothingLost
  BY QueueAsAssumed, QueueProved!NothingLostHolds
<1>4. QueueProved!Spec => []QueueProved!NoSendOnClosed
  BY QueueAsAssumed, QueueProved!NoSendOnClosedHolds
<1>5. QueueProved!Spec => []QueueProved!AcceptedIsAttempted
  BY QueueAsAssumed, QueueProved!AcceptedIsAttemptedHolds
<1> QED
  BY <1>1, <1>2, <1>3, <1>4, <1>5, SameQueue, QueueAsSpecifiedHolds, PTL
     DEF QueueAsSpecified, QueuePromises

\* A process that has ended had closed its queue.
LEMMA EndedIsClosed == Spec => [](main = "gone" => queueClosed)
<1> DEFINE Consistent == queueClosed <=> main # "serving"
<1>1. Queue!Init => Consistent
  BY DEF Queue!Init
<1>2. Consistent /\ [Queue!Next]_(Queue!vars) => Consistent'
  BY DEF Queue!Next, Queue!Submit, Queue!Enqueue, Queue!Take, Queue!Finish, Queue!Close,
         Queue!Wait, Queue!vars
<1>3. Consistent => (main = "gone" => queueClosed)
  OBVIOUS
<1> QED
  BY <1>1, <1>2, <1>3, QueueAsSpecifiedHolds, PTL DEF QueueAsSpecified, Queue!Spec

\* The newest push of a slot is held, on its way, accepted, or given up for a known
\* reason, across coalescer, store and queue; and a process that ends leaves none in a
\* slot, and none that its queue accepted unattempted.
THEOREM NewestAccountedHolds == Spec => []NewestAccounted
<1>1. IInv /\ (main = "gone" => queueClosed) /\ Queue!TypeOK /\ Queue!NoSendOnClosed
        /\ Queue!AcceptedIsAttempted => NewestAccounted
  <2> SUFFICES ASSUME IInv, main = "gone" => queueClosed, Queue!TypeOK, Queue!NoSendOnClosed,
                      Queue!AcceptedIsAttempted, NEW k \in Key, offered[k] > 0
               PROVE  \/ held[k] = offered[k] /\ main # "gone"
                      \/ offered[k] \in sending[k]
                      \/ \E job \in JobsOf(k) :
                            /\ job.push = offered[k] /\ job \notin refused
                            /\ main = "gone" => job \in finished
                      \/ \E why \in {"row gone", "closed", "full"} : Dropped(k, offered[k], why)
    BY DEF NewestAccounted
  <2>1. Accounted(k)
    BY DEF IInv, Promises, NewestSomewhere
  <2>2. CASE main # "gone"
    BY <2>1, <2>2 DEF Accounted
  <2>3. CASE main = "gone"
    <3>1. held[k] = None /\ offered[k] # None
      BY <2>3, BoundAssumption DEF IInv, Typed, SlotsTyped, Promises, FlushFirst
    <3>2. \A job \in JobsOf(k) : job \notin refused => job \in finished
      BY <2>3, AbsentAssumption DEF JobsOf, Queue!TypeOK, Queue!NoSendOnClosed,
                                    Queue!AcceptedIsAttempted, Queue!Accepted
    <3> QED
      BY <2>1, <3>1, <3>2 DEF Accounted
  <2> QED
    BY <2>2, <2>3
<1> QED
  BY <1>1, Invariance, EndedIsClosed, QueuePromisesHold, PTL DEF QueuePromises

----------------------------------------------------------------------------
(* The slots, as their own theorems have them. *)

\* CoalescerProofs, of the relay's slots.
SlotsProved == INSTANCE CoalescerProofs WITH closed <- flushed

SlotsPromises ==
    /\ []Silent!TypeOK
    /\ []Silent!NewestKept
    /\ []Silent!OneTimerPerWindow
    /\ Silent!AtMostOnePerWindow
    /\ Silent!Promise!Spec

\* Both instances are of the same slots: definition for definition they agree.
LEMMA SameSlots ==
    /\ Silent!Spec => SlotsProved!Spec
    /\ []SlotsProved!TypeOK => []Silent!TypeOK
    /\ []SlotsProved!NewestKept => []Silent!NewestKept
    /\ []SlotsProved!OneTimerPerWindow => []Silent!OneTimerPerWindow
    /\ SlotsProved!AtMostOnePerWindow => Silent!AtMostOnePerWindow
    /\ SlotsProved!Promise!Spec => Silent!Promise!Spec
<1> USE DEF Silent!Push, SlotsProved!Push, Silent!Init, SlotsProved!Init, Silent!LetGo,
      SlotsProved!LetGo, Silent!Arm, SlotsProved!Arm, Silent!OfferClosed,
      SlotsProved!OfferClosed, Silent!OfferHeld, SlotsProved!OfferHeld,
      Silent!OfferLeading, SlotsProved!OfferLeading, Silent!Offer, SlotsProved!Offer,
      Silent!Fire, SlotsProved!Fire, Silent!ExpireLate, SlotsProved!ExpireLate,
      Silent!ExpireQuiet, SlotsProved!ExpireQuiet, Silent!ExpireTrailing,
      SlotsProved!ExpireTrailing, Silent!Expire, SlotsProved!Expire, Silent!Flush,
      SlotsProved!Flush, Silent!Send, SlotsProved!Send, Silent!Tick, SlotsProved!Tick,
      Silent!Next, SlotsProved!Next, Silent!vars, SlotsProved!vars, Silent!Spec,
      SlotsProved!Spec, Silent!TypeOK, SlotsProved!TypeOK, Silent!NewestKept,
      SlotsProved!NewestKept, Silent!OneTimerPerWindow, SlotsProved!OneTimerPerWindow,
      Silent!AtMostOnePerWindow, SlotsProved!AtMostOnePerWindow, Silent!Promise!vars,
      SlotsProved!Promise!vars, Silent!Promise!Init, SlotsProved!Promise!Init,
      Silent!Promise!Accept, SlotsProved!Promise!Accept, Silent!Promise!Deliver,
      SlotsProved!Promise!Deliver, Silent!Promise!Next, SlotsProved!Promise!Next,
      Silent!Promise!Spec, SlotsProved!Promise!Spec
<1> QED
  BY PTL

\* What Coalescer promises holds in the relay: the newest push of a slot is never lost
\* to the lock, an open window has one timer, pushes of a slot are a window apart until
\* the shutdown, and every slot is a Mailbox.
THEOREM SlotsPromisesHold == Spec => SlotsPromises
<1>0. Window \in Nat \ {0} /\ MaxPush \in Nat /\ None \notin Nat
  BY ComponentAssumption, BoundAssumption
<1>1. SlotsProved!Spec => []SlotsProved!TypeOK
  BY <1>0, SlotsProved!TypeCorrect
<1>2. SlotsProved!Spec => []SlotsProved!NewestKept
  BY <1>0, SlotsProved!NewestKeptHolds
<1>3. SlotsProved!Spec => []SlotsProved!OneTimerPerWindow
  BY <1>0, SlotsProved!OneTimerPerWindowHolds
<1>4. SlotsProved!Spec => SlotsProved!AtMostOnePerWindow
  BY <1>0, SlotsProved!AtMostOnePerWindowHolds
<1>5. SlotsProved!Spec => SlotsProved!Promise!Spec
  BY <1>0, SlotsProved!KeepsPromiseSafely
<1> QED
  BY <1>1, <1>2, <1>3, <1>4, <1>5, SameSlots, SlotsAsSpecifiedHolds, PTL
     DEF SlotsAsSpecified, SlotsPromises

----------------------------------------------------------------------------
(* The table, as its own theorems have it. *)

\* The relay does to the table what Store says: a worker that drops a row, too.
THEOREM TableAsSpecifiedHolds == Spec => TableAsSpecified
<1>1. Init => Mem!Init
  BY DEF Init
<1>2. IInv /\ Queue!TypeOK /\ [Next]_vars => [Mem!Next]_(Mem!vars)
  <2> SUFFICES ASSUME IInv, Queue!TypeOK, [Next]_vars PROVE [Mem!Next]_(Mem!vars)
    OBVIOUS
  <2>1. ASSUME NEW q \in Request, Register(q) PROVE Mem!Next
    <3>1. now \in Mem!Reading
      BY DEF IInv, Typed, RowsTyped, Time, Mem!Reading, Mem!Time
    <3> QED
      BY <2>1, <3>1 DEF Register, Mem!Next
  <2>2. ASSUME NEW t \in Token, NEW secret \in Mem!Secrets, Unregister(t, secret) PROVE Mem!Next
    BY <2>2 DEF Unregister, Mem!Next
  <2>3. ASSUME NEW w \in Worker, Finish(w) PROVE [Mem!Next]_(Mem!vars)
    <3>1. running[w] \in Job
      BY <2>3 DEF Finish, Queue!Finish, Queue!TypeOK
    <3>2. running[w].token \in Token
      BY <3>1 DEF Job
    <3> QED
      BY <2>3, <3>2 DEF Finish, Mem!Next, store, Mem!vars
  <2>4. CASE Tick
    BY <2>4 DEF Tick, Mem!Next, store, Mem!vars
  <2>5. ASSUME NEW w \in Worker, Take(w) \/ Deliver(w) PROVE UNCHANGED store
    BY <2>5 DEF Take, Deliver
  <2>6. ASSUME NEW h \in Handler,
               \/ \E t \in Token : HandleJMAPPush(h, t)
               \/ \E address \in Address : HandleGmailPush(h, address)
               \/ \E item \in todo[h] : EnqueueSilently(h, item)
        PROVE  UNCHANGED store
    BY <2>6 DEF HandleJMAPPush, HandleGmailPush, Receive, EnqueueSilently
  <2>7. ASSUME NEW k \in Key, Fire(k) \/ Expire(k) \/ \E push \in sending[k] : SendHeld(k, push)
        PROVE  UNCHANGED store
    BY <2>7 DEF Fire, Expire, SendHeld
  <2>8. ASSUME NEW d \in Device, Uninstall(d) PROVE UNCHANGED store
    BY <2>8 DEF Uninstall
  <2>9. CASE Enqueue \/ Signal \/ CloseFlush \/ CloseQueue \/ WaitForDeliveries \/ UNCHANGED vars
    BY <2>9 DEF Enqueue, Signal, CloseFlush, CloseQueue, WaitForDeliveries, vars, store, Mem!vars
  <2>10. UNCHANGED store => UNCHANGED Mem!vars
    BY DEF store, Mem!vars
  <2> QED
    BY <2>1, <2>2, <2>3, <2>4, <2>5, <2>6, <2>7, <2>8, <2>9, <2>10 DEF Next
<1> QED
  BY <1>1, <1>2, Invariance, QueuePromisesHold, PTL DEF Spec, TableAsSpecified, Mem!Spec, QueuePromises

\* StoreProofs, of the relay's table.
TableProved == INSTANCE StoreProofs WITH
    Lifetime <- MaxTime, PrunePeriod <- MaxTime + 1, MaxDelay <- 0,
    CanFail <- FALSE, CanRestart <- FALSE

TablePromises ==
    /\ []Mem!TypeOK
    /\ []Mem!OneRowPerDevice
    /\ []Mem!WithinSiteLimit
    /\ []Mem!WithinPrimaryLimit
    /\ []Mem!KnownDeviceNotTurnedAway
    /\ []Mem!AnsweredIsDurable
    /\ Mem!OwnerKept

\* Both instances are of one table: definition for definition they agree.
LEMMA SameTable ==
    /\ Mem!Spec => TableProved!Spec
    /\ []TableProved!TypeOK => []Mem!TypeOK
    /\ []TableProved!OneRowPerDevice => []Mem!OneRowPerDevice
    /\ []TableProved!WithinSiteLimit => []Mem!WithinSiteLimit
    /\ []TableProved!WithinPrimaryLimit => []Mem!WithinPrimaryLimit
    /\ []TableProved!KnownDeviceNotTurnedAway => []Mem!KnownDeviceNotTurnedAway
    /\ []TableProved!AnsweredIsDurable => []Mem!AnsweredIsDurable
    /\ TableProved!OwnerKept => Mem!OwnerKept
<1> USE DEF Mem!Cardinality, TableProved!Cardinality, Mem!RowOf, TableProved!RowOf,
      Mem!HashSecret, TableProved!HashSecret, Mem!GmailAddress,
      TableProved!GmailAddress, Mem!GmailAccounts, TableProved!GmailAccounts,
      Mem!NormalisedAccounts, TableProved!NormalisedAccounts, Mem!Row, TableProved!Row,
      Mem!Time, TableProved!Time, Mem!Mode, TableProved!Mode, Mem!Watches,
      TableProved!Watches, Mem!Held, TableProved!Held, Mem!Superseded,
      TableProved!Superseded, Mem!NotOwner, TableProved!NotOwner, Mem!After,
      TableProved!After, Mem!ForAddress, TableProved!ForAddress, Mem!Malformed,
      TableProved!Malformed, Mem!TooManyAccounts, TableProved!TooManyAccounts, Mem!Full,
      TableProved!Full, Mem!TooManyForAddress, TableProved!TooManyForAddress,
      Mem!Verdict, TableProved!Verdict, Mem!Stored, TableProved!Stored, Mem!Without,
      TableProved!Without, Mem!Empty, TableProved!Empty, Mem!NoReply,
      TableProved!NoReply, Mem!FlushLocked, TableProved!FlushLocked, Mem!Answer,
      TableProved!Answer, Mem!Init, TableProved!Init, Mem!Put, TableProved!Put,
      Mem!DeleteIfOwned, TableProved!DeleteIfOwned, Mem!Delete, TableProved!Delete,
      Mem!Stale, TableProved!Stale, Mem!Prunable, TableProved!Prunable, Mem!Prune,
      TableProved!Prune, Mem!Restart, TableProved!Restart, Mem!Tick, TableProved!Tick,
      Mem!Reading, TableProved!Reading, Mem!Secrets, TableProved!Secrets, Mem!Next,
      TableProved!Next, Mem!vars, TableProved!vars, Mem!Spec, TableProved!Spec,
      Mem!Tables, TableProved!Tables, Mem!OneRowPerDevice, TableProved!OneRowPerDevice,
      Mem!WithinSiteLimit, TableProved!WithinSiteLimit, Mem!WithinPrimaryLimit,
      TableProved!WithinPrimaryLimit, Mem!KnownDeviceNotTurnedAway,
      TableProved!KnownDeviceNotTurnedAway, Mem!OwnedBy, TableProved!OwnedBy,
      Mem!OwnerKept, TableProved!OwnerKept, Mem!AnsweredIsDurable,
      TableProved!AnsweredIsDurable, Mem!Operation, TableProved!Operation, Mem!Result,
      TableProved!Result, Mem!TypeOK, TableProved!TypeOK
<1> QED
  BY PTL

\* What Store assumes holds of the relay's tokens, requests and bounds.
LEMMA TableAsAssumed ==
    /\ TableProved!IsFiniteSet(Token) /\ Absent \notin Token /\ Blank \notin Address
    /\ \A q \in Request :
          /\ DOMAIN q = {"token", "device", "topic", "mode", "secret",
                         "gmail", "accounts", "expires"}
          /\ q.token \in Token
    /\ MaxRegistrations \in Nat /\ MaxPerAddress \in Nat /\ MaxGmailAccounts \in Nat
    /\ MaxTime \in Nat /\ 0 \in Nat /\ MaxTime + 1 \in Nat \ {0}
    /\ FALSE \in BOOLEAN
    /\ \A q \in Request, seen \in TableProved!Time : TableProved!RowOf(q, seen) # Absent
<1>1. TableProved!IsFiniteSet(Token)
  BY ComponentAssumption DEF IsFiniteSet, TableProved!IsFiniteSet
<1>2. \A q, seen : TableProved!RowOf(q, seen) = Mem!RowOf(q, seen)
  BY DEF TableProved!RowOf, TableProved!HashSecret, TableProved!GmailAddress,
         TableProved!GmailAccounts, TableProved!NormalisedAccounts, Mem!RowOf, Mem!HashSecret,
         Mem!GmailAddress, Mem!GmailAccounts, Mem!NormalisedAccounts
<1>3. \A q \in Request, seen \in TableProved!Time : TableProved!RowOf(q, seen) # Absent
  BY <1>2, AbsentAssumption DEF TableProved!Time, Time
<1>4. MaxTime \in Nat /\ MaxTime + 1 \in Nat \ {0}
  BY BoundAssumption
<1> QED
  BY <1>1, <1>3, <1>4, ComponentAssumption, RequestAssumption

\* What Store promises holds while handlers read rows, workers drop them and devices
\* register again: no device in two rows, the limits, owners, and that what a
\* registration was answered is in the file.
THEOREM TablePromisesHold == Spec => TablePromises
<1>1. TableProved!Spec => []TableProved!TypeOK
  BY TableAsAssumed, TableProved!TypeCorrect
<1>2. TableProved!Spec => []TableProved!OneRowPerDevice
  BY TableAsAssumed, TableProved!OneRowPerDeviceHolds
<1>3. TableProved!Spec => []TableProved!WithinSiteLimit
  BY TableAsAssumed, TableProved!WithinSiteLimitHolds
<1>4. TableProved!Spec => []TableProved!WithinPrimaryLimit
  BY TableAsAssumed, TableProved!WithinPrimaryLimitHolds
<1>5. TableProved!Spec => []TableProved!KnownDeviceNotTurnedAway
  BY TableAsAssumed, TableProved!KnownDeviceNotTurnedAwayHolds
<1>6. TableProved!Spec => []TableProved!AnsweredIsDurable
  BY TableAsAssumed, TableProved!AnsweredIsDurableHolds
<1>7. TableProved!Spec => TableProved!OwnerKept
  BY TableAsAssumed, TableProved!OwnerKeptHolds
<1> QED
  BY <1>1, <1>2, <1>3, <1>4, <1>5, <1>6, <1>7, SameTable, TableAsSpecifiedHolds, PTL
     DEF TableAsSpecified, TablePromises

----------------------------------------------------------------------------
(* Types, and what a worker does with Apple's word. *)

\* What Relay adds to the state of its components.
RestTyped ==
    /\ answer \in [Worker -> {"none", "skipped", "failed", "sent", "gone"}]
    /\ gone \subseteq Device
    /\ stopping \in BOOLEAN
    /\ parked \subseteq Token \X Lane \X (1..MaxPush)
    /\ dropped \subseteq [token : Token, lane : Lane, push : 1..MaxPush,
                          why : {"row gone", "closed", "full"}]
    /\ \A job \in submitted : job.coalesced => job.push \in 1..MaxPush

\* A worker that has heard of a device that is gone runs a job for such a device.
HeardOfGone ==
    \A w \in Worker : answer[w] = "gone" => running[w] # None /\ running[w].device \in gone

LEMMA RestInit == Init => RestTyped /\ HeardOfGone
BY DEF Init, Queue!Init, RestTyped, HeardOfGone

LEMMA DropTyped ==
    ASSUME RestTyped, NEW k \in Key, NEW push \in 1..MaxPush,
           NEW why \in {"row gone", "closed", "full"}, Drop(k, push, why)
    PROVE  dropped' \subseteq [token : Token, lane : Lane, push : 1..MaxPush,
                              why : {"row gone", "closed", "full"}]
<1> DEFINE drop == [token |-> k[1], lane |-> k[2], push |-> push, why |-> why]
<1>1. drop \in [token : Token, lane : Lane, push : 1..MaxPush,
               why : {"row gone", "closed", "full"}]
  BY DEF Key
<1>2. dropped' = dropped \union {drop}
  BY DEF Drop
<1> HIDE DEF drop
<1> QED
  BY <1>1, <1>2 DEF RestTyped

LEMMA RestEnqueueSilently ==
    ASSUME IInv, RestTyped, NEW h \in Handler, NEW item \in todo[h], EnqueueSilently(h, item)
    PROVE  RestTyped'
<1>1. UNCHANGED <<answer, gone, stopping, dropped>>
  BY DEF EnqueueSilently
<1>2. parked' \subseteq Token \X Lane \X (1..MaxPush)
  <2>1. CASE UNCHANGED parked
    BY <2>1 DEF RestTyped
  <2>2. CASE /\ Silent!Offer(<<item.token, item.lane>>)
             /\ parked' = parked \union
                    {<<k[1], k[2], held'[k]>> : k \in {l \in Key : held'[l] # None}}
    <3>1. SlotsTyped'
      BY <2>2, CapturedProper, Offered DEF IInv, Typed
    <3>2. \A k \in Key : held'[k] # None => <<k[1], k[2], held'[k]>> \in Token \X Lane \X (1..MaxPush)
      BY <3>1 DEF SlotsTyped, Key
    <3> QED
      BY <2>2, <3>2 DEF RestTyped
  <2> QED
    BY <2>1, <2>2 DEF EnqueueSilently
<1>3. \A job \in submitted' : job.coalesced => job.push \in 1..MaxPush
  <2>1. CASE UNCHANGED queue
    BY <2>1 DEF RestTyped, queue
  <2>2. CASE Submit(JobOf(item.row, SentAs(item), item.token, item.lane, FALSE, item.request))
    <3> DEFINE job == JobOf(item.row, SentAs(item), item.token, item.lane, FALSE, item.request)
    <3>1. ~job.coalesced
      BY DEF JobOf
    <3>2. submitted' = submitted \union {job}
      BY <2>2 DEF Submit, Queue!Submit
    <3> HIDE DEF job
    <3> QED
      BY <3>1, <3>2 DEF RestTyped
  <2> QED
    BY <2>1, <2>2 DEF EnqueueSilently
<1> QED
  BY <1>1, <1>2, <1>3 DEF RestTyped

LEMMA RestSendHeld ==
    ASSUME IInv, RestTyped, NEW k \in Key, NEW push \in sending[k], SendHeld(k, push)
    PROVE  RestTyped'
<1> DEFINE job == JobOf(registrations[k[1]], "background", k[1], k[2], TRUE, push)
<1>1. UNCHANGED <<answer, gone, stopping, parked>>
  BY DEF SendHeld
<1>2. k[1] \in Token /\ k[2] \in Lane /\ push \in 1..MaxPush
  BY DEF Key, IInv, Typed, SlotsTyped
<1>3. \/ UNCHANGED dropped
      \/ \E why \in {"row gone", "closed"} : Drop(k, push, why)
  BY DEF SendHeld
<1>4. dropped' \subseteq [token : Token, lane : Lane, push : 1..MaxPush,
                          why : {"row gone", "closed", "full"}]
  <2>1. CASE UNCHANGED dropped
    BY <2>1 DEF RestTyped
  <2>2. ASSUME NEW why \in {"row gone", "closed"}, Drop(k, push, why)
        PROVE  dropped' \subseteq [token : Token, lane : Lane, push : 1..MaxPush,
                                  why : {"row gone", "closed", "full"}]
    BY <1>2, <2>2, DropTyped
  <2> QED
    BY <1>3, <2>1, <2>2
<1>5. submitted' \subseteq submitted \union {job}
  BY DEF SendHeld, Submit, Queue!Submit, queue
<1>6. job.push = push
  BY DEF JobOf
<1> HIDE DEF job
<1>7. \A j \in submitted' : j.coalesced => j.push \in 1..MaxPush
  BY <1>2, <1>5, <1>6 DEF RestTyped
<1> QED
  BY <1>1, <1>4, <1>7 DEF RestTyped

LEMMA RestEnqueue ==
    ASSUME IInv, Queue!TypeOK, RestTyped, Enqueue
    PROVE  RestTyped'
<1>1. UNCHANGED <<answer, gone, stopping, parked, submitted>>
  BY DEF Enqueue, Queue!Enqueue
<1>2. adding \in submitted /\ adding \in Job
  BY DEF Enqueue, Queue!Enqueue, Queue!TypeOK, IInv, Typed, RefusedSubmitted
<1>3. adding.token \in Token /\ adding.lane \in Lane
  BY <1>2 DEF Job
<1>4. CASE UNCHANGED dropped
  BY <1>1, <1>4 DEF RestTyped
<1>5. CASE adding.coalesced /\ Drop(<<adding.token, adding.lane>>, adding.push, "full")
  <2>1. adding.push \in 1..MaxPush
    BY <1>2, <1>5 DEF RestTyped
  <2>2. dropped' \subseteq [token : Token, lane : Lane, push : 1..MaxPush,
                            why : {"row gone", "closed", "full"}]
    <3>1. <<adding.token, adding.lane>> \in Key
      BY <1>3 DEF Key
    <3> QED
      BY <1>5, <2>1, <3>1, DropTyped
  <2> QED
    BY <1>1, <2>2 DEF RestTyped
<1> QED
  BY <1>4, <1>5 DEF Enqueue

LEMMA RestPreserved ==
    ASSUME IInv, Queue!TypeOK, RestTyped, [Next]_vars
    PROVE  RestTyped'
<1>1. ASSUME UNCHANGED <<answer, gone, stopping, parked, dropped, submitted>> PROVE RestTyped'
  BY <1>1 DEF RestTyped
<1>2. CASE \/ \E q \in Request : Register(q)
           \/ \E t \in Token, secret \in Mem!Secrets : Unregister(t, secret)
           \/ Tick
           \/ UNCHANGED vars
  BY <1>1, <1>2 DEF Register, Unregister, Tick, vars, rest, queue
<1>3. ASSUME NEW d \in Device, Uninstall(d) PROVE RestTyped'
  BY <1>3 DEF Uninstall, RestTyped, queue
<1>4. ASSUME NEW h \in Handler,
             \/ \E t \in Token : HandleJMAPPush(h, t)
             \/ \E address \in Address : HandleGmailPush(h, address)
      PROVE  RestTyped'
  BY <1>1, <1>4 DEF HandleJMAPPush, HandleGmailPush, Receive, queue
<1>5. ASSUME NEW k \in Key, Fire(k) \/ Expire(k) PROVE RestTyped'
  BY <1>1, <1>5 DEF Fire, Expire, rest, queue
<1>6. ASSUME NEW w \in Worker, Take(w) \/ Deliver(w) \/ Finish(w) PROVE RestTyped'
  <2>1. UNCHANGED <<gone, stopping, parked, dropped, submitted>>
    BY <1>6 DEF Take, Deliver, Finish, Queue!Take, Queue!Finish, queue
  <2>2. answer' \in [Worker -> {"none", "skipped", "failed", "sent", "gone"}]
    BY <1>6 DEF Take, Deliver, Finish, RestTyped
  <2> QED
    BY <2>1, <2>2 DEF RestTyped
<1>7. CASE Signal
  BY <1>7 DEF Signal, RestTyped, queue
<1>8. CASE CloseFlush \/ CloseQueue \/ WaitForDeliveries
  BY <1>1, <1>8 DEF CloseFlush, CloseQueue, WaitForDeliveries, Queue!Close, Queue!Wait, rest, queue
<1> QED
  BY <1>2, <1>3, <1>4, <1>5, <1>6, <1>7, <1>8, RestEnqueueSilently, RestSendHeld, RestEnqueue
     DEF Next

LEMMA HeardPreserved ==
    ASSUME Queue!TypeOK, RestTyped, HeardOfGone, [Next]_vars
    PROVE  HeardOfGone'
<1>1. ASSUME UNCHANGED <<answer, running, gone>> PROVE HeardOfGone'
  BY <1>1 DEF HeardOfGone
<1>2. CASE \/ \E q \in Request : Register(q)
           \/ \E t \in Token, secret \in Mem!Secrets : Unregister(t, secret)
           \/ Tick
           \/ Signal
           \/ UNCHANGED vars
  BY <1>1, <1>2 DEF Register, Unregister, Tick, Signal, vars, rest, queue
<1>3. ASSUME NEW d \in Device, Uninstall(d) PROVE HeardOfGone'
  BY <1>3 DEF Uninstall, HeardOfGone, queue
<1>4. ASSUME NEW h \in Handler,
             \/ \E t \in Token : HandleJMAPPush(h, t)
             \/ \E address \in Address : HandleGmailPush(h, address)
             \/ \E item \in todo[h] : EnqueueSilently(h, item)
      PROVE  HeardOfGone'
  BY <1>1, <1>4 DEF HandleJMAPPush, HandleGmailPush, Receive, EnqueueSilently, Submit,
                    Queue!Submit, queue
<1>5. ASSUME NEW k \in Key, Fire(k) \/ Expire(k) \/ \E push \in sending[k] : SendHeld(k, push)
      PROVE  HeardOfGone'
  BY <1>1, <1>5 DEF Fire, Expire, SendHeld, Submit, Queue!Submit, rest, queue
<1>6. ASSUME NEW w \in Worker, Take(w) \/ Finish(w) PROVE HeardOfGone'
  <2>1. gone' = gone /\ answer' = [answer EXCEPT ![w] = "none"]
    BY <1>6 DEF Take, Finish
  <2>2. \A v \in Worker \ {w} : running'[v] = running[v]
    BY <1>6 DEF Take, Finish, Queue!Take, Queue!Finish, Queue!TypeOK
  <2> QED
    BY <2>1, <2>2 DEF HeardOfGone, RestTyped
<1>7. ASSUME NEW w \in Worker, Deliver(w) PROVE HeardOfGone'
  BY <1>7 DEF Deliver, HeardOfGone, RestTyped, queue
<1>8. CASE Enqueue \/ CloseFlush \/ CloseQueue \/ WaitForDeliveries
  BY <1>1, <1>8 DEF Enqueue, CloseFlush, CloseQueue, WaitForDeliveries, Queue!Enqueue,
                    Queue!Close, Queue!Wait, rest, queue
<1> QED
  BY <1>2, <1>3, <1>4, <1>5, <1>6, <1>7, <1>8 DEF Next

LEMMA RestHolds == Spec => [](RestTyped /\ HeardOfGone)
<1>1. IInv /\ Queue!TypeOK /\ RestTyped /\ HeardOfGone /\ [Next]_vars => (RestTyped /\ HeardOfGone)'
  BY RestPreserved, HeardPreserved
<1> QED
  BY <1>1, RestInit, Invariance, QueuePromisesHold, PTL DEF Spec, QueuePromises

\* Every variable is of its type: the table, the slots, the queue, and what handlers,
\* workers and the shutdown keep.
THEOREM TypeCorrect == Spec => []TypeOK
<1>1. IInv /\ Mem!TypeOK /\ Silent!TypeOK /\ Queue!TypeOK /\ RestTyped => TypeOK
  <2> SUFFICES ASSUME IInv, Mem!TypeOK, Silent!TypeOK, Queue!TypeOK, RestTyped PROVE TypeOK
    OBVIOUS
  <2>1. posted \in 0..MaxPost
    BY DEF IInv, Typed, RowsTyped
  <2>2. \A h \in Handler : \A item \in todo[h] :
           item.token \in Token /\ item.row \in Mem!Row /\ item.lane \in Lane
    BY CapturedProper DEF IInv, Typed, Captured, Proper
  <2>3. flushing \subseteq Token \X Lane \X (1..MaxPush)
    BY DEF IInv, Promises, FlushFirst
  <2> QED
    BY <2>1, <2>2, <2>3 DEF TypeOK, RestTyped
<1> QED
  BY <1>1, RestHolds, Invariance, TablePromisesHold, SlotsPromisesHold, QueuePromisesHold, PTL
     DEF TablePromises, SlotsPromises, QueuePromises

\* A row goes by a worker's delete only as the worker ends a job for that delivery
\* token, addressed to a device that is gone.
OnAppleWord ==
    \A t \in Token :
        reply'.op = "delete" /\ registrations[t] # Absent /\ registrations'[t] = Absent
            => \E w \in Worker : /\ running[w] # None /\ running'[w] = None
                                 /\ running[w].token = t /\ running[w].device \in gone

\* What is true of OnlyGoneRowsDropped, which a row that was registered again breaks:
\* no row is dropped but at the end of a delivery to its delivery token that Apple
\* answered with a device that is gone.
DroppedOnAppleWord == [][OnAppleWord]_vars

THEOREM DroppedOnAppleWordHolds == Spec => DroppedOnAppleWord
<1>1. IInv /\ Queue!TypeOK /\ HeardOfGone /\ [Next]_vars => [OnAppleWord]_vars
  <2> SUFFICES ASSUME IInv, Queue!TypeOK, HeardOfGone, Next, NEW t \in Token,
                      reply'.op = "delete", registrations[t] # Absent, registrations'[t] = Absent
               PROVE  \E w \in Worker : /\ running[w] # None /\ running'[w] = None
                                       /\ running[w].token = t /\ running[w].device \in gone
    BY DEF OnAppleWord
  <2>1. registrations' # registrations
    OBVIOUS
  <2>2. ASSUME NEW q \in Request, Register(q) PROVE FALSE
    BY <2>2 DEF Register, Mem!Put, Mem!Answer, Mem!FlushLocked
  <2>3. ASSUME NEW u \in Token, NEW secret, Unregister(u, secret) PROVE FALSE
    <3>1. \E result : reply' = [op |-> "unregister", token |-> u, result |-> result]
      BY <2>3 DEF Unregister, Mem!DeleteIfOwned, Mem!Answer, Mem!FlushLocked
    <3> QED
      BY <3>1
  <2>4. ASSUME NEW w \in Worker, Finish(w)
        PROVE  /\ running[w] # None /\ running'[w] = None
               /\ running[w].token = t /\ running[w].device \in gone
    <3>1. answer[w] = "gone" /\ Mem!Delete(running[w].token) /\ Queue!Finish(w)
      BY <2>1, <2>4 DEF Finish, store
    <3>2. running[w].token = t
      BY <2>1, <3>1 DEF Mem!Delete, Mem!Without, Mem!Answer, IInv, Typed, RowsTyped
    <3> QED
      BY <3>1, <3>2 DEF HeardOfGone, Queue!Finish, Queue!TypeOK
  <2>5. CASE Tick
    BY <2>1, <2>5 DEF Tick, Mem!Tick, store
  <2>6. ASSUME NEW w \in Worker, Take(w) \/ Deliver(w) PROVE FALSE
    BY <2>1, <2>6 DEF Take, Deliver, store
  <2>7. ASSUME NEW h \in Handler,
               \/ \E u \in Token : HandleJMAPPush(h, u)
               \/ \E address \in Address : HandleGmailPush(h, address)
               \/ \E item \in todo[h] : EnqueueSilently(h, item)
        PROVE  FALSE
    BY <2>1, <2>7 DEF HandleJMAPPush, HandleGmailPush, Receive, EnqueueSilently, store
  <2>8. ASSUME NEW k \in Key, Fire(k) \/ Expire(k) \/ \E push \in sending[k] : SendHeld(k, push)
        PROVE  FALSE
    BY <2>1, <2>8 DEF Fire, Expire, SendHeld, store
  <2>9. ASSUME NEW d \in Device, Uninstall(d) PROVE FALSE
    BY <2>1, <2>9 DEF Uninstall, store
  <2>10. CASE Enqueue \/ Signal \/ CloseFlush \/ CloseQueue \/ WaitForDeliveries
    BY <2>1, <2>10 DEF Enqueue, Signal, CloseFlush, CloseQueue, WaitForDeliveries, store
  <2> QED
    BY <2>2, <2>3, <2>4, <2>5, <2>6, <2>7, <2>8, <2>9, <2>10 DEF Next
<1> QED
  BY <1>1, RestHolds, Invariance, QueuePromisesHold, PTL DEF Spec, QueuePromises, DroppedOnAppleWord
=============================================================================
