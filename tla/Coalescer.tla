----------------------------- MODULE Coalescer -----------------------------
(***************************************************************************)
(* The coalescer of silent pushes, internal/relay/coalesce.go.  Handlers   *)
(* call offer, timers run expire in goroutines of their own, the shutdown  *)
(* calls flush; each takes the mutex, decides, gives the mutex up and only *)
(* then sends, so that a decided push is for a while in nobody's hands but *)
(* its goroutine's ("sending").  The k-th push offered to a slot is the    *)
(* number k: it is what the slot's newest state is, newer than k - 1.      *)
(***************************************************************************)
EXTENDS Naturals, FiniteSets

CONSTANTS
    Key,            \* slots: registration and lane
    Window,         \* length of a window, in clock units
    MaxPush,        \* bound on the pushes offered to a slot
    None            \* no push held; no timer running

ASSUME CoalescerAssumption ==
    /\ Window \in Nat \ {0}
    /\ MaxPush \in Nat
    /\ None \notin Nat

VARIABLES
    offered,        \* pushes offered to each slot so far
    slots,          \* the slots whose window is open
    held,           \* the push that waits in an open slot
    timer,          \* time left on the slot's timer
    expiring,       \* expire goroutines that wait for the mutex
    closed,         \* flush has run
    sending,        \* pushes between a decision and the call of send
    handed,         \* pushes given to send, and so to the delivery queue
    since           \* time since a push of the slot was last let go

vars == <<offered, slots, held, timer, expiring, closed, sending, handed, since>>

Push == 1..MaxPush

Init ==
    /\ offered = [k \in Key |-> 0]
    /\ slots = {}
    /\ held = [k \in Key |-> None]
    /\ timer = [k \in Key |-> None]
    /\ expiring = [k \in Key |-> 0]
    /\ closed = FALSE
    /\ sending = [k \in Key |-> {}]
    /\ handed = [k \in Key |-> {}]
    /\ since = [k \in Key |-> Window]

\* The goroutine gives up the mutex with a push to send.
LetGo(k, push) ==
    /\ sending' = [sending EXCEPT ![k] = @ \union {push}]
    /\ since' = [since EXCEPT ![k] = 0]

\* after(window, expire)
Arm(k) == timer' = [timer EXCEPT ![k] = Window]

\* Shutting down: nothing may be held past the flush.
OfferClosed(k, push) ==
    /\ closed
    /\ LetGo(k, push)
    /\ UNCHANGED <<slots, held, timer>>

\* Mistake: what is held is kept, and the newer push thrown away.
OfferHeldFirst(k, push) ==
    /\ ~closed
    /\ k \in slots
    /\ held' = [held EXCEPT ![k] = IF @ = None THEN push ELSE @]
    /\ UNCHANGED <<slots, timer, sending, since>>

\* The window is open: the push replaces what was held.
OfferHeld(k, push) ==
    /\ ~closed
    /\ k \in slots
    /\ held' = [held EXCEPT ![k] = push]
    /\ UNCHANGED <<slots, timer, sending, since>>

\* The leading edge goes out at once and opens a window.
OfferLeading(k, push) ==
    /\ ~closed
    /\ k \notin slots
    /\ slots' = slots \union {k}
    /\ Arm(k)
    /\ LetGo(k, push)
    /\ UNCHANGED held

Offer(k) ==
    /\ offered[k] < MaxPush
    /\ offered' = [offered EXCEPT ![k] = @ + 1]
    /\ \/ OfferClosed(k, offered[k] + 1)
       \/ OfferHeld(k, offered[k] + 1)
       \/ OfferLeading(k, offered[k] + 1)
    /\ UNCHANGED <<expiring, closed, handed>>

\* A timer that has run down starts expire in a goroutine of its own.
Fire(k) ==
    /\ timer[k] = 0
    /\ timer' = [timer EXCEPT ![k] = None]
    /\ expiring' = [expiring EXCEPT ![k] = @ + 1]
    /\ UNCHANGED <<offered, slots, held, closed, sending, handed, since>>

\* Flushed already; the flush sent whatever this would have.
ExpireLate(k) ==
    /\ closed \/ k \notin slots
    /\ UNCHANGED <<slots, held, timer, sending, since>>

\* Mistake: a quiet window opens the next one.
ExpireQuietAgain(k) ==
    /\ ~closed
    /\ k \in slots
    /\ held[k] = None
    /\ Arm(k)
    /\ UNCHANGED <<slots, held, sending, since>>

\* A window with nothing held forgets its slot.
ExpireQuiet(k) ==
    /\ ~closed
    /\ k \in slots
    /\ held[k] = None
    /\ slots' = slots \ {k}
    /\ UNCHANGED <<held, timer, sending, since>>

\* Mistake: starts no timer for the next window.
ExpireTrailingUntimed(k) ==
    /\ ~closed
    /\ k \in slots
    /\ held[k] # None
    /\ LetGo(k, held[k])
    /\ held' = [held EXCEPT ![k] = None]
    /\ UNCHANGED <<slots, timer>>

\* Mistake: the trailing push closes its window and opens none.
ExpireTrailingLast(k) ==
    /\ ~closed
    /\ k \in slots
    /\ held[k] # None
    /\ LetGo(k, held[k])
    /\ held' = [held EXCEPT ![k] = None]
    /\ slots' = slots \ {k}
    /\ UNCHANGED timer

\* What was held goes out, and opens the next window.
ExpireTrailing(k) ==
    /\ ~closed
    /\ k \in slots
    /\ held[k] # None
    /\ LetGo(k, held[k])
    /\ held' = [held EXCEPT ![k] = None]
    /\ Arm(k)
    /\ UNCHANGED slots

Expire(k) ==
    /\ expiring[k] > 0
    /\ expiring' = [expiring EXCEPT ![k] = @ - 1]
    /\ ExpireLate(k) \/ ExpireQuiet(k) \/ ExpireTrailing(k)
    /\ UNCHANGED <<offered, closed, handed>>

\* Mistake: a shutdown drops what is held.
FlushDropping ==
    /\ ~closed
    /\ closed' = TRUE
    /\ timer' = [k \in Key |-> IF k \in slots THEN None ELSE timer[k]]
    /\ slots' = {}
    /\ held' = [k \in Key |-> None]
    /\ UNCHANGED <<offered, expiring, sending, handed, since>>

\* Every window stops and what was held is sent.  A timer that has fired is past
\* stopping: its expire finds the coalescer closed.
Flush ==
    /\ ~closed
    /\ closed' = TRUE
    /\ timer' = [k \in Key |-> IF k \in slots THEN None ELSE timer[k]]
    /\ sending' = [k \in Key |-> IF k \in slots /\ held[k] # None
                                 THEN sending[k] \union {held[k]} ELSE sending[k]]
    /\ slots' = {}
    /\ held' = [k \in Key |-> None]
    /\ UNCHANGED <<offered, expiring, handed, since>>

\* The goroutine that decided calls send, now that it holds no mutex.
Send(k, push) ==
    /\ push \in sending[k]
    /\ sending' = [sending EXCEPT ![k] = @ \ {push}]
    /\ handed' = [handed EXCEPT ![k] = @ \union {push}]
    /\ UNCHANGED <<offered, slots, held, timer, expiring, closed, since>>

\* A timer that is due fires before the clock moves on.
Tick ==
    /\ \A k \in Key : timer[k] # 0
    /\ timer' = [k \in Key |-> IF timer[k] = None THEN None ELSE timer[k] - 1]
    /\ since' = [k \in Key |-> IF since[k] = Window THEN Window ELSE since[k] + 1]
    /\ UNCHANGED <<offered, slots, held, expiring, closed, sending, handed>>

Next ==
    \/ \E k \in Key : Offer(k) \/ Fire(k) \/ Expire(k)
    \/ \E k \in Key, push \in Push : Send(k, push)
    \/ Flush
    \/ Tick

Spec == Init /\ [][Next]_vars

\* Time passes, timers fire, and goroutines that are ready run.  Nobody has to
\* offer a push or shut the relay down.
Fairness ==
    /\ WF_vars(Tick)
    /\ \A k \in Key : WF_vars(Fire(k)) /\ WF_vars(Expire(k))
    /\ \A k \in Key : WF_vars(\E push \in Push : Send(k, push))

FairSpec == Spec /\ Fairness

----------------------------------------------------------------------------
(* Properties. *)

TypeOK ==
    /\ offered \in [Key -> 0..MaxPush]
    /\ slots \subseteq Key
    /\ held \in [Key -> Push \union {None}]
    /\ timer \in [Key -> 0..Window \union {None}]
    /\ expiring \in [Key -> Nat]
    /\ closed \in BOOLEAN
    /\ sending \in [Key -> SUBSET Push]
    /\ handed \in [Key -> SUBSET Push]
    /\ since \in [Key -> 0..Window]

\* "The last change always arrives": of the pushes offered to a slot the newest
\* is held, about to be sent, or sent, whatever offers, expiries and the flush
\* do to one another between a decision and its send.
NewestKept ==
    \A k \in Key : offered[k] > 0 =>
        \/ held[k] = offered[k]
        \/ offered[k] \in sending[k] \union handed[k]

\* A window is never without the one thing that can end it: an open slot has a
\* timer or an expire on its way, and only one, so a held push is not forgotten
\* and a window is not cut short by the timer of an older one.
OneTimerPerWindow ==
    \A k \in Key :
        IF ~closed /\ k \in slots
        THEN expiring[k] = IF timer[k] = None THEN 1 ELSE 0
        ELSE /\ held[k] = None
             /\ timer[k] = None
             /\ expiring[k] <= IF closed THEN 1 ELSE 0

\* At most one push per window, plus the first: until the shutdown, two pushes
\* of one slot are let go no less than a window apart.
AtMostOnePerWindow ==
    [][\A k \in Key :
         ~closed' /\ ~(sending'[k] \subseteq sending[k]) => since[k] = Window]_vars

\* Once nothing more is offered every window closes: a registration that has
\* gone quiet holds no timer, and no push is left behind.
EventuallyQuiet ==
    <>[](/\ slots = {}
         /\ \A k \in Key : timer[k] = None /\ expiring[k] = 0 /\ sending[k] = {})

\* Each slot keeps the promise of a Mailbox, flushes and late timers included.
Promise == INSTANCE Mailbox WITH
    newest    <- offered,
    waiting   <- [k \in Key |-> sending[k] \union ({held[k]} \ {None})],
    delivered <- handed

KeepsPromise == Promise!FairSpec
=============================================================================
