-------------------------- MODULE CoalescerProofs --------------------------
(***************************************************************************)
(* Theorems about Coalescer for any number of slots and pushes and every   *)
(* length of the window.                                                   *)
(***************************************************************************)
EXTENDS Coalescer, TLAPS

\* How long ago a slot's last push was let go is what its timer has run.
SpacingIsTimer ==
    ~closed => \A k \in Key :
        since[k] = IF timer[k] = None THEN Window ELSE Window - timer[k]

\* The inductive invariant.  OneTimerPerWindow says which windows have a timer, and
\* that nothing is held outside one, without which the flush might miss the newest
\* push; SpacingIsTimer says what the timer tells about the last push.
IInv == TypeOK /\ NewestKept /\ OneTimerPerWindow /\ SpacingIsTimer

LEMMA InitEstablishes == Init => IInv
<1> SUFFICES ASSUME Init PROVE IInv
  OBVIOUS
<1>1. TypeOK
  <2>1. /\ 0 \in 0..MaxPush /\ 0 \in Nat /\ Window \in 0..Window /\ FALSE \in BOOLEAN
        /\ {} \in SUBSET Push /\ {} \subseteq Key
    BY CoalescerAssumption
  <2> QED
    BY <2>1 DEF Init, TypeOK
<1>2. NewestKept /\ OneTimerPerWindow /\ SpacingIsTimer
  BY CoalescerAssumption DEF Init, NewestKept, OneTimerPerWindow, SpacingIsTimer
<1> QED
  BY <1>1, <1>2 DEF IInv

LEMMA OfferPreserves ==
    ASSUME IInv, NEW k \in Key, Offer(k)
    PROVE  IInv'
<1>0. offered[k] \in Nat /\ offered[k] + 1 \in Push /\ offered' = [offered EXCEPT ![k] = @ + 1]
      /\ UNCHANGED <<expiring, closed, handed>>
  BY CoalescerAssumption DEF Offer, IInv, TypeOK, Push
<1>1. CASE OfferClosed(k, offered[k] + 1)
  <2>1. TypeOK'
    BY <1>0, <1>1, CoalescerAssumption DEF OfferClosed, LetGo, IInv, TypeOK, Push
  <2>2. NewestKept'
    BY <1>0, <1>1 DEF OfferClosed, LetGo, IInv, TypeOK, NewestKept
  <2>3. OneTimerPerWindow' /\ SpacingIsTimer'
    BY <1>0, <1>1 DEF OfferClosed, IInv, OneTimerPerWindow, SpacingIsTimer
  <2> QED
    BY <2>1, <2>2, <2>3 DEF IInv
<1>2. CASE OfferHeld(k, offered[k] + 1)
  <2>1. TypeOK'
    BY <1>0, <1>2, CoalescerAssumption DEF OfferHeld, IInv, TypeOK, Push
  <2>2. NewestKept'
    BY <1>0, <1>2 DEF OfferHeld, IInv, TypeOK, NewestKept
  <2>3. OneTimerPerWindow' /\ SpacingIsTimer'
    BY <1>0, <1>2 DEF OfferHeld, IInv, TypeOK, OneTimerPerWindow, SpacingIsTimer
  <2> QED
    BY <2>1, <2>2, <2>3 DEF IInv
<1>3. CASE OfferLeading(k, offered[k] + 1)
  <2>1. TypeOK'
    BY <1>0, <1>3, CoalescerAssumption DEF OfferLeading, LetGo, Arm, IInv, TypeOK, Push
  <2>2. NewestKept'
    BY <1>0, <1>3 DEF OfferLeading, LetGo, IInv, TypeOK, NewestKept
  <2>3. /\ timer' = [timer EXCEPT ![k] = Window] /\ since' = [since EXCEPT ![k] = 0]
        /\ k \notin slots /\ slots' = slots \union {k} /\ ~closed /\ held' = held
    BY <1>3 DEF OfferLeading, LetGo, Arm
  <2>4. expiring[k] = 0 /\ timer[k] = None
    BY <2>3 DEF IInv, TypeOK, OneTimerPerWindow
  <2>5. OneTimerPerWindow'
    BY <1>0, <2>3, <2>4, CoalescerAssumption DEF IInv, TypeOK, OneTimerPerWindow
  <2>6. SpacingIsTimer'
    BY <1>0, <2>3, CoalescerAssumption DEF IInv, TypeOK, SpacingIsTimer
  <2> QED
    BY <2>1, <2>2, <2>5, <2>6 DEF IInv
<1> QED
  BY <1>1, <1>2, <1>3 DEF Offer

LEMMA FirePreserves ==
    ASSUME IInv, NEW k \in Key, Fire(k)
    PROVE  IInv'
<1>0. /\ timer[k] = 0 /\ timer' = [timer EXCEPT ![k] = None] /\ timer[k] # None
      /\ expiring' = [expiring EXCEPT ![k] = @ + 1]
      /\ UNCHANGED <<offered, slots, held, closed, sending, handed, since>>
  BY CoalescerAssumption DEF Fire
<1>1. TypeOK'
  BY <1>0 DEF IInv, TypeOK
<1>2. NewestKept'
  BY <1>0 DEF IInv, NewestKept
<1>3. ~closed /\ k \in slots /\ expiring[k] = 0
  BY <1>0 DEF IInv, OneTimerPerWindow
<1>4. OneTimerPerWindow'
  BY <1>0, <1>3 DEF IInv, TypeOK, OneTimerPerWindow
<1>5. SpacingIsTimer'
  BY <1>0, CoalescerAssumption DEF IInv, TypeOK, SpacingIsTimer
<1> QED
  BY <1>1, <1>2, <1>4, <1>5 DEF IInv

LEMMA ExpirePreserves ==
    ASSUME IInv, NEW k \in Key, Expire(k)
    PROVE  IInv'
<1>0. /\ expiring[k] \in Nat /\ expiring[k] > 0
      /\ expiring' = [expiring EXCEPT ![k] = @ - 1]
      /\ UNCHANGED <<offered, closed, handed>>
  BY DEF Expire, IInv, TypeOK
<1>1. CASE ExpireLate(k)
  <2>1. TypeOK'
    BY <1>0, <1>1 DEF ExpireLate, IInv, TypeOK
  <2>2. NewestKept' /\ SpacingIsTimer'
    BY <1>0, <1>1 DEF ExpireLate, IInv, NewestKept, SpacingIsTimer
  <2>3. OneTimerPerWindow'
    BY <1>0, <1>1 DEF ExpireLate, IInv, TypeOK, OneTimerPerWindow
  <2> QED
    BY <2>1, <2>2, <2>3 DEF IInv
<1>2. CASE ExpireQuiet(k)
  <2>0. timer[k] = None /\ expiring[k] = 1
    BY <1>0, <1>2 DEF ExpireQuiet, IInv, OneTimerPerWindow
  <2>1. TypeOK'
    BY <1>0, <1>2 DEF ExpireQuiet, IInv, TypeOK
  <2>2. NewestKept' /\ SpacingIsTimer'
    BY <1>0, <1>2 DEF ExpireQuiet, IInv, NewestKept, SpacingIsTimer
  <2>3. OneTimerPerWindow'
    BY <1>0, <1>2, <2>0 DEF ExpireQuiet, IInv, TypeOK, OneTimerPerWindow
  <2> QED
    BY <2>1, <2>2, <2>3 DEF IInv
<1>3. CASE ExpireTrailing(k)
  <2>0. timer[k] = None /\ expiring[k] = 1 /\ held[k] \in Push
    BY <1>0, <1>3 DEF ExpireTrailing, IInv, TypeOK, OneTimerPerWindow
  <2>a. /\ timer' = [timer EXCEPT ![k] = Window] /\ since' = [since EXCEPT ![k] = 0]
        /\ sending' = [sending EXCEPT ![k] = @ \union {held[k]}]
        /\ held' = [held EXCEPT ![k] = None]
        /\ k \in slots /\ slots' = slots /\ ~closed
    BY <1>3 DEF ExpireTrailing, LetGo, Arm
  <2>1. TypeOK'
    BY <1>0, <2>a, <2>0, CoalescerAssumption DEF IInv, TypeOK
  <2>2. NewestKept'
    BY <1>0, <2>a DEF IInv, TypeOK, NewestKept
  <2>3. OneTimerPerWindow'
    BY <1>0, <2>0, <2>a, CoalescerAssumption DEF IInv, TypeOK, OneTimerPerWindow
  <2>4. SpacingIsTimer'
    BY <1>0, <2>a, CoalescerAssumption DEF IInv, TypeOK, SpacingIsTimer
  <2> QED
    BY <2>1, <2>2, <2>3, <2>4 DEF IInv
<1> QED
  BY <1>1, <1>2, <1>3 DEF Expire

LEMMA FlushPreserves ==
    ASSUME IInv, Flush
    PROVE  IInv'
<1>1. TypeOK'
  BY CoalescerAssumption DEF Flush, IInv, TypeOK
<1>2. NewestKept'
  <2> SUFFICES ASSUME NEW k \in Key, offered[k] > 0
               PROVE  offered[k] \in sending'[k] \union handed[k]
    BY DEF Flush, NewestKept
  <2>1. CASE held[k] = offered[k]
    <3>1. k \in slots /\ held[k] # None
      BY <2>1, CoalescerAssumption DEF Flush, IInv, TypeOK, OneTimerPerWindow
    <3> QED
      BY <2>1, <3>1 DEF Flush
  <2>2. CASE offered[k] \in sending[k] \union handed[k]
    BY <2>2 DEF Flush
  <2> QED
    BY <2>1, <2>2 DEF IInv, NewestKept
<1>3. OneTimerPerWindow'
  BY DEF Flush, IInv, TypeOK, OneTimerPerWindow
<1>4. SpacingIsTimer'
  BY DEF Flush, SpacingIsTimer
<1> QED
  BY <1>1, <1>2, <1>3, <1>4 DEF IInv

LEMMA SendPreserves ==
    ASSUME IInv, NEW k \in Key, NEW push \in Push, Send(k, push)
    PROVE  IInv'
<1>1. TypeOK'
  BY DEF Send, IInv, TypeOK
<1>2. NewestKept'
  BY DEF Send, IInv, TypeOK, NewestKept
<1>3. OneTimerPerWindow' /\ SpacingIsTimer'
  BY DEF Send, IInv, OneTimerPerWindow, SpacingIsTimer
<1> QED
  BY <1>1, <1>2, <1>3 DEF IInv

LEMMA TickPreserves ==
    ASSUME IInv, Tick
    PROVE  IInv'
<1>0. \A k \in Key : timer[k] # None => timer[k] \in 1..Window
  BY CoalescerAssumption DEF Tick, IInv, TypeOK
<1>1. \A k \in Key : timer'[k] = IF timer[k] = None THEN None ELSE timer[k] - 1
  BY DEF Tick
<1>a. \A k \in Key : since'[k] = IF since[k] = Window THEN Window ELSE since[k] + 1
  BY DEF Tick
<1>2. TypeOK'
  <2>1. timer' \in [Key -> 0..Window \union {None}]
    BY <1>0, CoalescerAssumption DEF Tick
  <2>2. since' \in [Key -> 0..Window]
    BY CoalescerAssumption DEF Tick, IInv, TypeOK
  <2> QED
    BY <2>1, <2>2 DEF Tick, IInv, TypeOK
<1>3. NewestKept'
  BY DEF Tick, IInv, NewestKept
<1>4. \A k \in Key : timer'[k] = None <=> timer[k] = None
  BY <1>0, <1>1, CoalescerAssumption
<1>5. OneTimerPerWindow'
  BY <1>4 DEF Tick, IInv, OneTimerPerWindow
<1>6. SpacingIsTimer'
  <2> SUFFICES ASSUME ~closed, NEW k \in Key
               PROVE  since'[k] = IF timer'[k] = None THEN Window ELSE Window - timer'[k]
    BY DEF Tick, SpacingIsTimer
  <2>1. CASE timer[k] = None
    BY <2>1, <1>4, <1>a DEF IInv, SpacingIsTimer
  <2>2. CASE timer[k] # None
    <3>1. timer[k] \in 1..Window /\ since[k] = Window - timer[k]
      BY <2>2, <1>0 DEF IInv, SpacingIsTimer
    <3>2. since'[k] = since[k] + 1 /\ timer'[k] = timer[k] - 1 /\ timer'[k] # None
      BY <2>2, <3>1, <1>1, <1>4, <1>a, CoalescerAssumption
    <3> QED
      BY <3>1, <3>2, CoalescerAssumption
  <2> QED
    BY <2>1, <2>2
<1> QED
  BY <1>2, <1>3, <1>5, <1>6 DEF IInv

\* The whole invariant, for every number of slots and pushes and every window.
THEOREM Invariance == Spec => []IInv
<1>1. IInv /\ UNCHANGED vars => IInv'
  BY DEF vars, IInv, TypeOK, NewestKept, OneTimerPerWindow, SpacingIsTimer
<1>2. IInv /\ [Next]_vars => IInv'
  BY <1>1, OfferPreserves, FirePreserves, ExpirePreserves, FlushPreserves, SendPreserves,
     TickPreserves DEF Next
<1> QED
  BY InitEstablishes, <1>2, PTL DEF Spec

\* The type invariant, for every number of slots and pushes and every window.
THEOREM TypeCorrect == Spec => []TypeOK
<1>1. IInv => TypeOK
  BY DEF IInv
<1> QED
  BY <1>1, Invariance, PTL

\* The newest push of a slot is held, about to be sent, or sent, in every
\* interleaving of offers, expiries and the flush.
THEOREM NewestKeptHolds == Spec => []NewestKept
<1>1. IInv => NewestKept
  BY DEF IInv
<1> QED
  BY <1>1, Invariance, PTL

\* An open window has exactly one timer, or exactly one expire on its way.
THEOREM OneTimerPerWindowHolds == Spec => []OneTimerPerWindow
<1>1. IInv => OneTimerPerWindow
  BY DEF IInv
<1> QED
  BY <1>1, Invariance, PTL

\* Until the shutdown no two pushes of a slot are let go within one window: a
\* push is let go only where no timer runs, and then a window has passed.
THEOREM AtMostOnePerWindowHolds == Spec => AtMostOnePerWindow
<1> DEFINE Spaced ==
      \A k \in Key : ~closed' /\ ~(sending'[k] \subseteq sending[k]) => since[k] = Window
<1>1. IInv /\ [Next]_vars => Spaced
  <2> SUFFICES ASSUME IInv, [Next]_vars, ~closed', NEW k \in Key,
                      ~(sending'[k] \subseteq sending[k])
               PROVE  since[k] = Window
    OBVIOUS
  <2>0. \A j \in Key : ~closed /\ timer[j] = None => since[j] = Window
    BY DEF IInv, SpacingIsTimer
  <2>1. ASSUME NEW j \in Key, Offer(j)
        PROVE  since[k] = Window
    <3>1. ~closed
      BY <2>1 DEF Offer
    <3>2. OfferLeading(j, offered[j] + 1)
      BY <2>1, <3>1 DEF Offer, OfferClosed, OfferHeld
    <3>3. j = k /\ k \notin slots
      BY <3>2 DEF OfferLeading, LetGo, IInv, TypeOK
    <3> QED
      BY <3>1, <3>3, <2>0 DEF IInv, OneTimerPerWindow
  <2>2. ASSUME NEW j \in Key, Fire(j)
        PROVE  since[k] = Window
    BY <2>2 DEF Fire
  <2>3. ASSUME NEW j \in Key, Expire(j)
        PROVE  since[k] = Window
    <3>1. ExpireTrailing(j)
      BY <2>3 DEF Expire, ExpireLate, ExpireQuiet
    <3>2. j = k /\ k \in slots /\ ~closed
      BY <3>1 DEF ExpireTrailing, LetGo, IInv, TypeOK
    <3>3. timer[k] = None
      BY <2>3, <3>2 DEF Expire, IInv, TypeOK, OneTimerPerWindow
    <3> QED
      BY <3>2, <3>3, <2>0
  <2>4. ASSUME NEW j \in Key, NEW push \in Push, Send(j, push)
        PROVE  since[k] = Window
    BY <2>4 DEF Send, IInv, TypeOK
  <2>5. CASE Flush
    BY <2>5 DEF Flush
  <2>6. CASE Tick
    BY <2>6 DEF Tick
  <2>7. CASE UNCHANGED vars
    BY <2>7 DEF vars
  <2> QED
    BY <2>1, <2>2, <2>3, <2>4, <2>5, <2>6, <2>7 DEF Next
<1>2. Spec => [][Spaced]_vars
  BY <1>1, Invariance, PTL DEF Spec
<1> QED
  BY <1>2 DEF AtMostOnePerWindow

----------------------------------------------------------------------------
(* Refinement: the slots keep the safety part of a Mailbox's promise.  The *)
(* liveness part is checked by TLC.                                        *)

\* What a slot holds is its newest push, and nobody else has that one.
HeldIsNewest ==
    \A k \in Key :
        /\ sending[k] \union handed[k] \subseteq 1..offered[k]
        /\ held[k] # None => /\ held[k] = offered[k]
                             /\ held[k] \notin sending[k] \union handed[k]

LEMMA HeldIsNewestHolds == Spec => []HeldIsNewest
<1>1. Init => HeldIsNewest
  BY CoalescerAssumption DEF Init, HeldIsNewest
<1>2. IInv /\ HeldIsNewest /\ [Next]_vars => HeldIsNewest'
  <2> SUFFICES ASSUME IInv, HeldIsNewest, [Next]_vars
               PROVE  HeldIsNewest'
    OBVIOUS
  <2>0. TypeOK /\ None \notin Nat
    BY CoalescerAssumption DEF IInv
  <2>1. ASSUME NEW k \in Key, Offer(k)
        PROVE  HeldIsNewest'
    <3>0. offered[k] \in Nat /\ offered' = [offered EXCEPT ![k] = @ + 1] /\ handed' = handed
      BY <2>0, <2>1 DEF Offer, TypeOK
    <3>1. CASE OfferClosed(k, offered[k] + 1)
      <4>1. held[k] = None
        BY <3>1 DEF OfferClosed, IInv, OneTimerPerWindow
      <4> QED
        BY <2>0, <3>0, <3>1, <4>1 DEF OfferClosed, LetGo, TypeOK, HeldIsNewest
    <3>2. CASE OfferHeld(k, offered[k] + 1)
      BY <2>0, <3>0, <3>2 DEF OfferHeld, TypeOK, HeldIsNewest
    <3>3. CASE OfferLeading(k, offered[k] + 1)
      <4>1. held[k] = None
        BY <3>3 DEF OfferLeading, IInv, OneTimerPerWindow
      <4> QED
        BY <2>0, <3>0, <3>3, <4>1 DEF OfferLeading, LetGo, TypeOK, HeldIsNewest
    <3> QED
      BY <2>1, <3>1, <3>2, <3>3 DEF Offer
  <2>2. ASSUME NEW k \in Key, Fire(k)
        PROVE  HeldIsNewest'
    BY <2>2 DEF Fire, HeldIsNewest
  <2>3. ASSUME NEW k \in Key, Expire(k)
        PROVE  HeldIsNewest'
    <3>0. offered' = offered /\ handed' = handed
      BY <2>3 DEF Expire
    <3>1. CASE ExpireLate(k) \/ ExpireQuiet(k)
      BY <3>0, <3>1 DEF ExpireLate, ExpireQuiet, HeldIsNewest
    <3>2. CASE ExpireTrailing(k)
      <4>1. held[k] = offered[k] /\ offered[k] \in 1..offered[k]
        BY <2>0, <3>2 DEF ExpireTrailing, TypeOK, HeldIsNewest, Push
      <4> QED
        BY <2>0, <3>0, <3>2, <4>1 DEF ExpireTrailing, LetGo, TypeOK, HeldIsNewest
    <3> QED
      BY <2>3, <3>1, <3>2 DEF Expire
  <2>4. ASSUME NEW k \in Key, NEW push \in Push, Send(k, push)
        PROVE  HeldIsNewest'
    BY <2>0, <2>4 DEF Send, TypeOK, HeldIsNewest
  <2>5. CASE Flush
    <3> SUFFICES ASSUME NEW k \in Key
                 PROVE  sending'[k] \union handed'[k] \subseteq 1..offered'[k]
      BY <2>5 DEF Flush, HeldIsNewest
    <3>1. held[k] # None => held[k] \in 1..offered[k]
      BY <2>0 DEF TypeOK, HeldIsNewest, Push
    <3> QED
      BY <2>5, <3>1 DEF Flush, HeldIsNewest
  <2>6. CASE Tick
    BY <2>6 DEF Tick, HeldIsNewest
  <2>7. CASE UNCHANGED vars
    BY <2>7 DEF vars, HeldIsNewest
  <2> QED
    BY <2>1, <2>2, <2>3, <2>4, <2>5, <2>6, <2>7 DEF Next
<1> QED
  BY <1>1, <1>2, Invariance, PTL DEF Spec

\* Every step of the slots is a step of their mailboxes or none: an offer is an
\* arrival that stands for what it replaced, a send a delivery, and windows,
\* timers and the flush only move changes that wait.
THEOREM KeepsPromiseSafely == Spec => Promise!Spec
<1> DEFINE Waiting == [k \in Key |-> sending[k] \union ({held[k]} \ {None})]
<1>1. Init => Promise!Init
  BY DEF Init, Promise!Init
<1>2. IInv /\ HeldIsNewest /\ [Next]_vars => [Promise!Next]_Promise!vars
  <2> SUFFICES ASSUME IInv, HeldIsNewest, [Next]_vars
               PROVE  Promise!Next \/ UNCHANGED <<offered, Waiting, handed>>
    BY DEF Promise!vars
  <2>0. TypeOK /\ None \notin Nat
    BY CoalescerAssumption DEF IInv
  <2>1. ASSUME NEW k \in Key, Offer(k)
        PROVE  Promise!Next
    <3>0. /\ offered[k] \in Nat /\ offered[k] + 1 \in Push /\ offered[k] + 1 # None
          /\ offered' = [offered EXCEPT ![k] = @ + 1] /\ handed' = handed
      BY <2>0, <2>1, CoalescerAssumption DEF Offer, TypeOK, Push
    <3>1. CASE OfferHeld(k, offered[k] + 1)
      <4>1. Waiting' = [Waiting EXCEPT ![k] = (@ \ ({held[k]} \ {None})) \union {offered[k] + 1}]
        <5>1. /\ sending' = sending
              /\ held' = [held EXCEPT ![k] = offered[k] + 1]
              /\ sending[k] \intersect ({held[k]} \ {None}) = {}
          BY <3>1 DEF OfferHeld, HeldIsNewest
        <5>2. ASSUME NEW j \in Key
              PROVE  Waiting'[j] = IF j = k
                                   THEN (Waiting[k] \ ({held[k]} \ {None})) \union {offered[k] + 1}
                                   ELSE Waiting[j]
          BY <2>0, <3>0, <5>1 DEF TypeOK
        <5> QED
          BY <5>2
      <4>2. PICK replaced \in SUBSET Waiting[k] : replaced = {held[k]} \ {None}
        OBVIOUS
      <4>3. Waiting' = [Waiting EXCEPT ![k] = (@ \ replaced) \union {offered[k] + 1}]
        BY <4>1, <4>2
      <4> QED
        BY <3>0, <4>3 DEF Promise!Next, Promise!Accept
    <3>2. CASE OfferClosed(k, offered[k] + 1) \/ OfferLeading(k, offered[k] + 1)
      <4>0. /\ sending' = [sending EXCEPT ![k] = @ \union {offered[k] + 1}]
            /\ held' = held
        BY <3>2 DEF OfferClosed, OfferLeading, LetGo
      <4>1. Waiting' = [Waiting EXCEPT ![k] = (@ \ {}) \union {offered[k] + 1}]
        BY <2>0, <4>0 DEF TypeOK
      <4>2. {} \in SUBSET Waiting[k]
        OBVIOUS
      <4>3. Promise!Accept(k, {})
        BY <3>0, <4>1 DEF Promise!Accept
      <4> QED
        BY <4>2, <4>3 DEF Promise!Next
    <3> QED
      BY <2>1, <3>1, <3>2 DEF Offer
  <2>2. ASSUME NEW k \in Key, NEW push \in Push, Send(k, push)
        PROVE  Promise!Next
    <3>1. push # held[k] /\ push \in Waiting[k]
      BY <2>0, <2>2, CoalescerAssumption DEF Send, HeldIsNewest, Push
    <3>2. Waiting' = [Waiting EXCEPT ![k] = @ \ {push}]
      BY <2>0, <2>2, <3>1 DEF Send, TypeOK
    <3>3. Promise!Deliver(k, push)
      BY <2>2, <3>1, <3>2 DEF Send, Promise!Deliver
    <3> QED
      BY <3>1, <3>3 DEF Promise!Next
  <2>3. ASSUME NEW k \in Key, Expire(k)
        PROVE  UNCHANGED <<offered, Waiting, handed>>
    <3>1. CASE ExpireLate(k) \/ ExpireQuiet(k)
      BY <2>3, <3>1 DEF Expire, ExpireLate, ExpireQuiet
    <3>2. CASE ExpireTrailing(k)
      <4>1. Waiting' = Waiting
        BY <2>0, <3>2 DEF ExpireTrailing, LetGo, TypeOK
      <4> QED
        BY <2>3, <4>1 DEF Expire
    <3> QED
      BY <2>3, <3>1, <3>2 DEF Expire
  <2>4. CASE Flush
    <3>1. Waiting' = Waiting
      <4> SUFFICES ASSUME NEW k \in Key
                   PROVE  sending'[k] \union ({held'[k]} \ {None})
                            = sending[k] \union ({held[k]} \ {None})
        OBVIOUS
      <4>1. k \notin slots => held[k] = None
        BY <2>4 DEF Flush, IInv, OneTimerPerWindow
      <4> QED
        BY <2>4, <4>1 DEF Flush
    <3> QED
      BY <2>4, <3>1 DEF Flush
  <2>5. ASSUME NEW k \in Key, Fire(k)
        PROVE  UNCHANGED <<offered, Waiting, handed>>
    BY <2>5 DEF Fire
  <2>6. CASE Tick \/ UNCHANGED vars
    BY <2>6 DEF Tick, vars
  <2> QED
    BY <2>1, <2>2, <2>3, <2>4, <2>5, <2>6 DEF Next
<1> QED
  BY <1>1, <1>2, Invariance, HeldIsNewestHolds, PTL DEF Spec, Promise!Spec
=============================================================================
