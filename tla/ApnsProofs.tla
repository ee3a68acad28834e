----------------------------- MODULE ApnsProofs -----------------------------
(***************************************************************************)
(* Theorems about Apns for any number of workers and devices, and any      *)
(* lifetimes that satisfy TimeAssumption.                                  *)
(***************************************************************************)
EXTENDS Apns, TLAPS

Sending == {w \in Worker : push[w] # Idle}

\* Every bearer token that may still matter: the cache's, the newest one Apple has
\* seen, the first one of the process, and those on their way.
Bearers == ({token, newest, first} \union {push[w].bearer : w \in Sending}) \ {None}

\* A bearer token was young when its push set out.
SetOutYoung == \A w \in Sending : now - push[w].bearer <= Lifetime + push[w].spent

\* The cache has the newest of all, and a process without one has sent nothing.
CacheIsNewest ==
    /\ token # None => \A b \in Bearers : b <= token
    /\ token = None => Sending = {} /\ first = None

\* Any two were minted a lifetime apart, but for the first one of the process.
MintedApart == \A x, y \in Bearers : x < y /\ y # first => y - x >= Lifetime

\* The inductive invariant.
IInv ==
    /\ TypeOK /\ SetOutYoung /\ CacheIsNewest /\ MintedApart
    /\ BearerAccepted /\ OnlyTheGoneUnregistered

LEMMA IdleHasNoBearer ==
    /\ Idle.bearer = None
    /\ \A d, b, s : b \in Nat => [device |-> d, bearer |-> b, spent |-> s] # Idle
<1>1. Idle.bearer = None
  BY DEF Idle
<1>2. ASSUME NEW d, NEW b \in Nat, NEW s PROVE [device |-> d, bearer |-> b, spent |-> s] # Idle
  <2>1. [device |-> d, bearer |-> b, spent |-> s].bearer = b
    OBVIOUS
  <2> QED
    BY <1>1, <2>1, NoneIsNoTime
<1> QED
  BY <1>1, <1>2

\* What is on its way is a push.
LEMMA SentIsPush ==
    ASSUME TypeOK, NEW w \in Sending
    PROVE  /\ push[w].device \in Device
           /\ push[w].bearer \in 0..now /\ push[w].bearer \in Bearers
           /\ push[w].spent \in 0..PushTime
<1>1. push[w] \in [device : Device, bearer : 0..now, spent : 0..PushTime]
  BY DEF TypeOK, Sending
<1>2. push[w].bearer # None
  BY <1>1, NoneIsNoTime DEF TypeOK, Time
<1> QED
  BY <1>1, <1>2 DEF Bearers

LEMMA BearersAreTimes ==
    ASSUME TypeOK
    PROVE  Bearers \subseteq Nat
<1>1. \A w \in Sending : push[w].bearer \in 0..now
  BY SentIsPush
<1> QED
  BY <1>1 DEF Bearers, TypeOK, Time

LEMMA InitEstablishes == Init => IInv
<1> SUFFICES ASSUME Init PROVE IInv
  OBVIOUS
<1>1. Sending = {} /\ Bearers = {}
  BY DEF Init, Sending, Bearers
<1>2. TypeOK
  BY TimeAssumption DEF Init, TypeOK, Time, NoResult
<1> QED
  BY <1>1, <1>2 DEF Init, IInv, SetOutYoung, CacheIsNewest, MintedApart, BearerAccepted,
                    OnlyTheGoneUnregistered, NoResult

\* What bearer hands out is the cache's, and either it was there or it is new.
LEMMA HandedOut ==
    ASSUME TypeOK, Bearer
    PROVE  /\ token' \in 0..now /\ tokenAge' = token'
           /\ \/ token' = token /\ now - token < Lifetime
              \/ token' = now /\ (token # None => now - token >= Lifetime)
<1>0. now \in Nat /\ token \in 0..now \union {None} /\ tokenAge = token /\ Lifetime \in Nat
  BY TimeAssumption DEF TypeOK, Time
<1>1. CASE Current
  BY <1>0, <1>1 DEF Bearer, Current
<1>2. CASE ~Current
  BY <1>0, <1>2 DEF Bearer, Current
<1> QED
  BY <1>1, <1>2

LEMMA PushPreserves ==
    ASSUME IInv, NEW w \in Worker, NEW device \in Device, Push(w, device)
    PROVE  IInv'
<1> DEFINE P == [device |-> device, bearer |-> token', spent |-> 0]
<1>1. /\ token' \in 0..now /\ tokenAge' = token'
      /\ \/ token' = token /\ now - token < Lifetime
         \/ token' = now /\ (token # None => now - token >= Lifetime)
  BY HandedOut DEF Push, IInv
<1>2. P # Idle /\ token' # None /\ now \in Nat
  BY <1>1, IdleHasNoBearer, NoneIsNoTime DEF IInv, TypeOK, Time
<1>3. /\ push' = [push EXCEPT ![w] = P]
      /\ push'[w] = P /\ \A v \in Worker \ {w} : push'[v] = push[v]
      /\ UNCHANGED <<now, gone, newest>> /\ result' = NoResult
      /\ first' = IF first = None THEN token' ELSE first
  BY DEF Push, IInv, TypeOK
<1>4. Sending' = Sending \union {w} /\ w \notin Sending
  BY <1>2, <1>3 DEF Sending, Push
<1>5. Bearers' = (Bearers \ {token}) \union {token', first'} \union (Bearers' \intersect {token})
  <2>1. {push'[v].bearer : v \in Sending'} = {push[v].bearer : v \in Sending} \union {token'}
    BY <1>3, <1>4
  <2> QED
    BY <1>2, <1>3, <2>1 DEF Bearers
<1>6. Bearers' \subseteq Bearers \union {token'} /\ Bearers \subseteq Nat /\ first' # None
  BY <1>2, <1>3, <1>5, BearersAreTimes DEF Bearers, IInv
<1>7. TypeOK'
  <2>1. P \in [device : Device, bearer : 0..now, spent : 0..PushTime]
    BY <1>1, TimeAssumption
  <2>2. push' \in [Worker -> [device : Device, bearer : 0..now, spent : 0..PushTime] \union {Idle}]
    BY <1>3, <2>1 DEF IInv, TypeOK
  <2>3. {token', newest', first'} \subseteq 0..now \union {None}
    BY <1>1, <1>3 DEF IInv, TypeOK
  <2>4. NoResult.is = "none"
    BY DEF NoResult
  <2> QED
    BY <1>1, <1>3, <2>2, <2>3, <2>4 DEF IInv, TypeOK
<1>8. SetOutYoung'
  <2>1. now - token' <= Lifetime + 0
    BY <1>1, <1>2, TimeAssumption
  <2> QED
    BY <1>3, <1>4, <2>1 DEF SetOutYoung, IInv, Sending
<1>9. CacheIsNewest'
  <2>1. \A b \in Bearers : b <= token'
    <3>1. CASE token # None
      <4>1. token \in 0..now /\ token <= token'
        BY <1>1, <1>2, <3>1 DEF IInv, TypeOK
      <4>2. \A b \in Bearers : b \in Nat /\ b <= token
        BY <1>6, <3>1 DEF IInv, CacheIsNewest
      <4> QED
        BY <1>1, <1>2, <4>1, <4>2
    <3>2. CASE token = None
      <4>1. Bearers \subseteq {newest}
        BY <3>2 DEF Bearers, IInv, CacheIsNewest
      <4>2. token' = now
        BY <1>1, <1>2, <3>2
      <4>3. newest \in Bearers => newest \in 0..now
        BY DEF Bearers, IInv, TypeOK
      <4> QED
        BY <1>2, <4>1, <4>2, <4>3
    <3> QED
      BY <3>1, <3>2
  <2> QED
    BY <1>1, <1>2, <1>3, <1>6, <2>1 DEF IInv, CacheIsNewest
<1>10. MintedApart'
  <2> SUFFICES ASSUME NEW x \in Bearers', NEW y \in Bearers', x < y, y # first'
               PROVE  y - x >= Lifetime
    BY DEF MintedApart
  <2>1. CASE x \in Bearers /\ y \in Bearers
    <3>1. first # None => first' = first
      BY <1>3
    <3>2. first = None => y # first
      BY <2>1 DEF Bearers
    <3> QED
      BY <2>1, <3>1, <3>2 DEF IInv, MintedApart
  <2>2. CASE y = token' /\ x \in Bearers
    <3>1. token' # token => token' = now /\ token # None
      BY <1>1, <1>3, <2>2 DEF IInv, CacheIsNewest
    <3>2. CASE token' = token
      BY <1>2, <1>3, <2>1, <2>2, <3>2 DEF Bearers
    <3>3. CASE token' = now /\ token # None
      <4>1. x <= token /\ (now - token >= Lifetime \/ now = token)
        BY <1>1, <2>2, <3>3 DEF IInv, CacheIsNewest, TypeOK, Time
      <4>2. now = token => y \in Bearers
        BY <2>2, <3>3 DEF Bearers
      <4> QED
        BY <1>6, <2>1, <2>2, <3>3, <4>1, <4>2, TimeAssumption DEF IInv, TypeOK, Time, CacheIsNewest
    <3> QED
      BY <3>1, <3>2, <3>3
  <2>3. CASE x = token'
    BY <1>1, <1>2, <1>6, <1>9, <2>3 DEF CacheIsNewest
  <2> QED
    BY <1>6, <2>1, <2>2, <2>3
<1>11. BearerAccepted' /\ OnlyTheGoneUnregistered'
  BY <1>3 DEF NoResult, BearerAccepted, OnlyTheGoneUnregistered
<1> QED
  BY <1>7, <1>8, <1>9, <1>10, <1>11 DEF IInv

\* What Apple's answers say of the bearer token and of the device.
LEMMA AnswersSay ==
    ASSUME NEW p, NEW a \in Answers(p)
    PROVE  /\ a[2] \in {"ExpiredProviderToken", "TooManyProviderTokenUpdates"} =>
                 a[2] = Objection(p.bearer)
           /\ Is(a) = "unregistered" => p.device \in gone
           /\ Is(a) \in {"sent", "unregistered", "failed"}
<1> DEFINE Said == IF Objection(p.bearer) = "ExpiredProviderToken"
                   THEN {<<403, "ExpiredProviderToken">>}
                   ELSE IF Objection(p.bearer) # "none" THEN {<<429, Objection(p.bearer)>>}
                   ELSE IF p.device \in gone THEN {<<410, "Unregistered">>, <<400, "BadDeviceToken">>}
                   ELSE {<<200, "none">>, <<429, "TooManyRequests">>, <<503, "Shutdown">>}
<1>1. Objection(p.bearer) \in {"none", "ExpiredProviderToken", "TooManyProviderTokenUpdates"}
  BY DEF Objection
<1>2. \/ a \in Said
      \/ \E b \in Said : a = <<b[1], "none">>
      \/ a = <<0, "timeout">>
  BY DEF Answers
<1>3. \A b \in Said :
         /\ b[2] \in {"ExpiredProviderToken", "TooManyProviderTokenUpdates"} =>
               b[2] = Objection(p.bearer)
         /\ b[1] = 410 \/ b[2] \in {"BadDeviceToken", "Unregistered"} => p.device \in gone
  BY <1>1
<1>4. /\ a[2] \in {"ExpiredProviderToken", "TooManyProviderTokenUpdates"} =>
            a[2] = Objection(p.bearer)
      /\ a[1] = 410 \/ a[2] \in {"BadDeviceToken", "Unregistered"} => p.device \in gone
  BY <1>2, <1>3
<1> QED
  BY <1>4 DEF Is

\* A push that ended, or a process that did, leaves fewer bearer tokens that matter.
LEMMA FewerBearers ==
    ASSUME IInv, UNCHANGED now, first' \in {first, None}, token' \in {token, None},
           \A w \in Worker : push'[w] \in {push[w], Idle},
           Bearers' \subseteq Bearers,
           token' # token \/ first' # first =>
               token' = None /\ first' = None /\ \A w \in Worker : push'[w] = Idle
    PROVE  SetOutYoung' /\ CacheIsNewest'
<1>1. Sending' \subseteq Sending /\ \A w \in Sending' : push'[w] = push[w]
  BY DEF Sending
<1>2. SetOutYoung'
  BY <1>1 DEF IInv, SetOutYoung
<1>3. token' # token => token' = None /\ first' = None /\ Sending' = {}
  BY DEF Sending
<1>4. CacheIsNewest'
  BY <1>1, <1>3 DEF IInv, CacheIsNewest, Sending
<1> QED
  BY <1>2, <1>4

LEMMA ReturnPreserves ==
    ASSUME IInv, NEW w \in Worker, Return(w)
    PROVE  IInv'
<1>1. PICK a \in Answers(push[w]) :
         result' = [device |-> push[w].device, bearer |-> push[w].bearer,
                    reason |-> a[2], is |-> Is(a)]
  BY DEF Return
<1>2. /\ w \in Sending /\ UNCHANGED <<now, token, tokenAge, gone, first>>
      /\ push' = [push EXCEPT ![w] = Idle]
      /\ newest' = newest \/ newest' = push[w].bearer
  BY DEF Return, Sending
<1>3. \A v \in Worker : push'[v] = IF v = w THEN Idle ELSE push[v]
  BY <1>2 DEF IInv, TypeOK
<1>4. push[w].bearer \in 0..now /\ push[w].bearer \in Bearers
  BY <1>2, SentIsPush DEF IInv
<1>5. Bearers' \subseteq Bearers
  <2>1. Sending' \subseteq Sending /\ \A v \in Sending' : push'[v] = push[v]
    BY <1>3 DEF Sending
  <2>2. {push'[v].bearer : v \in Sending'} \subseteq {push[v].bearer : v \in Sending}
    BY <2>1
  <2> QED
    BY <1>2, <1>4, <2>2 DEF Bearers
<1>6. TypeOK'
  <2>1. result'.is \in {"none", "sent", "unregistered", "failed"}
    BY <1>1, AnswersSay
  <2>2. push' \in [Worker -> [device : Device, bearer : 0..now, spent : 0..PushTime] \union {Idle}]
    BY <1>2 DEF IInv, TypeOK
  <2>3. {token, newest', first} \subseteq 0..now \union {None}
    BY <1>2, <1>4 DEF IInv, TypeOK
  <2> QED
    BY <1>2, <2>1, <2>2, <2>3 DEF IInv, TypeOK
<1>7. SetOutYoung' /\ CacheIsNewest'
  BY <1>2, <1>3, <1>5, FewerBearers
<1>8. MintedApart'
  BY <1>2, <1>5 DEF IInv, MintedApart
<1>9. BearerAccepted'
  <2> DEFINE b == push[w].bearer
  <2>1. b \in Nat /\ now \in Nat /\ now - b <= Lifetime + PushTime
    BY <1>2, <1>4, SentIsPush, TimeAssumption DEF IInv, SetOutYoung, TypeOK, Time
  <2>2. Objection(b) # "ExpiredProviderToken"
    BY <2>1, TimeAssumption DEF Objection
  <2>3. ASSUME Objection(b) = "TooManyProviderTokenUpdates" PROVE b = first
    <3>1. newest # None /\ b > newest /\ b - newest < TooSoon
      BY <2>3 DEF Objection, Refreshed
    <3>2. newest \in Bearers /\ newest \in Nat
      BY <3>1 DEF Bearers, IInv, TypeOK
    <3>3. b # first => b - newest >= Lifetime
      BY <1>4, <2>1, <3>1, <3>2 DEF IInv, MintedApart
    <3> QED
      BY <2>1, <3>1, <3>2, <3>3, TimeAssumption
  <2>4. a[2] \in {"ExpiredProviderToken", "TooManyProviderTokenUpdates"} => a[2] = Objection(b)
    BY AnswersSay
  <2> QED
    BY <1>1, <1>2, <2>2, <2>3, <2>4 DEF BearerAccepted
<1>10. OnlyTheGoneUnregistered'
  BY <1>1, <1>2, AnswersSay DEF OnlyTheGoneUnregistered
<1> QED
  BY <1>6, <1>7, <1>8, <1>9, <1>10 DEF IInv

LEMMA RestartPreserves ==
    ASSUME IInv, Restart
    PROVE  IInv'
<1>1. /\ token' = None /\ tokenAge' = None /\ first' = None /\ UNCHANGED <<now, gone, newest>>
      /\ push' = [v \in Worker |-> Idle] /\ result' = NoResult
  BY DEF Restart
<1>2. Sending' = {} /\ Bearers' \subseteq {newest} /\ Bearers' \subseteq Bearers
  BY <1>1 DEF Sending, Bearers
<1>3. TypeOK'
  BY <1>1 DEF IInv, TypeOK, NoResult
<1>4. SetOutYoung' /\ CacheIsNewest'
  BY <1>1, <1>2 DEF SetOutYoung, CacheIsNewest
<1>5. MintedApart'
  <2>1. \A x, y \in Bearers' : x = y /\ x \in Nat
    BY <1>2, BearersAreTimes DEF IInv
  <2> QED
    BY <2>1 DEF MintedApart
<1> QED
  BY <1>1, <1>3, <1>4, <1>5 DEF IInv, NoResult, BearerAccepted, OnlyTheGoneUnregistered

LEMMA UninstallPreserves ==
    ASSUME IInv, NEW device \in Device, Uninstall(device)
    PROVE  IInv'
<1>1. UNCHANGED <<now, token, tokenAge, push, newest, first>> /\ result' = NoResult
  BY DEF Uninstall
<1>2. Sending' = Sending /\ Bearers' = Bearers
  BY <1>1 DEF Sending, Bearers
<1>3. TypeOK'
  BY <1>1 DEF Uninstall, IInv, TypeOK, NoResult
<1>4. SetOutYoung' /\ CacheIsNewest' /\ MintedApart'
  BY <1>1, <1>2 DEF IInv, SetOutYoung, CacheIsNewest, MintedApart
<1> QED
  BY <1>1, <1>3, <1>4 DEF IInv, NoResult, BearerAccepted, OnlyTheGoneUnregistered

LEMMA TickPreserves ==
    ASSUME IInv, Tick
    PROVE  IInv'
<1>1. /\ now' = now + 1 /\ now < MaxTime /\ now \in Nat
      /\ UNCHANGED <<token, tokenAge, gone, newest, first>> /\ result' = NoResult
  BY DEF Tick, IInv, TypeOK, Time
<1>2. \A w \in Worker :
         /\ push[w] = Idle => push'[w] = Idle
         /\ push[w] # Idle => /\ push'[w] = [push[w] EXCEPT !.spent = @ + 1]
                              /\ push[w].spent < PushTime
  BY DEF Tick
<1>3. \A w \in Sending :
         /\ push'[w].device = push[w].device /\ push'[w].bearer = push[w].bearer
         /\ push'[w].spent = push[w].spent + 1
         /\ push'[w] \in [device : Device, bearer : 0..now', spent : 0..PushTime]
         /\ push'[w] # Idle
  <2> TAKE w \in Sending
  <2>1. push[w] \in [device : Device, bearer : 0..now, spent : 0..PushTime]
    BY DEF Sending, IInv, TypeOK
  <2>2. /\ push'[w] = [push[w] EXCEPT !.spent = @ + 1]
        /\ push[w].spent < PushTime
    BY <1>2 DEF Sending
  <2>3. push'[w] = [device |-> push[w].device, bearer |-> push[w].bearer,
                    spent |-> push[w].spent + 1]
    BY <2>1, <2>2
  <2>4. push[w].bearer \in 0..now' /\ push[w].bearer \in Nat /\ push[w].spent + 1 \in 0..PushTime
    BY <1>1, <2>1, <2>2, TimeAssumption
  <2> QED
    BY <2>1, <2>3, <2>4, IdleHasNoBearer
<1>4. Sending' = Sending
  BY <1>2, <1>3 DEF Sending
<1>5. Bearers' = Bearers
  <2>1. {push'[v].bearer : v \in Sending'} = {push[v].bearer : v \in Sending}
    BY <1>3, <1>4
  <2> QED
    BY <1>1, <2>1 DEF Bearers
<1>6. TypeOK'
  <2>1. push' \in [Worker -> [device : Device, bearer : 0..now', spent : 0..PushTime] \union {Idle}]
    <3>1. push' = [w \in Worker |-> push'[w]]
      BY DEF Tick
    <3>2. \A w \in Worker :
             push'[w] \in [device : Device, bearer : 0..now', spent : 0..PushTime] \union {Idle}
      BY <1>2, <1>3 DEF Sending
    <3> QED
      BY <3>1, <3>2
  <2>2. now' \in Time /\ {token, newest, first} \subseteq 0..now' \union {None}
    BY <1>1, TimeAssumption DEF IInv, TypeOK, Time
  <2> QED
    BY <1>1, <2>1, <2>2 DEF IInv, TypeOK, NoResult
<1>7. SetOutYoung'
  <2> SUFFICES ASSUME NEW w \in Sending
               PROVE  now' - push'[w].bearer <= Lifetime + push'[w].spent
    BY <1>4 DEF SetOutYoung
  <2>1. push[w].bearer \in Nat /\ push[w].spent \in Nat
    BY SentIsPush DEF IInv
  <2>2. now - push[w].bearer <= Lifetime + push[w].spent
    BY DEF IInv, SetOutYoung
  <2> QED
    BY <1>1, <1>3, <2>1, <2>2, TimeAssumption
<1>8. CacheIsNewest' /\ MintedApart'
  BY <1>1, <1>4, <1>5 DEF IInv, CacheIsNewest, MintedApart
<1> QED
  BY <1>1, <1>6, <1>7, <1>8 DEF IInv, NoResult, BearerAccepted, OnlyTheGoneUnregistered

LEMMA StutterPreserves ==
    ASSUME IInv, UNCHANGED vars
    PROVE  IInv'
<1>1. Sending' = Sending /\ Bearers' = Bearers
  BY DEF vars, Sending, Bearers
<1> QED
  BY <1>1 DEF vars, IInv, TypeOK, SetOutYoung, CacheIsNewest, MintedApart, BearerAccepted,
              OnlyTheGoneUnregistered

\* The inductive invariant holds: types, bearer tokens that were young when they set
\* out and that were minted a lifetime apart, with the cache's the newest.
THEOREM Invariance == Spec => []IInv
<1>1. ASSUME IInv, Next PROVE IInv'
  BY <1>1, PushPreserves, ReturnPreserves, UninstallPreserves, RestartPreserves, TickPreserves
     DEF Next
<1>2. IInv /\ [Next]_vars => IInv'
  BY <1>1, StutterPreserves
<1> QED
  BY InitEstablishes, <1>2, PTL DEF Spec

\* apns.go: no bearer token is too old when it reaches Apple, nor a refresh too soon
\* but for the first one of a process.
THEOREM BearerAcceptedHolds == Spec => []BearerAccepted
<1>1. IInv => BearerAccepted
  BY DEF IInv
<1> QED
  BY Invariance, <1>1, PTL

\* apns.go: Push says ErrUnregistered only of a device that Apple does not know.
THEOREM OnlyTheGoneUnregisteredHolds == Spec => []OnlyTheGoneUnregistered
<1>1. IInv => OnlyTheGoneUnregistered
  BY DEF IInv
<1> QED
  BY Invariance, <1>1, PTL
=============================================================================
