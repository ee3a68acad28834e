-------------------------------- MODULE Apns --------------------------------
(***************************************************************************)
(* The client of Apple's push service, internal/apns/apns.go: one bearer   *)
(* token shared by the workers, minted and handed out under a mutex, used  *)
(* after the mutex was given up, and judged by Apple when it arrives.      *)
(* What a push comes to decides whether deliver drops the registration.    *)
(*                                                                         *)
(* A bearer token is the time it was issued at.  Headers and payload are   *)
(* left out, and so is the host: a device token of the other environment   *)
(* is one that Apple does not know.  Signing does not fail.                *)
(***************************************************************************)
EXTENDS Integers

CONSTANTS
    Worker,    \* goroutines that push
    Device,    \* APNs device tokens
    None,      \* no bearer token
    Lifetime,  \* tokenLifetime
    TooOld,    \* Apple rejects a bearer token older than this
    TooSoon,   \* and one that was issued sooner than this after another
    PushTime,  \* how long a push may take: deliveryTimeout, and Client's own
    MaxTime    \* bound on the clock of the model

VARIABLES
    now,       \* the clock
    token,     \* c.token: when it was issued
    tokenAge,  \* c.tokenAge
    push,      \* what each worker has sent and not heard about
    result,    \* what Push returned, if this step ended one
    gone,      \* device tokens Apple does not know
    newest,    \* the newest bearer token Apple has accepted
    first      \* the first bearer token of this process, for the property

vars == <<now, token, tokenAge, push, result, gone, newest, first>>

Time == 0..MaxTime

ASSUME NoneIsNoTime == None \notin Nat
\* Forty minutes; sixty, twenty and thirty seconds.
ASSUME TimeAssumption ==
    /\ {Lifetime, TooOld, TooSoon, PushTime, MaxTime} \subseteq Nat
    /\ Lifetime + PushTime <= TooOld
    /\ TooSoon <= Lifetime

Idle == [device |-> None, bearer |-> None, spent |-> 0]
NoResult == [device |-> None, bearer |-> None, reason |-> "none", is |-> "none"]

----------------------------------------------------------------------------

Init ==
    /\ now = 0
    /\ token = None
    /\ tokenAge = None
    /\ push = [w \in Worker |-> Idle]
    /\ result = NoResult
    /\ gone = {}
    /\ newest = None
    /\ first = None

Current == token # None /\ now - tokenAge < Lifetime

\* Mistake: a bearer token that is used stays young.
BearerSliding ==
    /\ token' = IF Current THEN token ELSE now
    /\ tokenAge' = now

\* bearer: the cached token, or a new one when it is old enough.
Bearer ==
    IF Current THEN UNCHANGED <<token, tokenAge>>
    ELSE token' = now /\ tokenAge' = now

\* Push up to the request's way to Apple.
Push(w, device) ==
    /\ push[w] = Idle
    /\ Bearer
    /\ push' = [push EXCEPT ![w] = [device |-> device, bearer |-> token', spent |-> 0]]
    /\ first' = IF first = None THEN token' ELSE first
    /\ result' = NoResult
    /\ UNCHANGED <<now, gone, newest>>

\* Apple's own rules, of which apns.go relies on those for the bearer token.
Refreshed(bearer) == newest # None /\ bearer > newest
Objection(bearer) ==
    IF now - bearer > TooOld THEN "ExpiredProviderToken"
    ELSE IF Refreshed(bearer) /\ bearer - newest < TooSoon THEN "TooManyProviderTokenUpdates"
    ELSE "none"

\* What Apple may answer, if anything: status and reason.  A response may be cut
\* short, so that the status arrives without the reason.
Answers(p) ==
    LET said ==
        IF Objection(p.bearer) = "ExpiredProviderToken"
        THEN {<<403, "ExpiredProviderToken">>}
        ELSE IF Objection(p.bearer) # "none" THEN {<<429, Objection(p.bearer)>>}
        ELSE IF p.device \in gone THEN {<<410, "Unregistered">>, <<400, "BadDeviceToken">>}
        ELSE {<<200, "none">>, <<429, "TooManyRequests">>, <<503, "Shutdown">>}
    IN  said \union {<<a[1], "none">> : a \in said} \union {<<0, "timeout">>}

\* Mistake: Apple did not want this push, so it does not want this device.
IsOfAnyRefusal(answer) ==
    IF answer[1] = 200 THEN "sent"
    ELSE IF answer[1] \in 400..499 THEN "unregistered"
    ELSE "failed"

\* Push's return: nil, ErrUnregistered or another error.
Is(answer) ==
    IF answer[1] = 200 THEN "sent"
    ELSE IF answer[1] = 410 \/ answer[2] \in {"BadDeviceToken", "Unregistered"} THEN "unregistered"
    ELSE "failed"

Return(w) ==
    /\ push[w] # Idle
    /\ \E answer \in Answers(push[w]) :
          result' = [device |-> push[w].device, bearer |-> push[w].bearer,
                     reason |-> answer[2], is |-> Is(answer)]
    /\ push' = [push EXCEPT ![w] = Idle]
    /\ newest' = IF Objection(push[w].bearer) = "none" /\ (newest = None \/ Refreshed(push[w].bearer))
                 THEN push[w].bearer ELSE newest
    /\ UNCHANGED <<now, token, tokenAge, gone, first>>

\* A new process has no token, whatever Apple has seen.
Restart ==
    /\ token' = None
    /\ tokenAge' = None
    /\ first' = None
    /\ push' = [w \in Worker |-> Idle]
    /\ result' = NoResult
    /\ UNCHANGED <<now, gone, newest>>

Uninstall(device) ==
    /\ gone' = gone \union {device}
    /\ result' = NoResult
    /\ UNCHANGED <<now, token, tokenAge, push, newest, first>>

\* A push is over when its time is.
Tick ==
    /\ now < MaxTime
    /\ \A w \in Worker : push[w] # Idle => push[w].spent < PushTime
    /\ now' = now + 1
    /\ push' = [w \in Worker |-> IF push[w] = Idle THEN Idle
                                 ELSE [push[w] EXCEPT !.spent = @ + 1]]
    /\ result' = NoResult
    /\ UNCHANGED <<token, tokenAge, gone, newest, first>>

Next ==
    \/ \E w \in Worker : Return(w) \/ \E device \in Device : Push(w, device)
    \/ \E device \in Device : Uninstall(device)
    \/ Restart
    \/ Tick

Spec == Init /\ [][Next]_vars

----------------------------------------------------------------------------
(* Properties. *)

\* Bearer tokens are of the past, and the cache's age is the age of its token.
TypeOK ==
    /\ now \in Time
    /\ {token, newest, first} \subseteq 0..now \union {None}
    /\ tokenAge = token
    /\ push \in [Worker -> [device : Device, bearer : 0..now, spent : 0..PushTime] \union {Idle}]
    /\ result.is \in {"none", "sent", "unregistered", "failed"}
    /\ gone \subseteq Device

\* "Between those, and not near either edge": no bearer token is too old by the
\* time it reaches Apple, however long the push that carries it took, and none is
\* a refresh too soon, but for the first one of a process: the process before it
\* may have minted one a moment ago.
BearerAccepted ==
    /\ result.reason # "ExpiredProviderToken"
    /\ result.reason = "TooManyProviderTokenUpdates" => result.bearer = first

\* A registration is dropped only for a device that Apple does not know: an
\* objection to our own bearer token, a limit, an answer cut short or none costs
\* a push, never a registration.
OnlyTheGoneUnregistered == result.is = "unregistered" => result.device \in gone
=============================================================================
