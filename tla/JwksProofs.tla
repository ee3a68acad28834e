----------------------------- MODULE JwksProofs -----------------------------
(***************************************************************************)
(* Theorems about Jwks for any keys and callers, and any lifetimes that    *)
(* satisfy TimeAssumption.                                                 *)
(***************************************************************************)
EXTENDS Jwks, TLAPS

\* Whoever claims the right to attempt has it alone until its fetch is over, for
\* that is before the next attempt: what it knew of the cache is still so.
OneFetch ==
    /\ claimed = attempted
    /\ \A c, d \in Fetching : c = d
    /\ \A c \in Caller : call[c].spent = IF c \in Fetching THEN attempted ELSE 0
    /\ \A c \in Fetching : call[c].known = Has(c)

Loaded == {c \in Caller : call[c].at = "loaded"}

\* Documents are installed in the order they were served in.
InOrder ==
    /\ version <= google.version
    /\ \A c \in Loaded : version <= call[c].body.version /\ call[c].body.version <= google.version

\* A key is in the cache no longer after its withdrawal than its fetch took and the
\* cache is old; both counts stop, the one where the other one's limit is.
NotLongWithdrawn ==
    /\ \A k \in google.keys : withdrawn[k] = 0
    /\ \A k \in keys : withdrawn[k] <= fetched + FetchTime
    /\ \A c \in Loaded : \A k \in call[c].body.keys : withdrawn[k] <= call[c].spent

\* Nobody is turned away from Google for nothing.
SomeoneAsked == attempted < Retry => Fetching # {} \/ failing \/ fetched <= attempted

\* The inductive invariant.
IInv == TypeOK /\ OneFetch /\ InOrder /\ NotLongWithdrawn /\ SomeoneAsked

----------------------------------------------------------------------------

LEMMA Lifetimes ==
    /\ Lifetime \in Nat /\ Retry \in Nat /\ FetchTime \in Nat /\ MaxVersion \in Nat
    /\ FetchTime < Retry /\ Retry < Lifetime /\ Keep = Lifetime + FetchTime /\ Keep \in Nat
BY TimeAssumption DEF Keep

LEMMA TypesOfTime ==
    ASSUME TypeOK
    PROVE  /\ Lifetime \in Nat /\ Retry \in Nat /\ FetchTime \in Nat /\ MaxVersion \in Nat
           /\ FetchTime < Retry /\ Retry < Lifetime
           /\ fetched \in 0..Lifetime + 1 /\ attempted \in 0..Retry
           /\ Keep = Lifetime + FetchTime /\ \A k \in Kid : withdrawn[k] \in 0..Keep + 1
BY TimeAssumption DEF TypeOK, Keep

LEMMA TypesOfCall ==
    ASSUME TypeOK, NEW c \in Caller
    PROVE  /\ call[c] = [at |-> call[c].at, kid |-> call[c].kid, known |-> call[c].known,
                         spent |-> call[c].spent, body |-> call[c].body]
           /\ call[c].at \in {"idle", "looking", "locking", "fetching", "loaded"}
           /\ call[c].kid \in Kid \union {None} /\ call[c].known \in BOOLEAN
           /\ call[c].spent \in 0..FetchTime
           /\ call[c].body.keys \in SUBSET Kid /\ call[c].body.version \in 0..MaxVersion
           /\ call[c].body \in Document \union {NoDocument}
<1>1. call[c] \in Call
  BY DEF TypeOK
<1>2. call[c].body \in Document \union {NoDocument}
  BY <1>1 DEF Call
<1>3. call[c].body.keys \in SUBSET Kid /\ call[c].body.version \in 0..MaxVersion
  BY <1>2, TimeAssumption DEF Document, NoDocument
<1> QED
  BY <1>1, <1>2, <1>3 DEF Call

LEMMA IdleIsCall == Idle \in Call /\ Idle.at = "idle" /\ Idle.spent = 0
BY TimeAssumption DEF Idle, Call, NoDocument

LEMMA TypesOfGoogle ==
    ASSUME TypeOK
    PROVE  /\ google.keys \in SUBSET Kid /\ google.version \in 0..MaxVersion
           /\ google.version \in Nat /\ version \in Nat
<1>1. google.keys \in SUBSET Kid /\ google.version \in 0..MaxVersion /\ version \in 0..MaxVersion
  BY DEF TypeOK, Document
<1> QED
  BY <1>1, TypesOfTime

LEMMA InitEstablishes == Init => IInv
<1> SUFFICES ASSUME Init PROVE IInv
  OBVIOUS
<1>1. Fetching = {} /\ Loaded = {}
  BY IdleIsCall DEF Init, Fetching, Loaded
<1>2. TypeOK
  <2>1. call \in [Caller -> Call]
    BY IdleIsCall DEF Init
  <2>2. withdrawn \in [Kid -> 0..Keep + 1]
    BY TimeAssumption DEF Init, Keep
  <2>3. /\ Lifetime + 1 \in 0..Lifetime + 1 /\ Retry \in 0..Retry /\ 0 \in 0..MaxVersion
        /\ FALSE \in BOOLEAN
    BY TimeAssumption
  <2>4. google \in Document
    BY DEF Init
  <2> QED
    BY <2>1, <2>2, <2>3, <2>4 DEF Init, TypeOK
<1>3. OneFetch
  BY <1>1, IdleIsCall DEF Init, OneFetch
<1>4. InOrder
  BY <1>1, TimeAssumption DEF Init, InOrder
<1>5. NotLongWithdrawn
  <2>1. \A k \in google.keys : k \in Kid
    BY DEF Init, Document
  <2> QED
    BY <1>1, <2>1 DEF Init, NotLongWithdrawn
<1>6. SomeoneAsked
  BY TimeAssumption DEF Init, SomeoneAsked
<1> QED
  BY <1>2, <1>3, <1>4, <1>5, <1>6 DEF IInv

\* A caller that goes on or is done, and neither begins nor ends a fetch.
LEMMA MovesOn ==
    ASSUME IInv, NEW c \in Caller, c \notin Fetching, NEW r \in Call,
           r.at \notin {"fetching", "loaded"}, r.spent = 0,
           call' = [call EXCEPT ![c] = r], UNCHANGED <<cache, google, observer>>,
           reply' \in {"none", "accepted", "refused", "no key"}
    PROVE  IInv'
<1>1. call' \in [Caller -> Call] /\ \A d \in Caller : call'[d] = IF d = c THEN r ELSE call[d]
  BY DEF IInv, TypeOK
<1>2. Fetching' = Fetching /\ Loaded' = Loaded
  <2>1. call[c].at \notin {"fetching", "loaded"}
    BY DEF Fetching
  <2>2. \A d \in Caller : call'[d].at = IF d = c THEN r.at ELSE call[d].at
    BY <1>1
  <2> QED
    BY <2>1, <2>2 DEF Fetching, Loaded
<1>3. \A d \in Fetching : call'[d] = call[d]
  BY <1>1 DEF Fetching
<1>4. Loaded \subseteq Fetching
  BY DEF Loaded, Fetching
<1>5. TypeOK'
  BY <1>1 DEF IInv, TypeOK, cache, observer
<1>6. OneFetch'
  <2>1. \A d \in Fetching : call'[d].known = Has(d)'
    BY <1>3 DEF IInv, OneFetch, Has, cache
  <2>2. \A d \in Caller : call'[d].spent = IF d \in Fetching THEN attempted ELSE 0
    BY <1>1 DEF IInv, OneFetch
  <2> QED
    BY <1>2, <2>1, <2>2 DEF IInv, OneFetch, cache, observer
<1>7. InOrder'
  BY <1>2, <1>3, <1>4 DEF IInv, InOrder, observer
<1>8. NotLongWithdrawn'
  BY <1>2, <1>3, <1>4 DEF IInv, NotLongWithdrawn, observer, cache
<1>9. SomeoneAsked'
  BY <1>2 DEF IInv, SomeoneAsked, observer, cache
<1> QED
  BY <1>5, <1>6, <1>7, <1>8, <1>9 DEF IInv

LEMMA StutterPreserves ==
    ASSUME IInv, UNCHANGED <<cache, call, google, observer>>,
           reply' \in {"none", "accepted", "refused", "no key"}
    PROVE  IInv'
<1>1. Fetching' = Fetching /\ Loaded' = Loaded
  BY DEF Fetching, Loaded
<1> QED
  BY <1>1 DEF cache, observer, IInv, TypeOK, OneFetch, InOrder, NotLongWithdrawn, SomeoneAsked, Has

LEMMA ReceivePreserves ==
    ASSUME IInv, NEW c \in Caller, NEW kid \in Kid, Receive(c, kid)
    PROVE  IInv'
<1>1. CASE UNCHANGED call /\ reply' = "refused"
  BY <1>1, StutterPreserves DEF Receive
<1>2. CASE call' = [call EXCEPT ![c].at = "looking", ![c].kid = kid] /\ reply' = "none"
  <2> DEFINE r == [Idle EXCEPT !.at = "looking", !.kid = kid]
  <2>1. call[c] = Idle /\ c \notin Fetching
    BY IdleIsCall DEF Receive, Fetching
  <2>2. r \in Call /\ r.at = "looking" /\ r.spent = 0
    BY IdleIsCall DEF Call, Idle
  <2>3. call' = [call EXCEPT ![c] = r]
    BY <1>2, <2>1
  <2> QED
    BY <1>2, <2>1, <2>2, <2>3, MovesOn DEF Receive
<1> QED
  BY <1>1, <1>2 DEF Receive

LEMMA ProceedIsMove ==
    ASSUME IInv, NEW c \in Caller, c \notin Fetching, Proceed(c, "locking")
    PROVE  \E r \in Call : /\ r.at \notin {"fetching", "loaded"} /\ r.spent = 0
                           /\ call' = [call EXCEPT ![c] = r] /\ reply' = "none"
<1> DEFINE r == [call[c] EXCEPT !.at = "locking"]
<1>1. call[c] \in Call /\ call[c].spent = 0
  BY DEF IInv, TypeOK, OneFetch
<1>2. r \in Call /\ r.at = "locking" /\ r.spent = 0
  BY <1>1 DEF Call
<1> QED
  BY <1>2 DEF Proceed

LEMMA LookPreserves ==
    ASSUME IInv, NEW c \in Caller, Look(c)
    PROVE  IInv'
<1>1. c \notin Fetching
  BY DEF Look, Fetching
<1>2. CASE Trusted(c)
  BY <1>1, <1>2, MovesOn, IdleIsCall DEF Look, Return
<1>3. CASE ~Trusted(c)
  BY <1>1, <1>3, MovesOn, ProceedIsMove DEF Look
<1> QED
  BY <1>2, <1>3

LEMMA SettlePreserves ==
    ASSUME IInv, NEW c \in Caller, Lock(c), Settle(c)
    PROVE  IInv'
<1>1. c \notin Fetching
  BY DEF Lock, Fetching
<1>2. UNCHANGED <<cache, google, observer>>
  BY DEF Lock, Settle, cache, observer
<1> QED
  BY <1>1, <1>2, MovesOn, IdleIsCall DEF Settle, Return

\* A fetch that another had begun is over, or a new one could not be claimed.
LEMMA NobodyFetchesWhenClaimed ==
    ASSUME IInv, attempted >= Retry
    PROVE  Fetching = {}
<1> SUFFICES ASSUME NEW c \in Fetching PROVE FALSE
  OBVIOUS
<1>1. c \in Caller /\ call[c].spent = attempted
  BY DEF Fetching, IInv, OneFetch
<1>2. call[c].spent \in 0..FetchTime
  BY <1>1, TypesOfCall DEF IInv
<1> QED
  BY <1>1, <1>2, TypesOfTime DEF IInv

LEMMA ClaimPreserves ==
    ASSUME IInv, NEW c \in Caller, Lock(c), Claim(c)
    PROVE  IInv'
<1>1. Fetching = {} /\ Loaded = {}
  BY NobodyFetchesWhenClaimed DEF Claim, Fetching, Loaded
<1> DEFINE r == [call[c] EXCEPT !.at = "fetching", !.known = Has(c)]
<1>2. /\ call' = [call EXCEPT ![c] = r] /\ attempted' = 0 /\ claimed' = 0 /\ reply' = "none"
      /\ UNCHANGED <<keys, fetched, google, version, withdrawn, failing>>
  BY DEF Claim, Lock
<1>3. call[c].spent = 0
  BY <1>1 DEF IInv, OneFetch
<1>4. r \in Call /\ r.at = "fetching" /\ r.spent = 0 /\ r.known = Has(c) /\ r.kid = call[c].kid
  <2>1. call[c] \in Call
    BY DEF IInv, TypeOK
  <2>2. Has(c) \in BOOLEAN
    BY DEF Has
  <2> HIDE DEF Has
  <2> QED
    BY <1>3, <2>1, <2>2 DEF Call
<1>5. call' \in [Caller -> Call] /\ \A d \in Caller : call'[d] = IF d = c THEN r ELSE call[d]
  BY <1>2, <1>4 DEF IInv, TypeOK
<1>6. Fetching' = {c} /\ Loaded' = {}
  <2>1. \A d \in Caller : call[d].at \notin {"fetching", "loaded"}
    BY <1>1 DEF Fetching
  <2>2. \A d \in Caller : call'[d].at = IF d = c THEN "fetching" ELSE call[d].at
    BY <1>4, <1>5
  <2> QED
    BY <2>1, <2>2 DEF Fetching, Loaded
<1>7. TypeOK'
  <2>1. attempted' \in 0..Retry /\ claimed' \in 0..Retry
    BY <1>2, TypesOfTime DEF IInv
  <2> QED
    BY <1>2, <1>5, <2>1 DEF IInv, TypeOK
<1>8. OneFetch'
  BY <1>1, <1>2, <1>4, <1>5, <1>6 DEF IInv, OneFetch, Has
<1>9. InOrder' /\ NotLongWithdrawn'
  BY <1>2, <1>6 DEF IInv, InOrder, NotLongWithdrawn
<1>10. SomeoneAsked'
  BY <1>6 DEF SomeoneAsked
<1> QED
  BY <1>7, <1>8, <1>9, <1>10 DEF IInv

LEMMA RespondPreserves ==
    ASSUME IInv, NEW c \in Caller, Respond(c)
    PROVE  IInv'
<1> DEFINE r == [call[c] EXCEPT !.at = "loaded", !.body = google]
<1>1. c \in Fetching /\ call' = [call EXCEPT ![c] = r] /\ reply' = "none"
      /\ UNCHANGED <<cache, google, observer>>
  BY DEF Respond, Fetching
<1>2. r \in Call /\ r.at = "loaded" /\ r.spent = call[c].spent /\ r.known = call[c].known
      /\ r.kid = call[c].kid /\ r.body = google
  BY DEF IInv, TypeOK, Call
<1>3. call' \in [Caller -> Call] /\ \A d \in Caller : call'[d] = IF d = c THEN r ELSE call[d]
  BY <1>1, <1>2 DEF IInv, TypeOK
<1>4. Fetching' = Fetching /\ Loaded' = Loaded \union {c}
  BY <1>1, <1>2, <1>3 DEF Fetching, Loaded
<1>5. TypeOK'
  BY <1>1, <1>3 DEF IInv, TypeOK, cache, observer
<1>6. OneFetch'
  <2>1. \A d \in Caller : /\ call'[d].spent = call[d].spent /\ call'[d].known = call[d].known
                          /\ call'[d].kid = call[d].kid
    BY <1>2, <1>3
  <2>2. \A d \in Fetching : call'[d].known = Has(d)'
    BY <1>1, <2>1 DEF IInv, OneFetch, Has, cache, Fetching
  <2> QED
    BY <1>1, <1>4, <2>1, <2>2 DEF IInv, OneFetch, cache, observer
<1>7. InOrder'
  <2>1. google.version \in Nat
    BY TypesOfGoogle DEF IInv
  <2>2. \A d \in Loaded' : version <= call'[d].body.version /\ call'[d].body.version <= google.version
    <3> TAKE d \in Loaded'
    <3>1. CASE d = c
      <4>1. call'[d].body = google
        BY <1>2, <1>3, <3>1
      <4>2. version <= google.version
        BY DEF IInv, InOrder
      <4> QED
        BY <2>1, <4>1, <4>2
    <3>2. CASE d # c
      BY <1>3, <1>4, <3>2 DEF IInv, InOrder, Loaded
    <3> QED
      BY <3>1, <3>2
  <2> QED
    BY <1>1, <2>2 DEF IInv, InOrder, observer
<1>8. NotLongWithdrawn'
  <2>1. \A d \in Loaded' : \A k \in call'[d].body.keys : withdrawn[k] <= call'[d].spent
    <3> TAKE d \in Loaded'
    <3>1. CASE d = c
      <4>1. call'[d].body = google /\ call'[d].spent = call[c].spent
        BY <1>2, <1>3, <3>1
      <4>2. call[c].spent \in 0..FetchTime /\ FetchTime \in Nat
        BY TypesOfCall, TypesOfTime DEF IInv
      <4> QED
        BY <4>1, <4>2 DEF IInv, NotLongWithdrawn
    <3>2. CASE d # c
      BY <1>3, <1>4, <3>2 DEF IInv, NotLongWithdrawn, Loaded
    <3> QED
      BY <3>1, <3>2
  <2> QED
    BY <1>1, <2>1 DEF IInv, NotLongWithdrawn, observer, cache
<1>9. SomeoneAsked'
  BY <1>1, <1>4 DEF IInv, SomeoneAsked, observer, cache
<1> QED
  BY <1>5, <1>6, <1>7, <1>8, <1>9 DEF IInv

\* A fetch that ends leaves nobody fetching.
LEMMA FetchEnds ==
    ASSUME IInv, NEW c \in Fetching, call' = [call EXCEPT ![c] = Idle]
    PROVE  /\ c \in Caller /\ call' \in [Caller -> Call]
           /\ Fetching = {c} /\ Fetching' = {} /\ Loaded' = {}
           /\ \A d \in Caller : call'[d].spent = 0
<1>1. c \in Caller /\ Fetching = {c}
  BY DEF Fetching, IInv, OneFetch
<1>2. \A d \in Caller : call'[d] = IF d = c THEN Idle ELSE call[d]
  BY DEF IInv, TypeOK
<1>3. call' \in [Caller -> Call]
  BY IdleIsCall DEF IInv, TypeOK
<1>4. \A d \in Caller : call'[d].at \notin {"fetching", "loaded"}
  BY <1>1, <1>2, IdleIsCall DEF Fetching
<1>5. \A d \in Caller : call'[d].spent = 0
  BY <1>1, <1>2, IdleIsCall DEF IInv, OneFetch
<1> QED
  BY <1>1, <1>3, <1>4, <1>5 DEF Fetching, Loaded

LEMMA FailPreserves ==
    ASSUME IInv, NEW c \in Caller, Fail(c)
    PROVE  IInv'
<1>1. /\ c \in Fetching /\ call' = [call EXCEPT ![c] = Idle] /\ failing' = TRUE
      /\ UNCHANGED <<keys, fetched, attempted, google, version, withdrawn, claimed>>
      /\ reply' \in {"accepted", "refused", "no key"}
  BY DEF Fail, Return, Fetching, cache
<1>2. /\ call' \in [Caller -> Call] /\ Fetching' = {} /\ Loaded' = {}
      /\ \A d \in Caller : call'[d].spent = 0
  BY <1>1, FetchEnds
<1>3. TypeOK'
  BY <1>1, <1>2 DEF IInv, TypeOK
<1>4. OneFetch'
  BY <1>1, <1>2 DEF IInv, OneFetch
<1>5. InOrder' /\ NotLongWithdrawn' /\ SomeoneAsked'
  BY <1>1, <1>2 DEF IInv, InOrder, NotLongWithdrawn, SomeoneAsked
<1> QED
  BY <1>3, <1>4, <1>5 DEF IInv

LEMMA InstallPreserves ==
    ASSUME IInv, NEW c \in Caller, Install(c)
    PROVE  IInv'
<1>1. /\ c \in Fetching /\ c \in Loaded /\ call' = [call EXCEPT ![c] = Idle]
      /\ keys' = call[c].body.keys /\ fetched' = 0
      /\ version' = call[c].body.version /\ failing' = FALSE
      /\ UNCHANGED <<attempted, google, withdrawn, claimed>>
      /\ reply' \in {"accepted", "refused", "no key"}
  BY DEF Install, Return, Fetching, Loaded
<1>a. fetched' = 0 /\ attempted' = attempted /\ attempted \in 0..Retry
  BY DEF Install, IInv, TypeOK
<1>2. /\ call' \in [Caller -> Call] /\ Fetching' = {} /\ Loaded' = {}
      /\ \A d \in Caller : call'[d].spent = 0
  BY <1>1, FetchEnds
<1>3. TypeOK'
  <2>1. keys' \subseteq Kid /\ version' \in 0..MaxVersion
    BY <1>1, TypesOfCall DEF IInv
  <2>2. fetched' \in 0..Lifetime + 1
    BY <1>a, Lifetimes
  <2> QED
    BY <1>1, <1>2, <2>1, <2>2 DEF IInv, TypeOK
<1>4. OneFetch'
  BY <1>1, <1>2 DEF IInv, OneFetch
<1>5. InOrder'
  BY <1>1, <1>2 DEF IInv, InOrder
<1>6. NotLongWithdrawn'
  <2>1. \A k \in keys' : withdrawn[k] <= fetched' + FetchTime
    <3> TAKE k \in keys'
    <3>1. withdrawn[k] <= call[c].spent
      BY <1>1 DEF IInv, NotLongWithdrawn
    <3>2. k \in Kid /\ call[c].spent \in 0..FetchTime
      BY <1>1, TypesOfCall DEF IInv
    <3>3. withdrawn[k] \in 0..Keep + 1
      BY <3>2, TypesOfTime DEF IInv
    <3> QED
      BY <1>a, <3>1, <3>2, <3>3, Lifetimes
  <2> QED
    BY <1>1, <1>2, <2>1 DEF IInv, NotLongWithdrawn
<1>7. SomeoneAsked'
  BY <1>a, Lifetimes DEF SomeoneAsked
<1> QED
  BY <1>3, <1>4, <1>5, <1>6, <1>7 DEF IInv

LEMMA RotatePreserves ==
    ASSUME IInv, Rotate
    PROVE  IInv'
<1>1. /\ google' \in Document /\ google'.version = google.version + 1
      /\ withdrawn' = [k \in Kid |-> IF k \in google'.keys THEN 0 ELSE withdrawn[k]]
      /\ UNCHANGED <<keys, fetched, attempted, call, version, claimed, failing>> /\ reply' = "none"
  BY DEF Rotate, cache
<1>2. Fetching' = Fetching /\ Loaded' = Loaded
  BY <1>1 DEF Fetching, Loaded
<1>3. \A k \in Kid : withdrawn[k] \in Nat /\ withdrawn'[k] <= withdrawn[k]
  BY <1>1, TypesOfTime DEF IInv
<1>4. TypeOK'
  <2>1. withdrawn' \in [Kid -> 0..Keep + 1]
    BY <1>1, TypesOfTime DEF IInv
  <2> QED
    BY <1>1, <2>1 DEF IInv, TypeOK
<1>5. OneFetch'
  BY <1>1, <1>2 DEF IInv, OneFetch, Has
<1>6. InOrder'
  <2>1. \A c \in Loaded : call[c].body.version \in 0..MaxVersion /\ MaxVersion \in Nat
    BY TypesOfCall, TypesOfTime DEF IInv, Loaded
  <2> QED
    BY <1>1, <1>2, <2>1, TypesOfGoogle DEF IInv, InOrder
<1>7. NotLongWithdrawn'
  <2>1. \A k \in google'.keys : withdrawn'[k] = 0
    <3>1. google'.keys \subseteq Kid
      BY <1>1 DEF Document
    <3> QED
      BY <1>1, <3>1
  <2>2. \A k \in keys : withdrawn'[k] <= fetched + FetchTime
    <3> TAKE k \in keys
    <3>1. k \in Kid /\ withdrawn'[k] \in 0..Keep + 1
      BY <1>4 DEF IInv, TypeOK
    <3>2. withdrawn[k] <= fetched + FetchTime
      BY DEF IInv, NotLongWithdrawn
    <3>3. fetched \in 0..Lifetime + 1
      BY DEF IInv, TypeOK
    <3> QED
      BY <1>3, <3>1, <3>2, <3>3, Lifetimes
  <2>3. \A c \in Loaded : \A k \in call[c].body.keys : withdrawn'[k] <= call[c].spent
    <3> TAKE c \in Loaded
    <3> TAKE k \in call[c].body.keys
    <3>1. k \in Kid /\ call[c].spent \in 0..FetchTime /\ FetchTime \in Nat
      BY TypesOfCall, TypesOfTime DEF IInv, Loaded
    <3>2. withdrawn[k] <= call[c].spent
      BY DEF IInv, NotLongWithdrawn
    <3>3. withdrawn'[k] \in 0..Keep + 1
      BY <1>4, <3>1 DEF TypeOK
    <3> QED
      BY <1>3, <3>1, <3>2, <3>3, Lifetimes
  <2> QED
    BY <1>1, <1>2, <2>1, <2>2, <2>3 DEF NotLongWithdrawn
<1>8. SomeoneAsked'
  BY <1>1, <1>2 DEF IInv, SomeoneAsked
<1> QED
  BY <1>4, <1>5, <1>6, <1>7, <1>8 DEF IInv

LEMMA TickPreserves ==
    ASSUME IInv, Tick
    PROVE  IInv'
<1>1. /\ fetched' = (IF fetched < Lifetime + 1 THEN fetched + 1 ELSE fetched)
      /\ attempted' = (IF attempted < Retry THEN attempted + 1 ELSE attempted)
      /\ claimed' = (IF claimed < Retry THEN claimed + 1 ELSE claimed)
      /\ withdrawn' = [k \in Kid |-> IF k \in google.keys THEN 0
                        ELSE IF withdrawn[k] < Keep + 1 THEN withdrawn[k] + 1 ELSE withdrawn[k]]
      /\ call' = [c \in Caller |-> IF c \in Fetching THEN [call[c] EXCEPT !.spent = @ + 1]
                                   ELSE call[c]]
      /\ \A c \in Fetching : call[c].spent < FetchTime
      /\ UNCHANGED <<keys, google, version, failing>> /\ reply' = "none"
  BY DEF Tick, Later
<1>2. /\ Lifetime \in Nat /\ Retry \in Nat /\ FetchTime \in Nat /\ FetchTime < Retry
      /\ Keep = Lifetime + FetchTime
      /\ fetched \in 0..Lifetime + 1 /\ attempted \in 0..Retry
      /\ \A k \in Kid : withdrawn[k] \in 0..Keep + 1
  BY TypesOfTime DEF IInv
<1>3. \A c \in Caller :
         /\ call'[c] \in Call /\ call'[c].at = call[c].at /\ call'[c].kid = call[c].kid
         /\ call'[c].known = call[c].known /\ call'[c].body = call[c].body
         /\ call'[c].spent = IF c \in Fetching THEN call[c].spent + 1 ELSE call[c].spent
  <2> TAKE c \in Caller
  <2>1. CASE c \in Fetching
    <3>1. call[c] \in Call
      BY DEF IInv, TypeOK
    <3>2. call[c].spent + 1 \in 0..FetchTime
      <4>1. call[c].spent \in 0..FetchTime /\ call[c].spent < FetchTime
        BY <1>1, <2>1, TypesOfCall DEF IInv
      <4> QED
        BY <4>1, Lifetimes
    <3>3. call'[c] = [call[c] EXCEPT !.spent = @ + 1]
      BY <1>1, <2>1
    <3> QED
      BY <2>1, <3>1, <3>2, <3>3 DEF Call
  <2>2. CASE c \notin Fetching
    BY <1>1, <2>2 DEF IInv, TypeOK
  <2> QED
    BY <2>1, <2>2
<1>4. Fetching' = Fetching /\ Loaded' = Loaded
  BY <1>3 DEF Fetching, Loaded
<1>5. TypeOK'
  <2>1. call' \in [Caller -> Call]
    BY <1>1, <1>3
  <2>2. withdrawn' \in [Kid -> 0..Keep + 1]
    BY <1>1, <1>2
  <2>3. claimed = attempted
    BY DEF IInv, OneFetch
  <2>4. fetched' \in 0..Lifetime + 1 /\ attempted' \in 0..Retry /\ claimed' \in 0..Retry
    BY <1>1, <1>2, <2>3
  <2> QED
    BY <1>1, <2>1, <2>2, <2>4 DEF IInv, TypeOK
<1>6. OneFetch'
  <2>1. claimed' = attempted'
    BY <1>1 DEF IInv, OneFetch
  <2>2. \A c \in Caller : call'[c].spent = IF c \in Fetching THEN attempted' ELSE 0
    <3> TAKE c \in Caller
    <3>1. CASE c \in Fetching
      <4>1. call[c].spent = attempted /\ attempted < FetchTime
        BY <1>1, <3>1 DEF IInv, OneFetch
      <4>2. attempted < Retry
        BY <1>2, <4>1
      <4> QED
        BY <1>1, <1>3, <3>1, <4>1, <4>2
    <3>2. CASE c \notin Fetching
      BY <1>3, <3>2 DEF IInv, OneFetch
    <3> QED
      BY <3>1, <3>2
  <2>3. \A c \in Fetching : call'[c].known = Has(c)'
    BY <1>1, <1>3 DEF IInv, OneFetch, Has, Fetching
  <2> QED
    BY <1>4, <2>1, <2>2, <2>3 DEF IInv, OneFetch
<1>7. InOrder'
  BY <1>1, <1>3, <1>4 DEF IInv, InOrder, Loaded
<1>8. NotLongWithdrawn'
  <2>1. \A k \in google.keys : withdrawn'[k] = 0
    BY <1>1, TypesOfGoogle DEF IInv
  <2>2. \A k \in keys : withdrawn'[k] <= fetched' + FetchTime
    <3> TAKE k \in keys
    <3>1. k \in Kid /\ withdrawn[k] <= fetched + FetchTime
      BY DEF IInv, NotLongWithdrawn, TypeOK
    <3>2. withdrawn'[k] <= withdrawn[k] + 1 /\ withdrawn'[k] \in 0..Keep + 1
      BY <1>1, <1>2, <3>1
    <3> QED
      BY <1>1, <1>2, <3>1, <3>2
  <2>3. \A c \in Loaded : \A k \in call[c].body.keys : withdrawn'[k] <= call'[c].spent
    <3> TAKE c \in Loaded
    <3> TAKE k \in call[c].body.keys
    <3>1. c \in Caller /\ c \in Fetching
      BY DEF Loaded, Fetching
    <3>2. k \in Kid /\ call[c].spent \in 0..FetchTime
      BY <3>1, TypesOfCall DEF IInv
    <3>3. withdrawn[k] <= call[c].spent
      BY DEF IInv, NotLongWithdrawn
    <3>4. withdrawn'[k] <= withdrawn[k] + 1 /\ withdrawn'[k] \in 0..Keep + 1
      BY <1>1, <1>2, <3>2
    <3>5. call'[c].spent = call[c].spent + 1
      BY <1>3, <3>1
    <3> QED
      BY <1>2, <3>2, <3>3, <3>4, <3>5
  <2>4. \A c \in Loaded : call'[c].body = call[c].body
    BY <1>3 DEF Loaded
  <2> QED
    BY <1>1, <1>4, <2>1, <2>2, <2>3, <2>4 DEF NotLongWithdrawn
<1>9. SomeoneAsked'
  BY <1>1, <1>2, <1>4 DEF IInv, SomeoneAsked
<1> QED
  BY <1>5, <1>6, <1>7, <1>8, <1>9 DEF IInv

\* The inductive invariant holds: types, one fetch at a time that knows the cache,
\* documents in the order they were served in, and keys not long withdrawn.
THEOREM Invariance == Spec => []IInv
<1>1. ASSUME IInv, Next PROVE IInv'
  <2>1. ASSUME NEW c \in Caller, Lock(c) PROVE IInv'
    BY <1>1, <2>1, SettlePreserves, ClaimPreserves DEF Lock
  <2> QED
    BY <1>1, <2>1, ReceivePreserves, LookPreserves, RespondPreserves, FailPreserves,
       InstallPreserves, RotatePreserves, TickPreserves DEF Next
<1>2. ASSUME IInv, UNCHANGED vars PROVE IInv'
  <2>1. reply' \in {"none", "accepted", "refused", "no key"}
    BY <1>2 DEF vars, IInv, TypeOK
  <2> QED
    BY <1>2, <2>1, StutterPreserves DEF vars
<1>3. IInv /\ [Next]_vars => IInv'
  BY <1>1, <1>2
<1> QED
  BY InitEstablishes, <1>3, PTL DEF Spec

----------------------------------------------------------------------------

\* Nobody returns but by a step of its own.
LEMMA WhoReturns ==
    ASSUME IInv, Next, NEW c \in Caller, Returns(c)
    PROVE  Look(c) \/ (Lock(c) /\ Settle(c)) \/ Fail(c) \/ Install(c)
<1>1. call[c] # Idle /\ call'[c] = Idle /\ call'[c].at = "idle"
  BY IdleIsCall DEF Returns
<1>2. ASSUME NEW d \in Caller, NEW kid \in Kid, Receive(d, kid) PROVE FALSE
  <2>1. call[d] = Idle /\ \A e \in Caller \ {d} : call'[e] = call[e]
    BY <1>2 DEF Receive, IInv, TypeOK
  <2> QED
    BY <1>1, <2>1
<1>3. ASSUME NEW d \in Caller, Look(d) \/ Lock(d) \/ Respond(d) \/ Fail(d) \/ Install(d)
      PROVE  d = c
  <2>1. \A e \in Caller \ {d} : call'[e] = call[e]
    BY <1>3 DEF Look, Lock, Respond, Fail, Install, Settle, Claim, Return, Proceed, IInv, TypeOK
  <2> QED
    BY <1>1, <2>1
<1>4. ~(Lock(c) /\ Claim(c)) /\ ~Respond(c)
  <2>1. ASSUME Claim(c) PROVE FALSE
    <3> DEFINE r == [call[c] EXCEPT !.at = "fetching", !.known = Has(c)]
    <3>1. call' = [call EXCEPT ![c] = r]
      BY <2>1 DEF Claim
    <3>2. r.at = "fetching"
      BY DEF IInv, TypeOK, Call
    <3> HIDE DEF r
    <3>3. call'[c] = r
      BY <3>1 DEF IInv, TypeOK
    <3> QED
      BY <1>1, <3>2, <3>3
  <2>2. ASSUME Respond(c) PROVE FALSE
    <3>1. call'[c] = [call[c] EXCEPT !.at = "loaded", !.body = google]
      BY <2>2 DEF Respond, IInv, TypeOK
    <3>2. call'[c].at = "loaded"
      BY <3>1 DEF IInv, TypeOK, Call
    <3> QED
      BY <1>1, <3>2
  <2> QED
    BY <2>1, <2>2
<1>5. ~Rotate
  BY <1>1 DEF Rotate
<1>6. ASSUME Tick PROVE FALSE
  <2>1. call'[c] = IF c \in Fetching THEN [call[c] EXCEPT !.spent = @ + 1] ELSE call[c]
    BY <1>6 DEF Tick
  <2>2. c \in Fetching => call'[c].at = call[c].at
    BY <2>1 DEF IInv, TypeOK, Call
  <2> QED
    BY <1>1, <2>1, <2>2 DEF Fetching
<1>7. PICK d \in Caller : Look(d) \/ Lock(d) \/ Respond(d) \/ Fail(d) \/ Install(d)
  BY <1>2, <1>5, <1>6 DEF Next
<1>8. d = c
  BY <1>3, <1>7
<1>9. Lock(c) => Settle(c) \/ Claim(c)
  BY DEF Lock
<1> QED
  BY <1>4, <1>7, <1>8, <1>9

\* jwks.key: "a refresh failure never costs us a key we already have".
THEOREM KnownKeyNotRefusedHolds == Spec => KnownKeyNotRefused
<1>1. ASSUME IInv, Next, NEW c \in Caller, Returns(c), call[c].kid \in keys'
      PROVE  reply' # "no key"
  <2>1. CASE Look(c)
    BY <1>1, <2>1 DEF Look, Return, Proceed
  <2>2. CASE Lock(c) /\ Settle(c)
    BY <1>1, <2>2 DEF Lock, Settle, Return, Has
  <2>3. CASE Fail(c)
    <3>1. c \in Fetching /\ keys' = keys
      BY <2>3 DEF Fail, Fetching, cache
    <3>2. call[c].known = Has(c)
      BY <1>1, <3>1 DEF IInv, OneFetch
    <3>3. Has(c)
      BY <1>1, <3>1 DEF Has
    <3> QED
      BY <2>3, <3>2, <3>3 DEF Fail, Return
  <2>4. CASE Install(c)
    BY <1>1, <2>4 DEF Install, Return
  <2> QED
    BY <1>1, <2>1, <2>2, <2>3, <2>4, WhoReturns
<1>2. IInv /\ [Next]_vars =>
        [\A c \in Caller : Returns(c) /\ call[c].kid \in keys' => reply' # "no key"]_vars
  BY <1>1
<1> QED
  BY Invariance, <1>2, PTL DEF Spec, KnownKeyNotRefused

\* jwks.key: a document never gives way to an older one, though nothing is locked
\* from the fetch to the installation.
THEOREM KeysNotSetBackHolds == Spec => KeysNotSetBack
<1>1. ASSUME IInv, Next PROVE version' >= version
  <2>1. version \in Nat
    BY <1>1, TypesOfGoogle DEF IInv
  <2>2. ASSUME NEW c \in Caller, Install(c) PROVE version' >= version
    <3>1. version' = call[c].body.version /\ c \in Loaded
      BY <2>2 DEF Install, Loaded
    <3>2. call[c].body.version \in 0..MaxVersion
      BY <1>1, TypesOfCall DEF IInv
    <3>3. version <= call[c].body.version
      BY <1>1, <3>1 DEF IInv, InOrder
    <3> QED
      BY <2>1, <3>1, <3>2, <3>3, Lifetimes
  <2>3. (\E c \in Caller : Install(c)) \/ version' = version
    BY <1>1 DEF Next, Receive, Look, Lock, Respond, Fail, Rotate, Tick, observer
  <2> QED
    BY <2>1, <2>2, <2>3
<1>2. IInv /\ [Next]_vars => [version' >= version]_vars
  BY <1>1
<1> QED
  BY Invariance, <1>2, PTL DEF Spec, KeysNotSetBack

\* jwks.key: "one attempt per window across all goroutines".
THEOREM AttemptsSpacedHolds == Spec => AttemptsSpaced
<1>1. ASSUME IInv, Next, Fetching' \ Fetching # {} PROVE claimed >= Retry
  <2>1. PICK c \in Caller : call'[c].at \in {"fetching", "loaded"} /\ c \notin Fetching
    BY <1>1 DEF Fetching
  <2>2. call[c].at \notin {"fetching", "loaded"}
    BY <2>1 DEF Fetching
  <2>3. ASSUME NEW d \in Caller, Claim(d) PROVE claimed >= Retry
    BY <1>1, <2>3 DEF Claim, IInv, OneFetch
  <2>4. ASSUME NEW d \in Caller, call' = [call EXCEPT ![d] = Idle] PROVE FALSE
    BY <1>1, <2>1, <2>2, <2>4, IdleIsCall DEF IInv, TypeOK
  <2>5. ASSUME NEW d \in Caller, Proceed(d, "locking") PROVE FALSE
    <3>1. call'[c] = IF c = d THEN [call[d] EXCEPT !.at = "locking"] ELSE call[c]
      BY <1>1, <2>5 DEF Proceed, IInv, TypeOK
    <3>2. call'[c].at \in {"locking", call[c].at}
      BY <1>1, <3>1 DEF IInv, TypeOK, Call
    <3> QED
      BY <2>1, <2>2, <3>2
  <2>6. ASSUME NEW d \in Caller, NEW kid \in Kid, Receive(d, kid) PROVE FALSE
    <3>1. call'[c].at \in {"looking", call[c].at}
      BY <1>1, <2>6 DEF Receive, IInv, TypeOK, Call
    <3> QED
      BY <2>1, <2>2, <3>1
  <2>7. ASSUME NEW d \in Caller, Respond(d) PROVE FALSE
    <3>1. d \in Fetching /\ \A e \in Caller \ {d} : call'[e] = call[e]
      BY <1>1, <2>7 DEF Respond, Fetching, IInv, TypeOK
    <3> QED
      BY <2>1, <2>2, <3>1
  <2>8. ASSUME Tick PROVE FALSE
    BY <2>1, <2>2, <2>8 DEF Tick
  <2>9. ASSUME Rotate PROVE FALSE
    BY <2>1, <2>2, <2>9 DEF Rotate
  <2> QED
    BY <1>1, <2>3, <2>4, <2>5, <2>6, <2>7, <2>8, <2>9
       DEF Next, Look, Lock, Settle, Fail, Install, Return
<1>2. IInv /\ [Next]_vars =>
        [claimed' = 0 /\ Fetching' \ Fetching # {} => claimed >= Retry]_vars
  BY <1>1
<1> QED
  BY Invariance, <1>2, PTL DEF Spec, AttemptsSpaced

\* A trusted key was not withdrawn longer ago than a fresh cache may be wrong about.
LEMMA TrustedIsNotLongWithdrawn ==
    ASSUME IInv, NEW k \in keys, fetched <= Lifetime
    PROVE  ~(withdrawn[k] > Keep)
<1>1. k \in Kid /\ withdrawn[k] <= fetched + FetchTime
  BY DEF IInv, TypeOK, NotLongWithdrawn
<1>2. withdrawn[k] \in 0..Keep + 1 /\ fetched \in 0..Lifetime + 1
  BY <1>1, TypesOfTime DEF IInv
<1> QED
  BY <1>1, <1>2, Lifetimes

\* jwks.key: what is accepted on a key that Google withdrew long ago is accepted only
\* while somebody asks Google, or since the last to ask had no answer.
THEOREM StaleOnlyWhileAskingHolds == Spec => StaleOnlyWhileAsking
<1>1. ASSUME IInv, Next, NEW c \in Caller, Returns(c), reply' = "accepted",
             withdrawn[call[c].kid] > Keep
      PROVE  Fetching \ {c} # {} \/ failing'
  <2> DEFINE k == call[c].kid
  <2>1. ~(k \in keys /\ fetched <= Lifetime)
    BY <1>1, TrustedIsNotLongWithdrawn
  <2>2. CASE Look(c)
    BY <1>1, <2>1, <2>2 DEF Look, Trusted, Has, Fresh, Proceed
  <2>3. CASE Lock(c) /\ Settle(c)
    <3>1. /\ attempted < Retry /\ k \in keys /\ failing' = failing
          /\ Fetching \ {c} = Fetching
      BY <1>1, <2>1, <2>3 DEF Lock, Settle, Return, Trusted, Has, Fresh, Fetching
    <3>2. ~(fetched <= attempted)
      <4>1. fetched \in 0..Lifetime + 1 /\ attempted \in 0..Retry
        BY <1>1, TypesOfTime DEF IInv
      <4> QED
        BY <2>1, <3>1, <4>1, Lifetimes
    <3> QED
      BY <1>1, <3>1, <3>2 DEF IInv, SomeoneAsked
  <2>4. CASE Fail(c)
    BY <2>4 DEF Fail
  <2>5. CASE Install(c)
    <3>1. c \in Loaded /\ k \in call[c].body.keys
      BY <1>1, <2>5 DEF Install, Return, Loaded
    <3>2. withdrawn[k] <= call[c].spent
      BY <1>1, <3>1 DEF IInv, NotLongWithdrawn
    <3>3. k \in Kid /\ call[c].spent \in 0..FetchTime
      BY <1>1, <3>1, TypesOfCall DEF IInv
    <3>4. withdrawn[k] \in 0..Keep + 1
      BY <1>1, <3>3, TypesOfTime DEF IInv
    <3> QED
      BY <1>1, <3>2, <3>3, <3>4, Lifetimes
  <2> QED
    BY <1>1, <2>2, <2>3, <2>4, <2>5, WhoReturns
<1>2. IInv /\ [Next]_vars =>
        [\A c \in Caller :
            Returns(c) /\ reply' = "accepted" /\ withdrawn[call[c].kid] > Keep =>
               Fetching \ {c} # {} \/ failing']_vars
  BY <1>1
<1> QED
  BY Invariance, <1>2, PTL DEF Spec, StaleOnlyWhileAsking
=============================================================================
