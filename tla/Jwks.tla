-------------------------------- MODULE Jwks --------------------------------
(***************************************************************************)
(* Google's signing keys, internal/relay/pubsub.go: a cache shared by the  *)
(* handlers of Gmail pushes.  A handler looks under the read lock, looks   *)
(* again under the write lock and claims the right to attempt a fetch      *)
(* there, and fetches with no lock at all, so that other handlers come and *)
(* go while its answer is on its way.  Each locked section is one step.    *)
(*                                                                         *)
(* Times are kept as the time that has passed since, up to where the code  *)
(* stops telling them apart; a zero time.Time is further back than that.   *)
(* Of a token only the key id matters to the cache.  What verifyPubSub     *)
(* makes of its signature and claims once it has the key is a free choice. *)
(***************************************************************************)
EXTENDS Integers, FiniteSets

CONSTANTS
    Kid,        \* key ids
    None,       \* no key id
    Caller,     \* handlers that may be verifying a push at once
    Lifetime,   \* jwksLifetime
    Retry,      \* jwksRetry
    FetchTime,  \* newJWKS's client timeout: how long a fetch may take
    MaxVersion  \* bound on how often Google changes its keys

VARIABLES
    keys,       \* the key ids in j.keys
    fetched,    \* time since j.fetched
    attempted,  \* time since j.attempted
    call,       \* what each caller is at
    reply,      \* what the call that this step ended came to
    google,     \* the document Google serves
    \* What properties look at and the program does not have:
    version,    \* which document the cache has
    withdrawn,  \* time since Google withdrew each key
    claimed,    \* time since the last fetch was begun
    failing     \* whether the last fetch that ended failed

cache == <<keys, fetched, attempted>>
observer == <<version, withdrawn, claimed, failing>>
vars == <<cache, call, reply, google, observer>>

ASSUME KidAssumption == IsFiniteSet(Kid) /\ Kid # {} /\ None \notin Kid
\* Ten seconds, ten minutes, an hour.
ASSUME TimeAssumption ==
    /\ {Lifetime, Retry, FetchTime, MaxVersion} \subseteq Nat
    /\ FetchTime < Retry
    /\ Retry < Lifetime

\* The key ids a usable key was read for: a document without any fails to load.
Document == [keys : SUBSET Kid \ {{}}, version : 0..MaxVersion]
NoDocument == [keys |-> {}, version |-> 0]

\* spent is how long a fetch has taken, body what it was sent, known whether the
\* key was there when it began.
Call == [at : {"idle", "looking", "locking", "fetching", "loaded"}, kid : Kid \union {None},
         known : BOOLEAN, spent : 0..FetchTime, body : Document \union {NoDocument}]
Idle == [at |-> "idle", kid |-> None, known |-> FALSE, spent |-> 0, body |-> NoDocument]

Keep == Lifetime + FetchTime  \* how old what a fresh cache says may be

----------------------------------------------------------------------------

Init ==
    /\ keys = {}
    /\ fetched = Lifetime + 1
    /\ attempted = Retry
    /\ call = [c \in Caller |-> Idle]
    /\ reply = "none"
    /\ google \in {document \in Document : document.version = 0}
    /\ version = 0
    /\ withdrawn = [k \in Kid |-> IF k \in google.keys THEN 0 ELSE Keep + 1]
    /\ claimed = Retry
    /\ failing = FALSE

\* verifyPubSub: a token it cannot read, or not signed with RS256, is refused
\* before any key is asked for.
Receive(c, kid) ==
    /\ call[c] = Idle
    /\ \/ call' = [call EXCEPT ![c].at = "looking", ![c].kid = kid] /\ reply' = "none"
       \/ UNCHANGED call /\ reply' = "refused"
    /\ UNCHANGED <<cache, google, observer>>

Has(c) == call[c].kid \in keys

\* Mistake: a key is trusted for as long as it is in the cache.
FreshForEver == keys # {}

Fresh == fetched <= Lifetime
Trusted(c) == Has(c) /\ Fresh

\* key returns, and verifyPubSub goes on to the signature and the claims.
Return(c, found) ==
    /\ call' = [call EXCEPT ![c] = Idle]
    /\ reply' \in IF found THEN {"accepted", "refused"} ELSE {"no key"}

Proceed(c, at) ==
    /\ call' = [call EXCEPT ![c].at = at]
    /\ reply' = "none"

\* The first look, under the read lock.
Look(c) ==
    /\ call[c].at = "looking"
    /\ IF Trusted(c) THEN Return(c, TRUE) ELSE Proceed(c, "locking")
    /\ UNCHANGED <<cache, google, observer>>

\* Mistake: a key that could not be confirmed is no key.
SettleUnknown(c) ==
    /\ Trusted(c) \/ attempted < Retry
    /\ Return(c, Trusted(c))
    /\ UNCHANGED <<attempted, claimed>>

\* Mistake: whoever asks puts the next attempt off.
SettleSliding(c) ==
    /\ Trusted(c) \/ attempted < Retry
    /\ Return(c, Has(c))
    /\ attempted' = 0
    /\ UNCHANGED claimed

\* The second look: another caller has refreshed the keys, or asked recently, and
\* "whatever we have is what we have".
Settle(c) ==
    /\ Trusted(c) \/ attempted < Retry
    /\ Return(c, Has(c))
    /\ UNCHANGED <<attempted, claimed>>

\* Mistake: the right to attempt is not claimed.
ClaimUnrecorded(c) ==
    /\ ~Trusted(c)
    /\ attempted >= Retry
    /\ call' = [call EXCEPT ![c].at = "fetching", ![c].known = Has(c)]
    /\ reply' = "none"
    /\ claimed' = 0
    /\ UNCHANGED attempted

\* The right to attempt is claimed under the lock.
Claim(c) ==
    /\ ~Trusted(c)
    /\ attempted >= Retry
    /\ call' = [call EXCEPT ![c].at = "fetching", ![c].known = Has(c)]
    /\ reply' = "none"
    /\ attempted' = 0
    /\ claimed' = 0

Lock(c) ==
    /\ call[c].at = "locking"
    /\ Settle(c) \/ Claim(c)
    /\ UNCHANGED <<keys, fetched, google, version, withdrawn, failing>>

\* Google answers with the document of that moment, which takes time to arrive.
Respond(c) ==
    /\ call[c].at = "fetching"
    /\ call' = [call EXCEPT ![c].at = "loaded", ![c].body = google]
    /\ reply' = "none"
    /\ UNCHANGED <<cache, google, observer>>

\* Mistake: a failed fetch gives the right to attempt back.
FailAgain(c) ==
    /\ call[c].at \in {"fetching", "loaded"}
    /\ Return(c, call[c].known)
    /\ attempted' = Retry
    /\ failing' = TRUE
    /\ UNCHANGED <<keys, fetched, google, version, withdrawn, claimed>>

\* load fails: no connection, a time-out, or an answer without a usable key.
Fail(c) ==
    /\ call[c].at \in {"fetching", "loaded"}
    /\ Return(c, call[c].known)
    /\ failing' = TRUE
    /\ UNCHANGED <<cache, google, version, withdrawn, claimed>>

\* The whole map is replaced.
Install(c) ==
    /\ call[c].at = "loaded"
    /\ keys' = call[c].body.keys
    /\ fetched' = 0
    /\ Return(c, call[c].kid \in keys')
    /\ version' = call[c].body.version
    /\ failing' = FALSE
    /\ UNCHANGED <<attempted, google, withdrawn, claimed>>

\* Google publishes keys and withdraws others.
Rotate ==
    /\ google.version < MaxVersion
    /\ google' \in {d \in Document : d.version = google.version + 1 /\ d.keys # google.keys}
    /\ withdrawn' = [k \in Kid |-> IF k \in google'.keys THEN 0 ELSE withdrawn[k]]
    /\ reply' = "none"
    /\ UNCHANGED <<cache, call, version, claimed, failing>>

Later(age, most) == IF age < most THEN age + 1 ELSE age
Fetching == {c \in Caller : call[c].at \in {"fetching", "loaded"}}

\* A fetch is over, one way or the other, when its time is.
Tick ==
    /\ \A c \in Fetching : call[c].spent < FetchTime
    /\ call' = [c \in Caller |-> IF c \in Fetching THEN [call[c] EXCEPT !.spent = @ + 1]
                                 ELSE call[c]]
    /\ fetched' = Later(fetched, Lifetime + 1)
    /\ attempted' = Later(attempted, Retry)
    /\ claimed' = Later(claimed, Retry)
    /\ withdrawn' = [k \in Kid |-> IF k \in google.keys THEN 0 ELSE Later(withdrawn[k], Keep + 1)]
    /\ reply' = "none"
    /\ UNCHANGED <<keys, google, version, failing>>

Next ==
    \/ \E c \in Caller :
          \/ \E kid \in Kid : Receive(c, kid)
          \/ Look(c) \/ Lock(c) \/ Respond(c) \/ Fail(c) \/ Install(c)
    \/ Rotate
    \/ Tick

Spec == Init /\ [][Next]_vars

\* Handlers run and time passes.  Google can be reached again and again and its
\* answers arrive; and Pub/Sub, which redelivers what was not answered with a 2xx,
\* goes on delivering what each key signed.
Fairness ==
    /\ WF_vars(Tick)
    /\ \A c \in Caller :
          WF_vars(Look(c) \/ Lock(c)) /\ SF_vars(Respond(c)) /\ SF_vars(Install(c))
    /\ \A kid \in Kid : SF_vars(\E c \in Caller : Receive(c, kid) /\ call'[c] # Idle)

FairSpec == Spec /\ Fairness

----------------------------------------------------------------------------
(* Properties. *)

\* Ages are in range, and a caller holds what it needs and nothing else.
TypeOK ==
    /\ keys \subseteq Kid
    /\ fetched \in 0..Lifetime + 1
    /\ attempted \in 0..Retry
    /\ call \in [Caller -> Call]
    /\ reply \in {"none", "accepted", "refused", "no key"}
    /\ google \in Document
    /\ version \in 0..MaxVersion
    /\ withdrawn \in [Kid -> 0..Keep + 1]
    /\ claimed \in 0..Retry
    /\ failing \in BOOLEAN

Returns(c) == call[c] # Idle /\ call'[c] = Idle

\* "A refresh failure never costs us a key we already have": nobody is told that
\* there is no key while the cache has it, whatever fetches, its own or another's,
\* failed or were still on their way when it looked.
KnownKeyNotRefused ==
    [][\A c \in Caller : Returns(c) /\ call[c].kid \in keys' => reply' # "no key"]_vars

\* Of two documents that Google served the cache never goes back to the older,
\* although each is installed by whoever fetched it, with no lock in between.
KeysNotSetBack == [][version' >= version]_vars

\* "One attempt per window across all goroutines, which is both the backoff after
\* a failure and the cap on a rotation stampede".
AttemptsSpaced == [][claimed' = 0 /\ Fetching' \ Fetching # {} => claimed >= Retry]_vars

\* A push signed with a key that Google withdrew longer ago than a fresh cache may
\* be wrong about is accepted only while someone asks Google, or could not.
StaleOnlyWhileAsking ==
    [][\A c \in Caller :
         Returns(c) /\ reply' = "accepted" /\ withdrawn[call[c].kid] > Keep =>
             Fetching \ {c} # {} \/ failing']_vars

\* "An unknown kid is the normal way a rotation announces itself": a key that
\* Google goes on serving is in the cache in the end, and stays there.
RotationHeard ==
    \A k \in Kid : <>[](k \in google.keys) => <>[](k \in keys)
=============================================================================
