----------------------------- MODULE Registrar -----------------------------
(***************************************************************************)
(* The registration handlers of internal/relay/relay.go between the policy *)
(* (Entitlement) and the table (Store).  handleRegister reads the clock,   *)
(* asks the policy at that time, and hands Put a row that was seen then:   *)
(* by the time Put has the mutex it is later, and another registration of  *)
(* the same row may have come and gone.                                    *)
(*                                                                         *)
(* What deliver and Prune make of the row's expiry is here too, since the  *)
(* three have to agree.  Failed flushes and restarts are Store's question. *)
(***************************************************************************)
EXTENDS Integers, Sequences, FiniteSets

CONSTANTS
    Token, Blank, Absent, Address, Spelling, Normalise,           \* Store's
    MaxRegistrations, MaxPerAddress, MaxGmailAccounts,
    Lifetime, PrunePeriod, MaxTime,
    Product, Day,                                                 \* Entitlement's
    Policy,       \* the ways operators configure a relay
    Registration, \* the requests devices make of a relay with each policy
    Expiry,       \* when admissions may end, 0 for never
    Handler,      \* registrations that may be in flight at once
    None,         \* no registration
    MaxDelay      \* how long a handler may take from its clock to the table

VARIABLES
    registrations, file, now, ticker, reply,
    policy,       \* Relay.Policy
    pending,      \* what each handler is about to put
    minted,       \* tokens that newToken has returned
    answer,       \* the status of the last answer, and its token
    origin,       \* the request each row was made by, for the properties
    heard         \* when a registration of each row was last answered 200

store == <<registrations, file, now, ticker, reply>>
vars == <<store, policy, pending, minted, answer, origin, heard>>

ASSUME PolicyAssumption ==
    \A p \in Policy :
        /\ DOMAIN p = {"secret", "apple", "grace", "maxSignedAge", "allowSandbox"}
        /\ p.grace \in Nat
        /\ \A r \in Registration[p] : r.transaction # Blank => r.transaction.expires \in Nat
ASSUME DelayAssumption == MaxDelay \in Nat
ASSUME LifetimeAssumption == Lifetime \in Nat
\* What Store assumes.
ASSUME TableAssumption ==
    /\ IsFiniteSet(Token) /\ Absent \notin Token /\ Blank \notin Address
    /\ {MaxRegistrations, MaxPerAddress, MaxGmailAccounts, MaxTime} \subseteq Nat
    /\ PrunePeriod \in Nat \ {0}

\* A request that says nothing of its mode asks for alerts.
ModeOf(r) == IF r.mode = Blank THEN "alert" ELSE r.mode

\* What Put is handed for a request that was admitted.
Proper(r, t, expires) ==
    [token |-> t, device |-> r.device, topic |-> r.topic, mode |-> ModeOf(r), secret |-> r.secret,
     gmail |-> r.gmail, accounts |-> r.accounts, expires |-> expires]

Request == UNION {Registration[p] : p \in Policy}

Proof == INSTANCE Entitlement
Mem == INSTANCE Store WITH
    Request <- {Proper(r, t, e) : r \in Request, t \in Token, e \in Expiry},
    CanFail <- FALSE, CanRestart <- FALSE

ASSUME ExpiryAssumption ==
    /\ Expiry \subseteq Nat
    /\ \A p \in Policy : \A r \in Registration[p] : \A time \in 0..MaxTime :
          Proof!Admit(p, r, time) => Proof!ExpiresAt(p, r) \in Expiry
ASSUME RowAssumption ==
    \A r \in Request, t \in Token, e \in Expiry, seen \in 0..MaxTime :
        Mem!RowOf(Proper(r, t, e), seen) # Absent

Init ==
    /\ Mem!Init
    /\ policy \in Policy
    /\ pending = [h \in Handler |-> None]
    /\ minted = {}
    /\ answer = <<0, Blank>>
    /\ origin = [t \in Token |-> None]
    /\ heard = [t \in Token |-> 0]

----------------------------------------------------------------------------

\* A device names its delivery token or has one minted, which nobody has yet.
TokenOf(r, t) == IF r.token = Blank THEN t \notin minted ELSE t = r.token

\* The checks of the shape: size, JSON, device token, secret, mode and token.
Unacceptable(r) ==
    IF r.shape = "too large" THEN 413
    ELSE IF r.shape # "fine" \/ r.device = Blank \/ r.topic = Blank \/ ModeOf(r) \notin Mem!Mode
    THEN 400
    ELSE 0

\* reply is what the table last said: to this request nothing.
Refuse(status) ==
    /\ answer' = <<status, Blank>>
    /\ UNCHANGED <<pending, minted>>

\* handleRegister up to the call of Put, all at one reading of the clock.
Arrive(h, r, t) ==
    /\ pending[h] = None
    /\ TokenOf(r, t)
    /\ IF Unacceptable(r) # 0 THEN Refuse(Unacceptable(r))
       ELSE IF ~Proof!Admit(policy, r, now) THEN Refuse(403)
       ELSE /\ pending' = [pending EXCEPT ![h] =
                  [row |-> Proper(r, t, Proof!ExpiresAt(policy, r)), seen |-> now, of |-> r]]
            /\ minted' = minted \union {t}
            /\ UNCHANGED answer
    /\ UNCHANGED <<store, policy, origin, heard>>

Status(result) ==
    CASE result = "ok"                   -> 200
      [] result = "full"                 -> 503
      [] result = "wrong secret"         -> 400
      [] result = "too many for address" -> 409
      [] OTHER                           -> 500

\* What is known of the rows that are left.
Remaining(of, none) == [t \in Token |-> IF registrations'[t] = Absent THEN none ELSE of[t]]

\* Mistake: a row that is refreshed keeps the time it was first seen.
SeenFirst(h) ==
    IF registrations[pending[h].row.token] = Absent THEN pending[h].seen
    ELSE registrations[pending[h].row.token].seen

Seen(h) == pending[h].seen

\* The rest of handleRegister: Put, at whatever time it is by then.
Write(h) ==
    /\ pending[h] # None
    /\ LET row == pending[h].row IN
       /\ Mem!Put(row, Seen(h))
       /\ answer' = <<Status(reply'.result), IF reply'.result = "ok" THEN row.token ELSE Blank>>
       /\ IF reply'.result = "ok"
          THEN /\ origin' = [Remaining(origin, None) EXCEPT ![row.token] = pending[h].of]
               /\ heard' = [Remaining(heard, 0) EXCEPT ![row.token] = now]
          ELSE UNCHANGED <<origin, heard>>
    /\ pending' = [pending EXCEPT ![h] = None]
    /\ UNCHANGED <<policy, minted>>

Remove ==
    /\ origin' = Remaining(origin, None)
    /\ heard' = Remaining(heard, 0)

\* handleUnregister: 204 whether or not there was a row, and whose it was.
Unregister(t, secret) ==
    /\ Mem!DeleteIfOwned(t, secret)
    /\ answer' = <<204, Blank>>
    /\ Remove
    /\ UNCHANGED <<policy, pending, minted>>

Prune ==
    /\ Mem!Prune
    /\ Remove
    /\ UNCHANGED <<policy, pending, minted, answer>>

\* A handler gets to the table within MaxDelay.
Tick ==
    /\ Mem!Tick
    /\ \A h \in Handler : pending[h] # None => now - pending[h].seen < MaxDelay
    /\ UNCHANGED <<policy, pending, minted, answer, origin, heard>>

Next ==
    \/ \E h \in Handler : Write(h) \/ \E r \in Registration[policy], t \in Token : Arrive(h, r, t)
    \/ \E t \in Token, secret \in Mem!Secrets : Unregister(t, secret)
    \/ Prune
    \/ Tick

Spec == Init /\ [][Next]_vars

----------------------------------------------------------------------------
(* Properties. *)

Held == Mem!Held(registrations)

\* deliver sends nothing to a registration whose proof has run out.
Delivers(row) == row.expires = 0 \/ now < row.expires

\* The proof a row was made with, shown again now, would be admitted.  The age of
\* Apple's signature is left out: it is asked for at the registration only.
StillAdmitted(t) == Proof!Admit([policy EXCEPT !.maxSignedAge = 0], origin[t], now)

\* The policy, the table and deliver agree on when a proof is over: a row is
\* delivered to for exactly as long as its proof would be admitted.
ServedAsAdmitted == \A t \in Held : Delivers(registrations[t]) <=> StillAdmitted(t)

\* No row is pruned that a device still relies on: not one that was answered less
\* than a lifetime ago, but for the delay of a slow handler that overwrote it, and
\* not one whose proof would still be admitted.
PrunedOnlyWhenOver ==
    [][\A t \in Token :
         Prune /\ t \in Held /\ registrations'[t] = Absent =>
             now > heard[t] + Lifetime - MaxDelay \/ ~StillAdmitted(t)]_vars
=============================================================================
