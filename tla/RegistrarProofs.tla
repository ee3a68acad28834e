-------------------------- MODULE RegistrarProofs --------------------------
(***************************************************************************)
(* Theorems about Registrar for any policies, requests, tokens and         *)
(* handlers, and every delay of a handler.                                 *)
(***************************************************************************)
EXTENDS Registrar, TLAPS

\* Request r was admitted at time s, with the expiry e.
Admitted(r, s, e) ==
    /\ r \in Registration[policy]
    /\ Proof!Admit(policy, r, s)
    /\ e = Proof!ExpiresAt(policy, r)

\* What a handler is about to put is what it was admitted for, not long ago.
PendingAdmitted ==
    \A h \in Handler : pending[h] # None =>
        /\ Admitted(pending[h].of, pending[h].seen, pending[h].row.expires)
        /\ pending[h].seen \in Nat
        /\ now - MaxDelay <= pending[h].seen

\* A row has the expiry its request was admitted with, and was seen no longer before
\* the last answer to it than a handler may take.
RowAdmitted(t) ==
    /\ \E s \in Nat : Admitted(origin[t], s, registrations[t].expires)
    /\ registrations[t].seen \in Nat
    /\ heard[t] \in Nat
    /\ heard[t] - MaxDelay <= registrations[t].seen

\* The inductive invariant.
IInv ==
    /\ now \in Nat
    /\ policy \in Policy
    /\ pending = [h \in Handler |-> pending[h]]
    /\ PendingAdmitted
    /\ \A t \in Token : registrations[t] # Absent => RowAdmitted(t)

LEMMA InitEstablishes == Init => IInv
BY DEF Init, Mem!Init, Mem!Empty, IInv, PendingAdmitted

\* Rows that stay as they were, while others go, are as well admitted as before.
LEMMA SomeRowsGo ==
    ASSUME IInv, UNCHANGED <<now, policy, pending>>,
           \A t \in Token : registrations'[t] \in {registrations[t], Absent},
           \/ Remove
           \/ UNCHANGED <<origin, heard>>
    PROVE  IInv'
<1>1. \A t \in Token : registrations'[t] # Absent =>
         /\ registrations'[t] = registrations[t]
         /\ origin'[t] = origin[t] /\ heard'[t] = heard[t]
  BY DEF Remove, Remaining
<1>2. PendingAdmitted'
  BY DEF IInv, PendingAdmitted, Admitted
<1>3. \A t \in Token : registrations'[t] # Absent => RowAdmitted(t)'
  BY <1>1 DEF IInv, RowAdmitted, Admitted
<1> QED
  BY <1>2, <1>3 DEF IInv

LEMMA ArrivePreserves ==
    ASSUME IInv, NEW h \in Handler, NEW r \in Registration[policy], NEW t \in Token, Arrive(h, r, t)
    PROVE  IInv'
<1> DEFINE p == [row |-> Proper(r, t, Proof!ExpiresAt(policy, r)), seen |-> now, of |-> r]
<1>1. UNCHANGED <<registrations, now, policy, origin, heard>>
  BY DEF Arrive, store
<1>2. \A u \in Token : registrations'[u] # Absent => RowAdmitted(u)'
  BY <1>1 DEF IInv, RowAdmitted, Admitted
<1>3. CASE UNCHANGED pending
  BY <1>1, <1>2, <1>3 DEF IInv, PendingAdmitted, Admitted
<1>4. CASE pending' = [pending EXCEPT ![h] = p] /\ Proof!Admit(policy, r, now)
  <2>1. /\ pending' = [g \in Handler |-> pending'[g]]
        /\ \A g \in Handler : pending'[g] = IF g = h THEN p ELSE pending[g]
    BY <1>4 DEF IInv
  <2>2. p.of = r /\ p.seen = now /\ p.row.expires = Proof!ExpiresAt(policy, r)
    BY DEF Proper
  <2>3. Admitted(r, now, Proof!ExpiresAt(policy, r))
    BY <1>4 DEF Admitted
  <2>4. now \in Nat /\ now - MaxDelay <= now
    BY DelayAssumption DEF IInv
  <2> HIDE DEF p
  <2>5. PendingAdmitted'
    <3> SUFFICES ASSUME NEW g \in Handler, pending'[g] # None
                 PROVE  /\ Admitted(pending'[g].of, pending'[g].seen, pending'[g].row.expires)
                        /\ pending'[g].seen \in Nat
                        /\ now - MaxDelay <= pending'[g].seen
      BY <1>1 DEF PendingAdmitted, Admitted
    <3>1. CASE g = h
      BY <2>1, <2>2, <2>3, <2>4, <3>1
    <3>2. CASE g # h
      BY <2>1, <3>2 DEF IInv, PendingAdmitted
    <3> QED
      BY <3>1, <3>2
  <2> QED
    BY <1>1, <1>2, <2>1, <2>5 DEF IInv
<1> QED
  BY <1>3, <1>4 DEF Arrive, Refuse

LEMMA WritePreserves ==
    ASSUME IInv, NEW h \in Handler, Write(h)
    PROVE  IInv'
<1> DEFINE q == pending[h].row
           p == pending[h]
<1>1. /\ pending[h] # None /\ UNCHANGED <<now, policy>>
      /\ pending' = [pending EXCEPT ![h] = None]
      /\ Mem!Put(q, p.seen)
  BY DEF Write, Mem!Put, Seen
<1>2. /\ pending' = [g \in Handler |-> pending'[g]]
      /\ \A g \in Handler : pending'[g] = IF g = h THEN None ELSE pending[g]
  BY <1>1 DEF IInv
<1>3. PendingAdmitted'
  BY <1>1, <1>2 DEF IInv, PendingAdmitted, Admitted
<1>4. CASE Mem!Verdict(q) = "stored"
  <2>1. registrations' = Mem!Stored(q, p.seen) /\ reply'.result = "ok"
    BY <1>1, <1>4 DEF Mem!Put, Mem!FlushLocked
  <2>2. /\ origin' = [Remaining(origin, None) EXCEPT ![q.token] = p.of]
        /\ heard' = [Remaining(heard, 0) EXCEPT ![q.token] = now]
    BY <2>1 DEF Write
  <2>3. ASSUME NEW t \in Token, registrations'[t] # Absent PROVE RowAdmitted(t)'
    <3>1. CASE t = q.token
      <4>1. registrations'[t] = Mem!RowOf(q, p.seen)
        BY <2>1, <3>1 DEF Mem!Stored
      <4>2. registrations'[t].seen = p.seen /\ registrations'[t].expires = q.expires
        BY <4>1 DEF Mem!RowOf
      <4>3. origin'[t] = p.of /\ heard'[t] = now
        BY <2>2, <3>1 DEF Remaining
      <4>4. /\ Admitted(p.of, p.seen, q.expires) /\ p.seen \in Nat
            /\ now - MaxDelay <= p.seen /\ now \in Nat
        BY <1>1 DEF IInv, PendingAdmitted
      <4> QED
        BY <1>1, <4>2, <4>3, <4>4 DEF RowAdmitted, Admitted
    <3>2. CASE t # q.token
      <4>1. registrations'[t] = registrations[t]
        BY <2>1, <2>3, <3>2 DEF Mem!Stored
      <4>2. origin'[t] = origin[t] /\ heard'[t] = heard[t]
        BY <2>2, <2>3, <3>2 DEF Remaining
      <4> QED
        BY <1>1, <2>3, <4>1, <4>2 DEF IInv, RowAdmitted, Admitted
    <3> QED
      BY <3>1, <3>2
  <2> QED
    BY <1>1, <1>2, <1>3, <2>3 DEF IInv
<1>5. CASE Mem!Verdict(q) # "stored"
  <2>1. UNCHANGED registrations /\ reply'.result # "ok"
    <3>1. Mem!Answer("put", q.token, Mem!Verdict(q))
      BY <1>1, <1>5 DEF Mem!Put
    <3>2. Mem!Verdict(q) # "ok"
      BY DEF Mem!Verdict
    <3> HIDE DEF q
    <3> QED
      BY <3>1, <3>2 DEF Mem!Answer
  <2>2. UNCHANGED <<origin, heard>>
    BY <2>1 DEF Write
  <2> QED
    BY <1>1, <1>2, <1>3, <2>1, <2>2 DEF IInv, RowAdmitted, Admitted
<1> QED
  BY <1>4, <1>5

LEMMA UnregisterPreserves ==
    ASSUME IInv, NEW t \in Token, NEW secret, Unregister(t, secret)
    PROVE  IInv'
<1>1. \A u \in Token : registrations'[u] \in {registrations[u], Absent}
  BY DEF Unregister, Mem!DeleteIfOwned, Mem!Answer, Mem!Without
<1> QED
  BY <1>1, SomeRowsGo DEF Unregister, Mem!DeleteIfOwned

LEMMA PrunePreserves ==
    ASSUME IInv, Prune
    PROVE  IInv'
<1>1. \A u \in Token : registrations'[u] \in {registrations[u], Absent}
  BY DEF Prune, Mem!Prune, Mem!Answer, Mem!Without
<1> QED
  BY <1>1, SomeRowsGo DEF Prune, Mem!Prune

LEMMA TickPreserves ==
    ASSUME IInv, Tick
    PROVE  IInv'
<1>1. /\ now' = now + 1 /\ UNCHANGED <<registrations, policy, pending, origin, heard>>
      /\ \A h \in Handler : pending[h] # None => now - pending[h].seen < MaxDelay
  BY DEF Tick, Mem!Tick
<1>2. PendingAdmitted'
  BY <1>1, DelayAssumption DEF IInv, PendingAdmitted, Admitted
<1>3. \A t \in Token : registrations'[t] # Absent => RowAdmitted(t)'
  BY <1>1 DEF IInv, RowAdmitted, Admitted
<1> QED
  BY <1>1, <1>2, <1>3 DEF IInv

LEMMA StutterPreserves ==
    ASSUME IInv, UNCHANGED vars
    PROVE  IInv'
BY DEF vars, store, IInv, PendingAdmitted, RowAdmitted, Admitted

\* The inductive invariant holds: rows and what handlers are about to put have the
\* expiry they were admitted with.
THEOREM Invariance == Spec => []IInv
<1>1. IInv /\ [Next]_vars => IInv'
  BY ArrivePreserves, WritePreserves, UnregisterPreserves, PrunePreserves, TickPreserves,
     StutterPreserves DEF Next
<1> QED
  BY InitEstablishes, <1>1, PTL DEF Spec

----------------------------------------------------------------------------

\* What was admitted once would be admitted again, the age of Apple's signature
\* aside, for as long as its expiry is not reached.
LEMMA AdmittedUntilExpiry ==
    ASSUME policy \in Policy, now \in Nat, NEW r, NEW s, NEW e, Admitted(r, s, e)
    PROVE  (e = 0 \/ now < e) <=> Proof!Admit([policy EXCEPT !.maxSignedAge = 0], r, now)
<1> DEFINE p == [policy EXCEPT !.maxSignedAge = 0]
<1>1. /\ p.secret = policy.secret /\ p.apple = policy.apple /\ p.grace = policy.grace
      /\ p.allowSandbox = policy.allowSandbox /\ p.maxSignedAge = 0 /\ policy.grace \in Nat
  BY PolicyAssumption
<1> HIDE DEF p
<1>2. /\ Proof!Open(p) <=> Proof!Open(policy)
      /\ Proof!BySecret(p, r) <=> Proof!BySecret(policy, r)
      /\ Proof!MeansSecret(p, r) <=> Proof!MeansSecret(policy, r)
  BY <1>1 DEF Proof!Open, Proof!BySecret, Proof!MeansSecret
<1>3. CASE Proof!Open(policy) \/ Proof!BySecret(policy, r)
  <2>1. e = 0
    BY <1>3 DEF Admitted, Proof!ExpiresAt
  <2> QED
    BY <1>2, <1>3, <2>1 DEF Proof!Admit, p
<1>4. CASE ~Proof!Open(policy) /\ ~Proof!BySecret(policy, r)
  <2> DEFINE tx == r.transaction
  <2>1. Proof!BySubscription(policy, r, s) /\ e = tx.expires + policy.grace
    BY <1>4 DEF Admitted, Proof!Admit, Proof!ExpiresAt
  <2>2. tx # Blank /\ tx.expires # 0 /\ tx.expires \in Nat
    BY <2>1, PolicyAssumption DEF Admitted, Proof!BySubscription, Proof!Verify
  <2>3. e # 0 /\ (now < e <=> Proof!Unexpired(p, tx, now))
    BY <1>1, <2>1, <2>2 DEF Proof!Unexpired
  <2>4. Proof!RecentlySigned(p, tx, now)
    BY <1>1 DEF Proof!RecentlySigned
  <2>5. Proof!Unexpired(p, tx, now) <=> Proof!BySubscription(p, r, now)
    BY <1>1, <1>2, <2>1, <2>4 DEF Proof!BySubscription, Proof!Verify
  <2> QED
    BY <1>2, <1>4, <2>3, <2>5 DEF Proof!Admit, p
<1> QED
  BY <1>3, <1>4

\* entitlement.go, store.go and deliver agree: a row is delivered to for exactly as
\* long as the proof it was made with would be admitted.
THEOREM ServedAsAdmittedHolds == Spec => []ServedAsAdmitted
<1>1. ASSUME IInv PROVE ServedAsAdmitted
  <2> SUFFICES ASSUME NEW t \in Token, registrations[t] # Absent
               PROVE  Delivers(registrations[t]) <=> StillAdmitted(t)
    BY DEF ServedAsAdmitted, Held, Mem!Held
  <2>1. PICK s \in Nat : Admitted(origin[t], s, registrations[t].expires)
    BY <1>1 DEF IInv, RowAdmitted
  <2> QED
    BY <1>1, <2>1, AdmittedUntilExpiry DEF IInv, Delivers, StillAdmitted
<1> QED
  BY Invariance, <1>1, PTL

\* Prune takes no row early: not one answered less than a lifetime ago, a handler's
\* delay aside, and not one whose proof would still be admitted.
THEOREM PrunedOnlyWhenOverHolds == Spec => PrunedOnlyWhenOver
<1>1. ASSUME IInv, NEW t \in Token, Prune, t \in Held, registrations'[t] = Absent
      PROVE  now > heard[t] + Lifetime - MaxDelay \/ ~StillAdmitted(t)
  <2> DEFINE row == registrations[t]
  <2>1. row # Absent /\ RowAdmitted(t) /\ now \in Nat
    BY <1>1 DEF Held, Mem!Held, IInv
  <2>2. Mem!Stale(row)
    BY <1>1, <2>1 DEF Prune, Mem!Prune, Mem!Answer, Mem!Without, Mem!Prunable, Mem!Held
  <2>3. CASE row.seen + Lifetime < now
    BY <2>1, <2>3, DelayAssumption, LifetimeAssumption DEF RowAdmitted
  <2>4. CASE row.expires # 0 /\ row.expires < now
    <3>1. PICK s \in Nat : Admitted(origin[t], s, row.expires)
      BY <2>1 DEF RowAdmitted
    <3>2. ~(row.expires = 0 \/ now < row.expires)
      <4>1. row.expires \in Int
        BY <1>1, <3>1, PolicyAssumption DEF IInv, Admitted, Proof!ExpiresAt, Proof!Admit, Proof!BySubscription
      <4> QED
        BY <2>1, <2>4, <4>1
    <3> QED
      BY <1>1, <3>1, <3>2, AdmittedUntilExpiry DEF IInv, StillAdmitted
  <2> QED
    BY <2>2, <2>3, <2>4 DEF Mem!Stale
<1>2. IInv /\ [Next]_vars =>
        [\A t \in Token :
            Prune /\ t \in Held /\ registrations'[t] = Absent =>
                now > heard[t] + Lifetime - MaxDelay \/ ~StillAdmitted(t)]_vars
  BY <1>1
<1> QED
  BY Invariance, <1>2, PTL DEF Spec, PrunedOnlyWhenOver

----------------------------------------------------------------------------
(* The table. *)

Requests == {Proper(r, t, e) : r \in Request, t \in Token, e \in Expiry}

\* What a handler is about to put is a request that Store's callers may make, with
\* a time that a clock may have said.
Puttable ==
    /\ now \in 0..MaxTime
    /\ \A h \in Handler : pending[h] # None =>
          pending[h].row \in Requests /\ pending[h].seen \in Mem!Reading

LEMMA ArrivePuttable ==
    ASSUME IInv, Puttable, NEW h \in Handler, NEW r \in Registration[policy], NEW t \in Token,
           Arrive(h, r, t)
    PROVE  Puttable'
<1> DEFINE row == Proper(r, t, Proof!ExpiresAt(policy, r))
           p == [row |-> row, seen |-> now, of |-> r]
<1>1. UNCHANGED now
  BY DEF Arrive, store
<1>2. CASE UNCHANGED pending
  BY <1>1, <1>2 DEF Puttable, Mem!Reading, Mem!Time
<1>3. CASE pending' = [pending EXCEPT ![h] = p] /\ Proof!Admit(policy, r, now)
  <2>1. row \in Requests
    <3>1. policy \in Policy /\ r \in Request
      BY DEF IInv, Request
    <3>2. Proof!ExpiresAt(policy, r) \in Expiry
      BY <1>3, <3>1, ExpiryAssumption DEF Puttable
    <3> QED
      BY <3>1, <3>2 DEF Requests
  <2>2. now \in Mem!Reading
    BY DelayAssumption DEF Puttable, Mem!Reading, Mem!Time
  <2>3. \A g \in Handler : pending'[g] = IF g = h THEN p ELSE pending[g]
    BY <1>3 DEF IInv
  <2>4. p.row = row /\ p.seen = now
    OBVIOUS
  <2> HIDE DEF row, p
  <2> QED
    BY <1>1, <2>1, <2>2, <2>3, <2>4 DEF Puttable, Mem!Reading, Mem!Time
<1> QED
  BY <1>2, <1>3 DEF Arrive, Refuse

LEMMA PuttablePreserved ==
    ASSUME IInv, Puttable, [Next]_vars
    PROVE  Puttable'
<1>1. ASSUME UNCHANGED now,
             \A h \in Handler : pending'[h] \in {pending[h], None}
      PROVE  Puttable'
  BY <1>1 DEF Puttable, Mem!Reading, Mem!Time
<1>2. ASSUME NEW h \in Handler, Write(h) PROVE Puttable'
  <2>1. UNCHANGED now /\ pending' = [pending EXCEPT ![h] = None]
    BY <1>2 DEF Write, Mem!Put
  <2> QED
    BY <1>1, <2>1 DEF IInv
<1>3. ASSUME NEW t \in Token, NEW secret, Unregister(t, secret) PROVE Puttable'
  BY <1>1, <1>3 DEF Unregister, Mem!DeleteIfOwned
<1>4. CASE Prune
  BY <1>1, <1>4 DEF Prune, Mem!Prune
<1>5. CASE Tick
  <2>1. /\ now < MaxTime /\ now' = now + 1 /\ UNCHANGED pending
        /\ \A h \in Handler : pending[h] # None => now - pending[h].seen < MaxDelay
    BY <1>5 DEF Tick, Mem!Tick
  <2> QED
    BY <2>1, TableAssumption, DelayAssumption DEF Puttable, Mem!Reading, Mem!Time
<1>6. CASE UNCHANGED vars
  BY <1>1, <1>6 DEF vars, store
<1> QED
  BY <1>2, <1>3, <1>4, <1>5, <1>6, ArrivePuttable DEF Next

\* handleRegister, handleUnregister and the ticker do to the table what Store says,
\* however long a handler has held its reading of the clock: the theorems about
\* Store are about this table too.
THEOREM TableAsSpecified == Spec => Mem!Spec
<1>1. Init => Mem!Init
  BY DEF Init
<1>2. Init => Puttable
  BY TableAssumption DEF Init, Mem!Init, Puttable
<1>3. Spec => []Puttable
  BY <1>2, PuttablePreserved, Invariance, PTL DEF Spec
<1>4. Puttable /\ [Next]_vars => [Mem!Next]_(Mem!vars)
  <2> SUFFICES ASSUME Puttable, [Next]_vars PROVE [Mem!Next]_(Mem!vars)
    OBVIOUS
  <2>1. ASSUME NEW h \in Handler, Write(h) PROVE Mem!Next
    <3>1. /\ pending[h].row \in Requests /\ pending[h].seen \in Mem!Reading
          /\ Mem!Put(pending[h].row, pending[h].seen)
      BY <2>1 DEF Write, Seen, Puttable
    <3> QED
      BY <3>1 DEF Mem!Next, Requests
  <2>2. ASSUME NEW h \in Handler, NEW r \in Registration[policy], NEW t \in Token,
               Arrive(h, r, t)
        PROVE  UNCHANGED Mem!vars
    BY <2>2 DEF Arrive, store, Mem!vars
  <2>3. ASSUME NEW t \in Token, NEW secret \in Mem!Secrets, Unregister(t, secret)
        PROVE  Mem!Next
    BY <2>3 DEF Unregister, Mem!Next
  <2>4. CASE Prune
    BY <2>4 DEF Prune, Mem!Next
  <2>5. CASE Tick
    BY <2>5 DEF Tick, Mem!Next
  <2>6. CASE UNCHANGED vars
    BY <2>6 DEF vars, store, Mem!vars
  <2> QED
    BY <2>1, <2>2, <2>3, <2>4, <2>5, <2>6 DEF Next
<1> QED
  BY <1>1, <1>3, <1>4, PTL DEF Spec, Mem!Spec

\* StoreProofs, of the registrar's table.
Proved == INSTANCE StoreProofs WITH Request <- Requests, CanFail <- FALSE, CanRestart <- FALSE

TablePromises ==
    /\ []Mem!TypeOK
    /\ []Mem!OneRowPerDevice
    /\ []Mem!WithinSiteLimit
    /\ []Mem!WithinPrimaryLimit
    /\ []Mem!KnownDeviceNotTurnedAway
    /\ []Mem!AnsweredIsDurable
    /\ []Mem!RetainedNoLonger
    /\ Mem!OwnerKept

\* Both instances of Store are of one table: definition for definition they agree.
LEMMA SameTable ==
    /\ Mem!Spec => Proved!Spec
    /\ /\ []Proved!TypeOK
       /\ []Proved!OneRowPerDevice
       /\ []Proved!WithinSiteLimit
       /\ []Proved!WithinPrimaryLimit
       /\ []Proved!KnownDeviceNotTurnedAway
       /\ []Proved!AnsweredIsDurable
       /\ []Proved!RetainedNoLonger
       /\ Proved!OwnerKept
       => TablePromises
<1> USE DEF Mem!Cardinality, Proved!Cardinality, Mem!RowOf, Proved!RowOf,
      Mem!HashSecret, Proved!HashSecret, Mem!GmailAddress, Proved!GmailAddress,
      Mem!GmailAccounts, Proved!GmailAccounts, Mem!NormalisedAccounts,
      Proved!NormalisedAccounts, Mem!Row, Proved!Row, Mem!Time, Proved!Time, Mem!Mode,
      Proved!Mode, Mem!Watches, Proved!Watches, Mem!Held, Proved!Held, Mem!Superseded,
      Proved!Superseded, Mem!NotOwner, Proved!NotOwner, Mem!After, Proved!After,
      Mem!ForAddress, Proved!ForAddress, Mem!Malformed, Proved!Malformed,
      Mem!TooManyAccounts, Proved!TooManyAccounts, Mem!Full, Proved!Full,
      Mem!TooManyForAddress, Proved!TooManyForAddress, Mem!Verdict, Proved!Verdict,
      Mem!Stored, Proved!Stored, Mem!Without, Proved!Without, Mem!Empty, Proved!Empty,
      Mem!NoReply, Proved!NoReply, Mem!FlushLocked, Proved!FlushLocked, Mem!Answer,
      Proved!Answer, Mem!Init, Proved!Init, Mem!Put, Proved!Put, Mem!DeleteIfOwned,
      Proved!DeleteIfOwned, Mem!Delete, Proved!Delete, Mem!Stale, Proved!Stale,
      Mem!Prunable, Proved!Prunable, Mem!Prune, Proved!Prune, Mem!Restart,
      Proved!Restart, Mem!Tick, Proved!Tick, Mem!Reading, Proved!Reading, Mem!Secrets,
      Proved!Secrets, Mem!Next, Proved!Next, Mem!vars, Proved!vars, Mem!Spec,
      Proved!Spec, Mem!Tables, Proved!Tables, Mem!OneRowPerDevice,
      Proved!OneRowPerDevice, Mem!WithinSiteLimit, Proved!WithinSiteLimit,
      Mem!WithinPrimaryLimit, Proved!WithinPrimaryLimit, Mem!KnownDeviceNotTurnedAway,
      Proved!KnownDeviceNotTurnedAway, Mem!OwnedBy, Proved!OwnedBy, Mem!OwnerKept,
      Proved!OwnerKept, Mem!AnsweredIsDurable, Proved!AnsweredIsDurable,
      Mem!RetainedNoLonger, Proved!RetainedNoLonger, Mem!Operation, Proved!Operation,
      Mem!Result, Proved!Result, Mem!TypeOK, Proved!TypeOK
<1> QED
  BY PTL DEF Requests, TablePromises

\* What Store assumes holds of the registrar's tokens, requests and bounds.
LEMMA AsAssumed ==
    /\ Proved!IsFiniteSet(Token) /\ Absent \notin Token /\ Blank \notin Address
    /\ \A q \in Requests :
          /\ DOMAIN q = {"token", "device", "topic", "mode", "secret",
                         "gmail", "accounts", "expires"}
          /\ q.token \in Token
          /\ q.expires \in Nat
    /\ MaxRegistrations \in Nat /\ MaxPerAddress \in Nat /\ MaxGmailAccounts \in Nat
    /\ MaxTime \in Nat /\ MaxDelay \in Nat /\ Lifetime \in Nat /\ PrunePeriod \in Nat \ {0}
    /\ \A q \in Requests, seen \in Proved!Time : Proved!RowOf(q, seen) # Absent
<1>1. Proved!IsFiniteSet(Token)
  BY TableAssumption DEF IsFiniteSet, Proved!IsFiniteSet
<1>2. ASSUME NEW r \in Request, NEW t \in Token, NEW e \in Expiry
      PROVE  /\ DOMAIN Proper(r, t, e) = {"token", "device", "topic", "mode", "secret",
                                          "gmail", "accounts", "expires"}
             /\ Proper(r, t, e).token \in Token
             /\ Proper(r, t, e).expires \in Nat
  BY ExpiryAssumption DEF Proper
<1>3. \A q, seen : Proved!RowOf(q, seen) = Mem!RowOf(q, seen)
  BY DEF Proved!RowOf, Proved!HashSecret, Proved!GmailAddress, Proved!GmailAccounts,
         Proved!NormalisedAccounts, Mem!RowOf, Mem!HashSecret, Mem!GmailAddress,
         Mem!GmailAccounts, Mem!NormalisedAccounts
<1>4. \A q \in Requests, seen \in Proved!Time : Proved!RowOf(q, seen) # Absent
  BY <1>3, RowAssumption DEF Requests, Proved!Time
<1> QED
  BY <1>1, <1>2, <1>4, TableAssumption, DelayAssumption, LifetimeAssumption DEF Requests

\* What Store promises holds of the relay's table as the handlers and the ticker use
\* it, a handler's delay included: no device in two rows, the limits, no known device
\* turned away, an answer that a restart keeps, owners, and how long rows stay.
THEOREM TablePromisesHold == Spec => TablePromises
<1>1. Proved!Spec => []Proved!TypeOK
  BY AsAssumed, Proved!TypeCorrect
<1>2. Proved!Spec => []Proved!OneRowPerDevice
  BY AsAssumed, Proved!OneRowPerDeviceHolds
<1>3. Proved!Spec => []Proved!WithinSiteLimit
  BY AsAssumed, Proved!WithinSiteLimitHolds
<1>4. Proved!Spec => []Proved!WithinPrimaryLimit
  BY AsAssumed, Proved!WithinPrimaryLimitHolds
<1>5. Proved!Spec => []Proved!KnownDeviceNotTurnedAway
  BY AsAssumed, Proved!KnownDeviceNotTurnedAwayHolds
<1>6. Proved!Spec => []Proved!AnsweredIsDurable
  BY AsAssumed, Proved!AnsweredIsDurableHolds
<1>7. Proved!Spec => []Proved!RetainedNoLonger
  BY AsAssumed, Proved!RetainedNoLongerHolds
<1>8. Proved!Spec => Proved!OwnerKept
  BY AsAssumed, Proved!OwnerKeptHolds
<1> QED
  BY <1>1, <1>2, <1>3, <1>4, <1>5, <1>6, <1>7, <1>8, SameTable, TableAsSpecified, PTL
=============================================================================
