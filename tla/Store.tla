------------------------------- MODULE Store -------------------------------
(***************************************************************************)
(* The routing table of the relay, internal/store/store.go: a map from     *)
(* delivery tokens to registrations kept in memory under one mutex, and    *)
(* the JSON file every change rewrites.  The mutex is held from the first  *)
(* check of an operation to the end of its flush, so each operation is one *)
(* atomic step here; a crash before the rename inside a flush is a failed  *)
(* flush followed by Restart.                                              *)
(*                                                                         *)
(* Left out: CreatedAt (written, read by nobody), Sandbox and the account  *)
(* tags (carried, never branched on), and the file's JSON.                 *)
(***************************************************************************)
EXTENDS Integers, Sequences, FiniteSets

CONSTANTS
    Token,            \* delivery tokens, the keys of the table
    Blank,            \* the empty string, in any field that may be left empty
    Absent,           \* what a token with no row maps to
    Address,          \* Gmail addresses as Put stores them
    Spelling,         \* the ways a client may write one, Blank included
    Normalise,        \* strings.ToLower(strings.TrimSpace(_)) on spellings
    Request,          \* the registrations callers may hand to Put
    MaxRegistrations, \* rows the site holds; 0 is no limit
    MaxPerAddress,    \* rows one address may have; 0 is no limit
    MaxGmailAccounts, \* mailboxes one row may list; 0 is no limit
    Lifetime,         \* main.go's registrationLifetime, in clock units
    PrunePeriod,      \* the period of main.go's prune ticker
    MaxTime,          \* bound on the clock of the model
    MaxDelay,         \* how long a caller may take from its clock to Put
    CanFail,          \* whether a flush may fail
    CanRestart        \* whether the process may stop and start again

VARIABLES
    registrations, \* the map in memory
    file,          \* what Open would read
    now,           \* the wall clock
    ticker,        \* time left until the prune ticker fires
    reply          \* what the last operation returned

vars == <<registrations, file, now, ticker, reply>>

Mode == {"alert", "background"}
Time == 0..MaxTime

ASSUME TokenAssumption == IsFiniteSet(Token)
ASSUME TokenIsNotAbsent == Absent \notin Token
ASSUME RequestAssumption ==
    \A q \in Request :
        /\ DOMAIN q = {"token", "device", "topic", "mode", "secret",
                       "gmail", "accounts", "expires"}
        /\ q.token \in Token
ASSUME AddressAssumption == Blank \notin Address
ASSUME LimitAssumption ==
    /\ MaxRegistrations \in Nat
    /\ MaxPerAddress \in Nat
    /\ MaxGmailAccounts \in Nat
ASSUME TimeAssumption ==
    /\ MaxTime \in Nat
    /\ MaxDelay \in Nat
    /\ Lifetime \in Nat
    /\ PrunePeriod \in Nat \ {0}
ASSUME SwitchAssumption == CanFail \in BOOLEAN /\ CanRestart \in BOOLEAN

----------------------------------------------------------------------------
(* One registration, as Put stores it. *)

\* A digest is as good as the secret it was made from to whoever compares
\* digests; the empty secret is the one that has none.
HashSecret(secret) == IF secret = Blank THEN Blank ELSE <<"sha256", secret>>

\* The addresses of the listed accounts, each normalised, the empty ones gone.
NormalisedAccounts(q) ==
    SelectSeq([i \in 1..Len(q.accounts) |-> Normalise[q.accounts[i]]],
              LAMBDA address : address # Blank)

\* A lone gmailAddress is promoted to a list of one.
GmailAccounts(q) ==
    IF NormalisedAccounts(q) = <<>> /\ Normalise[q.gmail] # Blank
    THEN <<Normalise[q.gmail]>>
    ELSE NormalisedAccounts(q)

\* The first of a list is mirrored into an empty gmailAddress.
GmailAddress(q) ==
    IF Normalise[q.gmail] = Blank /\ NormalisedAccounts(q) # <<>>
    THEN NormalisedAccounts(q)[1]
    ELSE Normalise[q.gmail]

RowOf(q, seen) ==
    [device     |-> q.device,
     topic      |-> q.topic,
     mode       |-> q.mode,
     secretHash |-> HashSecret(q.secret),
     gmail      |-> GmailAddress(q),
     accounts   |-> GmailAccounts(q),
     seen       |-> seen,
     expires    |-> q.expires]

Row == {RowOf(q, seen) : q \in Request, seen \in Time}

ASSUME AbsentAssumption == \A q \in Request, seen \in Time : RowOf(q, seen) # Absent

Watches(row, address) ==
    \/ row.gmail = address
    \/ \E i \in 1..Len(row.accounts) : row.accounts[i] = address

----------------------------------------------------------------------------
(* What Put decides, in the order it decides it. *)

Held(table) == {t \in Token : table[t] # Absent}

\* ByGmail: the rows a message for the address wakes.
Watchers(address) == {t \in Held(registrations) : Watches(registrations[t], address)}

\* Mistake: replaces only rows that carry the request's secret.
SupersededBySecret(q) ==
    {t \in Held(registrations) \ {q.token} :
        /\ registrations[t].device = q.device /\ registrations[t].topic = q.topic
        /\ registrations[t].secretHash = HashSecret(q.secret)}

\* The other rows of the request's device and app: this Put replaces them.
Superseded(q) ==
    {t \in Held(registrations) \ {q.token} :
        registrations[t].device = q.device /\ registrations[t].topic = q.topic}

\* Mistake: asks for the secret only of clients that send one.
NotOwnerIfSent(t, secret) ==
    /\ registrations[t] # Absent
    /\ secret # Blank
    /\ registrations[t].secretHash # Blank
    /\ registrations[t].secretHash # HashSecret(secret)

\* The row is somebody's, and the request does not carry their secret.
NotOwner(t, secret) ==
    /\ registrations[t] # Absent
    /\ registrations[t].secretHash # Blank
    /\ registrations[t].secretHash # HashSecret(secret)

\* Mistake: counts the rows the put replaces as if they stayed.
AfterGross(q) ==
    Cardinality(Held(registrations)) + 1
        - (IF q.token \in Held(registrations) THEN 1 ELSE 0)

\* How many rows there will be: net of the ones that leave.
After(q) ==
    Cardinality(Held(registrations)) + 1 - Cardinality(Superseded(q))
        - (IF q.token \in Held(registrations) THEN 1 ELSE 0)

\* Mistake: counts the others and forgets the request itself.
OthersForAddress(q) ==
    Cardinality({t \in Held(registrations) \ (Superseded(q) \union {q.token}) :
                    Watches(registrations[t], GmailAddress(q))})

\* The rows that will watch the request's gmailAddress, itself among them.
ForAddress(q) ==
    1 + Cardinality({t \in Held(registrations) \ (Superseded(q) \union {q.token}) :
                        Watches(registrations[t], GmailAddress(q))})

Malformed(q) == q.token = Blank \/ q.device = Blank \/ q.topic = Blank \/ q.mode \notin Mode
TooManyAccounts(q) == MaxGmailAccounts > 0 /\ Len(GmailAccounts(q)) > MaxGmailAccounts
\* Mistake: compares the rows there are, not the rows there will be.
OverfullNow(q) ==
    MaxRegistrations > 0 /\ Cardinality(Held(registrations)) > MaxRegistrations

Full(q) == MaxRegistrations > 0 /\ After(q) > MaxRegistrations
TooManyForAddress(q) ==
    /\ GmailAddress(q) # Blank
    /\ MaxPerAddress > 0
    /\ ForAddress(q) > MaxPerAddress

Verdict(q) ==
    IF Malformed(q)                         THEN "malformed"
    ELSE IF NotOwner(q.token, q.secret)     THEN "wrong secret"
    ELSE IF TooManyAccounts(q)              THEN "too many accounts"
    ELSE IF Full(q)                         THEN "full"
    ELSE IF TooManyForAddress(q)            THEN "too many for address"
    ELSE "stored"

\* Mistake: keeps the secret itself.
StoredWithSecret(q, seen) ==
    [t \in Token |-> IF t = q.token THEN [RowOf(q, seen) EXCEPT !.secretHash = q.secret]
                     ELSE IF t \in Superseded(q) THEN Absent
                     ELSE registrations[t]]

Stored(q, seen) ==
    [t \in Token |-> IF t = q.token THEN RowOf(q, seen)
                     ELSE IF t \in Superseded(q) THEN Absent
                     ELSE registrations[t]]

Without(gone) ==
    [t \in Token |-> IF t \in gone THEN Absent ELSE registrations[t]]

----------------------------------------------------------------------------
(* The operations. *)

Empty == [t \in Token |-> Absent]
NoReply == [op |-> "none", token |-> Absent, result |-> "none"]

\* Mistake: an error of the write is logged and not returned.
FlushUnchecked(op, t) ==
    /\ \/ file' = registrations'
       \/ CanFail /\ file' = file
    /\ reply' = [op |-> op, token |-> t, result |-> "ok"]

\* Memory already holds the change when the file is written, and keeps it when
\* the write fails; a temporary file renamed into place leaves the old file whole.
FlushLocked(op, t) ==
    \/ /\ file' = registrations'
       /\ reply' = [op |-> op, token |-> t, result |-> "ok"]
    \/ /\ CanFail
       /\ file' = file
       /\ reply' = [op |-> op, token |-> t, result |-> "io"]

Answer(op, t, result) ==
    /\ reply' = [op |-> op, token |-> t, result |-> result]
    /\ UNCHANGED <<registrations, file>>

\* A new site: no file, and a process that has just opened it.
Init ==
    /\ registrations = Empty
    /\ file = Empty
    /\ now = 0
    /\ ticker = PrunePeriod
    /\ reply = NoReply

Put(q, seen) ==
    /\ IF Verdict(q) = "stored"
       THEN /\ registrations' = Stored(q, seen)
            /\ FlushLocked("put", q.token)
       ELSE Answer("put", q.token, Verdict(q))
    /\ UNCHANGED <<now, ticker>>

DeleteIfOwned(t, secret) ==
    /\ IF registrations[t] = Absent THEN Answer("unregister", t, "ok")
       ELSE IF NotOwner(t, secret)  THEN Answer("unregister", t, "wrong secret")
       ELSE /\ registrations' = Without({t})
            /\ FlushLocked("unregister", t)
    /\ UNCHANGED <<now, ticker>>

\* Apple has said that the device is gone.
Delete(t) ==
    /\ IF registrations[t] = Absent THEN Answer("delete", t, "ok")
       ELSE /\ registrations' = Without({t})
            /\ FlushLocked("delete", t)
    /\ UNCHANGED <<now, ticker>>

\* Mistake: a proof that has run out is no reason to go.
StaleUnseen(row) == row.seen + Lifetime < now

\* Not seen for a whole lifetime, or registered with a proof that has run out.
Stale(row) ==
    \/ row.seen + Lifetime < now
    \/ row.expires # 0 /\ row.expires < now

Prunable == {t \in Held(registrations) : Stale(registrations[t])}

Prune ==
    /\ ticker = 0
    /\ ticker' = PrunePeriod
    /\ IF Prunable = {} THEN Answer("prune", Absent, "ok")
       ELSE /\ registrations' = Without(Prunable)
            /\ FlushLocked("prune", Absent)
    /\ UNCHANGED now

\* The process stops, at any moment, and systemd starts it again: Open reads
\* the file, and a new ticker starts a whole period from its first tick.
Restart ==
    /\ CanRestart
    /\ registrations' = file
    /\ ticker' = PrunePeriod
    /\ reply' = NoReply
    /\ UNCHANGED <<file, now>>

\* The prune goroutine has nothing else to do: it does not sleep through a tick.
Tick ==
    /\ now < MaxTime
    /\ ticker > 0
    /\ now' = now + 1
    /\ ticker' = ticker - 1
    /\ UNCHANGED <<registrations, file, reply>>

\* What the clock of a caller of Put may have said: Put takes SeenAt as it comes.
Reading == {seen \in Time : seen <= now /\ now <= seen + MaxDelay}

Secrets == {q.secret : q \in Request} \union {Blank}

Next ==
    \/ \E q \in Request, seen \in Reading : Put(q, seen)
    \/ \E t \in Token, secret \in Secrets : DeleteIfOwned(t, secret)
    \/ \E t \in Token : Delete(t)
    \/ Prune
    \/ Restart
    \/ Tick

Spec == Init /\ [][Next]_vars

----------------------------------------------------------------------------
(* Properties. *)

Tables == {registrations, file}
Operation == {"none", "put", "unregister", "delete", "prune"}
Result == {"none", "ok", "io", "malformed", "wrong secret", "too many accounts",
           "full", "too many for address"}

\* Memory and file hold rows Put made or nothing, and the clocks are in range.
TypeOK ==
    /\ registrations \in [Token -> Row \union {Absent}]
    /\ file \in [Token -> Row \union {Absent}]
    /\ now \in Time
    /\ ticker \in 0..PrunePeriod
    /\ reply \in [op : Operation, token : Token \union {Absent}, result : Result]

\* One registration per device per app (Put's supersede loop): neither the
\* table nor the file a restart would read, which may be older, ever names one
\* device and topic in two rows, so no change wakes a device twice.
OneRowPerDevice ==
    \A table \in Tables : \A s, t \in Held(table) :
        table[s].device = table[t].device /\ table[s].topic = table[t].topic => s = t

\* The site never holds more rows than MaxRegistrations, although Put counts
\* them net of the rows it is about to supersede and of the one it rewrites.
WithinSiteLimit ==
    MaxRegistrations > 0 =>
        \A table \in Tables : Cardinality(Held(table)) <= MaxRegistrations

\* No more than MaxPerAddress rows have one gmailAddress: what the count in
\* Put does bound, over any order of registrations that move between addresses.
WithinPrimaryLimit ==
    MaxPerAddress > 0 =>
        \A table \in Tables : \A a \in Address :
            Cardinality({t \in Held(table) : table[t].gmail = a}) <= MaxPerAddress

\* A device already here is always allowed to re-register (ErrFull): a full
\* site turns away neither the token it holds nor a device back under a new one.
KnownDeviceNotTurnedAway ==
    \A q \in Request :
        q.token \in Held(registrations) \/ Superseded(q) # {} => Verdict(q) # "full"

OwnedBy(table, t, hash) == table[t] # Absent /\ table[t].secretHash = hash

\* A row with an owner, in memory and in the file, keeps that owner for as long
\* as it is there: no registration, failed flush or restart hands it to another.
OwnerKept ==
    [][\A t \in Token : \A hash \in {HashSecret(secret) : secret \in Secrets} \ {Blank} :
         OwnedBy(registrations, t, hash) /\ OwnedBy(file, t, hash) =>
             \A table \in {registrations', file'} :
                 table[t] = Absent \/ OwnedBy(table, t, hash)]_vars

\* A registration that was answered is the row a restart reads: an old row of
\* the same device or an older one of the token does not come back instead.
AnsweredIsDurable ==
    reply.op = "put" /\ reply.result = "ok" => file = registrations

\* Rows leave, from memory and from the file, within one period of the ticker
\* after a lifetime from the last registration, or after the end of the proof if
\* that is first; or after they were written, if they were over by then.  For a
\* process that neither restarts nor fails to write.
RetainedNoLonger ==
    \A table \in Tables : \A t \in Held(table) :
        \/ now <= table[t].seen + MaxDelay + PrunePeriod
        \/ /\ now <= table[t].seen + Lifetime + PrunePeriod
           /\ table[t].expires # 0 => now <= table[t].expires + PrunePeriod
=============================================================================
