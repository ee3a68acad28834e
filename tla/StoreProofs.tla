---------------------------- MODULE StoreProofs ----------------------------
(***************************************************************************)
(* Theorems about Store for every set of tokens and requests and every     *)
(* value of the limits.                                                    *)
(***************************************************************************)
EXTENDS Store, TLAPS, FiniteSetTheorems

Table == [Token -> Row \union {Absent}]

\* What a put, a removal or a flush writes is a table again: the row of a
\* request, the old rows, and nothing for the ones that leave.
LEMMA StoredIsTable ==
    ASSUME registrations \in Table, NEW q \in Request, NEW seen \in Time
    PROVE  Stored(q, seen) \in Table
  BY DEF Stored, Table, Row

LEMMA WithoutIsTable ==
    ASSUME registrations \in Table, NEW gone
    PROVE  Without(gone) \in Table
  BY DEF Without, Table

\* Whatever stops a put is one of the results an operation may return.
LEMMA RefusalIsResult ==
    ASSUME NEW q \in Request, Verdict(q) # "stored"
    PROVE  Verdict(q) \in Result
<1>1. Verdict(q) \in {"malformed", "wrong secret", "too many accounts", "full",
                      "too many for address", "stored"}
  BY Zenon DEF Verdict
<1> QED
  BY <1>1 DEF Result

\* A flush answers ok or io; the file is the new table, or the old file.
LEMMA FlushTypes ==
    ASSUME NEW op \in Operation, NEW t \in Token \union {Absent}, FlushLocked(op, t),
           registrations' \in Table, file \in Table
    PROVE  /\ file' \in Table
           /\ reply' \in [op : Operation, token : Token \union {Absent}, result : Result]
<1>1. \/ reply' = [op |-> op, token |-> t, result |-> "ok"]
      \/ reply' = [op |-> op, token |-> t, result |-> "io"]
  BY Zenon DEF FlushLocked
<1>2. "ok" \in Result /\ "io" \in Result
  BY DEF Result
<1> QED
  BY <1>1, <1>2 DEF FlushLocked

LEMMA AnswerTypes ==
    ASSUME NEW op \in Operation, NEW t \in Token \union {Absent}, NEW result \in Result,
           Answer(op, t, result), registrations \in Table, file \in Table
    PROVE  /\ registrations' \in Table /\ file' \in Table
           /\ reply' \in [op : Operation, token : Token \union {Absent}, result : Result]
  BY DEF Answer

\* The type invariant of the store: only rows that Put has made are ever in
\* memory or in the file.
THEOREM TypeCorrect == Spec => []TypeOK
<1>1. Init => TypeOK
  BY TimeAssumption DEF Init, TypeOK, Empty, NoReply, Time, Operation, Result
<1>2. TypeOK /\ [Next]_vars => TypeOK'
  <2> SUFFICES ASSUME TypeOK, [Next]_vars
               PROVE  TypeOK'
    OBVIOUS
  <2>0. registrations \in Table /\ file \in Table /\ now \in Time /\ ticker \in 0..PrunePeriod
    BY DEF TypeOK, Table
  <2>a. {"put", "unregister", "delete", "prune"} \subseteq Operation
        /\ {"ok", "wrong secret"} \subseteq Result
    BY DEF Operation, Result
  <2>1. ASSUME NEW q \in Request, NEW seen \in Time, Put(q, seen)
        PROVE  TypeOK'
    <3>0. q.token \in Token /\ now' = now /\ ticker' = ticker
      BY <2>1, RequestAssumption DEF Put
    <3>1. CASE Verdict(q) = "stored"
      <4>1. registrations' = Stored(q, seen) /\ FlushLocked("put", q.token)
        BY <2>1, <3>1 DEF Put
      <4>2. registrations' \in Table
        BY <4>1, <2>0, StoredIsTable
      <4> QED
        BY <4>1, <4>2, <2>0, <2>a, <3>0, FlushTypes DEF TypeOK, Table
    <3>2. CASE Verdict(q) # "stored"
      <4>1. Answer("put", q.token, Verdict(q))
        BY <2>1, <3>2 DEF Put
      <4> QED
        BY <4>1, <2>0, <2>a, <3>0, <3>2, RefusalIsResult, AnswerTypes DEF TypeOK, Table
    <3> QED
      BY <3>1, <3>2
  <2>2. ASSUME NEW t \in Token, NEW secret \in Secrets, DeleteIfOwned(t, secret)
        PROVE  TypeOK'
    <3>0. now' = now /\ ticker' = ticker
      BY <2>2 DEF DeleteIfOwned
    <3>1. CASE registrations' = Without({t}) /\ FlushLocked("unregister", t)
      BY <3>0, <3>1, <2>0, <2>a, WithoutIsTable, FlushTypes DEF TypeOK, Table
    <3>2. CASE \/ Answer("unregister", t, "ok")
               \/ Answer("unregister", t, "wrong secret")
      BY <3>0, <3>2, <2>0, <2>a, AnswerTypes DEF TypeOK, Table
    <3> QED
      BY <2>2, <3>1, <3>2 DEF DeleteIfOwned
  <2>3. ASSUME NEW t \in Token, Delete(t)
        PROVE  TypeOK'
    <3>0. now' = now /\ ticker' = ticker
      BY <2>3 DEF Delete
    <3>1. CASE registrations' = Without({t}) /\ FlushLocked("delete", t)
      BY <3>0, <3>1, <2>0, <2>a, WithoutIsTable, FlushTypes DEF TypeOK, Table
    <3>2. CASE Answer("delete", t, "ok")
      BY <3>0, <3>2, <2>0, <2>a, AnswerTypes DEF TypeOK, Table
    <3> QED
      BY <2>3, <3>1, <3>2 DEF Delete
  <2>4. CASE Prune
    <3>0. now' = now /\ ticker' \in 0..PrunePeriod
      BY <2>4, TimeAssumption DEF Prune
    <3>1. CASE registrations' = Without(Prunable) /\ FlushLocked("prune", Absent)
      BY <3>0, <3>1, <2>0, <2>a, WithoutIsTable, FlushTypes DEF TypeOK, Table
    <3>2. CASE Answer("prune", Absent, "ok")
      BY <3>0, <3>2, <2>0, <2>a, AnswerTypes DEF TypeOK, Table
    <3> QED
      BY <2>4, <3>1, <3>2 DEF Prune
  <2>5. CASE Restart
    <3>1. reply' \in [op : Operation, token : Token \union {Absent}, result : Result]
      BY <2>5 DEF Restart, NoReply, Operation, Result
    <3>2. registrations' = file /\ file' = file /\ now' = now /\ ticker' = PrunePeriod
      BY <2>5 DEF Restart
    <3> QED
      BY <3>1, <3>2, <2>0, TimeAssumption DEF TypeOK, Table
  <2>6. CASE Tick
    BY <2>6, TimeAssumption DEF Tick, TypeOK, Time
  <2>7. CASE UNCHANGED vars
    BY <2>7 DEF vars, TypeOK
  <2> QED
    BY <2>1, <2>2, <2>3, <2>4, <2>5, <2>6, <2>7 DEF Next, Reading
<1> QED
  BY <1>1, <1>2, PTL DEF Spec

----------------------------------------------------------------------------
(* What a step does to the two tables.  Memory is written first, and the   *)
(* file is either the new memory or what it was.                           *)

Writes(table) ==
    /\ registrations' = table
    /\ file' = table \/ file' = file

LEMMA FlushWrites ==
    ASSUME NEW op, NEW t, NEW table, registrations' = table, FlushLocked(op, t)
    PROVE  Writes(table)
  BY DEF FlushLocked, Writes

\* The four things that can happen: a put, a removal, a restart, nothing.
LEMMA StepWrites ==
    ASSUME [Next]_vars
    PROVE  \/ \E q \in Request, seen \in Time : Verdict(q) = "stored" /\ Writes(Stored(q, seen))
           \/ \E gone \in SUBSET Token : Writes(Without(gone))
           \/ registrations' = file /\ file' = file
           \/ registrations' = registrations /\ file' = file
<1>1. ASSUME NEW q \in Request, NEW seen \in Time, Put(q, seen)
      PROVE  \/ Verdict(q) = "stored" /\ Writes(Stored(q, seen))
             \/ registrations' = registrations /\ file' = file
  BY <1>1, FlushWrites DEF Put, Answer
<1>2. ASSUME NEW t \in Token, NEW secret \in Secrets, DeleteIfOwned(t, secret)
      PROVE  \/ Writes(Without({t}))
             \/ registrations' = registrations /\ file' = file
  BY <1>2, FlushWrites DEF DeleteIfOwned, Answer
<1>3. ASSUME NEW t \in Token, Delete(t)
      PROVE  \/ Writes(Without({t}))
             \/ registrations' = registrations /\ file' = file
  BY <1>3, FlushWrites DEF Delete, Answer
<1>4. CASE Prune
  <2>1. Prunable \in SUBSET Token
    BY DEF Prunable, Held
  <2>2. \/ Writes(Without(Prunable))
        \/ registrations' = registrations /\ file' = file
    BY <1>4, FlushWrites DEF Prune, Answer
  <2> QED
    BY <2>1, <2>2
<1>5. CASE Restart
  BY <1>5 DEF Restart
<1>6. CASE Tick
  BY <1>6 DEF Tick
<1>7. CASE UNCHANGED vars
  BY <1>7 DEF vars
<1> QED
  BY <1>1, <1>2, <1>3, <1>4, <1>5, <1>6, <1>7 DEF Next, Reading

----------------------------------------------------------------------------
(* One row per device. *)

Distinct(table) ==
    \A s, t \in Held(table) :
        table[s].device = table[t].device /\ table[s].topic = table[t].topic => s = t

\* A put keeps rows distinct because it removes every row of its device.
LEMMA StoredIsDistinct ==
    ASSUME Distinct(registrations), NEW q \in Request, NEW seen \in Time
    PROVE  Distinct(Stored(q, seen))
<1> DEFINE table == Stored(q, seen)
<1> SUFFICES ASSUME NEW s \in Held(table), NEW t \in Held(table),
                    table[s].device = table[t].device, table[s].topic = table[t].topic
             PROVE  s = t
  BY DEF Distinct
<1>1. s \in Token /\ t \in Token
  BY DEF Held
<1>2. \A u \in Held(table) \ {q.token} :
        /\ table[u] = registrations[u]
        /\ u \in Held(registrations)
        /\ ~(table[u].device = q.device /\ table[u].topic = q.topic)
  BY DEF Held, Stored, Superseded
<1>3. q.token \in Token
         => table[q.token].device = q.device /\ table[q.token].topic = q.topic
  BY DEF Stored, RowOf
<1> QED
  BY <1>1, <1>2, <1>3 DEF Distinct

LEMMA WithoutIsDistinct ==
    ASSUME Distinct(registrations), NEW gone \in SUBSET Token
    PROVE  Distinct(Without(gone))
  BY DEF Distinct, Without, Held

\* No device is ever in two rows, in memory or in the file, for any number of
\* tokens, devices and limits, through failed flushes and restarts.
THEOREM OneRowPerDeviceHolds == Spec => []OneRowPerDevice
<1>1. OneRowPerDevice <=> Distinct(registrations) /\ Distinct(file)
  BY DEF OneRowPerDevice, Distinct, Tables
<1>2. Init => OneRowPerDevice
  BY <1>1 DEF Init, Empty, Distinct, Held
<1>3. TypeOK /\ OneRowPerDevice /\ [Next]_vars => OneRowPerDevice'
  <2> SUFFICES ASSUME TypeOK, Distinct(registrations), Distinct(file), [Next]_vars
               PROVE  Distinct(registrations') /\ Distinct(file')
    BY <1>1 DEF OneRowPerDevice, Distinct, Tables
  <2>1. ASSUME NEW q \in Request, NEW seen \in Time, Writes(Stored(q, seen))
        PROVE  Distinct(registrations') /\ Distinct(file')
    BY <2>1, StoredIsDistinct DEF Writes, TypeOK
  <2>2. ASSUME NEW gone \in SUBSET Token, Writes(Without(gone))
        PROVE  Distinct(registrations') /\ Distinct(file')
    BY <2>2, WithoutIsDistinct DEF Writes
  <2> QED
    BY <2>1, <2>2, StepWrites
<1> QED
  BY <1>2, <1>3, TypeCorrect, PTL DEF Spec

----------------------------------------------------------------------------
(* Owners. *)

\* A row that has an owner is never handed to another: whoever writes it by its
\* token holds the secret, and a restart reads a row of the same owner.
THEOREM OwnerKeptHolds == Spec => OwnerKept
<1> DEFINE Kept ==
      \A t \in Token : \A hash \in {HashSecret(secret) : secret \in Secrets} \ {Blank} :
         OwnedBy(registrations, t, hash) /\ OwnedBy(file, t, hash) =>
             \A table \in {registrations', file'} :
                 table[t] = Absent \/ OwnedBy(table, t, hash)
<1>1. [Next]_vars => Kept
  <2> SUFFICES ASSUME [Next]_vars,
                      NEW t \in Token,
                      NEW hash \in {HashSecret(secret) : secret \in Secrets} \ {Blank},
                      OwnedBy(registrations, t, hash), OwnedBy(file, t, hash),
                      NEW table \in {registrations', file'}
               PROVE  table[t] = Absent \/ OwnedBy(table, t, hash)
    OBVIOUS
  <2>1. ASSUME NEW q \in Request, NEW seen \in Time, Verdict(q) = "stored", Writes(Stored(q, seen))
        PROVE  table[t] = Absent \/ OwnedBy(table, t, hash)
    <3>1. ~NotOwner(q.token, q.secret)
      BY <2>1, Zenon DEF Verdict
    <3>2. t = q.token => HashSecret(q.secret) = hash
      BY <3>1 DEF NotOwner, OwnedBy
    <3>3. Stored(q, seen)[t] = Absent \/ OwnedBy(Stored(q, seen), t, hash)
      BY <3>2 DEF Stored, OwnedBy, RowOf
    <3> QED
      BY <2>1, <3>3 DEF Writes
  <2>2. ASSUME NEW gone \in SUBSET Token, Writes(Without(gone))
        PROVE  table[t] = Absent \/ OwnedBy(table, t, hash)
    BY <2>2 DEF Writes, Without, OwnedBy
  <2> QED
    BY <2>1, <2>2, StepWrites
<1>2. Spec => [][Kept]_vars
  BY <1>1, PTL DEF Spec
<1> QED
  BY <1>2 DEF OwnerKept

----------------------------------------------------------------------------
(* The limits. *)

\* A put adds the row it is about and takes out the ones it supersedes.
LEMMA HeldAfterStored ==
    ASSUME NEW q \in Request, NEW seen \in Time
    PROVE  Held(Stored(q, seen)) = (Held(registrations) \ Superseded(q)) \union {q.token}
<1>1. q.token \in Token /\ RowOf(q, seen) # Absent
  BY RequestAssumption, AbsentAssumption
<1>2. q.token \notin Superseded(q)
  BY DEF Superseded
<1>3. \A t \in Token : Stored(q, seen)[t] = IF t = q.token THEN RowOf(q, seen)
                                            ELSE IF t \in Superseded(q) THEN Absent
                                            ELSE registrations[t]
  BY DEF Stored
<1> QED
  BY <1>1, <1>2, <1>3 DEF Held

\* After, which Put compares with the limit, is the size the table will have.
LEMMA AfterIsSize ==
    ASSUME NEW q \in Request, NEW seen \in Time
    PROVE  /\ Cardinality(Held(Stored(q, seen))) = After(q)
           /\ Cardinality(Held(registrations)) \in Nat
           /\ Cardinality(Superseded(q)) \in Nat
<1> DEFINE kept == Held(registrations) \ Superseded(q)
<1>1. /\ IsFiniteSet(Held(registrations)) /\ IsFiniteSet(Superseded(q)) /\ IsFiniteSet(kept)
      /\ Superseded(q) \subseteq Held(registrations)
  <2>1. Held(registrations) \subseteq Token /\ Superseded(q) \subseteq Held(registrations)
    BY DEF Held, Superseded
  <2> QED
    BY <2>1, TokenAssumption, FS_Subset
<1>2. Held(registrations) \intersect Superseded(q) = Superseded(q)
  BY <1>1
<1>3. Cardinality(kept) = Cardinality(Held(registrations)) - Cardinality(Superseded(q))
  BY <1>1, <1>2, FS_Difference
<1>4. /\ Cardinality(Held(registrations)) \in Nat /\ Cardinality(Superseded(q)) \in Nat
      /\ Cardinality(kept) \in Nat
  BY <1>1, FS_CardinalityType
<1>5. q.token \in kept <=> q.token \in Held(registrations)
  BY DEF Superseded
<1>6. Cardinality(kept \union {q.token})
        = Cardinality(kept) + (IF q.token \in kept THEN 0 ELSE 1)
  <2>1. CASE q.token \in kept
    <3>1. kept \union {q.token} = kept
      BY <2>1
    <3>2. Cardinality(kept \union {q.token}) = Cardinality(kept)
      BY <3>1
    <3> HIDE DEF kept
    <3> QED
      BY <2>1, <3>2, <1>4
  <2>2. CASE q.token \notin kept
    BY <2>2, <1>1, FS_AddElement
  <2> QED
    BY <2>1, <2>2
<1>7. Cardinality(Held(Stored(q, seen))) = Cardinality(kept \union {q.token})
  BY HeldAfterStored
<1> HIDE DEF kept
<1> QED
  BY <1>3, <1>4, <1>5, <1>6, <1>7 DEF After

Within(table) == MaxRegistrations > 0 => Cardinality(Held(table)) <= MaxRegistrations

LEMMA WithoutIsWithin ==
    ASSUME Within(registrations), NEW gone \in SUBSET Token
    PROVE  Within(Without(gone))
<1>1. Held(Without(gone)) \subseteq Held(registrations) /\ Held(registrations) \subseteq Token
  BY DEF Without, Held
<1>2. IsFiniteSet(Held(registrations)) /\ IsFiniteSet(Held(Without(gone)))
  BY <1>1, TokenAssumption, FS_Subset
<1>3. Cardinality(Held(Without(gone))) <= Cardinality(Held(registrations))
  BY <1>1, <1>2, FS_Subset
<1>4. Cardinality(Held(Without(gone))) \in Nat /\ Cardinality(Held(registrations)) \in Nat
  BY <1>2, FS_CardinalityType
<1> QED
  BY <1>3, <1>4, LimitAssumption DEF Within

\* The table never outgrows the site's limit, for every limit and however many
\* rows a put replaces; nor does the file, whatever flushes fail.
THEOREM WithinSiteLimitHolds == Spec => []WithinSiteLimit
<1>1. WithinSiteLimit <=> Within(registrations) /\ Within(file)
  BY DEF WithinSiteLimit, Within, Tables
<1>2. Init => WithinSiteLimit
  <2> SUFFICES ASSUME Init PROVE Within(registrations) /\ Within(file)
    BY <1>1
  <2>1. Held(registrations) = {} /\ Held(file) = {}
    BY DEF Init, Empty, Held
  <2> QED
    BY <2>1, FS_EmptySet, LimitAssumption DEF Within
<1>3. TypeOK /\ WithinSiteLimit /\ [Next]_vars => WithinSiteLimit'
  <2> SUFFICES ASSUME TypeOK, Within(registrations), Within(file), [Next]_vars
               PROVE  Within(registrations') /\ Within(file')
    BY <1>1 DEF WithinSiteLimit, Within, Tables
  <2>1. ASSUME NEW q \in Request, NEW seen \in Time, Verdict(q) = "stored", Writes(Stored(q, seen))
        PROVE  Within(registrations') /\ Within(file')
    <3>1. ~Full(q)
      BY <2>1, Zenon DEF Verdict
    <3>2. /\ Cardinality(Held(Stored(q, seen))) = After(q)
          /\ Cardinality(Held(registrations)) \in Nat
          /\ Cardinality(Superseded(q)) \in Nat
      BY AfterIsSize DEF TypeOK
    <3>3. After(q) \in Int
      BY <3>2 DEF After
    <3>4. Within(Stored(q, seen))
      BY <3>1, <3>2, <3>3, LimitAssumption DEF Full, Within
    <3> QED
      BY <2>1, <3>4 DEF Writes
  <2>2. ASSUME NEW gone \in SUBSET Token, Writes(Without(gone))
        PROVE  Within(registrations') /\ Within(file')
    BY <2>2, WithoutIsWithin DEF Writes
  <2> QED
    BY <2>1, <2>2, StepWrites
<1> QED
  BY <1>2, <1>3, TypeCorrect, PTL DEF Spec

\* What the limit costs nobody: a device that is here, by its token or by
\* itself, is not told that the site is full.
THEOREM KnownDeviceNotTurnedAwayHolds == Spec => []KnownDeviceNotTurnedAway
<1>1. TypeOK /\ WithinSiteLimit => KnownDeviceNotTurnedAway
  <2> SUFFICES ASSUME TypeOK, WithinSiteLimit, NEW q \in Request,
                      q.token \in Held(registrations) \/ Superseded(q) # {}
               PROVE  ~Full(q)
    BY Zenon DEF KnownDeviceNotTurnedAway, Verdict
  <2>1. Cardinality(Held(registrations)) \in Nat /\ Cardinality(Superseded(q)) \in Nat
    BY AfterIsSize, TimeAssumption DEF TypeOK
  <2>2. Superseded(q) # {} => Cardinality(Superseded(q)) > 0
    <3>1. IsFiniteSet(Superseded(q))
      <4>1. Superseded(q) \subseteq Token
        BY DEF Superseded, Held
      <4> QED
        BY <4>1, TokenAssumption, FS_Subset
    <3> QED
      BY <3>1, <2>1, FS_EmptySet
  <2>3. After(q) <= Cardinality(Held(registrations))
    BY <2>1, <2>2 DEF After
  <2>4. After(q) \in Int
    BY <2>1 DEF After
  <2>5. MaxRegistrations > 0 => Cardinality(Held(registrations)) <= MaxRegistrations
    BY DEF WithinSiteLimit, Tables
  <2> QED
    BY <2>1, <2>3, <2>4, <2>5, LimitAssumption DEF Full
<1> QED
  BY <1>1, TypeCorrect, WithinSiteLimitHolds, PTL

HavingAddress(table, a) == {t \in Held(table) : table[t].gmail = a}
WithinFor(table, a) ==
    MaxPerAddress > 0 => Cardinality(HavingAddress(table, a)) <= MaxPerAddress

\* A table whose rows for an address are among another's is within the limit
\* too: removals, and puts that are about some other address.
LEMMA FewerIsWithin ==
    ASSUME NEW table, NEW other, NEW a \in Address, WithinFor(table, a),
           HavingAddress(other, a) \subseteq HavingAddress(table, a)
    PROVE  WithinFor(other, a)
<1>1. IsFiniteSet(HavingAddress(table, a)) /\ IsFiniteSet(HavingAddress(other, a))
  <2>1. HavingAddress(table, a) \subseteq Token
    BY DEF HavingAddress, Held
  <2> QED
    BY <2>1, TokenAssumption, FS_Subset
<1>2. /\ Cardinality(HavingAddress(table, a)) \in Nat
      /\ Cardinality(HavingAddress(other, a)) \in Nat
  BY <1>1, FS_CardinalityType
<1>3. Cardinality(HavingAddress(other, a)) <= Cardinality(HavingAddress(table, a))
  BY <1>1, FS_Subset
<1> QED
  BY <1>2, <1>3, LimitAssumption DEF WithinFor

\* ForAddress counts every row that will have the address, so a put that passes
\* the count leaves the address within its limit.
LEMMA StoredIsWithinFor ==
    ASSUME NEW q \in Request, NEW seen \in Time, NEW a \in Address,
           WithinFor(registrations, a), ~TooManyForAddress(q)
    PROVE  WithinFor(Stored(q, seen), a)
<1> DEFINE table == Stored(q, seen)
           others == {t \in Held(registrations) \ (Superseded(q) \union {q.token}) :
                        Watches(registrations[t], a)}
<1>1. \A t \in Held(table) \ {q.token} :
        t \in Held(registrations) \ Superseded(q) /\ table[t] = registrations[t]
  BY DEF Held, Stored
<1>2. q.token \in Held(table) => table[q.token].gmail = GmailAddress(q)
  BY DEF Held, Stored, RowOf
<1>3. CASE a = GmailAddress(q)
  <2>1. HavingAddress(table, a) \subseteq others \union {q.token}
    BY <1>1 DEF HavingAddress, Watches
  <2>2. IsFiniteSet(others) /\ q.token \notin others
    <3>1. others \subseteq Token
      BY DEF Held
    <3> QED
      BY <3>1, TokenAssumption, FS_Subset
  <2>3. /\ IsFiniteSet(others \union {q.token})
        /\ Cardinality(others \union {q.token}) = Cardinality(others) + 1
    BY <2>2, FS_AddElement
  <2>4. /\ IsFiniteSet(HavingAddress(table, a))
        /\ Cardinality(HavingAddress(table, a)) <= Cardinality(others \union {q.token})
    BY <2>1, <2>3, FS_Subset
  <2>5. Cardinality(others) \in Nat /\ Cardinality(HavingAddress(table, a)) \in Nat
    BY <2>2, <2>4, FS_CardinalityType
  <2>6. MaxPerAddress > 0 => 1 + Cardinality(others) <= MaxPerAddress
    <3>1. ForAddress(q) = 1 + Cardinality(others)
      BY <1>3 DEF ForAddress
    <3>2. GmailAddress(q) # Blank
      BY <1>3, AddressAssumption
    <3> HIDE DEF others
    <3> QED
      BY <3>1, <3>2, <2>5, LimitAssumption DEF TooManyForAddress
  <2> HIDE DEF others, table
  <2>7. MaxPerAddress > 0 => Cardinality(HavingAddress(table, a)) <= MaxPerAddress
    BY <2>3, <2>4, <2>5, <2>6, LimitAssumption
  <2> QED
    BY <2>7 DEF WithinFor, table
<1>4. CASE a # GmailAddress(q)
  <2>1. HavingAddress(table, a) \subseteq HavingAddress(registrations, a)
    BY <1>1, <1>2, <1>4 DEF HavingAddress
  <2> QED
    BY <2>1, FewerIsWithin
<1> QED
  BY <1>3, <1>4

\* No address has more rows than the limit, counted by the address each row
\* was registered under first; the accounts it lists after it are not counted.
THEOREM WithinPrimaryLimitHolds == Spec => []WithinPrimaryLimit
<1> DEFINE Good(table) == \A a \in Address : WithinFor(table, a)
<1>1. WithinPrimaryLimit <=> Good(registrations) /\ Good(file)
  BY DEF WithinPrimaryLimit, WithinFor, HavingAddress, Tables
<1>2. Init => WithinPrimaryLimit
  <2> SUFFICES ASSUME Init, NEW a \in Address
               PROVE  WithinFor(registrations, a) /\ WithinFor(file, a)
    BY <1>1
  <2>1. HavingAddress(registrations, a) = {} /\ HavingAddress(file, a) = {}
    BY DEF Init, Empty, Held, HavingAddress
  <2> QED
    BY <2>1, FS_EmptySet, LimitAssumption DEF WithinFor
<1>3. TypeOK /\ WithinPrimaryLimit /\ [Next]_vars => WithinPrimaryLimit'
  <2> SUFFICES ASSUME TypeOK, Good(registrations), Good(file), [Next]_vars
               PROVE  Good(registrations') /\ Good(file')
    BY <1>1 DEF WithinPrimaryLimit, WithinFor, HavingAddress, Tables
  <2>1. ASSUME NEW q \in Request, NEW seen \in Time, Verdict(q) = "stored", Writes(Stored(q, seen))
        PROVE  Good(registrations') /\ Good(file')
    <3>1. ~TooManyForAddress(q)
      BY <2>1, Zenon DEF Verdict
    <3>2. Good(Stored(q, seen))
      BY <3>1, StoredIsWithinFor DEF TypeOK
    <3> QED
      BY <2>1, <3>2 DEF Writes
  <2>2. ASSUME NEW gone \in SUBSET Token, Writes(Without(gone))
        PROVE  Good(registrations') /\ Good(file')
    <3>1. \A a \in Address :
            HavingAddress(Without(gone), a) \subseteq HavingAddress(registrations, a)
      BY DEF HavingAddress, Held, Without
    <3>2. Good(Without(gone))
      BY <3>1, FewerIsWithin
    <3> QED
      BY <2>2, <3>2 DEF Writes
  <2> QED
    BY <2>1, <2>2, StepWrites
<1> QED
  BY <1>2, <1>3, TypeCorrect, PTL DEF Spec

----------------------------------------------------------------------------
(* What was answered. *)

\* A registration that was answered is in the file with everything else that
\* memory holds, so a restart right after the answer loses nothing.
THEOREM AnsweredIsDurableHolds == Spec => []AnsweredIsDurable
<1>1. Init => AnsweredIsDurable
  BY DEF Init, AnsweredIsDurable
<1>2. AnsweredIsDurable /\ [Next]_vars => AnsweredIsDurable'
  <2> SUFFICES ASSUME AnsweredIsDurable, [Next]_vars,
                      reply'.op = "put", reply'.result = "ok"
               PROVE  file' = registrations'
    BY DEF AnsweredIsDurable
  <2>1. ASSUME NEW op, NEW t, FlushLocked(op, t)
        PROVE  file' = registrations'
    <3>1. reply'.result = "ok" => reply' # [op |-> op, token |-> t, result |-> "io"]
      OBVIOUS
    <3> QED
      BY <2>1, <3>1, Zenon DEF FlushLocked
  <2>2. ASSUME NEW op, NEW t, NEW result, Answer(op, t, result)
        PROVE  op = "put" /\ result = "ok"
    BY <2>2 DEF Answer
  <2>3. ASSUME NEW q \in Request, NEW seen \in Time, Put(q, seen)
        PROVE  file' = registrations'
    <3>1. Verdict(q) \in {"malformed", "wrong secret", "too many accounts", "full",
                          "too many for address", "stored"}
      BY Zenon DEF Verdict
    <3> QED
      BY <2>1, <2>2, <2>3, <3>1 DEF Put
  <2>4. ASSUME NEW t \in Token, NEW secret \in Secrets, DeleteIfOwned(t, secret)
        PROVE  file' = registrations'
    <3>1. ASSUME NEW result, Answer("unregister", t, result)
          PROVE  FALSE
      <4>1. reply'.op = "unregister"
        BY <3>1 DEF Answer
      <4> QED
        BY <4>1
    <3> QED
      BY <2>1, <2>4, <3>1, Zenon DEF DeleteIfOwned
  <2>5. ASSUME NEW t \in Token, Delete(t)
        PROVE  file' = registrations'
    BY <2>1, <2>2, <2>5 DEF Delete
  <2>6. CASE Prune
    BY <2>1, <2>2, <2>6 DEF Prune
  <2>7. CASE Restart
    BY <2>7 DEF Restart, NoReply
  <2>8. CASE Tick
    BY <2>8 DEF Tick, AnsweredIsDurable
  <2>9. CASE UNCHANGED vars
    BY <2>9 DEF vars, AnsweredIsDurable
  <2> QED
    BY <2>3, <2>4, <2>5, <2>6, <2>7, <2>8, <2>9 DEF Next, Reading
<1> QED
  BY <1>1, <1>2, PTL DEF Spec

----------------------------------------------------------------------------
(* How long rows stay. *)

\* The tick that is coming finds the row where RetainedNoLonger wants it at most.
Timely(row) ==
    /\ row.seen \in Nat /\ row.expires \in Nat
    /\ \/ now + ticker <= row.seen + MaxDelay + PrunePeriod
       \/ /\ now + ticker <= row.seen + Lifetime + PrunePeriod
          /\ row.expires # 0 => now + ticker <= row.expires + PrunePeriod

AllTimely ==
    /\ now \in Nat /\ ticker \in 0..PrunePeriod
    /\ file = registrations
    /\ \A t \in Held(registrations) : Timely(registrations[t])

\* Rows go and the rest stay as they are, at the same time and before the same tick.
LEMMA FewerAreTimely ==
    ASSUME AllTimely, NEW left, UNCHANGED <<now, ticker>>, file' = registrations',
           registrations' \in {registrations, Without(left)}
    PROVE  AllTimely'
<1>1. \A t \in Held(registrations') :
         t \in Held(registrations) /\ registrations'[t] = registrations[t]
  BY DEF Held, Without
<1>2. Held(registrations') = Held(registrations)'
  BY DEF Held
<1> QED
  BY <1>1, <1>2 DEF AllTimely, Timely

\* In a process that goes on and can write, a row is there no longer after its device
\* was last seen, or its proof was over, than to the tick after that.
THEOREM RetainedNoLongerHolds ==
    ASSUME ~CanFail, ~CanRestart, \A q \in Request : q.expires \in Nat
    PROVE  Spec => []RetainedNoLonger
<1>1. Init => AllTimely
  BY TimeAssumption DEF Init, AllTimely, Held, Empty
<1>2. AllTimely /\ [Next]_vars => AllTimely'
  <2> SUFFICES ASSUME AllTimely, [Next]_vars PROVE AllTimely'
    OBVIOUS
  <2>1. ASSUME NEW q \in Request, NEW seen \in Reading, Put(q, seen) PROVE AllTimely'
    <3>1. CASE Verdict(q) = "stored"
      <4>1. registrations' = Stored(q, seen) /\ file' = registrations' /\ UNCHANGED <<now, ticker>>
        BY <2>1, <3>1 DEF Put, FlushLocked
      <4>2. ASSUME NEW t \in Held(registrations)' PROVE Timely(registrations[t])'
        <5>1. t \in Token /\ registrations'[t] # Absent
          BY <4>2 DEF Held
        <5>2. CASE t = q.token
          <6>1. registrations'[t].seen = seen /\ registrations'[t].expires = q.expires
            BY <4>1, <5>1, <5>2 DEF Stored, RowOf
          <6>2. /\ now \in Nat /\ ticker \in 0..PrunePeriod
                /\ Lifetime \in Nat /\ PrunePeriod \in Nat /\ q.expires \in Nat
                /\ seen \in Nat /\ now <= seen + MaxDelay /\ MaxDelay \in Nat
            BY TimeAssumption DEF AllTimely, Reading, Time
          <6> QED
            BY <4>1, <6>1, <6>2 DEF Timely
        <5>3. CASE t # q.token
          <6>1. registrations'[t] = registrations[t] /\ t \in Held(registrations)
            BY <4>1, <5>1, <5>3 DEF Stored, Held
          <6> QED
            BY <4>1, <6>1 DEF AllTimely, Timely
        <5> QED
          BY <5>2, <5>3
      <4> QED
        BY <4>1, <4>2 DEF AllTimely
    <3>2. CASE Verdict(q) # "stored"
      BY <2>1, <3>2, FewerAreTimely DEF Put, Answer, AllTimely
    <3> QED
      BY <3>1, <3>2
  <2>2. ASSUME NEW t \in Token, NEW secret \in Secrets, DeleteIfOwned(t, secret) PROVE AllTimely'
    BY <2>2, FewerAreTimely DEF DeleteIfOwned, Answer, FlushLocked, AllTimely
  <2>3. ASSUME NEW t \in Token, Delete(t) PROVE AllTimely'
    BY <2>3, FewerAreTimely DEF Delete, Answer, FlushLocked, AllTimely
  <2>4. CASE Prune
    <3>1. ticker = 0 /\ ticker' = PrunePeriod /\ UNCHANGED now
      BY <2>4 DEF Prune
    <3>2. file' = registrations' /\ registrations' \in {registrations, Without(Prunable)}
      BY <2>4 DEF Prune, Answer, FlushLocked, AllTimely
    <3>3. ASSUME NEW t \in Held(registrations)'
          PROVE  t \in Held(registrations) \ Prunable /\ registrations'[t] = registrations[t]
      BY <2>4, <3>2, <3>3 DEF Held, Without, Prune, Answer
    <3>4. ASSUME NEW t \in Held(registrations)' PROVE Timely(registrations[t])'
      <4>1. ~Stale(registrations[t]) /\ Timely(registrations[t])
        BY <3>3 DEF Prunable, AllTimely
      <4>2. Lifetime \in Nat /\ PrunePeriod \in Nat /\ now \in Nat
        BY TimeAssumption DEF AllTimely
      <4> QED
        BY <3>1, <3>3, <4>1, <4>2 DEF Stale, Timely
    <3> QED
      BY <3>1, <3>2, <3>4, TimeAssumption DEF AllTimely
  <2>5. CASE Restart
    BY <2>5 DEF Restart
  <2>6. CASE Tick
    BY <2>6, TimeAssumption DEF Tick, AllTimely, Timely, Held
  <2>7. CASE UNCHANGED vars
    BY <2>7, FewerAreTimely DEF vars, AllTimely
  <2> QED
    BY <2>1, <2>2, <2>3, <2>4, <2>5, <2>6, <2>7 DEF Next
<1>3. AllTimely => RetainedNoLonger
  <2> SUFFICES ASSUME AllTimely, NEW t \in Held(registrations)
               PROVE  \/ now <= registrations[t].seen + MaxDelay + PrunePeriod
                      \/ /\ now <= registrations[t].seen + Lifetime + PrunePeriod
                         /\ registrations[t].expires # 0 =>
                               now <= registrations[t].expires + PrunePeriod
    BY DEF AllTimely, RetainedNoLonger, Tables
  <2> QED
    BY TimeAssumption DEF AllTimely, Timely
<1> QED
  BY <1>1, <1>2, <1>3, PTL DEF Spec
=============================================================================
