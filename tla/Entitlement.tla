---------------------------- MODULE Entitlement ----------------------------
(***************************************************************************)
(* Who may register: Admit of internal/entitlement/entitlement.go and the  *)
(* verifier of StoreKit's signed transactions, apple.go.  Both are pure:   *)
(* operators of a policy, a request and a time.                            *)
(*                                                                         *)
(* A policy is what the operator configured.  A transaction is its claims  *)
(* and whether Apple signed it: base64, JSON, certificates and the         *)
(* signature are "genuine".  Which of several refusals comes first decides *)
(* only the text of the answer and is left out.  A time of 0 is none.      *)
(***************************************************************************)
EXTENDS Integers

CONSTANTS
    Blank,    \* the empty string: no secret, no header, no transaction
    Product,  \* the ProductIDs accepted
    Day       \* how far ahead of ours Apple's clock may be

Open(policy) == policy.secret = Blank /\ ~policy.apple

Environment(sandbox) == IF sandbox THEN "Sandbox" ELSE "Production"

\* Apple's signature is recent, where an age is set.
RecentlySigned(policy, tx, now) ==
    policy.maxSignedAge > 0 =>
        /\ tx.signed # 0
        /\ now - tx.signed <= policy.maxSignedAge
        /\ tx.signed <= now + Day

Unexpired(policy, tx, now) == now < tx.expires + policy.grace

Verify(policy, tx, bundle, sandbox, now) ==
    /\ tx.genuine
    /\ tx.bundle = bundle
    /\ tx.product \in Product
    /\ tx.type = "Auto-Renewable Subscription"
    /\ ~tx.revoked
    /\ tx.expires # 0
    /\ RecentlySigned(policy, tx, now)
    /\ \/ tx.environment = Environment(sandbox)
       \/ policy.allowSandbox /\ tx.environment = "Sandbox"
    /\ Unexpired(policy, tx, now)

\* A wrong secret is refused outright, whatever else was sent.
MeansSecret(policy, r) == policy.secret # Blank /\ r.authorization # Blank

BySecret(policy, r) == MeansSecret(policy, r) /\ r.authorization = policy.secret
BySubscription(policy, r, now) ==
    /\ ~MeansSecret(policy, r)
    /\ policy.apple
    /\ r.transaction # Blank
    /\ Verify(policy, r.transaction, r.topic, r.sandbox, now)

Admit(policy, r, now) ==
    Open(policy) \/ BySecret(policy, r) \/ BySubscription(policy, r, now)

\* Mistake: the grace is left to whoever looks at the expiry.
ExpiresAtUngraced(policy, r) ==
    IF Open(policy) \/ BySecret(policy, r) THEN 0 ELSE r.transaction.expires

\* Admission.ExpiresAt of a request that is admitted.
ExpiresAt(policy, r) ==
    IF Open(policy) \/ BySecret(policy, r) THEN 0 ELSE r.transaction.expires + policy.grace
=============================================================================
