------------------------------ MODULE Mailbox ------------------------------
(***************************************************************************)
(* What the coalescer promises to a provider that was answered 200, apart  *)
(* from how: one mailbox per slot, each holding the changes that were      *)
(* accepted and have not gone out.  A change may be thrown away only when  *)
(* a newer one has been accepted, and the newest goes out in the end       *)
(* ("the last change always arrives", coalesce.go).                        *)
(***************************************************************************)
EXTENDS Naturals

CONSTANT Key            \* slots: a registration and a lane

VARIABLES
    newest,             \* how many changes each mailbox accepted: the newest's number
    waiting,            \* the changes that are still here
    delivered           \* the changes that went out

vars == <<newest, waiting, delivered>>

TypeOK ==
    /\ newest \in [Key -> Nat]
    /\ \A k \in Key : waiting[k] \subseteq 1..newest[k]
    /\ \A k \in Key : delivered[k] \subseteq 1..newest[k]

Init ==
    /\ newest = [k \in Key |-> 0]
    /\ waiting = [k \in Key |-> {}]
    /\ delivered = [k \in Key |-> {}]

\* A change arrives, and stands for any of those it finds waiting.
Accept(k, replaced) ==
    /\ newest' = [newest EXCEPT ![k] = @ + 1]
    /\ waiting' = [waiting EXCEPT ![k] = (@ \ replaced) \union {newest[k] + 1}]
    /\ UNCHANGED delivered

Deliver(k, change) ==
    /\ change \in waiting[k]
    /\ waiting' = [waiting EXCEPT ![k] = @ \ {change}]
    /\ delivered' = [delivered EXCEPT ![k] = @ \union {change}]
    /\ UNCHANGED newest

Next ==
    \E k \in Key :
        \/ \E replaced \in SUBSET waiting[k] : Accept(k, replaced)
        \/ \E change \in waiting[k] : Deliver(k, change)

\* Nothing waits for ever.
Fairness == \A k \in Key : WF_vars(\E change \in waiting[k] : Deliver(k, change))

Spec == Init /\ [][Next]_vars
FairSpec == Spec /\ Fairness

\* The newest change accepted for a mailbox is never thrown away: it is here or
\* it has gone out.
NewestKept ==
    \A k \in Key : newest[k] > 0 => newest[k] \in waiting[k] \union delivered[k]
=============================================================================
