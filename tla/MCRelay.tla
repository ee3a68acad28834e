------------------------------ MODULE MCRelay ------------------------------
(***************************************************************************)
(* Values of the constants of Relay for TLC.                               *)
(***************************************************************************)
EXTENDS Relay, TLC

CONSTANTS t1, d1, d2, p1

MCAddress == {"ann@x"}
MCSpelling == {"ann@x", Blank}
MCNormalise == [spelling \in MCSpelling |-> spelling]

Registration(t, device, mode, gmail, expires) ==
    [token |-> t, device |-> device, topic |-> p1, mode |-> mode, secret |-> Blank,
     gmail |-> gmail, accounts |-> <<>>, expires |-> expires]

\* One device on the background site, which may come back as an alert one.
ModeRequests ==
    {Registration(t, d1, mode, "ann@x", 0) : t \in Token, mode \in {"alert", "background"}}

\* One app that is reinstalled: another APNs token under the same delivery token.
ReinstallRequests == {Registration(t, d, "alert", Blank, 0) : t \in Token, d \in {d1, d2}}

\* One silent registration.
SilentRequests == {Registration(t, d1, "background", Blank, 0) : t \in Token}

\* Handlers and workers are alike.  For runs without a liveness property.
Symmetry == Permutations(Handler) \union Permutations(Worker)
=============================================================================
