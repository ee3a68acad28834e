---------------------------- MODULE MCRegistrar ----------------------------
(***************************************************************************)
(* Values of the constants of Registrar for TLC.                           *)
(***************************************************************************)
EXTENDS Registrar, TLC

CONSTANTS t1, t2, d1, d2, p1, p2

NoAddress == {"ann@x"}
NoSpelling == {"ann@x", Blank}
Identity == [spelling \in NoSpelling |-> spelling]

PolicyOf(secret, apple, grace, age, allow) ==
    [secret |-> secret, apple |-> apple, grace |-> grace, maxSignedAge |-> age,
     allowSandbox |-> allow]

OpenRelay == PolicyOf(Blank, FALSE, 0, 0, FALSE)
SecretRelay == PolicyOf("ours", FALSE, 0, 0, FALSE)
BothRelay == PolicyOf("ours", TRUE, 1, 0, TRUE)

\* Open, with a secret, with a subscription, with both; with a grace or none,
\* with an age for Apple's signature, and with TestFlight's exception.
Policies ==
    {OpenRelay, SecretRelay, PolicyOf(Blank, TRUE, 0, 0, FALSE), PolicyOf(Blank, TRUE, 1, 2, FALSE),
     BothRelay}

Good == [genuine |-> TRUE, bundle |-> p1, product |-> "yearly",
         type |-> "Auto-Renewable Subscription", revoked |-> FALSE, expires |-> 2,
         signed |-> 1, environment |-> "Production"]
Renewed == [Good EXCEPT !.expires = 4, !.signed = 2]
Transactions ==
    {Blank, Good, Renewed, [Good EXCEPT !.environment = "Sandbox"],
     [Renewed EXCEPT !.revoked = TRUE]}
Worthless ==
    {[Good EXCEPT !.genuine = FALSE], [Good EXCEPT !.bundle = p2], [Good EXCEPT !.product = "tip"],
     [Good EXCEPT !.type = "Consumable"], [Good EXCEPT !.expires = 0], [Good EXCEPT !.signed = 0]}

By(device, token, authorization, tx) ==
    [shape |-> "fine", device |-> device, topic |-> p1, mode |-> "background", secret |-> Blank,
     gmail |-> Blank, accounts |-> <<>>, token |-> token, authorization |-> authorization,
     transaction |-> tx, sandbox |-> FALSE]

\* Devices that keep their token and one that has none yet, with a proof.
Proven == {By(d1, t1, Blank, tx) : tx \in {Good, Renewed}} \union {By(d, Blank, Blank, Good) : d \in {d1, d2}}

\* Everything the verifier refuses, and an environment that it may.
Doubtful ==
    {By(d1, t1, Blank, tx) : tx \in (Transactions \union Worthless) \ {Good, Renewed}}
        \union {[By(d1, t1, Blank, tx) EXCEPT !.sandbox = TRUE] : tx \in Transactions}

WithSecret == {By(d1, t1, secret, tx) : secret \in {"ours", "theirs"}, tx \in {Blank, Good}}

\* What is refused for its shape or its mode, and a mode left out.
Misshapen ==
    {[By(d1, t1, Blank, Good) EXCEPT !.shape = s] : s \in {"too large", "malformed"}}
        \union {[By(d1, t1, Blank, Good) EXCEPT !.mode = m] : m \in {"chime", Blank}}

Registrations ==
    [p \in Policies |->
        CASE p = OpenRelay   -> Proven \union Misshapen
          [] p = SecretRelay -> Proven \union WithSecret
          [] p = BothRelay   -> Proven \union Doubtful \union WithSecret
          [] OTHER                -> Proven \union Doubtful]

Expiries == {0, 2, 3, 4, 5}

Symmetry == Permutations(Handler)
=============================================================================
