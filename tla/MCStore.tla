------------------------------ MODULE MCStore ------------------------------
(***************************************************************************)
(* Values of the constants of Store for TLC.  Each run of the store asks   *)
(* one question and has the requests that make its answer interesting.     *)
(***************************************************************************)
EXTENDS Store, TLC

CONSTANTS Device, Topic, p1, s1

MCAddress == {"ann@x", "bob@x", "cy@x"}
MCSpelling == {"ann@x", " Ann@X", "bob@x", "cy@x", " ", Blank}
MCNormalise ==
    [spelling \in MCSpelling |->
        CASE spelling = " Ann@X"          -> "ann@x"
          [] spelling \in {" ", Blank}    -> Blank
          [] OTHER                        -> spelling]

Requests(devices, topics, modes, secrets, mailboxes, proofs) ==
    {[token |-> t, device |-> d, topic |-> p, mode |-> m, secret |-> s,
      gmail |-> g[1], accounts |-> g[2], expires |-> e] :
        t \in Token, d \in devices, p \in topics, m \in modes, s \in secrets,
        g \in mailboxes, e \in proofs}

NoMailbox == {<<Blank, <<>>>>}
OneAlert == {"alert"}

\* Who may hold a row: any device and app under any token with one secret or
\* none, a stranger with another secret, and a request whose mode Put refuses.
IdentityRequests ==
    Requests(Device, Topic, OneAlert, {s1, Blank}, NoMailbox, {0})
        \union Requests(Device, {p1}, OneAlert, {"other"}, NoMailbox, {0})
        \union Requests(Device, {p1}, {"chime"}, {s1}, NoMailbox, {0})

\* Mailboxes in every shape a client sends: the old field, the list, both, too
\* many, badly spelled, empty.
Mailboxes ==
    {<<Blank, <<>>>>, <<" Ann@X", <<>>>>, <<"bob@x", <<>>>>, <<Blank, <<"ann@x">>>>,
     <<Blank, <<" ", "bob@x">>>>, <<" ", <<"bob@x", " Ann@X">>>>,
     <<"ann@x", <<"bob@x", "cy@x">>>>, <<Blank, <<"ann@x", "bob@x", "cy@x">>>>}
MailRequests == Requests(Device, {p1}, OneAlert, {Blank}, Mailboxes, {0})

\* The same, and proofs that run out at 2 of a device that names one mailbox.
LifecycleRequests ==
    MailRequests \union
        Requests(Device, {p1}, OneAlert, {Blank}, {<<" Ann@X", <<>>>>}, {2})

Symmetry == Permutations(Token) \union Permutations(Device)
=============================================================================
