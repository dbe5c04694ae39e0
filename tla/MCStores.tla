----------------------------- MODULE MCStores -----------------------------
(* Two tables that share nothing, each on its own: part says which one moves. *)
EXTENDS ParamStore, MailQueue

CONSTANTS c1, c2, k1, s1, s2, m1, m2

VARIABLE part

Callers == {c1, c2}
Senders == {s1, s2}
Mails == {m1, m2}

Init == part \in {"param", "mail"} /\ ParamInit /\ MailInit

Next == \/ part = "param" /\ ParamNext /\ UNCHANGED <<part, mailVars>>
        \/ part = "mail" /\ MailNext /\ UNCHANGED <<part, paramVars>>

Spec == Init /\ [][Next]_<<part, paramVars, mailVars>>
=============================================================================
