----------------------------- MODULE MCMailStore -----------------------------
(* Constants for model-checking MailStore on small instances.              *)
EXTENDS MailStore, TLC

CONSTANTS m1, m2, e1, e2, t1, t2

\* Two spellings of one mailbox, another mailbox, and an address that
\* sanitize_mailbox_name refuses.
MCAddresses == {"Ann@x", "ann@x", "bob@x", "@"}
TwoBoxes    == ("Ann@x" :> m1) @@ ("ann@x" :> m1) @@ ("bob@x" :> m2)
OneBox      == ("Ann@x" :> m1) @@ ("ann@x" :> m1)

\* A sender that names a mailbox twice need not even spell it differently.
OneAddress == {"ann@x"}
OneName    == ("ann@x" :> m1)

BodyOnly   == <<"body.txt">>
RawAndBody == <<"raw.eml", "body.txt">>

\* Exchanging the threads, or the ids, changes nothing.
Symmetric == Permutations({t1, t2}) \cup Permutations({e1, e2})

\* What the run of the readers tells apart.  It leaves out two histories that
\* no guard and none of that run's properties reads: what was vouched for,
\* and what a list request should find.
ReadersView ==
  <<disk, smtp, drawn, cache, shown, condemned, removed,
    [t \in Threads |-> [thread[t] EXCEPT !.had = {}]]>>

=============================================================================
