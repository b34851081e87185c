----------------------------- MODULE MCWebClient -----------------------------
(* Constants for model-checking WebClient on small instances.              *)
EXTENDS WebClient

CONSTANTS m1, m2, e1, e2, k1, k2, k3

\* A message for both mailboxes has one id.
SharedId == {<<m1, e1>>, <<m2, e1>>}
OneBox   == {<<m1, e1>>, <<m1, e2>>}
=============================================================================
