------------------------------ MODULE MCDelivery ------------------------------
(* Constants for model-checking Delivery on small instances.               *)
EXTENDS Delivery

\* Two spellings of bob's address, one of eve's, and one that is none.
Spellings == [bob |-> "bob", BOB |-> "bob", eve |-> "eve"]

\* alice sends to two, one of them under two spellings, and has an address
\* that is refused; carol's email cannot be stored; dave has only a wrong
\* address; mallory knows the name but not the password.
Mail == [alice   |-> <<<<"bob">>, <<"BOB", "?", "eve", "bob">>>>,
         carol   |-> <<<<"eve">>>>,
         dave    |-> <<<<"?">>>>,
         mallory |-> <<<<"eve">>>>]
Given == [alice |-> <<"smtpweb", "p">>, carol |-> <<"smtpweb", "p">>,
          dave |-> <<"smtpweb", "p">>, mallory |-> <<"smtpweb", "q">>]
Spoilt == {<<"carol", 1>>}
=============================================================================
