------------------------ MODULE MCChatServicesUpdate ------------------------
(* Model-checking instance of ChatServicesUpdate: two accounts, one with  *)
(* two services so that a list can be half filled, one with one.         *)
EXTENDS ChatServicesUpdate

MCAccounts == {"a1", "a2"}
MCServices == [a1 |-> <<"s1", "s2">>, a2 |-> <<"s3">>]
MCTyped == {"s9"}
====
