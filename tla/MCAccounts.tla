----------------------------- MODULE MCAccounts -----------------------------
(* A small instance of accounts and the create limit for TLC.              *)
EXTENDS Accounts, TLC

CONSTANTS c1, c2

(* Two spellings of one name.                                              *)
Spellings == {"Ann", "ann"}
Lowercase == [n \in Spellings |-> "ann"]

AnyRequest ==
  {[kind |-> "register", client |-> c1, name |-> "Ann"],
   [kind |-> "register", client |-> c2, name |-> "ann"],
   [kind |-> "login", client |-> c1, name |-> "ann"],
   [kind |-> "logout", client |-> c1, name |-> "ann"],
   [kind |-> "create", client |-> c1, name |-> "ann"],
   [kind |-> "create", client |-> c2, name |-> "ann"]}

ThreadSymmetry == Permutations(Threads)
=============================================================================
