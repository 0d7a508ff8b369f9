----------------------------- MODULE MCSettings -----------------------------
(* Small instances of Settings for TLC: the environments set nothing, one     *)
(* variable, or all of them.                                                  *)
EXTENDS Settings

Bare == [token |-> FALSE, chat |-> Unset, key |-> FALSE, check |-> "unset"]
MCEnvironments ==
  {Bare, [Bare EXCEPT !.token = TRUE], [Bare EXCEPT !.chat = 0],
   [Bare EXCEPT !.check = "on"],
   [token |-> TRUE, chat |-> 7, key |-> TRUE, check |-> "off"]}
=============================================================================
