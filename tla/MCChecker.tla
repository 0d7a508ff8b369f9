------------------------------ MODULE MCChecker ------------------------------
(* Three functions of the table of checkDangerousFunctions, with risks whose  *)
(* sums are told apart from each other and from the owner's ten points.       *)
EXTENDS Checker
MCFunctions == {"setMaxWallet", "maxTx", "addBots"}
MCRisk == [setMaxWallet |-> 15, maxTx |-> 20, addBots |-> 50]
MCTaxes == {-1, 9, 10, 26, 51}
=============================================================================
