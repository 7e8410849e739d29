--------------------------- MODULE MCVaultWriter ---------------------------
(* VaultWriter with values for the model checker.                          *)
EXTENDS VaultWriter

CONSTANTS t1, t2, t3, c1

ThreeTexts == {t1, t2, t3}
=============================================================================
