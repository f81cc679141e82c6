--------------------------- MODULE MCOverrideFile ---------------------------
(* Model-checking instance of OverrideFile: operations are alike.          *)
EXTENDS OverrideFile, TLC

CONSTANTS t1, t2

MCToken == {t1, t2}
MCAge(t) == IF t = t1 THEN 1 ELSE 2
Perms == Permutations(Op)
=============================================================================
