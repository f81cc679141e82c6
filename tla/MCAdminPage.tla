---------------------------- MODULE MCAdminPage ----------------------------
(* Model-checking instance of AdminPage: nothing, a source, and the source *)
(* with another row; its requests are alike.                               *)
EXTENDS AdminPage, TLC

CONSTANTS r1, r2

MCContent == {{}, {r1}, {r1, r2}}
Perms == Permutations(Flow)
=============================================================================
