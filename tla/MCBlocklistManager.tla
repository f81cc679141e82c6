------------------------- MODULE MCBlocklistManager -------------------------
(* Model-checking instances of BlocklistManager: a configuration with one  *)
(* source, one with two, and one with no source.                           *)
EXTENDS BlocklistManager

CONSTANTS one, two, none, s1, s2

MCConfig == {one, two, none}
MCSourcesOf == [c \in Config |-> IF c = one THEN {s1} ELSE IF c = two THEN {s1, s2} ELSE {}]
=============================================================================
