---------------------------- MODULE MCSieveCache ----------------------------
(* Model-checking instance of SieveCache.                                  *)
EXTENDS SieveCache

(* The contents of an unallocated element are never read: start from one.  *)
InitBlank == L0Init /\ \E k \in Key :
    ent = [e \in Elem |-> [key |-> k, visited |-> FALSE, expired |-> FALSE]]

MCSpec == InitBlank /\ [][L0Next]_l0Vars
MCFairSpec == MCSpec /\ WF_l0Vars(EvictStep) /\ WF_l0Vars(CleanStep) /\ WF_l0Vars(CleanEnd)

(* What a state is, without the identities of the elements and without the *)
(* contents of those nothing refers to: an element is its place in the     *)
(* list, 0 when it is not in it.  States with one view have the same       *)
(* behaviours and the same values of every property.                       *)
Place(e) == IF InList(e) THEN CHOOSE i \in DOMAIN ll : ll[i] = e ELSE 0

View == <<
    [i \in DOMAIN ll |-> ent[ll[i]]],
    [k \in Key |-> IF cache[k] = Nil THEN Nil ELSE Place(cache[k])],
    IF hand = Nil THEN Nil ELSE IF InList(hand) THEN Place(hand) ELSE ent[hand],
    lock, setting, expiring >>
=============================================================================
