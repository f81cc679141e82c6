----------------------------- MODULE ConfigStore -----------------------------
(***************************************************************************)
(* What the override file promises to those who change it: a save replaces *)
(* the parts it is about, and can besides only take back what others have  *)
(* changed since it read the file.  Who writes in place leaves the file    *)
(* empty for a moment; who reads it then may take back anything.           *)
(* OverrideFile implements this.                                           *)
(***************************************************************************)
CONSTANTS
    Op,              (* the read-change-write operations                   *)
    Part,            (* what the file is made of                           *)
    Group,           (* the sets of parts one operation may replace        *)
    Value,           (* what a part can be                                 *)
    Nil              (* a part that is not in the file; no operation       *)

VARIABLES
    file,     (* the content, or what it was before it was emptied         *)
    torn,     (* the operation that has emptied the file to write it       *)
    open,     (* the operations that have read the file and not written it *)
    claim,    (* the parts that each of them is about                      *)
    stale     (* the parts that have changed since each of them read it    *)

vars == <<file, torn, open, claim, stale>>

Empty == [p \in Part |-> Nil]

Init ==
    /\ file \in [Part -> Value]
    /\ torn = Nil
    /\ open = {}
    /\ claim = [o \in Op |-> {}]
    /\ stale = [o \in Op |-> {}]

(* The others that have the file open have missed these changes.           *)
Changes(os, parts) ==
    /\ open' = open \ os
    /\ claim' = [o \in Op |-> IF o \in os THEN {} ELSE claim[o]]
    /\ stale' = [o \in Op |-> IF o \in os THEN {}
                              ELSE IF o \in open THEN stale[o] \cup parts
                              ELSE stale[o]]

Open(o) ==
    /\ o \notin open
    /\ open' = open \cup {o}
    /\ \E W \in Group : claim' = [claim EXCEPT ![o] = W]
    /\ stale' = [stale EXCEPT ![o] = IF torn = Nil THEN {} ELSE Part]
    /\ UNCHANGED <<file, torn>>

Empties(o) ==
    /\ o \in open
    /\ torn = Nil
    /\ torn' = o
    /\ UNCHANGED <<file, open, claim, stale>>

Save(o) ==
    /\ o \in open
    /\ file' \in [Part -> Value]
    /\ \A p \in Part \ (claim[o] \cup stale[o]) : file'[p] = file[p]
    /\ torn' = Nil
    /\ Changes({o}, claim[o] \cup stale[o])

(* Operations fail, or their process dies: an emptied file stays empty.    *)
Close(os) ==
    /\ os \subseteq open
    /\ IF torn \in os
       THEN file' = Empty /\ torn' = Nil /\ Changes(os, Part)
       ELSE UNCHANGED <<file, torn>> /\ Changes(os, {})

Next ==
    \/ \E o \in Op : Open(o) \/ Empties(o) \/ Save(o)
    \/ \E os \in SUBSET Op : Close(os)

Spec == Init /\ [][Next]_vars
=============================================================================
