------------------------------- MODULE Review --------------------------------
(***************************************************************************)
(* Reviewers at work: requests on mappings and on account-type tables,     *)
(* with the access of their users changing under them.                     *)
(***************************************************************************)
EXTENDS AccountTypes

vars == <<reviewVars, typeVars>>

Init == ReviewInit /\ TypesInit

Next ==
    \E r \in Reqs:
        \/ ReviewStep(r) /\ UNCHANGED typeVars
        \/ TypesStep(r)

Spec == Init /\ [][Next]_vars

TypeOK == ReviewTypeOK /\ TypesTypeOK
=============================================================================
