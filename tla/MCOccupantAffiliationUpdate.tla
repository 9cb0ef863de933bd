-------------------- MODULE MCOccupantAffiliationUpdate --------------------
(* Model-checking instance of OccupantAffiliationUpdate: three affiliation *)
(* values, so that the dialog opens with either radio or with neither.     *)
EXTENDS OccupantAffiliationUpdate

MCAffiliations == {"none", "admin", "member"}
====
