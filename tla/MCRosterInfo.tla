---------------------------- MODULE MCRosterInfo ----------------------------
(* Model-checking instance of RosterInfo: three occupants, o1 the self    *)
(* occupant; the two others are interchangeable.                          *)
EXTENDS RosterInfo, TLC

OthersSymmetry == Permutations(Occupants \ {Self})
====
