\* The self occupant and two others, every roster change and user click.
CONSTANTS
    Occupants = {o1, o2, o3}
    Self = o1
    MaxQueued = 1
SPECIFICATION RosterSpec
SYMMETRY OthersSymmetry
INVARIANT PanelTypeOK
INVARIANT PanelReflectsPrivileges
INVARIANT DifferentFromIsInequality
INVARIANT PresentAffiliationsTotallyOrdered
INVARIANT PrivilegesMonotone
INVARIANT QueriesAnswerTheirPrivilege
INVARIANT AuthorityRespectsRank
