CONSTANTS
    Affiliations <- MCAffiliations
    InitialAffiliations <- MCAffiliations
    MaxApplies = 2
SPECIFICATION Spec
INVARIANT TypeOK
INVARIANT ConsistentUnlessCancelled
PROPERTY ApplySettles
