CONSTANTS
    Affiliations <- MCAffiliations
    InitialAffiliations <- MCAffiliations
    MaxApplies = 2
SPECIFICATION Spec
PROPERTY NoCallbackAfterCancel
