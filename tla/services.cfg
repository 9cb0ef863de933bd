\* Two account changes, by a user who waits for each list to load and by
\* one who changes account at any moment (cancel sends and their receipt).
CONSTANTS
    Accounts <- MCAccounts
    Services <- MCServices
    Typed <- MCTyped
    MaxSwitches = 2
SPECIFICATION Spec
INVARIANT TypeOK
INVARIANT PatientListFromCurrentAccount
INVARIANT ListCompleteWhenLoaded
PROPERTY UpdatersReturn
