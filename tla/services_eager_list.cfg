CONSTANTS
    Accounts <- MCAccounts
    Services <- MCServices
    Typed <- MCTyped
    MaxSwitches = 2
SPECIFICATION Spec
INVARIANT ListFromCurrentAccount
