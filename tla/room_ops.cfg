\* One operation (leave or destroy), two changes of the self occupant
\* (join as owner, then lose ownership or leave), cancellation possible;
\* the first room information request and two retries (a double click).
CONSTANTS
    MaxOps = 1
    MaxSelfChanges = 2
    AllowCancel = TRUE
    MaxInfoRequests = 3
SPECIFICATION Spec
INVARIANT TypeOK
INVARIANT MenuReflectsSelf
PROPERTY LeaveClosesView
PROPERTY LoadingEnds
