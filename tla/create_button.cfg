\* One room name besides the empty entry, two create attempts.
CONSTANTS
    Names <- MCNames
    MaxCreates = 2
SPECIFICATION Spec
INVARIANT CreateEnabledIffCreatable
