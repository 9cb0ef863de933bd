\* A password with a trailing space, confirmed without it, is accepted.
CONSTANTS
    Chars <- MCChars
    MaxLen = 2
    Jids <- MCJids
    ValidJids <- MCValidJids
    Nicks <- MCNicks
    PortNumbers <- MCPortNumbers
    PortTexts <- MCPortTexts
    PolicyChoices <- MCPolicyChoices
    Fingerprints <- MCFingerprints
    ServerPin <- MCServerPin
    Proxies <- MCProxies
    MaxProxies = 1
    Configs <- MCConfigs
    MaxSaves = 1
SPECIFICATION Spec
INVARIANT SentPasswordConfirmed
