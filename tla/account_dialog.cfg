\* The account dialog, the change password dialog and the pin button,
\* with one saveFunction goroutine at a time.
CONSTANTS
    Chars <- MCLetters
    MaxLen = 1
    Jids <- MCJids
    ValidJids <- MCValidJids
    Nicks <- MCNicks
    PortNumbers <- MCPortNumbers
    PortTexts <- MCPortTexts
    PolicyChoices <- MCPolicyChoices
    Fingerprints <- MCFingerprints
    ServerPin <- MCServerPin
    Proxies <- MCProxies
    MaxProxies = 1
    Configs <- MCConfigs
    MaxSaves = 1
SPECIFICATION Spec
INVARIANT TypeOK
INVARIANT ConfigSaved
PROPERTY SaveUneditedKeepsSettings
