--------------------------- MODULE MCAccountDetails ---------------------------
(* Model-checking instance of AccountDetails.  Passwords are strings over *)
(* a letter and the space, enough for a leading or a trailing space and   *)
(* for a blank password.  One address verifyXMPPAddress accepts and one  *)
(* it rejects; one nickname; the default port and one other, typed as    *)
(* numbers or as text that is not a number; one pinning policy row       *)
(* besides the default; the server's certificate and one other pin; one  *)
(* proxy.  One initial account: port 0 and an empty policy, the values    *)
(* renderAccountDetails and addAccount normalise.                         *)
EXTENDS AccountDetails

MCChars == {"a", " "}

\* The account dialog run: a letter only; spaces matter to validatePasswords
\* alone, which password_confirm checks.
MCLetters == {"a"}

MCJids == {"u@h", "u"}

MCValidJids == {"u@h"}

MCNicks == {"n"}

MCPortNumbers == {5222, 5223}

MCPortTexts == {"x"}

MCPolicyChoices == {1}

MCFingerprints == {"f1", "f2"}

MCServerPin == "f2"

MCProxies == {"tor-auto://"}

\* An account as the configuration file may hold it: saved password or
\* none, port unset or set, the default, an empty or a named policy, one
\* pin, one proxy or none.
MCConfigs ==
    [password : {<<"a">>}, jid : {"u@h"}, nick : {"n"}, port : {0},
     policy : {""}, pins : {{"f1"}}, proxies : {<<>>}]
====
