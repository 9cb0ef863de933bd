---------------------------- MODULE AccountDetails ----------------------------
(***************************************************************************)
(* The account details dialog, the change password dialog and the pin    *)
(* button of the connection information dialog, src/gui/account_details.go. *)
(*                                                                         *)
(* accountDialog renders a config.Account into its entries and lists; on  *)
(* save, addAccount writes them back into the same account and a          *)
(* goroutine (go saveFunction()) saves the configuration.                 *)
(* changePasswordDialog checks the two entries with validatePasswords and *)
(* starts changePassword on a goroutine, which asks the server and on     *)
(* success clears the account's saved password and saves the             *)
(* configuration.  The connection information dialog's pin button adds   *)
(* the server's certificate to the account and saves.  All of them write  *)
(* the one config.Account in memory ("account"); the configuration file   *)
(* is "disk", and every save writes the in-memory account to it.          *)
(*                                                                         *)
(* A password is a string over the characters of Chars; only spaces and  *)
(* one other character matter to strings.Trim(_, " ").  A session is     *)
(* always present (renderSessionDetails runs), as for an existing         *)
(* account.                                                               *)
(***************************************************************************)
EXTENDS Integers, SequencesExt

CONSTANTS
    Chars,        \* the characters typed, " " among them
    MaxLen,       \* the longest password typed
    Jids,         \* texts of the account entry
    ValidJids,    \* those verifyXMPPAddress accepts
    Nicks,        \* nicknames, "" among them
    PortNumbers,  \* ports other than the unset 0, 5222 among them
    PortTexts,    \* texts typed in the port entry
    PolicyChoices,\* combo box rows the user picks (0..5)
    Fingerprints, \* certificate fingerprints
    ServerPin,    \* the fingerprint of the connection's certificate
    Proxies,      \* proxy strings
    MaxProxies,   \* the longest proxy list
    Configs,      \* the accounts the configuration file may start with
    MaxSaves      \* bound on saveFunction goroutines waiting to run

ASSUME ValidJids \subseteq Jids /\ ServerPin \in Fingerprints
ASSUME 5222 \in PortNumbers /\ PolicyChoices \subseteq 0..5

Words == BoundedSeq(Chars, MaxLen)

Empty == <<>>

\* strings.Trim(s, " "): drop the leading and trailing spaces.
Trim(s) ==
    LET first == SelectInSeq(s, LAMBDA c : c # " ")
        last  == SelectLastInSeq(s, LAMBDA c : c # " ")
    IN  IF first = 0 THEN Empty ELSE SubSeq(s, first, last)

\* validatePasswords: "empty" for a blank new password, "mismatch" when the
\* trimmed new password differs from the repeated one as typed, else "ok".
ValidatePasswords(new, repeated) ==
    LET trimmed == Trim(new) IN
    CASE Len(trimmed) = 0      -> "empty"
      [] trimmed # repeated    -> "mismatch"
      [] OTHER                 -> "ok"

\* The pinning policy combo box's rows, in the order findPinningPolicyFor
\* gives their indexes; each row's id is its policy name.
PolicyIds == <<"none", "deny", "add", "add-first-ask-rest",
               "add-first-deny-rest", "ask">>

Policies == Range(PolicyIds)

\* findPinningPolicyFor: the row of a policy; "" is the default row, and
\* an unknown policy has none (-1).
FindPinningPolicyFor(t) ==
    IF t = "" THEN 3
    ELSE IF t \in Policies THEN CHOOSE i \in 0..5 : PolicyIds[i + 1] = t
    ELSE -1

\* GetActiveID: the id of the selected row, "" when none is selected.
GetActiveID(i) == IF i \in 0..5 THEN PolicyIds[i + 1] ELSE ""

\* strconv.Itoa and strconv.Atoi over the ports of the model.
Itoa(n) == ToString(n)

\* addAccount's port: the entry parsed with strconv.Atoi, or 5222 when it
\* is blank or not a number.
ConvertedPort(t) ==
    IF \E n \in PortNumbers : Itoa(n) = t
        THEN CHOOSE n \in PortNumbers : Itoa(n) = t
        ELSE 5222

\* filterCertificates: the old pins whose fingerprint is still listed.
FilterCertificates(old, listed) == {c \in old : c \in listed}

\* The account's settings, config.Account: the password, the address
\* (Account), the nickname, the port, the certificate pinning policy, the
\* pinned certificates (their fingerprints) and the proxies.
Settings ==
    [password : Words, jid : Jids, nick : Nicks, port : {0} \cup PortNumbers,
     policy : {""} \cup Policies, pins : SUBSET Fingerprints,
     proxies : BoundedSeq(Proxies, MaxProxies)]

\* Mutant: the unset port is shown as it is.
DefaultPortMissing(a) == a

\* renderAccountDetails defaults an unset port to 5222, in the account
\* itself.
DefaultPort(a) == [a EXCEPT !.port = IF @ = 0 THEN 5222 ELSE @]

\* accountDialog, renderSessionDetails and renderAccountDetails: the
\* entries and lists shown for account a (after DefaultPort).  The
\* password entry stays empty: a saved password is only a placeholder.
\* The nickname entry is set when the nickname is not empty, and is empty
\* otherwise.
Render(a) ==
    [jid |-> a.jid, pass |-> Empty, nick |-> a.nick, port |-> Itoa(a.port),
     policy |-> FindPinningPolicyFor(a.policy), pins |-> a.pins,
     proxies |-> a.proxies]

\* Mutant: the password entry replaces the saved password even when empty.
AddAccountAlwaysPassword(a, f) ==
    [a EXCEPT !.jid = f.jid, !.password = f.pass, !.nick = f.nick,
              !.port = ConvertedPort(f.port), !.proxies = f.proxies,
              !.pins = FilterCertificates(@, f.pins),
              !.policy = GetActiveID(f.policy)]

\* addAccount: every field from the dialog, the password only when its
\* entry is not empty.
AddAccount(a, f) ==
    [a EXCEPT !.jid = f.jid, !.password = IF f.pass # Empty THEN f.pass ELSE @,
              !.nick = f.nick, !.port = ConvertedPort(f.port),
              !.proxies = f.proxies, !.pins = FilterCertificates(@, f.pins),
              !.policy = GetActiveID(f.policy)]

VARIABLES
    account,    \* the config.Account in memory
    disk,       \* the same account in the saved configuration file
    pw,         \* the change password dialog: "closed", "form", "busy", "succeeded", "failed"
    newPw,      \* the newPassword entry
    repeatPw,   \* the reEntryNewPassword entry
    formError,  \* the result validatePasswords last showed, or "none"
    buttons,    \* the visible buttons among "change", "cancel", "ok"
    request,    \* the password the changePassword goroutine sends: {} or {p}
    confirmed,  \* the repeated entry when that request was started
    acct,       \* the account dialog: "closed" or "open"
    form,       \* its entries and lists (accountDetailsData)
    edited,     \* the user has changed one of them since the dialog opened
    openPins,   \* the pins the dialog listed when it opened
    accError,   \* the dialog shows an invalid-address notification
    saves       \* saveFunction goroutines not yet run

vars == <<account, disk, pw, newPw, repeatPw, formError, buttons, request,
          confirmed, acct, form, edited, openPins, accError, saves>>

dialogVars == <<pw, newPw, repeatPw, formError, buttons, request, confirmed>>

Init ==
    /\ account \in Configs /\ disk = account
    /\ pw = "closed" /\ newPw = Empty /\ repeatPw = Empty /\ formError = "none"
    /\ buttons = {} /\ request = {} /\ confirmed = Empty
    /\ acct = "closed" /\ form = Render(DefaultPort(account)) /\ edited = FALSE
    /\ openPins = {} /\ accError = FALSE /\ saves = 0

(***************************************************************************)
(* The change password dialog.                                             *)
(***************************************************************************)

\* changePasswordDialog: ShowAll, then the callback grid, the form label
\* and the OK button are hidden again.
OpenChangePassword ==
    /\ pw = "closed"
    /\ pw' = "form" /\ buttons' = {"change", "cancel"}
    /\ newPw' = Empty /\ repeatPw' = Empty /\ formError' = "none"
    /\ UNCHANGED <<account, disk, request, confirmed, acct, form, edited,
                   openPins, accError, saves>>

\* The entries are editable until a change is started.
TypeNewPassword(w) ==
    /\ pw = "form" /\ newPw' = w
    /\ UNCHANGED <<account, disk, pw, repeatPw, formError, buttons, request,
                   confirmed, acct, form, edited, openPins, accError, saves>>

TypeRepeatedPassword(w) ==
    /\ pw = "form" /\ repeatPw' = w
    /\ UNCHANGED <<account, disk, pw, newPw, formError, buttons, request,
                   confirmed, acct, form, edited, openPins, accError, saves>>

\* on_change_signal: show validatePasswords' error, or start the spinner,
\* hide the change and cancel buttons, lock the entries and run
\* changePassword with the new password as typed.
ClickChange ==
    /\ pw = "form" /\ "change" \in buttons
    /\ LET result == ValidatePasswords(newPw, repeatPw) IN
       IF result # "ok"
          THEN /\ formError' = result
               /\ UNCHANGED <<pw, buttons, request, confirmed>>
          ELSE /\ pw' = "busy" /\ formError' = "none"
               /\ buttons' = buttons \ {"change", "cancel"}
               /\ request' = {newPw} /\ confirmed' = repeatPw
    /\ UNCHANGED <<account, disk, newPw, repeatPw, acct, form, edited,
                   openPins, accError, saves>>

\* Mutant: the saved password is cleared in memory but not saved.
PasswordChangedNoSave ==
    /\ pw = "busy"
    /\ account' = [account EXCEPT !.password = Empty]
    /\ pw' = "succeeded" /\ buttons' = buttons \cup {"ok"}
    /\ request' = {}
    /\ UNCHANGED <<disk, newPw, repeatPw, formError, confirmed, acct, form,
                   edited, openPins, accError, saves>>

\* changePassword, when ChangePassword2 succeeds: stop the spinner, clear
\* the saved password, SaveConfig, show the result and the OK button.
PasswordChanged ==
    /\ pw = "busy"
    /\ account' = [account EXCEPT !.password = Empty]
    /\ disk' = account'
    /\ pw' = "succeeded" /\ buttons' = buttons \cup {"ok"}
    /\ request' = {}
    /\ UNCHANGED <<newPw, repeatPw, formError, confirmed, acct, form, edited,
                   openPins, accError, saves>>

\* changePassword, when ChangePassword2 fails: show the error; no button
\* is shown again.
PasswordChangeFailed ==
    /\ pw = "busy"
    /\ pw' = "failed" /\ request' = {}
    /\ UNCHANGED <<account, disk, newPw, repeatPw, formError, buttons,
                   confirmed, acct, form, edited, openPins, accError, saves>>

\* on_ok_signal and on_cancel_signal: dialog.Destroy.
CloseChangePassword(b) ==
    /\ b \in buttons \cap {"ok", "cancel"}
    /\ pw' = "closed" /\ buttons' = {}
    /\ UNCHANGED <<account, disk, newPw, repeatPw, formError, request,
                   confirmed, acct, form, edited, openPins, accError, saves>>

(***************************************************************************)
(* The connection information dialog's pin button (on_pin_signal): the    *)
(* button is insensitive once the certificate is pinned (checkPinned);    *)
(* SaveCert adds it to the account and SaveConfig saves.                   *)
(***************************************************************************)
PinCertificate ==
    /\ ServerPin \notin account.pins
    /\ account' = [account EXCEPT !.pins = @ \cup {ServerPin}]
    /\ disk' = account'
    /\ UNCHANGED <<dialogVars, acct, form, edited, openPins, accError, saves>>

(***************************************************************************)
(* The account details dialog.                                             *)
(***************************************************************************)

\* accountDialog: renderAccountDetails sets an unset port to 5222 in the
\* account, then the dialog shows the account's settings.
OpenAccountDialog ==
    /\ acct = "closed"
    /\ account' = DefaultPort(account)
    /\ acct' = "open" /\ form' = Render(account')
    /\ edited' = FALSE /\ openPins' = account'.pins /\ accError' = FALSE
    /\ UNCHANGED <<disk, dialogVars, saves>>

\* An edit of the dialog: an entry typed in, a row picked, a list changed.
Edit(f) ==
    /\ acct = "open" /\ form' = f /\ edited' = TRUE
    /\ UNCHANGED <<account, disk, dialogVars, acct, openPins, accError, saves>>

TypeAccountJid(j) == Edit([form EXCEPT !.jid = j])

TypeAccountPassword(w) == Edit([form EXCEPT !.pass = w])

TypeNickname(n) == Edit([form EXCEPT !.nick = n])

TypePort(t) == Edit([form EXCEPT !.port = t])

SelectPinningPolicy(i) == Edit([form EXCEPT !.policy = i])

\* on_add_proxy_signal, then the proxy editor's save: a new row, edited.
AddProxy(p) ==
    /\ Len(form.proxies) < MaxProxies
    /\ Edit([form EXCEPT !.proxies = Append(@, p)])

\* on_edit_proxy_signal / on_edit_activate_proxy_signal, then save.
EditProxy(i, p) == Edit([form EXCEPT !.proxies[i] = p])

\* on_remove_proxy_signal with row i selected.
RemoveProxy(i) == Edit([form EXCEPT !.proxies = RemoveAt(@, i)])

\* on_remove_pin_signal with the row of pin c selected.
RemovePin(c) == Edit([form EXCEPT !.pins = @ \ {c}])

\* on_save_signal: an address verifyXMPPAddress rejects shows an error
\* and the dialog stays; otherwise addAccount, go saveFunction() and
\* Destroy.
SaveAccount ==
    /\ acct = "open"
    /\ IF form.jid \notin ValidJids
          THEN /\ accError' = TRUE
               /\ UNCHANGED <<account, acct, saves>>
          ELSE /\ saves < MaxSaves
               /\ account' = AddAccount(account, form)
               /\ saves' = saves + 1
               /\ acct' = "closed" /\ accError' = FALSE
    /\ UNCHANGED <<disk, dialogVars, form, edited, openPins>>

\* on_cancel_signal: buildAccountsMenu and Destroy.
CancelAccount ==
    /\ acct = "open" /\ acct' = "closed" /\ accError' = FALSE
    /\ UNCHANGED <<account, disk, dialogVars, form, edited, openPins, saves>>

\* A saveFunction goroutine writes the configuration.
RunSave ==
    /\ saves > 0
    /\ disk' = account /\ saves' = saves - 1
    /\ UNCHANGED <<account, dialogVars, acct, form, edited, openPins, accError>>

Next ==
    \/ OpenChangePassword
    \/ \E w \in Words : TypeNewPassword(w) \/ TypeRepeatedPassword(w)
    \/ ClickChange \/ PasswordChanged \/ PasswordChangeFailed
    \/ \E b \in {"ok", "cancel"} : CloseChangePassword(b)
    \/ PinCertificate
    \/ OpenAccountDialog \/ CancelAccount \/ SaveAccount \/ RunSave
    \/ \E j \in Jids : TypeAccountJid(j)
    \/ \E w \in Words : TypeAccountPassword(w)
    \/ \E n \in Nicks : TypeNickname(n)
    \/ \E t \in PortTexts : TypePort(t)
    \/ \E i \in PolicyChoices : SelectPinningPolicy(i)
    \/ \E p \in Proxies : AddProxy(p)
    \/ \E i \in DOMAIN form.proxies, p \in Proxies : EditProxy(i, p)
    \/ \E i \in DOMAIN form.proxies : RemoveProxy(i)
    \/ \E c \in form.pins : RemovePin(c)

Spec == Init /\ [][Next]_vars

(***************************************************************************)
(* Properties.                                                             *)
(***************************************************************************)

TypeOK ==
    /\ account \in Settings /\ disk \in Settings
    /\ pw \in {"closed", "form", "busy", "succeeded", "failed"}
    /\ {newPw, repeatPw, confirmed} \subseteq Words
    /\ formError \in {"none", "empty", "mismatch"}
    /\ buttons \subseteq {"change", "cancel", "ok"}
    /\ request \subseteq Words
    /\ acct \in {"closed", "open"}
    /\ form \in [jid : Jids, pass : Words, nick : Nicks,
                 port : PortTexts \cup {Itoa(n) : n \in PortNumbers},
                 policy : -1..5, pins : SUBSET Fingerprints,
                 proxies : BoundedSeq(Proxies, MaxProxies)]
    /\ edited \in BOOLEAN /\ openPins \subseteq Fingerprints
    /\ accError \in BOOLEAN /\ saves \in 0..MaxSaves

\* The password changePassword sends to the server is the one the user
\* typed in both entries: validatePasswords' "The passwords do not match"
\* is meant to stop any other.
SentPasswordConfirmed == \A p \in request : p = confirmed

\* A dialog whose change has ended can be closed with one of its buttons.
EndedDialogClosable == pw \in {"succeeded", "failed"} => buttons # {}

\* Two settings are the same account when they differ only in what the
\* code itself reads as equal: an unset port is 5222 (renderAccountDetails)
\* and no policy is the default row's add-first-ask-rest.
SameSettings(a, b) ==
    LET norm(x) == [x EXCEPT !.port = IF @ = 0 THEN 5222 ELSE @,
                             !.policy = IF @ = "" THEN "add-first-ask-rest" ELSE @]
    IN  norm(a) = norm(b)

\* Once the saveFunction goroutines have run, the configuration file holds
\* the account as it is in memory: every writer (addAccount on the UI
\* thread, changePassword on its goroutine, the pin button) is followed
\* by a save, whatever order they ran in.
ConfigSaved == saves = 0 => SameSettings(disk, account)

\* Opening the account dialog and saving it without touching any field
\* changes none of the account's settings (renderAccountDetails and
\* addAccount are inverse), pins aside: PinnedCertificateKept is about them.
SaveUneditedKeepsSettings ==
    [][ acct = "open" /\ acct' = "closed" /\ saves' = saves + 1 /\ ~edited
        => SameSettings([account' EXCEPT !.pins = {}],
                        [account EXCEPT !.pins = {}]) ]_vars

\* A pinned certificate leaves the account only when the user removed it
\* from the account dialog's list.
PinnedCertificateKept ==
    [][ \A c \in account.pins \ account'.pins : c \in openPins \ form.pins ]_vars

====
