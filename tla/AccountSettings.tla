-------------------------- MODULE AccountSettings --------------------------
(***************************************************************************)
(* The settings page of one account: the confirmed password it keeps for   *)
(* five minutes, the e-mail change that waits for its link, the password,  *)
(* the second factor and the passkeys, each changed by calls that other    *)
(* devices, links and timers may cross. Verified e-mail changes are on.    *)
(* The session cookie is the same for all requests of the page.            *)
(***************************************************************************)
EXTENDS Actors

CONSTANTS
    Address,        \* e-mail addresses
    FirstAddress,   \* the one the account has at first
    MaxAccountOps

Password == {"old", "new"}
Action == {"email", "password", "twoFactor", "passkeys"}

\* calls that need a recently confirmed password on the server
Protected == {"enable", "verify", "disable", "codes", "addPasskey", "removePasskey"}

AccountOf ==
    [address : Address, pending : Address \cup {None}, password : Password, totp : {"off", "setup", "on"}, passkeys : 0 .. 1]
EmailLink == [from : Address, to : Address]
OpenedLink == [link : EmailLink, step : {"validated", "verified"}]
StatusRequest == [step : {"sent", "back"}, pending : Address \cup {None}]
PageCall ==
    [op : Protected \cup {"confirm", "email", "resend", "password", "list"},
     step : {"sent", "check", "write", "mail", "done", "failed", "refresh"},
     password : Password \cup {None}, to : Address \cup (0 .. 1) \cup {None}]

ASSUME SettingsAssumption ==
    /\ FirstAddress \in Address
    /\ None \notin Address \cup OpenedLink \cup StatusRequest \cup PageCall

VARIABLES
    account,        \* [address, pending, password, totp, passkeys]: its rows
    session,        \* [alive, recent]: the page's session, and its recentAuthAt while it is not too old
    links,          \* e-mail change links sent: [from, to]
    opened,         \* the link being opened: None, or [link, step]
    user,           \* [address, totp]: what the session store holds
    recentAuth,     \* hasRecentAuth: recentAuthExpiresAt is in the future
    recentAuthPassword,
    recentAuthOpen,
    pendingAction,  \* pendingRecentAuthAction
    openDialog,         \* the management dialog that is open
    pendingShown,   \* pendingEmailChange
    passkeysShown,
    statusRequest,  \* None, or the request for the verification status under way
    calls,          \* the page's other calls
    staleStatus,       \* a load failed, or was crossed by a change
    accountOps      \* at most MaxAccountOps

serverSide == <<account, session, links, opened>>
pageSide == <<user, recentAuth, recentAuthPassword, recentAuthOpen, pendingAction, openDialog, pendingShown, passkeysShown>>
accountVars == <<serverSide, pageSide, statusRequest, calls, staleStatus, accountOps>>

AccountStep == Room(accountOps, MaxAccountOps) /\ accountOps' = accountOps + 1

Running(op) == \E t \in Call : calls[t] # None /\ calls[t].op = op

\* what the store holds, and the watch of user: the change is done when the address is the one waited for
userShown(u) ==
    /\ user' = u
    /\ pendingShown' = IF u # user /\ pendingShown = u.address THEN None ELSE pendingShown

StoredUser == [address |-> account.address, totp |-> account.totp = "on"]

-----------------------------------------------------------------------------
(* A confirmed password                                                    *)

Calling(t, op) == calls' = [calls EXCEPT ![t] = [op |-> op, step |-> "sent", password |-> recentAuthPassword, to |-> None]]

\* what the page does when the password is confirmed; a second factor that is off is set up at once, with its own call
Run(action, t) ==
    CASE action = "passkeys" -> openDialog' = action /\ Calling(t, "list")
      [] action = "twoFactor" /\ ~user.totp -> UNCHANGED openDialog /\ Calling(t, "enable")
      [] OTHER -> openDialog' = action /\ calls' = [calls EXCEPT ![t] = None]

requestRecentAuth(t) == \E action \in Action :
    /\ openDialog = None /\ ~recentAuthOpen /\ calls[t] = None
    /\ AccountStep
    /\ IF recentAuth
       THEN Run(action, t) /\ UNCHANGED <<pendingAction, recentAuthPassword, recentAuthOpen>>
       ELSE /\ pendingAction' = action
            /\ recentAuthPassword' = None
            /\ recentAuthOpen' = TRUE
            /\ UNCHANGED <<openDialog, calls>>
    /\ UNCHANGED <<serverSide, user, recentAuth, pendingShown, passkeysShown, statusRequest, staleStatus>>

TypePassword ==
    /\ recentAuthOpen
    /\ recentAuthPassword' \in Password \ {recentAuthPassword}
    /\ UNCHANGED <<serverSide, user, recentAuth, recentAuthOpen, pendingAction, openDialog, pendingShown, passkeysShown,
                   statusRequest, calls, staleStatus, accountOps>>

\* a bug: the password typed stays when the dialog is closed
closeRecentAuth_Kept ==
    /\ recentAuthOpen
    /\ recentAuthOpen' = FALSE
    /\ UNCHANGED <<serverSide, user, recentAuth, recentAuthPassword, pendingAction, openDialog, pendingShown, passkeysShown,
                   statusRequest, calls, staleStatus, accountOps>>

\* the dialog can be closed while its answer is awaited
closeRecentAuth ==
    /\ recentAuthOpen
    /\ recentAuthOpen' = FALSE
    /\ recentAuthPassword' = IF recentAuth THEN recentAuthPassword ELSE None
    /\ UNCHANGED <<serverSide, user, recentAuth, pendingAction, openDialog, pendingShown, passkeysShown,
                   statusRequest, calls, staleStatus, accountOps>>

confirmRecentAuth(t) ==
    /\ recentAuthOpen /\ recentAuthPassword # None /\ ~Running("confirm")
    /\ calls[t] = None
    /\ Calling(t, "confirm")
    /\ UNCHANGED <<serverSide, pageSide, statusRequest, staleStatus, accountOps>>

\* a call's answer is on its way
Replies(t, ok) == calls' = [calls EXCEPT ![t].step = IF ok THEN "done" ELSE "failed"]

PasswordAccepted(t) == session.alive /\ calls[t].password = account.password

confirmPassword(t) ==
    /\ calls[t] # None /\ calls[t].op = "confirm" /\ calls[t].step = "sent"
    /\ session' = [session EXCEPT !.recent = PasswordAccepted(t) \/ session.recent]
    /\ Replies(t, PasswordAccepted(t))
    /\ UNCHANGED <<account, links, opened, pageSide, statusRequest, staleStatus, accountOps>>

\* what is in the input now is kept, and the latest action asked for is done
ConfirmReturns(t) ==
    /\ calls[t] # None /\ calls[t].op = "confirm" /\ calls[t].step = "done"
    /\ recentAuth' = TRUE
    /\ recentAuthOpen' = FALSE
    /\ Run(pendingAction, t)
    /\ pendingAction' = None
    /\ UNCHANGED <<serverSide, user, recentAuthPassword, pendingShown, passkeysShown, statusRequest, staleStatus, accountOps>>

\* scheduleRecentAuthExpiry: its timer
RecentAuthTimer ==
    /\ recentAuth
    /\ recentAuth' = FALSE /\ recentAuthPassword' = None
    /\ UNCHANGED <<serverSide, user, recentAuthOpen, pendingAction, openDialog, pendingShown, passkeysShown,
                   statusRequest, calls, staleStatus, accountOps>>

\* recentAuthAt is more than RECENT_AUTH_TTL_MS old
RecentAuthExpires ==
    /\ session.recent
    /\ session' = [session EXCEPT !.recent = FALSE]
    /\ UNCHANGED <<account, links, opened, pageSide, statusRequest, calls, staleStatus, accountOps>>

closeDialog ==
    /\ openDialog # None
    /\ openDialog' = None
    /\ UNCHANGED <<serverSide, user, recentAuth, recentAuthPassword, recentAuthOpen, pendingAction, pendingShown, passkeysShown,
                   statusRequest, calls, staleStatus, accountOps>>

Fails(t) ==
    /\ calls[t] # None /\ calls[t].step \in {"sent", "failed"}
    /\ calls' = [calls EXCEPT ![t] = None]
    /\ staleStatus' = (staleStatus \/ calls[t].op = "list")
    /\ UNCHANGED <<serverSide, pageSide, statusRequest, accountOps>>

-----------------------------------------------------------------------------
(* The address                                                             *)

\* verify-password is the first of its requests
changeEmail(t) ==
    /\ openDialog = "email" /\ ~Running("email") /\ calls[t] = None
    /\ AccountStep
    /\ \E to \in Address \ {user.address}, password \in (IF recentAuth THEN {recentAuthPassword} ELSE Password) \ {None} :
         calls' = [calls EXCEPT ![t] = [op |-> "email", step |-> "sent", password |-> password, to |-> to]]
    /\ UNCHANGED <<serverSide, pageSide, statusRequest, staleStatus>>

verifyPassword(t) ==
    /\ calls[t] # None /\ calls[t].op = "email" /\ calls[t].step = "sent"
    /\ calls' = [calls EXCEPT ![t].step = IF PasswordAccepted(t) THEN "check" ELSE "failed"]
    /\ UNCHANGED <<serverSide, pageSide, statusRequest, staleStatus, accountOps>>

\* emailIsInUse: another account may have the address, or wait for it
setPendingEmailChange(t) ==
    /\ calls[t] # None /\ calls[t].op = "email" /\ calls[t].step = "check"
    /\ \/ /\ PasswordAccepted(t) /\ calls[t].to # account.address
          /\ calls' = [calls EXCEPT ![t].step = "write"]
       \/ calls' = [calls EXCEPT ![t].step = "failed"]
    /\ UNCHANGED <<serverSide, pageSide, statusRequest, staleStatus, accountOps>>

setPendingEmail(t) ==
    /\ calls[t] # None /\ calls[t].op = "email" /\ calls[t].step = "write"
    /\ account' = [account EXCEPT !.pending = calls[t].to]
    /\ staleStatus' = TRUE
    /\ calls' = [calls EXCEPT ![t].step = "mail"]
    /\ UNCHANGED <<session, links, opened, pageSide, statusRequest, accountOps>>

\* the library's changeEmail; when the mail is not sent the change stays pending
sendPendingEmailChange(t) ==
    /\ calls[t] # None /\ calls[t].step = "mail"
    /\ \/ /\ links' = links \cup {[from |-> account.address, to |-> calls[t].to]}
          /\ Replies(t, TRUE)
       \/ UNCHANGED links /\ Replies(t, FALSE)
    /\ UNCHANGED <<account, session, opened, pageSide, statusRequest, staleStatus, accountOps>>

\* after the answer the page waits for the status
EmailReturns(t) ==
    /\ calls[t] # None /\ calls[t].op = "email" /\ calls[t].step = "done"
    /\ pendingShown' = calls[t].to
    /\ statusRequest' = [step |-> "sent", pending |-> None]
    /\ calls' = [calls EXCEPT ![t].step = "refresh"]
    /\ UNCHANGED <<serverSide, user, recentAuth, recentAuthPassword, recentAuthOpen, pendingAction, openDialog, passkeysShown,
                   staleStatus, accountOps>>

\* getAccountPendingEmail: one that is the account's address already is removed
LivePending == IF account.pending = account.address THEN None ELSE account.pending

\* the button is there while a change is pending
resendVerificationEmail(t) ==
    /\ openDialog = "email" /\ pendingShown # None /\ ~Running("resend") /\ calls[t] = None
    /\ AccountStep
    /\ Calling(t, "resend")
    /\ UNCHANGED <<serverSide, pageSide, statusRequest, staleStatus>>

resendPending(t) ==
    /\ calls[t] # None /\ calls[t].op = "resend" /\ calls[t].step = "sent"
    /\ account' = [account EXCEPT !.pending = LivePending]
    /\ calls' = [calls EXCEPT ![t].step = IF ~session.alive THEN "failed" ELSE IF LivePending = None THEN "done" ELSE "mail",
                              ![t].to = LivePending]
    /\ UNCHANGED <<session, links, opened, pageSide, statusRequest, staleStatus, accountOps>>

ResendReturns(t) ==
    /\ calls[t] # None /\ calls[t].op = "resend" /\ calls[t].step = "done"
    /\ statusRequest' = [step |-> "sent", pending |-> None]
    /\ calls' = [calls EXCEPT ![t].step = "refresh"]
    /\ UNCHANGED <<serverSide, pageSide, staleStatus, accountOps>>

getEmailVerificationStatus ==
    /\ statusRequest # None /\ statusRequest.step = "sent" /\ session.alive
    /\ account' = [account EXCEPT !.pending = LivePending]
    /\ statusRequest' = [step |-> "back", pending |-> LivePending]
    /\ staleStatus' = FALSE
    /\ UNCHANGED <<session, links, opened, pageSide, calls, accountOps>>

\* a refresh that is answered, or fails, lets all go on that wait for one; the dialog is closed by a change
Refreshed ==
    /\ statusRequest' = None
    /\ calls' = [t \in Call |-> IF calls[t] # None /\ calls[t].step = "refresh" THEN None ELSE calls[t]]
    /\ openDialog' = IF openDialog = "email" /\ \E t \in Call : calls[t] # None /\ calls[t].op = "email" /\ calls[t].step = "refresh"
                 THEN None ELSE openDialog

\* a bug: only a change that is pending is taken from the status
StatusReturns_KeepsPending ==
    /\ statusRequest # None /\ statusRequest.step = "back"
    /\ pendingShown' = IF statusRequest.pending = None THEN pendingShown ELSE statusRequest.pending
    /\ Refreshed
    /\ UNCHANGED <<serverSide, user, recentAuth, recentAuthPassword, recentAuthOpen, pendingAction, passkeysShown,
                   staleStatus, accountOps>>

\* watch(verificationStatus)
StatusReturns ==
    /\ statusRequest # None /\ statusRequest.step = "back"
    /\ pendingShown' = statusRequest.pending
    /\ Refreshed
    /\ UNCHANGED <<serverSide, user, recentAuth, recentAuthPassword, recentAuthOpen, pendingAction, passkeysShown,
                   staleStatus, accountOps>>

StatusFails ==
    /\ statusRequest # None
    /\ Refreshed
    /\ staleStatus' = TRUE
    /\ UNCHANGED <<serverSide, user, recentAuth, recentAuthPassword, recentAuthOpen, pendingAction, pendingShown, passkeysShown,
                   accountOps>>

\* only the link of the change that is pending is passed on to the library
validateEmailVerificationToken == \E link \in links :
    /\ opened = None
    /\ account.address = link.from /\ account.pending = link.to
    /\ AccountStep
    /\ opened' = [link |-> link, step |-> "validated"]
    /\ UNCHANGED <<account, session, links, pageSide, statusRequest, calls, staleStatus>>

\* the library gives the account its address, unless it is another's or the account has changed; then
\* afterEmailVerification follows
VerifyEmail ==
    /\ opened # None /\ opened.step = "validated"
    /\ \/ /\ account.address = opened.link.from
          /\ account' = [account EXCEPT !.address = opened.link.to]
          /\ opened' = [opened EXCEPT !.step = "verified"]
          /\ staleStatus' = TRUE
       \/ opened' = None /\ UNCHANGED <<account, staleStatus>>
    /\ UNCHANGED <<session, links, pageSide, statusRequest, calls, accountOps>>

\* any change that is pending by now ends
afterEmailVerification ==
    /\ opened # None /\ opened.step = "verified"
    /\ opened' = None
    /\ account' = [account EXCEPT !.pending = None]
    /\ staleStatus' = TRUE
    /\ UNCHANGED <<session, links, pageSide, statusRequest, calls, accountOps>>

\* the session is fetched again when the window is focused
RefetchSession ==
    /\ session.alive /\ user # StoredUser
    /\ userShown(StoredUser)
    /\ UNCHANGED <<serverSide, recentAuth, recentAuthPassword, recentAuthOpen, pendingAction, openDialog, passkeysShown,
                   statusRequest, calls, staleStatus, accountOps>>

-----------------------------------------------------------------------------
(* Password, second factor, passkeys                                       *)

\* the new session it makes is not marked as recently authenticated
changePassword(t) ==
    /\ openDialog = "password" /\ ~Running("password") /\ calls[t] = None
    /\ AccountStep
    /\ \E password \in (IF recentAuth THEN {recentAuthPassword} ELSE Password) \ {None} :
         calls' = [calls EXCEPT ![t] = [op |-> "password", step |-> "sent", password |-> password, to |-> None]]
    /\ UNCHANGED <<serverSide, pageSide, statusRequest, staleStatus>>

PasswordChanges(t) ==
    /\ calls[t] # None /\ calls[t].op = "password" /\ calls[t].step = "sent"
    /\ IF PasswordAccepted(t)
       THEN /\ account' \in {[account EXCEPT !.password = p] : p \in Password}
            /\ session' = [session EXCEPT !.recent = FALSE]
       ELSE UNCHANGED <<account, session>>
    /\ Replies(t, PasswordAccepted(t))
    /\ UNCHANGED <<links, opened, pageSide, statusRequest, staleStatus, accountOps>>

\* the buttons, and the code that ends the set-up
callProtected(t) == \E op \in Protected \ {"enable"} :
    /\ calls[t] = None /\ ~Running(op)
    /\ CASE op = "verify" -> openDialog = "setup"
         [] op \in {"disable", "codes"} -> openDialog = "twoFactor" /\ recentAuth
         [] OTHER -> openDialog = "passkeys" /\ recentAuth /\ (op = "removePasskey" => passkeysShown > 0)
    /\ AccountStep
    /\ Calling(t, op)
    /\ UNCHANGED <<serverSide, pageSide, statusRequest, staleStatus>>

\* the library asks for the password of a change of the second factor, too
Permitted(t) ==
    /\ session.alive /\ session.recent
    /\ calls[t].op \in {"enable", "disable", "codes"} => PasswordAccepted(t)

Changed(op) ==
    CASE op = "enable" -> [account EXCEPT !.totp = IF @ = "off" THEN "setup" ELSE @]
      [] op = "verify" -> [account EXCEPT !.totp = IF @ = "setup" THEN "on" ELSE @]
      [] op = "disable" -> [account EXCEPT !.totp = "off"]
      [] op = "addPasskey" -> [account EXCEPT !.passkeys = 1]
      [] op = "removePasskey" -> [account EXCEPT !.passkeys = 0]
      [] OTHER -> account

\* the replaced session of a verified or ended second factor is marked again, if that succeeds
ProtectedCall(t) ==
    /\ calls[t] # None /\ calls[t].op \in Protected /\ calls[t].step = "sent"
    /\ IF Permitted(t)
       THEN /\ account' = Changed(calls[t].op)
            /\ session' \in {[session EXCEPT !.recent = r] : r \in IF calls[t].op \in {"verify", "disable"} THEN BOOLEAN ELSE {TRUE}}
            /\ staleStatus' = (staleStatus \/ account'.passkeys # account.passkeys)
       ELSE UNCHANGED <<account, session, staleStatus>>
    /\ Replies(t, Permitted(t))
    /\ UNCHANGED <<links, opened, pageSide, statusRequest, accountOps>>

\* passkeys are listed again, the session after a change of the second factor is fetched again
ProtectedReturns(t) ==
    /\ calls[t] # None /\ calls[t].op \in Protected \cup {"password"} /\ calls[t].step = "done"
    /\ IF calls[t].op \in {"addPasskey", "removePasskey"} THEN Calling(t, "list") ELSE calls' = [calls EXCEPT ![t] = None]
    /\ openDialog' = CASE calls[t].op = "enable" -> "setup"
                   [] calls[t].op \in {"verify", "disable", "password"} -> None
                   [] OTHER -> openDialog
    /\ IF calls[t].op \in {"verify", "disable"} /\ session.alive THEN userShown(StoredUser) ELSE UNCHANGED <<user, pendingShown>>
    /\ UNCHANGED <<serverSide, recentAuth, recentAuthPassword, recentAuthOpen, pendingAction, passkeysShown,
                   statusRequest, staleStatus, accountOps>>

listUserPasskeys(t) ==
    /\ calls[t] # None /\ calls[t].op = "list" /\ calls[t].step = "sent" /\ session.alive
    /\ calls' = [calls EXCEPT ![t].step = "done", ![t].to = account.passkeys]
    /\ UNCHANGED <<serverSide, pageSide, statusRequest, staleStatus, accountOps>>

PasskeysListed(t) ==
    /\ calls[t] # None /\ calls[t].op = "list" /\ calls[t].step = "done"
    /\ passkeysShown' = calls[t].to
    /\ calls' = [calls EXCEPT ![t] = None]
    /\ UNCHANGED <<serverSide, user, recentAuth, recentAuthPassword, recentAuthOpen, pendingAction, openDialog, pendingShown,
                   statusRequest, staleStatus, accountOps>>

\* on another device: the change is cancelled, or the password changed and this session ended
OtherDevice ==
    /\ AccountStep
    /\ \/ account.pending # None /\ account' = [account EXCEPT !.pending = None] /\ UNCHANGED session
       \/ \E p \in Password : account' = [account EXCEPT !.password = p] /\ session' = [alive |-> FALSE, recent |-> FALSE]
    /\ staleStatus' = TRUE
    /\ UNCHANGED <<links, opened, pageSide, statusRequest, calls>>

-----------------------------------------------------------------------------
\* the page has just been loaded, or the password is confirmed, with a change of address pending and shown
AccountInit ==
    /\ pendingShown \in {None} \cup (Address \ {FirstAddress})
    /\ account = [address |-> FirstAddress, pending |-> pendingShown, password |-> "old", totp |-> "off", passkeys |-> 0]
    /\ links = IF pendingShown = None THEN {} ELSE {[from |-> FirstAddress, to |-> pendingShown]}
    /\ recentAuth = (pendingShown # None)
    /\ session = [alive |-> TRUE, recent |-> recentAuth]
    /\ opened = None
    /\ user = StoredUser
    /\ recentAuthPassword = (IF recentAuth THEN "old" ELSE None) /\ recentAuthOpen = FALSE /\ pendingAction = None
    /\ openDialog = (IF recentAuth THEN "email" ELSE None) /\ passkeysShown = 0
    /\ statusRequest = None
    /\ calls = [t \in Call |-> None]
    /\ staleStatus = FALSE
    /\ accountOps = 0

AccountNext ==
    \/ \E t \in Call :
         \/ requestRecentAuth(t) \/ confirmRecentAuth(t) \/ confirmPassword(t) \/ ConfirmReturns(t) \/ Fails(t)
         \/ changeEmail(t) \/ verifyPassword(t) \/ setPendingEmailChange(t) \/ setPendingEmail(t)
         \/ sendPendingEmailChange(t) \/ EmailReturns(t)
         \/ resendVerificationEmail(t) \/ resendPending(t) \/ ResendReturns(t)
         \/ changePassword(t) \/ PasswordChanges(t)
         \/ callProtected(t) \/ ProtectedCall(t) \/ ProtectedReturns(t)
         \/ listUserPasskeys(t) \/ PasskeysListed(t)
    \/ TypePassword \/ closeRecentAuth \/ RecentAuthTimer \/ RecentAuthExpires \/ closeDialog
    \/ getEmailVerificationStatus \/ StatusReturns \/ StatusFails
    \/ validateEmailVerificationToken \/ VerifyEmail \/ afterEmailVerification
    \/ RefetchSession \/ OtherDevice

AccountSpec == AccountInit /\ [][AccountNext]_accountVars

-----------------------------------------------------------------------------
AccountTypeOK ==
    /\ account \in AccountOf /\ session \in [alive : BOOLEAN, recent : BOOLEAN]
    /\ links \subseteq EmailLink /\ opened \in OpenedLink \cup {None}
    /\ user \in [address : Address, totp : BOOLEAN]
    /\ recentAuth \in BOOLEAN /\ recentAuthOpen \in BOOLEAN
    /\ recentAuthPassword \in Password \cup {None}
    /\ pendingAction \in Action \cup {None}
    /\ openDialog \in Action \cup {"setup", None}
    /\ pendingShown \in Address \cup {None}
    /\ passkeysShown \in 0 .. 1
    /\ statusRequest \in StatusRequest \cup {None}
    /\ calls \in [Call -> PageCall \cup {None}]
    /\ staleStatus \in BOOLEAN

\* The password typed to confirm a change is kept no longer than the confirmation: whatever closes the dialog, and
\* whichever answer or timer comes in between (settings.vue:161, 223), it is gone when neither is there.
PasswordIsForgotten == recentAuthPassword # None => recentAuth \/ recentAuthOpen

\* The change shown as pending is the account's: several answers and the session write pendingEmailChange
\* (settings.vue:121, 138), and while no status is asked for, and nothing changed since the last was given, they agree,
\* whatever else is under way.
PendingChangeIsShown == statusRequest = None /\ ~staleStatus => pendingShown = LivePending

\* Both: what the page keeps of a confirmation, and what it says of a change of address.
SettingsTellTheTruth == PasswordIsForgotten /\ PendingChangeIsShown
=============================================================================
