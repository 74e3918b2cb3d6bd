--------------------------- MODULE SignupInvites ---------------------------
(***************************************************************************)
(* Accounts by invitation: an administrator creates and revokes invites;   *)
(* the registration page previews one and submits; auth-request.service.ts *)
(* reserves the invite, lets the auth library create the account, and      *)
(* accepts the invite or takes the account back.  Registration is invite-  *)
(* only: with public registration the service reserves nothing.            *)
(***************************************************************************)
EXTENDS Actors

CONSTANTS
    Invite, Email,
    InviteTTL,        \* an invite is valid for 1..InviteTTL ticks
    ReservationTTL,   \* INVITE_RESERVATION_TTL_MS in ticks
    MaxInviteClock, MaxSignups

\* an invite names no address, or one that is well-formed
InviteAddress == Email \cup {None}
InviteDays == 1..InviteTTL

InviteRow ==
    [status : {"pending", "accepted", "revoked", "expired"}, email : InviteAddress, expires : Nat,
     reservation : Nat \cup {None}, reservedUntil : Nat, acceptedBy : Nat \cup {None}]

ASSUME RowAssumption == None \notin InviteRow
ASSUME InviteAssumption ==
    /\ InviteTTL \in Nat /\ ReservationTTL \in Nat
    /\ MaxInviteClock \in Nat /\ MaxSignups \in Nat

VARIABLES
    invites,      \* signup_invites: the row of each invite, or None
    accounts,     \* the users that exist, with their e-mail addresses
    signup,       \* what each registration is doing, and what it has read
    orphans,      \* accounts whose registration crashed, whose compensation failed or of
                  \* which the answer did not tell: left for the administrator
    inviteClock,  \* at most MaxInviteClock
    signups       \* registrations begun, at most MaxSignups; numbers accounts and tokens

inviteVars == <<invites, accounts, signup, orphans, inviteClock, signups>>

NotSigningUp == [at |-> "idle"]
SigningUpAt(c, step) == signup[c].at = step
InviteOf(c) == invites[signup[c].invite]
EmailTaken(e) == \E a \in accounts : a.email = e

AccountsWithout(id) == {a \in accounts : a.id # id}

NewInvite(e, ttl) ==
    [status |-> "pending", email |-> e, expires |-> inviteClock + ttl,
     reservation |-> None, reservedUntil |-> 0, acceptedBy |-> None]

Unreserved_Kept(row, status) == [row EXCEPT !.status = status]
Unreserved(row, status) == [row EXCEPT !.status = status, !.reservation = None, !.reservedUntil = 0]

effectiveSignupInviteStatus(row, now) ==
    IF row.status = "pending" /\ row.expires <= now THEN "expired" ELSE row.status

StepTo(c, step) == signup' = [signup EXCEPT ![c].at = step]
EndSignup(c) == signup' = [signup EXCEPT ![c] = NotSigningUp]

-----------------------------------------------------------------------------
(* The administrator                                                       *)

createInvite(i) ==
    /\ invites[i] = None
    /\ \E e \in InviteAddress, ttl \in InviteDays : invites' = [invites EXCEPT ![i] = NewInvite(e, ttl)]
    /\ UNCHANGED <<accounts, signup, orphans, inviteClock, signups>>

revokeInvite(i) ==
    /\ invites[i] # None
    /\ invites[i].status = "pending"
    /\ invites' = [invites EXCEPT ![i] = Unreserved(@, "revoked")]
    /\ UNCHANGED <<accounts, signup, orphans, inviteClock, signups>>

-----------------------------------------------------------------------------
(* The registration page: it submits what it saw when it was opened        *)

PreviewInvite(c) ==
    /\ signup[c] = NotSigningUp
    /\ Room(signups, MaxSignups)
    /\ \E i \in Invite, e \in Email :
         /\ invites[i] # None
         /\ effectiveSignupInviteStatus(invites[i], inviteClock) = "pending"
         /\ invites[i].email \in {None, e}
         /\ signups' = signups + 1
         /\ signup' = [signup EXCEPT ![c] =
                [at |-> "submit", invite |-> i, email |-> e, id |-> signups', now |-> 0, until |-> 0]]
    /\ UNCHANGED <<invites, accounts, orphans, inviteClock>>

Submit(c) ==
    /\ SigningUpAt(c, "submit")
    /\ signup' = [signup EXCEPT ![c].at = "reserve", ![c].now = inviteClock]
    /\ UNCHANGED <<invites, accounts, orphans, inviteClock, signups>>

-----------------------------------------------------------------------------
(* reserveSignupAttempt: "now" is the time at which the request began      *)

Reservable_Anyway(row, e, now) ==
    /\ row.status = "pending" /\ row.expires > now
    /\ row.email \in {None, e}
Reservable(row, e, now) ==
    /\ row.status = "pending" /\ row.expires > now
    /\ row.email \in {None, e}
    /\ row.reservation = None \/ row.reservedUntil <= now

reserveByToken(c) ==
    /\ SigningUpAt(c, "reserve")
    /\ LET s == signup[c]
           until == s.now + ReservationTTL
       IN IF Reservable(InviteOf(c), s.email, s.now)
          THEN /\ invites' = [invites EXCEPT ![s.invite].reservation = s.id, ![s.invite].reservedUntil = until]
               /\ signup' = [signup EXCEPT ![c].at = "email", ![c].until = until]
          ELSE /\ StepTo(c, "validate")
               /\ UNCHANGED invites
    /\ UNCHANGED <<accounts, orphans, inviteClock, signups>>

\* the row is read again to say why: only an expired one is marked
validateSignupInvite(c) ==
    /\ SigningUpAt(c, "validate")
    /\ IF InviteOf(c).status = "pending" /\ effectiveSignupInviteStatus(InviteOf(c), signup[c].now) = "expired"
       THEN StepTo(c, "expire") ELSE EndSignup(c)
    /\ UNCHANGED <<invites, accounts, orphans, inviteClock, signups>>

markExpired_AnyStatus(c) ==
    /\ SigningUpAt(c, "expire")
    /\ invites' = [invites EXCEPT ![signup[c].invite] = Unreserved(@, "expired")]
    /\ EndSignup(c)
    /\ UNCHANGED <<accounts, orphans, inviteClock, signups>>
markExpired(c) ==
    /\ SigningUpAt(c, "expire")
    /\ invites' = IF InviteOf(c).status # "pending" THEN invites
                  ELSE [invites EXCEPT ![signup[c].invite] = Unreserved(@, "expired")]
    /\ EndSignup(c)
    /\ UNCHANGED <<accounts, orphans, inviteClock, signups>>

emailExists(c) ==
    /\ SigningUpAt(c, "email")
    /\ StepTo(c, IF EmailTaken(signup[c].email) THEN "release" ELSE "create")
    /\ UNCHANGED <<invites, accounts, orphans, inviteClock, signups>>

-----------------------------------------------------------------------------
(* auth.handler creates the account, refuses or throws; an error after the *)
(* account was written, or an answer without its id, only releases         *)

CreateAccount(c) ==
    /\ SigningUpAt(c, "create")
    /\ LET s == signup[c] IN
       \/ /\ ~EmailTaken(s.email)
          /\ accounts' = accounts \cup {[id |-> s.id, email |-> s.email]}
          /\ \/ StepTo(c, "accept") /\ UNCHANGED orphans
             \/ StepTo(c, "release") /\ orphans' = orphans \cup {s.id}
       \/ /\ StepTo(c, "release")
          /\ UNCHANGED <<accounts, orphans>>
    /\ UNCHANGED <<invites, inviteClock, signups>>

\* markAcceptedReservation: the reservation must still be there, however old it is
Acceptable(c) ==
    /\ InviteOf(c).reservation = signup[c].id
    /\ InviteOf(c).status = "pending"
    /\ InviteOf(c).expires > inviteClock

\* a database error leaves open whether the row was written
acceptInvite(c) ==
    /\ SigningUpAt(c, "accept")
    /\ \/ /\ Acceptable(c)
          /\ invites' = [invites EXCEPT ![signup[c].invite] =
                            [Unreserved(InviteOf(c), "accepted") EXCEPT !.acceptedBy = signup[c].id]]
          /\ EndSignup(c) \/ StepTo(c, "compensate")
       \/ StepTo(c, "compensate") /\ UNCHANGED invites
    /\ UNCHANGED <<accounts, orphans, inviteClock, signups>>

deleteCompensatingAccount_Skipped(c) ==
    /\ SigningUpAt(c, "compensate")
    /\ StepTo(c, "release")
    /\ UNCHANGED <<invites, accounts, orphans, inviteClock, signups>>
deleteCompensatingAccount(c) ==
    /\ SigningUpAt(c, "compensate")
    /\ LET id == signup[c].id IN
       \/ /\ accounts' = AccountsWithout(id)
          /\ UNCHANGED orphans
       \/ /\ orphans' = orphans \cup {id}
          /\ UNCHANGED accounts
    /\ StepTo(c, "release")
    /\ UNCHANGED <<invites, inviteClock, signups>>

\* an error of the release is swallowed
releaseReservation(c) ==
    /\ SigningUpAt(c, "release")
    /\ \/ /\ InviteOf(c).reservation = signup[c].id
          /\ InviteOf(c).status = "pending"
          /\ invites' = [invites EXCEPT ![signup[c].invite] = Unreserved(@, "pending")]
       \/ UNCHANGED invites
    /\ EndSignup(c)
    /\ UNCHANGED <<accounts, orphans, inviteClock, signups>>

SignupCrash(c) ==
    /\ signup[c] # NotSigningUp
    /\ EndSignup(c)
    /\ orphans' = IF signup[c].at \in {"accept", "compensate"} THEN orphans \cup {signup[c].id} ELSE orphans
    /\ UNCHANGED <<invites, accounts, inviteClock, signups>>

InviteTick ==
    /\ Room(inviteClock, MaxInviteClock)
    /\ inviteClock' = inviteClock + 1
    /\ UNCHANGED <<invites, accounts, signup, orphans, signups>>

-----------------------------------------------------------------------------

InvitesInit ==
    /\ invites = [i \in Invite |-> None]
    /\ accounts = {}
    /\ signup = [c \in Call |-> NotSigningUp]
    /\ orphans = {}
    /\ inviteClock = 0
    /\ signups = 0

InvitesNext ==
    \/ \E i \in Invite : createInvite(i) \/ revokeInvite(i)
    \/ \E c \in Call :
         \/ PreviewInvite(c) \/ Submit(c)
         \/ reserveByToken(c) \/ validateSignupInvite(c) \/ markExpired(c) \/ emailExists(c)
         \/ CreateAccount(c) \/ acceptInvite(c)
         \/ deleteCompensatingAccount(c) \/ releaseReservation(c)
         \/ SignupCrash(c)
    \/ InviteTick

InvitesSpec == InvitesInit /\ [][InvitesNext]_inviteVars

-----------------------------------------------------------------------------

InvitesTypeOK ==
    /\ \A i \in Invite : invites[i] # None =>
         /\ invites[i] \in InviteRow
         /\ invites[i].status # "pending" => invites[i].reservation = None
         /\ (invites[i].status = "accepted") = (invites[i].acceptedBy # None)
    /\ \A a, b \in accounts : a.email = b.email => a = b
    /\ \A a \in accounts : a.id \in 1..signups

(* An account exists only with an invite of its own: at rest every account *)
(* is named by exactly one accepted invite, whatever reservations expired, *)
(* were taken over or were revoked while it was being created; the others  *)
(* are those the code leaves to manual reconciliation.                     *)
AccountsHaveInvites == \A a \in accounts :
    \/ a.id \in orphans
    \/ \E c \in Call : signup[c] # NotSigningUp /\ signup[c].id = a.id
    \/ Cardinality({i \in Invite : invites[i] # None /\ invites[i].acceptedBy = a.id}) = 1

(* Two registrations never work on one invite within their reservations.   *)
Reserving(c) == /\ signup[c].at \in {"email", "create", "accept"}
                /\ signup[c].until > inviteClock
OneSignupAtATime == \A c, d \in Call :
    c # d /\ Reserving(c) /\ Reserving(d) => signup[c].invite # signup[d].invite

(* Both: one invite, one account, one registration at a time.              *)
InvitesAccountForSignups == AccountsHaveInvites /\ OneSignupAtATime

(* An invite that was accepted, revoked or marked expired stays so,        *)
(* although registrations that read it before go on.                       *)
FinalInvitesStay == [][\A i \in Invite :
    invites[i] # None /\ invites[i].status # "pending" => invites'[i] = invites[i]]_inviteVars
=============================================================================
